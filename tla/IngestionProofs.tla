--------------------------- MODULE IngestionProofs --------------------------
(***************************************************************************)
(* Ingestion keeps its stored data consistent for every number of workers, *)
(* every clock, window and provider, and whatever faults occur.            *)
(***************************************************************************)
EXTENDS Ingestion, FiniteSetTheorems, WellFoundedInduction, TLAPS

-----------------------------------------------------------------------------
\* Facts about the operators of MarketData.

\* A set of natural numbers that is not empty has a least element.
LEMMA NatMin ==
    ASSUME NEW S, S \subseteq Nat, S # {}
    PROVE  \E m \in S : \A n \in S : m <= n
<1> DEFINE R == {p \in Nat \X Nat : p[1] < p[2]}
<1>1. IsWellFoundedOn(R, Nat)
  BY NatLessThanWellFounded DEF OpToRel
<1>2. \A m, n \in Nat : <<n, m>> \in R <=> n < m
  OBVIOUS
<1> HIDE DEF R
<1>3. PICK m \in S : \A n \in S : ~ (<<n, m>> \in R)
  BY <1>1, WFMin
<1>4. ASSUME NEW n \in S PROVE m <= n
  <2>1. m \in Nat /\ n \in Nat
    OBVIOUS
  <2>2. ~ (n < m)
    BY <1>2, <1>3, <2>1
  <2>3. QED
    BY <2>1, <2>2
<1>5. QED
  BY <1>4

\* A set of instants that is not empty has a last one.
LEMMA TimeMax ==
    ASSUME NEW S, S \subseteq Time, S # {}
    PROVE  \E m \in S : \A n \in S : n <= m
<1> DEFINE D == {d \in Nat : \E t \in S : d = MaxTime - t}
<1>1. \A t \in S : t \in Int /\ MaxTime - t \in Nat
  BY MaxTimeAssumption DEF Time
<1>2. D # {}
  BY <1>1
<1>3. PICK d \in D : \A e \in D : d <= e
  <2>1. D \subseteq Nat
    OBVIOUS
  <2> HIDE DEF D
  <2>2. QED
    BY <1>2, <2>1, NatMin
<1>4. PICK m \in S : d = MaxTime - m
  OBVIOUS
<1>5. ASSUME NEW n \in S PROVE n <= m
  <2>1. m \in Int /\ n \in Int /\ MaxTime \in Int
    BY <1>1, MaxTimeAssumption
  <2>2. d <= MaxTime - n
    BY <1>1, <1>3
  <2>3. QED
    BY <1>4, <2>1, <2>2
<1>6. QED
  BY <1>5

\* min() and max() of the timestamps of stored rows are such timestamps.
LEMMA BoundsOfStored ==
    ASSUME NEW S, S \subseteq Time, S # {}
    PROVE  /\ BoundsOf(S) \in Bounds
           /\ BoundsOf(S).start \in S
           /\ BoundsOf(S).end \in S
           /\ \A t \in S : BoundsOf(S).start <= t /\ t <= BoundsOf(S).end
<1>1. \E m \in S : \A n \in S : m <= n
  <2>1. S \subseteq Nat
    BY MaxTimeAssumption DEF Time
  <2>2. QED
    BY <2>1, NatMin
<1>2. \E m \in S : \A n \in S : n <= m
  BY TimeMax
<1> DEFINE lo == CHOOSE t \in S : \A u \in S : t <= u
           hi == CHOOSE t \in S : \A u \in S : u <= t
<1>3. lo \in S /\ \A u \in S : lo <= u
  BY <1>1
<1>4. hi \in S /\ \A u \in S : u <= hi
  BY <1>2
<1>5. BoundsOf(S) = [start |-> lo, end |-> hi]
  BY DEF BoundsOf
<1> HIDE DEF lo, hi
<1>6. QED
  BY <1>3, <1>4, <1>5, MaxTimeAssumption DEF Bounds, Time

\* The bounds of a column are a pair of timestamps or NULLs.
LEMMA BoundsOfType ==
    ASSUME NEW S, S \subseteq Time
    PROVE  BoundsOf(S) \in Bounds
<1>1. CASE S = {}
  BY <1>1, MaxTimeAssumption DEF BoundsOf, NoBounds, Bounds
<1>2. CASE S # {}
  BY <1>2, BoundsOfStored
<1>3. QED
  BY <1>1, <1>2

-----------------------------------------------------------------------------
\* A batch is a function from a finite set of instants to quotes.
LEMMA BatchType ==
    ASSUME NEW b \in Batches
    PROVE  /\ DOMAIN b \subseteq Time
           /\ \A t \in DOMAIN b : b[t] \in Quotes
           /\ b = [t \in DOMAIN b |-> b[t]]
           /\ IsFiniteSet(DOMAIN b)
<1>1. /\ DOMAIN b \subseteq Time
      /\ \A t \in DOMAIN b : b[t] \in Quotes
      /\ b = [t \in DOMAIN b |-> b[t]]
  BY DEF Batches
<1>2. IsFiniteSet(Time)
  BY FS_Interval, MaxTimeAssumption DEF Time
<1>3. QED
  BY <1>1, <1>2, FS_Subset

\* How to show that something is a batch.
LEMMA BatchIntro ==
    ASSUME NEW S, S \subseteq Time, NEW b \in [S -> Quotes]
    PROVE  b \in Batches
BY DEF Batches

\* No bars at all are a batch.
LEMMA NoBarsType == NoBars \in Batches /\ DOMAIN NoBars = {}
<1>1. NoBars \in [{} -> Quotes] /\ DOMAIN NoBars = {}
  BY DEF NoBars
<1>2. QED
  BY <1>1, BatchIntro

\* Inserting the missing bars of a payload keeps the stored bars as they are
\* and stores, of the payload, exactly the others.
LEMMA InsertMissingFacts ==
    ASSUME NEW old \in Batches, NEW new \in Batches
    PROVE  /\ InsertMissing(old, new) \in Batches
           /\ DOMAIN InsertMissing(old, new) = DOMAIN old \cup DOMAIN new
           /\ \A t \in DOMAIN old : InsertMissing(old, new)[t] = old[t]
           /\ \A t \in DOMAIN new \ DOMAIN old :
                 InsertMissing(old, new)[t] = new[t]
<1>1. InsertMissing(old, new) \in [DOMAIN old \cup DOMAIN new -> Quotes]
  BY BatchType DEF InsertMissing
<1>2. QED
  BY <1>1, BatchType, BatchIntro DEF InsertMissing

-----------------------------------------------------------------------------
\* The types of Ingestion.

\* The unit of work writes a row of the same type.
LEMMA FlushRun ==
    ASSUME NEW row \in RunRows, NEW loaded \in RunRows, NEW object \in RunRows
    PROVE  Flush(row, loaded, object) \in RunRows
BY DEF Flush, RunRows

LEMMA FlushBounds ==
    ASSUME NEW row \in Bounds, NEW loaded \in Bounds, NEW object \in Bounds
    PROVE  Flush(row, loaded, object) \in Bounds
BY DEF Flush, Bounds

LEMMA NoJobType == NoJob \in Jobs /\ NoJob.staged = {}
<1>1. (CHOOSE tf \in Timeframes : TRUE) \in Timeframes
  BY TimeframesAssumption
<1>2. NoBounds \in Bounds
  BY MaxTimeAssumption DEF NoBounds, Bounds
<1>3. [type |-> "backfill", status |-> "pending", fetched |-> 0,
       inserted |-> 0, failed |-> 0, error |-> FALSE, finished |-> FALSE,
       created |-> 1] \in RunRows
  BY MaxTimeAssumption DEF RunRows, Statuses, Time
<1>4. QED
  BY <1>1, <1>2, <1>3, NoBarsType DEF NoJob, Jobs

LEMMA NewRunType ==
    ASSUME now \in Time, NEW type \in {"backfill", "incremental"}
    PROVE  NewRun(type) \in RunRows
BY DEF NewRun, RunRows, Statuses

\* The end of a chunk is an instant, whatever the job.
LEMMA ChunkEndType ==
    ASSUME NEW j \in Jobs
    PROVE  ChunkEnd(j) \in Int /\ NextWindow(ChunkEnd(j)) \in Int
BY IngestionAssumption DEF ChunkEnd, WindowEnd, NextWindow, Jobs

LEMMA AdvanceType ==
    ASSUME NEW j \in Jobs
    PROVE  /\ Advance(j) \in Jobs
           /\ Advance(j).run = j.run
           /\ Advance(j).staged = j.staged
           /\ Advance(j).batch = j.batch
BY ChunkEndType DEF Advance, Jobs

LEMMA LoopHeadType == ASSUME NEW j PROVE LoopHead(j) \in {"sync", "close", "loop"}
BY DEF LoopHead, SuccessTail

\* A response of the provider is a batch.
LEMMA ResponseType ==
    ASSUME NEW tf \in Timeframes, NEW from \in Int, NEW to \in Int
    PROVE  Response(tf, from, to) \in Batches
<1> DEFINE S == {u \in Offered[tf] : from <= u /\ u <= to /\ u <= now}
<1>1. S \subseteq Time
  BY IngestionAssumption
<1>2. Response(tf, from, to) \in [S -> Quotes]
  BY DEF Response, Quotes
<1>3. QED
  BY <1>1, <1>2, BatchIntro

LEMMA BatchSize ==
    ASSUME NEW b \in Batches, NEW S, S \subseteq DOMAIN b
    PROVE  Cardinality(S) \in Nat
BY BatchType, FS_Subset, FS_CardinalityType

LEMMA StoredType == ASSUME TypeOK PROVE Stored \subseteq Time
BY BatchType DEF TypeOK, Stored

\* Almost every step moves one worker; this is what has to be shown of it.
LEMMA TypeStep ==
    ASSUME TypeOK, NEW w \in Workers, NEW label \in Labels, NEW j \in Jobs,
           Goto(w, label, j),
           now' \in Time, runs' \in Seq(RunRows), Len(runs') >= Len(runs),
           bars' \in [Timeframes -> Batches], raw' \subseteq RawRows,
           cov' \in Bounds,
           label # "idle" => j.run \in 1 .. Len(runs'),
           j.staged \subseteq DOMAIN j.batch,
           j.staged # {} => label \in {"sync", "close"}
    PROVE  TypeOK'
<1>1. pc' \in [Workers -> Labels] /\ job' \in [Workers -> Jobs]
  BY DEF TypeOK, Goto
<1>2. ASSUME NEW v \in Workers
      PROVE  /\ pc'[v] # "idle" => job'[v].run \in 1 .. Len(runs')
             /\ job'[v].staged \subseteq DOMAIN job'[v].batch
             /\ job'[v].staged # {} => pc'[v] \in {"sync", "close"}
  <2>1. CASE v = w
    BY <2>1 DEF TypeOK, Goto
  <2>2. CASE v # w
    <3>1. pc'[v] = pc[v] /\ job'[v] = job[v]
      BY <2>2 DEF TypeOK, Goto
    <3>2. Len(runs) \in Nat /\ Len(runs') \in Nat
      BY DEF TypeOK
    <3>3. pc[v] # "idle" => job[v].run \in 1 .. Len(runs)
      BY DEF TypeOK, RunIds
    <3>4. QED
      BY <3>1, <3>2, <3>3 DEF TypeOK
  <2>3. QED
    BY <2>1, <2>2
<1>3. QED
  BY <1>1, <1>2 DEF TypeOK, RunIds

\* Appending a run, and rewriting a row, keep the table of runs.
LEMMA AppendRun ==
    ASSUME TypeOK, NEW row \in RunRows, runs' = Append(runs, row)
    PROVE  /\ runs' \in Seq(RunRows)
           /\ Len(runs') = Len(runs) + 1 /\ Len(runs) \in Nat
BY DEF TypeOK

LEMMA UpdateRun ==
    ASSUME TypeOK, NEW i \in RunIds, NEW row \in RunRows,
           runs' = [runs EXCEPT ![i] = row]
    PROVE  runs' \in Seq(RunRows) /\ Len(runs') = Len(runs) /\ Len(runs) \in Nat
BY DEF TypeOK, RunIds

LEMMA RunRowType == ASSUME TypeOK, NEW i \in RunIds PROVE runs[i] \in RunRows
BY DEF TypeOK, RunIds

\* The calls: each creates or reads a run and gives the worker a job.
LEMMA CallType ==
    ASSUME TypeOK, NEW w \in Workers, Call(w)
    PROVE  TypeOK'
<1>1. PICK tf \in Timeframes :
         \/ \E range \in Ranges :
               \/ StartBackfill(w, tf, range)
               \/ \E i \in RunIds : BeginResume(w, i, tf, range)
         \/ StartIncremental(w, tf)
         \/ AlreadyCurrent(w, tf)
  BY DEF Call
<1>2. ASSUME NEW range \in Ranges, StartBackfill(w, tf, range) PROVE TypeOK'
  <2> DEFINE row == [NewRun("backfill") EXCEPT !.status = "running"]
             j == [NoJob EXCEPT !.kind = "backfill", !.tf = tf,
                     !.start = range[1], !.end = range[2], !.cursor = range[1],
                     !.run = Len(runs) + 1,
                     !.existing = BoundsOf(DOMAIN bars[tf]),
                     !.seenRun = row, !.seenCov = cov]
  <2>1. row \in RunRows
    BY NewRunType DEF RunRows, TypeOK, Statuses
  <2>2. range[1] \in Int /\ range[2] \in Int
    BY IngestionAssumption DEF Time
  <2>3. BoundsOf(DOMAIN bars[tf]) \in Bounds
    BY BatchType, BoundsOfType DEF TypeOK
  <2>4. Len(runs) + 1 \in Nat /\ cov \in Bounds
    BY DEF TypeOK
  <2> HIDE DEF row
  <2>5. j \in Jobs /\ j.run = Len(runs) + 1 /\ j.staged = {}
    BY <2>1, <2>2, <2>3, <2>4, NoJobType DEF Jobs
  <2>6. /\ runs' = Append(runs, row)
        /\ Goto(w, LoopHead(j), j)
        /\ UNCHANGED <<now, bars, raw, cov>>
    BY <1>2 DEF StartBackfill, row
  <2>7. LoopHead(j) \in Labels
    BY LoopHeadType DEF Labels
  <2> HIDE DEF j
  <2>8. QED
    BY <2>1, <2>5, <2>6, <2>7, AppendRun, TypeStep DEF TypeOK
<1>3. ASSUME NEW range \in Ranges, NEW i \in RunIds,
             BeginResume(w, i, tf, range)
      PROVE  TypeOK'
  <2> DEFINE keys == AlreadyProcessed(i)
             j == [NoJob EXCEPT !.kind = "backfill", !.tf = tf,
                     !.start = range[1], !.end = range[2], !.cursor = range[1],
                     !.run = i,
                     !.existing = BoundsOf(DOMAIN bars[tf]),
                     !.processed = keys,
                     !.fetched = runs[i].fetched, !.inserted = runs[i].inserted,
                     !.failed = runs[i].failed,
                     !.seenRun = runs[i], !.seenCov = cov]
  <2>1. runs[i] \in RunRows /\ i \in Nat
    BY RunRowType DEF RunIds
  <2>2. range[1] \in Int /\ range[2] \in Int
    BY IngestionAssumption DEF Time
  <2>3. BoundsOf(DOMAIN bars[tf]) \in Bounds
    BY BatchType, BoundsOfType DEF TypeOK
  <2>4. keys \in SUBSET (Timeframes \X Int \X Int)
    BY DEF TypeOK, RawRows, AlreadyProcessed
  <2>5. /\ runs[i].fetched \in Nat /\ runs[i].inserted \in Nat
        /\ runs[i].failed \in Nat /\ cov \in Bounds
    BY <2>1 DEF RunRows, TypeOK
  <2>6. Goto(w, "resume", j) /\ UNCHANGED <<now, runs, bars, raw, cov>>
    BY <1>3 DEF BeginResume, db
  <2> HIDE DEF keys
  <2>7. j \in Jobs /\ j.run = i /\ j.staged = {}
    BY <2>1, <2>2, <2>3, <2>4, <2>5, NoJobType DEF Jobs
  <2> HIDE DEF j
  <2>8. QED
    BY <2>6, <2>7, TypeStep DEF TypeOK, RunIds, Labels
<1>4. ASSUME StartIncremental(w, tf) PROVE TypeOK'
  <2> DEFINE row == [NewRun("incremental") EXCEPT !.status = "running"]
             j == [NoJob EXCEPT !.kind = "incremental", !.tf = tf,
                     !.start = IncrementalStart, !.end = now,
                     !.run = Len(runs) + 1, !.seenRun = row, !.seenCov = cov]
  <2>1. row \in RunRows
    BY NewRunType DEF RunRows, TypeOK, Statuses
  <2>2. IncrementalStart \in Int /\ now \in Int
    BY IngestionAssumption, MaxTimeAssumption
    DEF IncrementalStart, TypeOK, Bounds, Time
  <2>3. Len(runs) + 1 \in Nat /\ cov \in Bounds
    BY DEF TypeOK
  <2>4. /\ runs' = Append(runs, row)
        /\ Goto(w, "fetch", j)
        /\ UNCHANGED <<now, bars, raw, cov>>
    BY <1>4 DEF StartIncremental
  <2> HIDE DEF row
  <2>5. j \in Jobs /\ j.run = Len(runs) + 1 /\ j.staged = {}
    BY <2>1, <2>2, <2>3, NoJobType DEF Jobs
  <2> HIDE DEF j
  <2>6. QED
    BY <2>1, <2>4, <2>5, AppendRun, TypeStep DEF TypeOK, Labels
<1>5. ASSUME AlreadyCurrent(w, tf) PROVE TypeOK'
  <2> DEFINE row == [NewRun("incremental") EXCEPT
                       !.status = "succeeded", !.finished = TRUE]
  <2>1. row \in RunRows
    BY NewRunType DEF RunRows, TypeOK, Statuses
  <2>2. /\ runs' = Append(runs, row)
        /\ UNCHANGED <<now, bars, raw, cov, pc, job>>
    BY <1>5 DEF AlreadyCurrent
  <2> HIDE DEF row
  <2>3. QED
    BY <2>1, <2>2, AppendRun DEF TypeOK, RunIds
<1>6. QED
  BY <1>1, <1>2, <1>3, <1>4, <1>5

\* What is known of the job of a worker that executes.
LEMMA JobFacts ==
    ASSUME TypeOK, NEW w \in Workers
    PROVE  /\ job[w] \in Jobs
           /\ job[w].staged \subseteq DOMAIN job[w].batch
           /\ job[w].staged # {} => pc[w] \in {"sync", "close"}
           /\ pc[w] # "idle" => job[w].run \in RunIds
BY DEF TypeOK

\* A worker that goes on with a job of the right type keeps every type.
LEMMA MoveType ==
    ASSUME TypeOK, NEW w \in Workers, NEW label \in Labels, NEW j \in Jobs,
           Goto(w, label, j), UNCHANGED <<now, db>>,
           label # "idle" => j.run \in RunIds,
           j.staged \subseteq DOMAIN j.batch,
           j.staged # {} => label \in {"sync", "close"}
    PROVE  TypeOK'
BY TypeStep DEF TypeOK, RunIds, db

LEMMA LeaveType ==
    ASSUME TypeOK, NEW w \in Workers, Leave(w), UNCHANGED <<now, db>>
    PROVE  TypeOK'
BY MoveType, NoJobType DEF Leave, Labels

\* The transactions that mark or close a run rewrite its row.
LEMMA RowType ==
    ASSUME TypeOK, NEW w \in Workers, pc[w] # "idle",
           NEW object \in RunRows
    PROVE  Flush(runs[job[w].run], job[w].seenRun, object) \in RunRows
BY JobFacts, RunRowType, FlushRun DEF Jobs

LEMMA CommitResumeType ==
    ASSUME TypeOK, NEW w \in Workers, CommitResume(w)
    PROVE  TypeOK'
<1> DEFINE j == job[w]
           object == [j.seenRun EXCEPT !.status = "running", !.error = FALSE,
                                       !.finished = FALSE]
           row == Flush(runs[j.run], j.seenRun, object)
           next == [j EXCEPT !.seenRun = row]
<1>1. /\ pc[w] = "resume" /\ runs' = [runs EXCEPT ![j.run] = row]
      /\ Goto(w, LoopHead(j), next)
      /\ UNCHANGED <<now, bars, raw, cov>>
  BY DEF CommitResume
<1>2. j \in Jobs /\ j.run \in RunIds /\ j.staged = {}
  BY <1>1, JobFacts
<1>3. object \in RunRows
  BY <1>2 DEF Jobs, RunRows, Statuses
<1>4. row \in RunRows
  BY <1>1, <1>3, RowType
<1> HIDE DEF row
<1>5. /\ next \in Jobs /\ next.run = j.run
      /\ next.staged = j.staged /\ next.batch = j.batch
  BY <1>2, <1>4 DEF Jobs
<1>6. LoopHead(j) \in Labels
  BY LoopHeadType DEF Labels
<1> HIDE DEF next, j
<1>7. QED
  BY <1>1, <1>2, <1>4, <1>5, <1>6, UpdateRun, TypeStep DEF TypeOK, RunIds

LEMMA CommitChunkType ==
    ASSUME TypeOK, NEW w \in Workers, CommitChunk(w)
    PROVE  TypeOK'
<1> DEFINE j == job[w]
           fetched == j.fetched + Cardinality(DOMAIN j.batch)
           inserted == j.inserted + Cardinality(Missing(j))
           object == [j.seenRun EXCEPT !.fetched = fetched,
                                       !.inserted = inserted]
           row == Flush(runs[j.run], j.seenRun, object)
           next == [Advance(j) EXCEPT !.fetched = fetched,
                      !.inserted = inserted, !.seenRun = row, !.batch = NoBars]
           archived == RawRow(j, j.cursor, ChunkEnd(j))
<1>1. /\ pc[w] = "ingest"
      /\ raw' = raw \cup {archived}
      /\ bars' = [bars EXCEPT ![j.tf] = InsertMissing(bars[j.tf], j.batch)]
      /\ runs' = [runs EXCEPT ![j.run] = row]
      /\ Goto(w, LoopHead(next), next)
      /\ UNCHANGED <<now, cov>>
  BY DEF CommitChunk
<1>2. j \in Jobs /\ j.run \in RunIds
  BY <1>1, JobFacts
<1>3. /\ j.batch \in Batches /\ j.tf \in Timeframes /\ bars[j.tf] \in Batches
      /\ j.run \in Nat /\ j.cursor \in Int
  BY <1>2 DEF Jobs, TypeOK
<1>4. /\ Cardinality(DOMAIN j.batch) \in Nat
      /\ Cardinality(Missing(j)) \in Nat
  BY <1>3, BatchSize DEF Missing
<1>5. fetched \in Nat /\ inserted \in Nat
  BY <1>2, <1>4 DEF Jobs
<1> HIDE DEF fetched, inserted
<1>6. object \in RunRows
  BY <1>2, <1>5 DEF Jobs, RunRows
<1>7. row \in RunRows
  BY <1>1, <1>6, RowType
<1>8. archived \in RawRows
  BY <1>2, <1>3, ChunkEndType DEF RawRow, RawRows
<1>9. bars' \in [Timeframes -> Batches]
  BY <1>1, <1>3, InsertMissingFacts DEF TypeOK
<1> HIDE DEF row
<1>10. /\ next \in Jobs /\ next.run = j.run
       /\ next.staged = {} /\ next.batch = NoBars
  <2>1. /\ Advance(j) \in Jobs /\ Advance(j).run = j.run
        /\ Advance(j).staged = {}
    BY <1>1, <1>2, JobFacts, AdvanceType
  <2>2. QED
    BY <2>1, <1>5, <1>7, NoBarsType DEF Jobs
<1>11. LoopHead(next) \in Labels
  BY LoopHeadType DEF Labels
<1> HIDE DEF next, j, archived
<1>12. raw' \subseteq RawRows
  BY <1>1, <1>8 DEF TypeOK
<1>13. QED
  BY <1>1, <1>2, <1>7, <1>9, <1>10, <1>11, <1>12, UpdateRun, TypeStep
  DEF TypeOK, RunIds

LEMMA CommitSuccessType ==
    ASSUME TypeOK, NEW w \in Workers, CommitSuccess(w)
    PROVE  TypeOK'
<1> DEFINE j == job[w]
           object == [j.seenRun EXCEPT
                        !.status = "succeeded", !.finished = TRUE,
                        !.fetched = j.fetched, !.inserted = j.inserted,
                        !.failed = j.failed]
           row == Flush(runs[j.run], j.seenRun, object)
           archived == RawRow(j, j.start, j.end)
           table == [t \in DOMAIN bars[j.tf] \cup j.staged |->
                       IF t \in j.staged THEN j.batch[t] ELSE bars[j.tf][t]]
<1>1. /\ pc[w] = "close"
      /\ raw' \in {raw, raw \cup {archived}}
      /\ bars' \in {bars, [bars EXCEPT ![j.tf] = table]}
      /\ WriteCoverage(j)
      /\ Leave(w)
      /\ now' = now
  BY DEF CommitSuccess
<1>2. runs' = [runs EXCEPT ![j.run] = row]
  BY DEF CommitSuccess
<1>3. j \in Jobs /\ j.run \in RunIds /\ j.staged \subseteq DOMAIN j.batch
  BY <1>1, JobFacts
<1>4. /\ j.batch \in Batches /\ j.tf \in Timeframes /\ bars[j.tf] \in Batches
      /\ j.run \in Nat
  BY <1>3 DEF Jobs, TypeOK
<1>5. object \in RunRows
  BY <1>3 DEF Jobs, RunRows, Statuses
<1>6. row \in RunRows
  BY <1>1, <1>5, RowType
<1>7. archived \in RawRows
  BY <1>3, <1>4 DEF RawRow, RawRows, Jobs
<1>8. table \in Batches
  <2>1. DOMAIN bars[j.tf] \cup j.staged \subseteq Time
    BY <1>3, <1>4, BatchType
  <2>2. table \in [DOMAIN bars[j.tf] \cup j.staged -> Quotes]
    BY <1>3, <1>4, BatchType
  <2>3. QED
    BY <2>1, <2>2, BatchIntro
<1>9. cov' \in Bounds
  BY <1>1, <1>3, FlushBounds DEF WriteCoverage, Jobs, TypeOK
<1> HIDE DEF j, row, table, archived
<1>10. bars' \in [Timeframes -> Batches] /\ raw' \subseteq RawRows
  BY <1>1, <1>4, <1>7, <1>8 DEF TypeOK
<1>11. runs' \in Seq(RunRows) /\ Len(runs') = Len(runs) /\ Len(runs) \in Nat
  BY <1>2, <1>3, <1>6, UpdateRun
<1>12. QED
  BY <1>1, <1>9, <1>10, <1>11, NoJobType, TypeStep DEF TypeOK, Leave, Labels

LEMMA CommitFailureType ==
    ASSUME TypeOK, NEW w \in Workers, CommitFailure(w)
    PROVE  TypeOK'
<1> DEFINE j == job[w]
           object == [j.seenRun EXCEPT
                        !.status = "failed", !.finished = TRUE,
                        !.error = TRUE, !.fetched = j.fetched,
                        !.inserted = j.inserted, !.failed = j.failed]
           row == Flush(runs[j.run], j.seenRun, object)
<1>1. /\ pc[w] = "fail"
      /\ runs' = [runs EXCEPT ![j.run] = row]
      /\ WriteCoverage(j)
      /\ Leave(w)
      /\ UNCHANGED <<now, bars, raw>>
  BY DEF CommitFailure
<1>2. j \in Jobs /\ j.run \in RunIds
  BY <1>1, JobFacts
<1>3. object \in RunRows
  BY <1>2 DEF Jobs, RunRows, Statuses
<1>4. row \in RunRows
  BY <1>1, <1>3, RowType
<1>5. cov' \in Bounds
  BY <1>1, <1>2, FlushBounds DEF WriteCoverage, Jobs, TypeOK
<1> HIDE DEF j, row
<1>6. runs' \in Seq(RunRows) /\ Len(runs') = Len(runs) /\ Len(runs) \in Nat
  BY <1>1, <1>2, <1>4, UpdateRun
<1>7. QED
  BY <1>1, <1>5, <1>6, NoJobType, TypeStep DEF TypeOK, Leave, Labels

\* The steps of a call that touch no row: they move the worker.
LEMMA LocalType ==
    ASSUME TypeOK, NEW w \in Workers,
           \/ SkipChunk(w) \/ FetchChunk(w) \/ FetchIncremental(w)
           \/ StageIncremental(w) \/ ReadBounds(w)
    PROVE  TypeOK'
<1> DEFINE j == job[w]
<1>1. /\ j \in Jobs
      /\ j.staged \subseteq DOMAIN j.batch
      /\ j.staged # {} => pc[w] \in {"sync", "close"}
      /\ pc[w] # "idle" => j.run \in RunIds
  BY JobFacts
<1>2. j.tf \in Timeframes /\ j.start \in Int /\ j.end \in Int /\ j.cursor \in Int
  BY <1>1 DEF Jobs
<1>3. CASE SkipChunk(w)
  <2>1. /\ Advance(j) \in Jobs /\ Advance(j).run = j.run
        /\ Advance(j).staged = j.staged
    BY <1>1, AdvanceType
  <2>2. /\ pc[w] = "loop" /\ UNCHANGED <<now, db>>
        /\ Goto(w, LoopHead(Advance(j)), Advance(j))
    BY <1>3 DEF SkipChunk
  <2>3. LoopHead(Advance(j)) \in Labels
    BY LoopHeadType DEF Labels
  <2> HIDE DEF j
  <2>4. QED
    BY <1>1, <2>1, <2>2, <2>3, MoveType
<1>4. CASE FetchChunk(w)
  <2> DEFINE next == [j EXCEPT !.batch = Response(j.tf, j.cursor, ChunkEnd(j))]
  <2>1. Response(j.tf, j.cursor, ChunkEnd(j)) \in Batches
    BY <1>1, <1>2, ChunkEndType, ResponseType
  <2>2. next \in Jobs /\ next.run = j.run /\ next.staged = j.staged
    BY <1>1, <2>1 DEF Jobs
  <2>3. pc[w] = "loop" /\ Goto(w, "ingest", next) /\ UNCHANGED <<now, db>>
    BY <1>4 DEF FetchChunk
  <2> HIDE DEF next, j
  <2>4. QED
    BY <1>1, <2>2, <2>3, MoveType DEF Labels
<1>5. CASE FetchIncremental(w)
  <2> DEFINE batch == Response(j.tf, j.start, j.end)
             next == [j EXCEPT !.batch = batch,
                               !.fetched = Cardinality(DOMAIN batch)]
  <2>1. batch \in Batches /\ Cardinality(DOMAIN batch) \in Nat
    BY <1>2, ResponseType, BatchSize
  <2>2. pc[w] = "fetch" /\ Goto(w, "ingest", next) /\ UNCHANGED <<now, db>>
    BY <1>5 DEF FetchIncremental
  <2> HIDE DEF batch
  <2>3. next \in Jobs /\ next.run = j.run /\ next.staged = j.staged
    BY <1>1, <2>1 DEF Jobs
  <2> HIDE DEF next, j
  <2>4. QED
    BY <1>1, <2>2, <2>3, MoveType DEF Labels
<1>6. CASE StageIncremental(w)
  <2> DEFINE next == [j EXCEPT !.staged = Missing(j),
                               !.inserted = Cardinality(Missing(j))]
  <2>1. j.batch \in Batches /\ Missing(j) \subseteq DOMAIN j.batch
    BY <1>1 DEF Jobs, Missing
  <2>2. Missing(j) \in SUBSET Time /\ Cardinality(Missing(j)) \in Nat
    BY <2>1, BatchSize, BatchType
  <2>3. /\ next \in Jobs /\ next.run = j.run
        /\ next.staged = Missing(j) /\ next.batch = j.batch
    BY <1>1, <2>2 DEF Jobs
  <2>4. /\ pc[w] = "ingest" /\ Goto(w, SuccessTail(next), next)
        /\ UNCHANGED <<now, db>>
    BY <1>6 DEF StageIncremental
  <2>5. SuccessTail(next) \in {"sync", "close"}
    BY DEF SuccessTail
  <2> HIDE DEF next, j
  <2>6. QED
    BY <1>1, <2>1, <2>3, <2>4, <2>5, MoveType DEF Labels
<1>7. CASE ReadBounds(w)
  <2> DEFINE next == [j EXCEPT !.bounds = BoundsOf(Stored \cup j.staged),
                               !.synced = TRUE]
  <2>1. j.staged \subseteq Time
    BY <1>1 DEF Jobs
  <2>2. BoundsOf(Stored \cup j.staged) \in Bounds
    BY <2>1, StoredType, BoundsOfType
  <2>3. /\ next \in Jobs /\ next.run = j.run
        /\ next.staged = j.staged /\ next.batch = j.batch
    BY <1>1, <2>2 DEF Jobs
  <2>4. /\ \/ pc[w] = "sync" /\ Goto(w, "close", next)
           \/ pc[w] = "fsync" /\ Goto(w, "fail", next)
        /\ UNCHANGED <<now, db>>
    BY <1>7 DEF ReadBounds
  <2> HIDE DEF next, j
  <2>5. QED
    BY <1>1, <2>3, <2>4, MoveType DEF Labels
<1>8. QED
  BY <1>3, <1>4, <1>5, <1>6, <1>7

\* The error handler moves the worker; no transaction is open.
LEMMA HandleType ==
    ASSUME TypeOK, NEW w \in Workers, pc[w] \notin {"idle", "sync", "close"},
           Handle(w), UNCHANGED <<now, db>>
    PROVE  TypeOK'
<1> DEFINE j == job[w]
           count == j.failed + 1
           next == [j EXCEPT !.failed = count, !.batch = NoBars]
<1>1. j \in Jobs /\ j.run \in RunIds /\ j.staged = {}
  BY JobFacts
<1>2. count \in Nat
  BY <1>1 DEF Jobs
<1> HIDE DEF count
<1>3. next \in Jobs /\ next.run = j.run /\ next.staged = {}
  BY <1>1, <1>2, NoBarsType DEF Jobs
<1>4. PICK label \in {"fsync", "fail"} : Goto(w, label, next)
  BY DEF Handle, count
<1> HIDE DEF next, j
<1>5. QED
  BY <1>1, <1>3, <1>4, MoveType DEF Labels

LEMMA FaultType ==
    ASSUME TypeOK, NEW w \in Workers, Fault(w)
    PROVE  TypeOK'
<1>1. CASE FetchFails(w)
  BY <1>1, HandleType DEF FetchFails
<1>2. CASE PipelineFails(w)
  BY <1>2, HandleType DEF PipelineFails
<1>3. CASE TransactionFails(w)
  BY <1>3, LeaveType DEF TransactionFails
<1>4. CASE SyncRaises(w)
  BY <1>4, JobFacts, MoveType DEF SyncRaises, Labels
<1>5. CASE Crash(w)
  BY <1>5, LeaveType DEF Crash
<1>6. QED
  BY <1>1, <1>2, <1>3, <1>4, <1>5 DEF Fault

\* Every step keeps every type.
LEMMA NextType ==
    ASSUME TypeOK, [Next]_vars
    PROVE  TypeOK'
<1>1. ASSUME NEW type \in Kinds, Trigger(type) PROVE TypeOK'
  <2>1. NewRun(type) \in RunRows
    BY NewRunType, IngestionAssumption DEF TypeOK
  <2>2. /\ runs' = Append(runs, NewRun(type))
        /\ UNCHANGED <<now, bars, raw, cov, pc, job>>
    BY <1>1 DEF Trigger
  <2>3. QED
    BY <2>1, <2>2, AppendRun DEF TypeOK, RunIds
<1>2. ASSUME NEW w \in Workers, Work(w) PROVE TypeOK'
  BY <1>2, CommitResumeType, CommitChunkType, CommitSuccessType,
     CommitFailureType, LocalType DEF Work
<1>3. CASE Tick
  BY <1>3, MaxTimeAssumption DEF Tick, TypeOK, Time, db, RunIds
<1>4. CASE UNCHANGED vars
  BY <1>4 DEF vars, TypeOK, RunIds
<1>5. QED
  BY <1>1, <1>2, <1>3, <1>4, CallType, FaultType DEF Next, Rest

LEMMA InitType == Init => TypeOK
<1>1. NoBounds \in Bounds
  BY MaxTimeAssumption DEF NoBounds, Bounds
<1>2. QED
  BY <1>1, NoBarsType, NoJobType, IngestionAssumption
  DEF Init, TypeOK, Labels

\* Every reachable state has the right types, every call that executes has its
\* run, and transactions are open only in the tail of a call.
THEOREM IngestionTypeOK == Spec => []TypeOK
BY InitType, NextType, PTL DEF Spec

-----------------------------------------------------------------------------
(***************************************************************************)
(* Ingestion implements BarArchive: a raw row and its bars become durable  *)
(* together, and a stored bar never changes, for any number of sessions.   *)
(*                                                                         *)
(* The step that needs an argument is the commit of an incremental call,   *)
(* which stores the bars it found missing when it staged them, some steps  *)
(* ago.  StagedExclusive says they are still the missing ones.             *)
(***************************************************************************)

\* Only a backfill loops over chunks, and only an incremental call stages bars.
KindsFit ==
    \A w \in Workers :
        /\ pc[w] \in {"resume", "loop"} => job[w].kind = "backfill"
        /\ job[w].staged # {} => job[w].kind = "incremental"

ArchiveInvariant == TypeOK /\ KindsFit /\ StagedExclusive

\* A worker that moves while no bar is stored.
LEMMA StagedMove ==
    ASSUME ArchiveInvariant, NEW w \in Workers, NEW label, NEW j,
           Goto(w, label, j), UNCHANGED bars,
           label \in {"resume", "loop"} => j.kind = "backfill",
           j.staged # {} => j.kind = "incremental",
           j.staged \cap DOMAIN bars[j.tf] = {},
           j.kind = "incremental" /\ label \in {"sync", "close"}
              => Missing(j) = j.staged,
           \A v \in Workers \ {w} :
              job[v].tf = j.tf => job[v].staged \cap j.staged = {}
    PROVE  KindsFit' /\ StagedExclusive'
<1>1. pc'[w] = label /\ job'[w] = j
  BY DEF ArchiveInvariant, TypeOK, Goto
<1>2. \A v \in Workers \ {w} : pc'[v] = pc[v] /\ job'[v] = job[v]
  BY DEF ArchiveInvariant, TypeOK, Goto
<1>3. KindsFit'
  BY <1>1, <1>2 DEF ArchiveInvariant, KindsFit
<1>4. ASSUME NEW u \in Workers
      PROVE  /\ job'[u].staged \cap DOMAIN bars'[job'[u].tf] = {}
             /\ job'[u].kind = "incremental" /\ pc'[u] \in {"sync", "close"}
                   => DOMAIN job'[u].batch \ DOMAIN bars'[job'[u].tf]
                      = job'[u].staged
             /\ \A v \in Workers \ {u} : job'[v].tf = job'[u].tf
                   => job'[v].staged \cap job'[u].staged = {}
  <2>1. CASE u = w
    BY <1>1, <1>2, <2>1 DEF Missing
  <2>2. CASE u # w
    <3>1. pc'[u] = pc[u] /\ job'[u] = job[u]
      BY <1>2, <2>2
    <3>2. ASSUME NEW v \in Workers \ {u}, job'[v].tf = job'[u].tf
          PROVE  job'[v].staged \cap job'[u].staged = {}
      BY <1>1, <1>2, <2>2, <3>1, <3>2 DEF ArchiveInvariant, StagedExclusive
    <3>3. QED
      BY <3>1, <3>2 DEF ArchiveInvariant, StagedExclusive, Missing
  <2>3. QED
    BY <2>1, <2>2
<1>5. StagedExclusive'
  BY <1>4 DEF StagedExclusive, Missing
<1>6. QED
  BY <1>3, <1>5

\* The same for a worker that holds no staged bars where it goes.
LEMMA EmptyMove ==
    ASSUME ArchiveInvariant, NEW w \in Workers, NEW label, NEW j,
           Goto(w, label, j), UNCHANGED bars, j.staged = {},
           label \in {"resume", "loop"} => j.kind = "backfill",
           label \in {"sync", "close"} => j.kind # "incremental"
    PROVE  KindsFit' /\ StagedExclusive'
BY StagedMove

LEMMA EmptyLeave ==
    ASSUME ArchiveInvariant, NEW w \in Workers, Leave(w), UNCHANGED bars
    PROVE  KindsFit' /\ StagedExclusive'
BY EmptyMove, NoJobType DEF Leave

\* The calls, none of which has a transaction that holds bars.
LEMMA CallStaged ==
    ASSUME ArchiveInvariant, NEW w \in Workers, Call(w)
    PROVE  KindsFit' /\ StagedExclusive'
<1>1. NoJob.staged = {}
  BY NoJobType
<1>2. PICK tf \in Timeframes :
         \/ \E range \in Ranges :
               \/ StartBackfill(w, tf, range)
               \/ \E i \in RunIds : BeginResume(w, i, tf, range)
         \/ StartIncremental(w, tf)
         \/ AlreadyCurrent(w, tf)
  BY DEF Call
<1>3. ASSUME NEW range \in Ranges, StartBackfill(w, tf, range)
      PROVE  KindsFit' /\ StagedExclusive'
  <2> DEFINE j == [NoJob EXCEPT !.kind = "backfill", !.tf = tf,
                     !.start = range[1], !.end = range[2], !.cursor = range[1],
                     !.run = Len(runs) + 1,
                     !.existing = BoundsOf(DOMAIN bars[tf]),
                     !.seenRun = [NewRun("backfill") EXCEPT !.status = "running"],
                     !.seenCov = cov]
  <2>1. j.staged = {} /\ j.kind = "backfill"
    BY <1>1, NoJobType DEF Jobs
  <2>2. Goto(w, LoopHead(j), j) /\ UNCHANGED bars
    BY <1>3 DEF StartBackfill
  <2> HIDE DEF j
  <2>3. QED
    BY <2>1, <2>2, EmptyMove
<1>4. ASSUME NEW range \in Ranges, NEW i \in RunIds, BeginResume(w, i, tf, range)
      PROVE  KindsFit' /\ StagedExclusive'
  <2> DEFINE j == [NoJob EXCEPT !.kind = "backfill", !.tf = tf,
                     !.start = range[1], !.end = range[2], !.cursor = range[1],
                     !.run = i,
                     !.existing = BoundsOf(DOMAIN bars[tf]),
                     !.processed = AlreadyProcessed(i),
                     !.fetched = runs[i].fetched, !.inserted = runs[i].inserted,
                     !.failed = runs[i].failed,
                     !.seenRun = runs[i], !.seenCov = cov]
  <2>1. j.staged = {} /\ j.kind = "backfill"
    BY <1>1, NoJobType DEF Jobs
  <2>2. Goto(w, "resume", j) /\ UNCHANGED bars
    BY <1>4 DEF BeginResume, db
  <2> HIDE DEF j
  <2>3. QED
    BY <2>1, <2>2, EmptyMove
<1>5. ASSUME StartIncremental(w, tf) PROVE KindsFit' /\ StagedExclusive'
  <2> DEFINE j == [NoJob EXCEPT !.kind = "incremental", !.tf = tf,
                     !.start = IncrementalStart, !.end = now,
                     !.run = Len(runs) + 1,
                     !.seenRun = [NewRun("incremental") EXCEPT
                                     !.status = "running"],
                     !.seenCov = cov]
  <2>1. j.staged = {}
    BY <1>1, NoJobType DEF Jobs
  <2>2. Goto(w, "fetch", j) /\ UNCHANGED bars
    BY <1>5 DEF StartIncremental
  <2> HIDE DEF j
  <2>3. QED
    BY <2>1, <2>2, EmptyMove
<1>6. ASSUME AlreadyCurrent(w, tf) PROVE KindsFit' /\ StagedExclusive'
  BY <1>6 DEF AlreadyCurrent, ArchiveInvariant, KindsFit, StagedExclusive,
              Missing
<1>7. QED
  BY <1>2, <1>3, <1>4, <1>5, <1>6

\* Steps inside a call that store no bar.
LEMMA LocalStaged ==
    ASSUME ArchiveInvariant, NEW w \in Workers,
           \/ CommitResume(w) \/ SkipChunk(w) \/ FetchChunk(w)
           \/ FetchIncremental(w) \/ StageIncremental(w) \/ ReadBounds(w)
           \/ CommitFailure(w)
    PROVE  KindsFit' /\ StagedExclusive'
<1> DEFINE j == job[w]
<1>1. /\ j \in Jobs
      /\ j.staged # {} => pc[w] \in {"sync", "close"}
      /\ pc[w] \in {"resume", "loop"} => j.kind = "backfill"
  BY JobFacts DEF ArchiveInvariant, KindsFit
<1>2. CASE CommitResume(w)
  <2>1. PICK row : Goto(w, LoopHead(j), [j EXCEPT !.seenRun = row])
    BY <1>2 DEF CommitResume
  <2>2. /\ [j EXCEPT !.seenRun = row].staged = {}
        /\ [j EXCEPT !.seenRun = row].kind = "backfill"
    BY <1>1, <1>2 DEF CommitResume, Jobs
  <2>3. UNCHANGED bars
    BY <1>2 DEF CommitResume
  <2>4. QED
    BY <2>1, <2>2, <2>3, EmptyMove
<1>3. CASE SkipChunk(w)
  <2>1. Goto(w, LoopHead(Advance(j)), Advance(j)) /\ UNCHANGED bars
    BY <1>3 DEF SkipChunk, db
  <2>2. Advance(j).staged = {} /\ Advance(j).kind = "backfill"
    BY <1>1, <1>3 DEF SkipChunk, Advance, Jobs
  <2>3. QED
    BY <2>1, <2>2, EmptyMove
<1>4. CASE FetchChunk(w)
  <2>1. PICK b : Goto(w, "ingest", [j EXCEPT !.batch = b])
    BY <1>4 DEF FetchChunk
  <2>2. [j EXCEPT !.batch = b].staged = {} /\ UNCHANGED bars
    BY <1>1, <1>4 DEF FetchChunk, Jobs, db
  <2>3. QED
    BY <2>1, <2>2, EmptyMove
<1>5. CASE FetchIncremental(w)
  <2>1. PICK b, n : Goto(w, "ingest", [j EXCEPT !.batch = b, !.fetched = n])
    BY <1>5 DEF FetchIncremental
  <2>2. [j EXCEPT !.batch = b, !.fetched = n].staged = {} /\ UNCHANGED bars
    BY <1>1, <1>5 DEF FetchIncremental, Jobs, db
  <2>3. QED
    BY <2>1, <2>2, EmptyMove
<1>6. CASE StageIncremental(w)
  <2> DEFINE next == [j EXCEPT !.staged = Missing(j),
                               !.inserted = Cardinality(Missing(j))]
  <2>1. /\ Goto(w, SuccessTail(next), next)
        /\ Unblocked(w)
        /\ UNCHANGED bars
    BY <1>6 DEF StageIncremental, db
  <2>2. /\ next.staged = Missing(j) /\ next.tf = j.tf /\ next.batch = j.batch
        /\ next.kind = "incremental"
    BY <1>1, <1>6 DEF Jobs, StageIncremental
  <2>3. SuccessTail(next) \in {"sync", "close"}
    BY DEF SuccessTail
  <2> HIDE DEF next, j
  <2>4. /\ next.staged \cap DOMAIN bars[next.tf] = {}
        /\ Missing(next) = next.staged
    BY <2>2 DEF Missing
  <2>5. \A v \in Workers \ {w} :
           job[v].tf = next.tf => job[v].staged \cap next.staged = {}
    BY <2>1, <2>2 DEF Unblocked, Missing, j
  <2>6. QED
    BY <2>1, <2>2, <2>3, <2>4, <2>5, StagedMove
<1>7. CASE ReadBounds(w)
  <2> DEFINE b == BoundsOf(Stored \cup j.staged)
             next == [j EXCEPT !.bounds = b, !.synced = TRUE]
  <2>1. PICK label \in {"close", "fail"} :
           Goto(w, label, next) /\ (label = "close" => pc[w] = "sync")
    BY <1>7 DEF ReadBounds
  <2>2. /\ next.staged = j.staged /\ next.tf = j.tf
        /\ next.batch = j.batch /\ next.kind = j.kind
    BY <1>1 DEF Jobs
  <2>3. UNCHANGED bars
    BY <1>7 DEF ReadBounds, db
  <2>4. /\ j.staged # {} => j.kind = "incremental"
        /\ j.staged \cap DOMAIN bars[j.tf] = {}
        /\ j.kind = "incremental" /\ pc[w] \in {"sync", "close"}
              => DOMAIN j.batch \ DOMAIN bars[j.tf] = j.staged
        /\ \A v \in Workers \ {w} :
              job[v].tf = j.tf => job[v].staged \cap j.staged = {}
    BY DEF ArchiveInvariant, KindsFit, StagedExclusive, Missing
  <2> HIDE DEF next, j
  <2>5. QED
    BY <2>1, <2>2, <2>3, <2>4, StagedMove DEF Missing
<1>8. CASE CommitFailure(w)
  BY <1>8, EmptyLeave DEF CommitFailure
<1>9. QED
  BY <1>2, <1>3, <1>4, <1>5, <1>6, <1>7, <1>8

LEMMA FaultStaged ==
    ASSUME ArchiveInvariant, NEW w \in Workers, Fault(w)
    PROVE  KindsFit' /\ StagedExclusive'
<1> DEFINE j == job[w]
<1>1. j \in Jobs /\ (pc[w] \notin {"sync", "close"} => j.staged = {})
  BY JobFacts DEF ArchiveInvariant
<1>2. ASSUME Handle(w), pc[w] \notin {"sync", "close"}, UNCHANGED bars
      PROVE  KindsFit' /\ StagedExclusive'
  <2>1. PICK label \in {"fsync", "fail"} :
           Goto(w, label, [j EXCEPT !.failed = @ + 1, !.batch = NoBars])
    BY <1>2 DEF Handle
  <2>2. [j EXCEPT !.failed = @ + 1, !.batch = NoBars].staged = {}
    BY <1>1, <1>2 DEF Jobs
  <2>3. QED
    BY <1>2, <2>1, <2>2, EmptyMove
<1>3. CASE FetchFails(w)
  BY <1>2, <1>3 DEF FetchFails, db
<1>4. CASE PipelineFails(w)
  BY <1>2, <1>4 DEF PipelineFails, db
<1>5. CASE TransactionFails(w)
  BY <1>5, EmptyLeave DEF TransactionFails, db
<1>6. CASE SyncRaises(w)
  BY <1>1, <1>6, EmptyMove DEF SyncRaises, db
<1>7. CASE Crash(w)
  BY <1>7, EmptyLeave DEF Crash, db
<1>8. QED
  BY <1>3, <1>4, <1>5, <1>6, <1>7 DEF Fault

\* A chunk that is committed stores no bar another session has staged: its
\* inserts waited for that session.
LEMMA CommitChunkStaged ==
    ASSUME ArchiveInvariant, NEW w \in Workers, CommitChunk(w)
    PROVE  KindsFit' /\ StagedExclusive'
<1> DEFINE j == job[w]
           fetched == j.fetched + Cardinality(DOMAIN j.batch)
           inserted == j.inserted + Cardinality(Missing(j))
           row == Flush(runs[j.run], j.seenRun,
                        [j.seenRun EXCEPT !.fetched = fetched,
                                          !.inserted = inserted])
           next == [Advance(j) EXCEPT !.fetched = fetched,
                      !.inserted = inserted, !.seenRun = row, !.batch = NoBars]
<1>1. /\ pc[w] = "ingest" /\ j.kind = "backfill"
      /\ Unblocked(w)
      /\ bars' = [bars EXCEPT ![j.tf] = InsertMissing(bars[j.tf], j.batch)]
      /\ Goto(w, LoopHead(next), next)
  BY DEF CommitChunk
<1>2. j \in Jobs /\ j.staged = {} /\ j.tf \in Timeframes
      /\ bars \in [Timeframes -> Batches] /\ job \in [Workers -> Jobs]
  BY <1>1, JobFacts DEF ArchiveInvariant, TypeOK, Jobs
<1>3. next.staged = {} /\ next.kind = "backfill"
  BY <1>1, <1>2 DEF Advance, Jobs
<1>4. pc'[w] = LoopHead(next) /\ job'[w] = next
  BY <1>1 DEF ArchiveInvariant, TypeOK, Goto
<1>5. \A v \in Workers \ {w} : pc'[v] = pc[v] /\ job'[v] = job[v]
  BY <1>1 DEF ArchiveInvariant, TypeOK, Goto
<1>6. DOMAIN bars'[j.tf] = DOMAIN bars[j.tf] \cup DOMAIN j.batch
  <2>1. j.batch \in Batches /\ bars[j.tf] \in Batches
    BY <1>2 DEF Jobs
  <2>2. bars'[j.tf] = InsertMissing(bars[j.tf], j.batch)
    BY <1>1, <1>2
  <2>3. DOMAIN InsertMissing(bars[j.tf], j.batch)
        = DOMAIN bars[j.tf] \cup DOMAIN j.batch
    BY <2>1, InsertMissingFacts
  <2> HIDE DEF j
  <2>4. QED
    BY <2>2, <2>3
<1>7. \A tf \in Timeframes \ {j.tf} : bars'[tf] = bars[tf]
  BY <1>1, <1>2
<1> HIDE DEF next
<1>8. KindsFit'
  BY <1>3, <1>4, <1>5 DEF ArchiveInvariant, KindsFit
<1>9. ASSUME NEW u \in Workers \ {w}
      PROVE  /\ job[u].staged \cap DOMAIN bars'[job[u].tf] = {}
             /\ job[u].kind = "incremental" /\ pc[u] \in {"sync", "close"}
                   => DOMAIN job[u].batch \ DOMAIN bars'[job[u].tf]
                      = job[u].staged
  <2>1. /\ job[u].staged \cap DOMAIN bars[job[u].tf] = {}
        /\ job[u].kind = "incremental" /\ pc[u] \in {"sync", "close"}
              => DOMAIN job[u].batch \ DOMAIN bars[job[u].tf] = job[u].staged
    BY DEF ArchiveInvariant, StagedExclusive, Missing
  <2>2. job[u].tf \in Timeframes
    BY <1>2 DEF Jobs
  <2>3. CASE job[u].tf = j.tf
    <3>1. job[u].staged \cap DOMAIN j.batch = {}
      BY <1>1, <2>3 DEF Unblocked
    <3> HIDE DEF j
    <3>2. QED
      BY <1>6, <2>1, <2>3, <3>1
  <2>4. CASE job[u].tf # j.tf
    BY <1>7, <2>1, <2>2, <2>4
  <2>5. QED
    BY <2>3, <2>4
<1>10. \A u, v \in Workers : u # v /\ job'[u].tf = job'[v].tf
          => job'[v].staged \cap job'[u].staged = {}
  BY <1>3, <1>4, <1>5 DEF ArchiveInvariant, StagedExclusive
<1>11. StagedExclusive'
  BY <1>3, <1>4, <1>5, <1>9, <1>10 DEF StagedExclusive, Missing
<1>12. QED
  BY <1>8, <1>11

\* The bars a call stores when it commits were staged by no other session.
LEMMA CommitSuccessStaged ==
    ASSUME ArchiveInvariant, NEW w \in Workers, CommitSuccess(w)
    PROVE  KindsFit' /\ StagedExclusive'
<1> DEFINE j == job[w]
           table == [t \in DOMAIN bars[j.tf] \cup j.staged |->
                       IF t \in j.staged THEN j.batch[t] ELSE bars[j.tf][t]]
<1>1. pc[w] = "close" /\ Leave(w)
  BY DEF CommitSuccess
<1>2. CASE j.kind # "incremental"
  BY <1>1, <1>2, EmptyLeave DEF CommitSuccess
<1>3. CASE j.kind = "incremental"
  <2>1. bars' = [bars EXCEPT ![j.tf] = table]
    BY <1>3 DEF CommitSuccess
  <2>2. j.tf \in Timeframes
        /\ bars \in [Timeframes -> Batches] /\ job \in [Workers -> Jobs]
    BY DEF ArchiveInvariant, TypeOK, Jobs
  <2>3. pc'[w] = "idle" /\ job'[w] = NoJob /\ NoJob.staged = {}
    BY <1>1, NoJobType DEF ArchiveInvariant, TypeOK, Leave, Goto
  <2>4. \A v \in Workers \ {w} : pc'[v] = pc[v] /\ job'[v] = job[v]
    BY <1>1 DEF ArchiveInvariant, TypeOK, Leave, Goto
  <2>5. DOMAIN bars'[j.tf] = DOMAIN bars[j.tf] \cup j.staged
    BY <2>1, <2>2
  <2>6. \A tf \in Timeframes \ {j.tf} : bars'[tf] = bars[tf]
    BY <2>1, <2>2
  <2>7. KindsFit'
    BY <2>3, <2>4 DEF ArchiveInvariant, KindsFit
  <2>8. ASSUME NEW u \in Workers \ {w}
        PROVE  /\ job[u].staged \cap DOMAIN bars'[job[u].tf] = {}
               /\ job[u].kind = "incremental" /\ pc[u] \in {"sync", "close"}
                     => DOMAIN job[u].batch \ DOMAIN bars'[job[u].tf]
                        = job[u].staged
    <3>1. /\ job[u].staged \cap DOMAIN bars[job[u].tf] = {}
          /\ job[u].kind = "incremental" /\ pc[u] \in {"sync", "close"}
                => DOMAIN job[u].batch \ DOMAIN bars[job[u].tf] = job[u].staged
          /\ job[u].tf = j.tf => job[u].staged \cap j.staged = {}
      BY DEF ArchiveInvariant, StagedExclusive, Missing
    <3>2. job[u].tf \in Timeframes
      BY <2>2 DEF Jobs
    <3>3. CASE job[u].tf = j.tf
      <4> HIDE DEF j
      <4>1. QED
        BY <2>5, <3>1, <3>3
    <3>4. CASE job[u].tf # j.tf
      BY <2>6, <3>1, <3>2, <3>4
    <3>5. QED
      BY <3>3, <3>4
  <2>9. \A u, v \in Workers : u # v /\ job'[u].tf = job'[v].tf
           => job'[v].staged \cap job'[u].staged = {}
    BY <2>3, <2>4 DEF ArchiveInvariant, StagedExclusive
  <2>10. ASSUME NEW u \in Workers
         PROVE  /\ job'[u].staged \cap DOMAIN bars'[job'[u].tf] = {}
                /\ job'[u].kind = "incremental" /\ pc'[u] \in {"sync", "close"}
                      => DOMAIN job'[u].batch \ DOMAIN bars'[job'[u].tf]
                         = job'[u].staged
    BY <2>3, <2>4, <2>8
  <2>11. StagedExclusive'
    BY <2>9, <2>10 DEF StagedExclusive, Missing
  <2>12. QED
    BY <2>7, <2>11
<1>4. QED
  BY <1>2, <1>3

LEMMA ArchiveInvariantNext ==
    ASSUME ArchiveInvariant, [Next]_vars
    PROVE  ArchiveInvariant'
<1>1. TypeOK'
  BY NextType DEF ArchiveInvariant
<1>2. ASSUME bars' = bars, pc' = pc, job' = job PROVE KindsFit' /\ StagedExclusive'
  BY <1>2 DEF ArchiveInvariant, KindsFit, StagedExclusive, Missing
<1>3. ASSUME NEW w \in Workers, Work(w) PROVE KindsFit' /\ StagedExclusive'
  BY <1>3, LocalStaged, CommitChunkStaged, CommitSuccessStaged DEF Work
<1>4. ASSUME NEW type \in Kinds, Trigger(type)
      PROVE  KindsFit' /\ StagedExclusive'
  BY <1>2, <1>4 DEF Trigger
<1>5. ASSUME Tick PROVE KindsFit' /\ StagedExclusive'
  BY <1>2, <1>5 DEF Tick, db
<1>6. ASSUME UNCHANGED vars PROVE KindsFit' /\ StagedExclusive'
  BY <1>2, <1>6 DEF vars
<1>7. KindsFit' /\ StagedExclusive'
  <2>1. ASSUME Rest PROVE KindsFit' /\ StagedExclusive'
    BY <1>6, <2>1 DEF Rest
  <2>2. ASSUME NEW w \in Workers, Call(w) \/ Work(w) \/ Fault(w)
        PROVE  KindsFit' /\ StagedExclusive'
    BY <1>3, <2>2, CallStaged, FaultStaged
  <2>3. QED
    BY <1>4, <1>5, <1>6, <2>1, <2>2 DEF Next
<1>8. QED
  BY <1>1, <1>7 DEF ArchiveInvariant

LEMMA ArchiveInvariantInit == Init => ArchiveInvariant
<1>1. ASSUME Init PROVE KindsFit /\ StagedExclusive
  <2>1. \A w \in Workers : pc[w] = "idle" /\ job[w].staged = {}
    BY <1>1, NoJobType DEF Init
  <2>2. QED
    BY <2>1 DEF KindsFit, StagedExclusive
<1>2. QED
  BY <1>1, InitType DEF ArchiveInvariant

\* Whatever two sessions do at the same time, the bars that are staged in open
\* transactions are new and are staged only once.
THEOREM IngestionStagedExclusive == Spec => []StagedExclusive
<1>1. Spec => []ArchiveInvariant
  BY ArchiveInvariantInit, ArchiveInvariantNext, PTL DEF Spec
<1>2. ArchiveInvariant => StagedExclusive
  BY DEF ArchiveInvariant
<1>3. QED
  BY <1>1, <1>2, PTL

-----------------------------------------------------------------------------
\* The two commits that store bars store one whole fetch.
LEMMA CommitChunkIngests ==
    ASSUME TypeOK, NEW w \in Workers, CommitChunk(w)
    PROVE  \E row \in RawRows : Archive!Ingest(row)
<1> DEFINE j == job[w]
           row == RawRow(j, j.cursor, ChunkEnd(j))
<1>1. /\ raw' = raw \cup {row}
      /\ bars' = [bars EXCEPT ![j.tf] = InsertMissing(bars[j.tf], j.batch)]
  BY DEF CommitChunk
<1>2. j \in Jobs
  BY JobFacts
<1>3. row \in RawRows /\ row.tf = j.tf /\ row.payload = j.batch
  BY <1>2, ChunkEndType DEF RawRow, RawRows, Jobs
<1> HIDE DEF row
<1>4. Archive!Ingest(row)
  BY <1>1, <1>3 DEF Archive!Ingest, Archive!InsertMissing, InsertMissing
<1>5. QED
  BY <1>3, <1>4

LEMMA CommitSuccessIngests ==
    ASSUME ArchiveInvariant, NEW w \in Workers, CommitSuccess(w),
           job[w].kind = "incremental"
    PROVE  \E row \in RawRows : Archive!Ingest(row)
<1> DEFINE j == job[w]
           row == RawRow(j, j.start, j.end)
           table == [t \in DOMAIN bars[j.tf] \cup j.staged |->
                       IF t \in j.staged THEN j.batch[t] ELSE bars[j.tf][t]]
<1>1. /\ pc[w] = "close"
      /\ raw' = raw \cup {row}
      /\ bars' = [bars EXCEPT ![j.tf] = table]
  BY DEF CommitSuccess
<1>2. j \in Jobs
  BY JobFacts DEF ArchiveInvariant
<1>3. row \in RawRows /\ row.tf = j.tf /\ row.payload = j.batch
  BY <1>2 DEF RawRow, RawRows, Jobs
<1>4. DOMAIN j.batch \ DOMAIN bars[j.tf] = j.staged
  BY <1>1 DEF ArchiveInvariant, StagedExclusive, Missing
<1>5. table = InsertMissing(bars[j.tf], j.batch)
  <2>1. DOMAIN bars[j.tf] \cup j.staged = DOMAIN bars[j.tf] \cup DOMAIN j.batch
    BY <1>4
  <2>2. \A t : t \in j.staged => t \notin DOMAIN bars[j.tf]
    BY <1>4
  <2>3. \A t \in DOMAIN bars[j.tf] \cup DOMAIN j.batch :
           t \notin DOMAIN bars[j.tf] => t \in j.staged
    BY <1>4
  <2> HIDE DEF j
  <2>4. QED
    BY <2>1, <2>2, <2>3 DEF InsertMissing
<1> HIDE DEF row, table
<1>6. Archive!Ingest(row)
  BY <1>1, <1>3, <1>5 DEF Archive!Ingest, Archive!InsertMissing, InsertMissing
<1>7. QED
  BY <1>3, <1>6

\* Every step makes one whole fetch durable or leaves the stored data alone.
LEMMA ArchiveStep ==
    ASSUME ArchiveInvariant, [Next]_vars
    PROVE  \/ \E row \in RawRows : Archive!Ingest(row)
           \/ bars' = bars /\ raw' = raw
<1>1. TypeOK
  BY DEF ArchiveInvariant
<1>2. ASSUME NEW w \in Workers, Call(w) PROVE bars' = bars /\ raw' = raw
  <2>1. PICK tf \in Timeframes :
           \/ \E range \in Ranges :
                 \/ StartBackfill(w, tf, range)
                 \/ \E i \in RunIds : BeginResume(w, i, tf, range)
           \/ StartIncremental(w, tf)
           \/ AlreadyCurrent(w, tf)
    BY <1>2 DEF Call
  <2>2. ASSUME NEW range \in Ranges, StartBackfill(w, tf, range)
        PROVE  bars' = bars /\ raw' = raw
    BY <2>2 DEF StartBackfill
  <2>3. ASSUME NEW range \in Ranges, NEW i \in RunIds,
               BeginResume(w, i, tf, range)
        PROVE  bars' = bars /\ raw' = raw
    BY <2>3 DEF BeginResume, db
  <2>4. ASSUME StartIncremental(w, tf) \/ AlreadyCurrent(w, tf)
        PROVE  bars' = bars /\ raw' = raw
    BY <2>4 DEF StartIncremental, AlreadyCurrent
  <2>5. QED
    BY <2>1, <2>2, <2>3, <2>4
<1>3. ASSUME NEW w \in Workers,
             \/ CommitResume(w) \/ SkipChunk(w) \/ FetchChunk(w)
             \/ FetchIncremental(w) \/ StageIncremental(w) \/ ReadBounds(w)
             \/ CommitFailure(w)
      PROVE  bars' = bars /\ raw' = raw
  BY <1>3 DEF CommitResume, SkipChunk, FetchChunk, FetchIncremental,
              StageIncremental, ReadBounds, CommitFailure, db
<1>4. ASSUME NEW w \in Workers, Fault(w) PROVE bars' = bars /\ raw' = raw
  BY <1>4 DEF Fault, FetchFails, PipelineFails, TransactionFails, SyncRaises,
              Crash, db
<1>5. ASSUME NEW w \in Workers, CommitSuccess(w), job[w].kind # "incremental"
      PROVE  bars' = bars /\ raw' = raw
  BY <1>5 DEF CommitSuccess
<1>6. ASSUME NEW w \in Workers, Work(w)
      PROVE  \/ \E row \in RawRows : Archive!Ingest(row)
             \/ bars' = bars /\ raw' = raw
  BY <1>1, <1>3, <1>5, <1>6, CommitChunkIngests, CommitSuccessIngests DEF Work
<1>7. ASSUME NEW type \in Kinds, Trigger(type) PROVE bars' = bars /\ raw' = raw
  BY <1>7 DEF Trigger
<1>8. ASSUME Tick \/ Rest \/ UNCHANGED vars PROVE bars' = bars /\ raw' = raw
  BY <1>8 DEF Tick, Rest, vars, db
<1>9. QED
  BY <1>2, <1>4, <1>6, <1>7, <1>8 DEF Next

\* Ingestion implements BarArchive: no interleaving, crash or lost update makes
\* a raw row durable without its bars, or changes a bar that is stored.
THEOREM IngestionImplementsArchive == Spec => ImplementsArchive
<1>1. Init => Archive!Init
  BY DEF Init, Archive!Init, Archive!NoBars, NoBars
<1>2. ASSUME ArchiveInvariant, [Next]_vars
      PROVE  [Archive!Next]_<<bars, raw>>
  <2>1. CASE bars' = bars /\ raw' = raw
    BY <2>1
  <2>2. ASSUME NEW row \in RawRows, Archive!Ingest(row) PROVE Archive!Next
    <3>1. row \in raw'
      BY <2>2 DEF Archive!Ingest
    <3>2. QED
      BY <2>2, <3>1 DEF Archive!Next, Archive!RawRows, RawRows,
                       Archive!Batches, Batches, Archive!Time, Time,
                       Archive!Quotes, Quotes
  <2>3. QED
    BY <1>2, <2>1, <2>2, ArchiveStep
<1>3. Spec => []ArchiveInvariant
  BY ArchiveInvariantInit, ArchiveInvariantNext, PTL DEF Spec
<1>4. QED
  BY <1>1, <1>2, <1>3, PTL DEF Spec, ImplementsArchive, Archive!Spec,
                               Archive!archive

-----------------------------------------------------------------------------
\* What holds of every archive, proved along the same steps.
Traced == RawRowsStored /\ BarsTraceable

LEMMA IngestTraced ==
    ASSUME TypeOK, Traced, NEW row \in RawRows, Archive!Ingest(row)
    PROVE  Traced'
<1> DEFINE table == InsertMissing(bars[row.tf], row.payload)
<1>1. raw' = raw \cup {row} /\ bars' = [bars EXCEPT ![row.tf] = table]
  BY DEF Archive!Ingest, Archive!InsertMissing, InsertMissing
<1>2. /\ row.tf \in Timeframes /\ row.payload \in Batches
      /\ bars \in [Timeframes -> Batches] /\ bars[row.tf] \in Batches
      /\ raw \subseteq RawRows
  BY DEF RawRows, TypeOK
<1>3. /\ DOMAIN table = DOMAIN bars[row.tf] \cup DOMAIN row.payload
      /\ \A t \in DOMAIN bars[row.tf] : table[t] = bars[row.tf][t]
      /\ \A t \in DOMAIN row.payload \ DOMAIN bars[row.tf] :
            table[t] = row.payload[t]
  BY <1>2, InsertMissingFacts
<1> HIDE DEF table
<1>4. bars'[row.tf] = table
  BY <1>1, <1>2
<1>5. \A tf \in Timeframes \ {row.tf} : bars'[tf] = bars[tf]
  BY <1>1, <1>2
<1>6. ASSUME NEW r \in raw' PROVE DOMAIN r.payload \subseteq DOMAIN bars'[r.tf]
  <2>1. CASE r = row
    BY <1>3, <1>4, <2>1
  <2>2. CASE r \in raw
    <3>1. DOMAIN r.payload \subseteq DOMAIN bars[r.tf] /\ r.tf \in Timeframes
      BY <1>2, <2>2 DEF Traced, RawRowsStored, Archive!RawRowsStored, RawRows
    <3>2. CASE r.tf = row.tf
      BY <1>3, <1>4, <3>1, <3>2
    <3>3. CASE r.tf # row.tf
      BY <1>5, <3>1, <3>3
    <3>4. QED
      BY <3>2, <3>3
  <2>3. QED
    BY <1>1, <2>1, <2>2
<1>7. ASSUME NEW tf \in Timeframes, NEW t \in DOMAIN bars'[tf]
      PROVE  \E r \in raw' : /\ r.tf = tf /\ t \in DOMAIN r.payload
                            /\ r.payload[t] = bars'[tf][t]
  <2>1. CASE t \in DOMAIN bars[tf]
    <3>1. PICK r \in raw : /\ r.tf = tf /\ t \in DOMAIN r.payload
                           /\ r.payload[t] = bars[tf][t]
      BY <2>1 DEF Traced, BarsTraceable, Archive!BarsTraceable
    <3>2. bars'[tf][t] = bars[tf][t]
      BY <1>3, <1>4, <1>5, <2>1
    <3>3. QED
      BY <1>1, <3>1, <3>2
  <2>2. CASE t \notin DOMAIN bars[tf]
    <3>1. tf = row.tf
      BY <1>5, <2>2
    <3>2. t \in DOMAIN row.payload /\ bars'[tf][t] = row.payload[t]
      BY <1>3, <1>4, <2>2, <3>1
    <3>3. QED
      BY <1>1, <3>1, <3>2
  <2>3. QED
    BY <2>1, <2>2
<1>8. QED
  BY <1>6, <1>7 DEF Traced, RawRowsStored, Archive!RawRowsStored,
                    BarsTraceable, Archive!BarsTraceable

\* A resumed backfill that trusts a raw row finds its bars stored, and every
\* stored bar can be recomputed from the raw rows, in every reachable state.
THEOREM IngestionTraced == Spec => [](RawRowsStored /\ BarsTraceable)
<1> DEFINE Inv == ArchiveInvariant /\ Traced
<1>1. Init => Inv
  <2>1. ASSUME Init PROVE Traced
    <3>1. \A tf \in Timeframes : DOMAIN bars[tf] = {}
      BY <2>1, NoBarsType DEF Init
    <3>2. raw = {}
      BY <2>1 DEF Init
    <3>3. QED
      BY <3>1, <3>2 DEF Traced, RawRowsStored, Archive!RawRowsStored,
                        BarsTraceable, Archive!BarsTraceable
  <2>2. QED
    BY <2>1, ArchiveInvariantInit
<1>2. ASSUME Inv, [Next]_vars PROVE Inv'
  <2>1. ArchiveInvariant'
    BY <1>2, ArchiveInvariantNext
  <2>2. TypeOK /\ Traced
    BY <1>2 DEF ArchiveInvariant
  <2>3. ASSUME bars' = bars, raw' = raw PROVE Traced'
    BY <2>2, <2>3 DEF Traced, RawRowsStored, Archive!RawRowsStored,
                      BarsTraceable, Archive!BarsTraceable
  <2>4. Traced'
    BY <1>2, <2>2, <2>3, ArchiveStep, IngestTraced
  <2>5. QED
    BY <2>1, <2>4
<1>3. Inv => RawRowsStored /\ BarsTraceable
  BY DEF Traced
<1>4. QED
  BY <1>1, <1>2, <1>3, PTL DEF Spec
=============================================================================
