------------------------------ MODULE RunProofs -----------------------------
(***************************************************************************)
(* The rows of ingestion_runs: what they say of the outcome of a call, and *)
(* how their counters add up to the bars that are stored.  Then what rests *)
(* on them: the coverage of the symbol, and what a backfill that succeeds  *)
(* may have left out, which is only holes between bars it found stored.    *)
(*                                                                         *)
(* Where sessions may share a run, a counter can lose updates and a row    *)
(* can be rewritten after the run succeeded; what remains is that no bar   *)
(* is counted twice.  Where no live run is resumed, a call owns its row:   *)
(* the row is what its session loaded, and the outcome and the counters    *)
(* are exact.                                                              *)
(***************************************************************************)
EXTENDS IngestionProofs

-----------------------------------------------------------------------------
\* Counting stored bars.

StoredKeys ==
    {key \in Timeframes \X Time : key[2] \in DOMAIN bars[key[1]]}

\* A step that stores the bars `new` of one timeframe, and no other.
Gains(tf, new) ==
    /\ tf \in Timeframes /\ new \subseteq Time /\ IsFiniteSet(new)
    /\ new \cap DOMAIN bars[tf] = {}
    /\ DOMAIN bars'[tf] = DOMAIN bars[tf] \cup new
    /\ \A other \in Timeframes \ {tf} : DOMAIN bars'[other] = DOMAIN bars[other]

\* There are as many keys of a timeframe as there are timestamps.
LEMMA KeysOfTimeframe ==
    ASSUME NEW tf, NEW new, IsFiniteSet(new)
    PROVE  /\ IsFiniteSet({tf} \X new)
           /\ Cardinality({tf} \X new) = Cardinality(new)
<1> DEFINE f == [t \in new |-> <<tf, t>>]
<1>1. f \in Bijection(new, {tf} \X new)
  BY DEF Bijection, Injection, Surjection, IsInjective
<1>2. ExistsBijection(new, {tf} \X new)
  BY <1>1 DEF ExistsBijection
<1>3. QED
  BY <1>2, FS_Bijection

LEMMA GainsCount ==
    ASSUME IsFiniteSet(StoredKeys), NEW tf, NEW new, Gains(tf, new)
    PROVE  /\ IsFiniteSet(StoredKeys')
           /\ TotalStored' = TotalStored + Cardinality(new)
<1> DEFINE K == {tf} \X new
<1>1. IsFiniteSet(K) /\ Cardinality(K) = Cardinality(new)
  BY KeysOfTimeframe DEF Gains
<1>2. StoredKeys' = StoredKeys \cup K
  <2>1. ASSUME NEW k \in Timeframes, NEW t \in Time
        PROVE  <<k, t>> \in StoredKeys' <=> <<k, t>> \in StoredKeys \cup K
    <3>1. CASE k = tf
      BY <3>1 DEF StoredKeys, Gains
    <3>2. CASE k # tf
      BY <3>2 DEF StoredKeys, Gains
    <3>3. QED
      BY <3>1, <3>2
  <2>2. /\ StoredKeys' \subseteq Timeframes \X Time
        /\ StoredKeys \cup K \subseteq Timeframes \X Time
    BY DEF StoredKeys, Gains
  <2> HIDE DEF K
  <2>3. QED
    BY <2>1, <2>2
<1>3. StoredKeys \cap K = {}
  BY DEF StoredKeys, Gains
<1> HIDE DEF K
<1>4. Cardinality(StoredKeys \cap K) = 0
  BY <1>3, FS_EmptySet
<1>5. /\ Cardinality(StoredKeys) \in Nat /\ Cardinality(K) \in Nat
      /\ Cardinality(StoredKeys \cap K) = 0
      /\ IsFiniteSet(StoredKeys \cup K)
      /\ Cardinality(StoredKeys \cup K)
           = Cardinality(StoredKeys) + Cardinality(K)
             - Cardinality(StoredKeys \cap K)
  BY <1>1, <1>4, FS_Union, FS_CardinalityType
<1>6. TotalStored = Cardinality(StoredKeys)
      /\ TotalStored' = Cardinality(StoredKeys')
  BY DEF TotalStored, StoredKeys
<1>7. QED
  BY <1>1, <1>2, <1>5, <1>6

\* A step that stores nothing.
LEMMA NoGain ==
    ASSUME TypeOK, bars' = bars, NEW tf \in Timeframes
    PROVE  Gains(tf, {}) /\ Cardinality({}) = 0
BY FS_EmptySet DEF Gains

-----------------------------------------------------------------------------
\* What a call knows of its row.

\* A run that is over says so in all its columns.
RowConsistent(row) ==
    /\ row.finished <=> row.status \in {"succeeded", "failed"}
    /\ row.status = "failed" => row.error /\ row.failed > 0

\* The row of a run that one call owns is the row its session loaded, is not
\* that of a run that succeeded, and counts what the call counts.
HoldsRow(label, j, row) ==
    /\ row = j.seenRun
    /\ label = "resume" => row.status # "succeeded"
    /\ label # "resume" => row.status = "running"
    /\ label \in {"fail", "fsync"} => j.failed > 0
    /\ j.kind = "backfill" => j.inserted = row.inserted
    /\ j.kind = "incremental" => row.inserted = 0

\* A call is of one of the two kinds, and an incremental call has counted what
\* it has staged.
Counted ==
    \A w \in Workers : pc[w] # "idle" =>
        /\ job[w].kind \in {"backfill", "incremental"}
        /\ job[w].kind = "incremental"
              => job[w].inserted = Cardinality(job[w].staged)

\* The bars a call has made durable itself, as far as it knows.
Durable(w) == IF job[w].kind = "backfill" THEN job[w].inserted ELSE 0

\* One step of a worker that executes: it goes on with job j at a label, or
\* leaves, rewrites the row of its run and stores new bars.  What the row and
\* the job count is what was counted before and the new bars.
Steps(w, label, j, row, tf, new) ==
    LET i == job[w].run IN
    /\ Goto(w, label, j)
    /\ row \in RunRows /\ runs' = [runs EXCEPT ![i] = row]
    /\ Gains(tf, new)
    /\ label # "idle" =>
          /\ j.run = i /\ j.kind = job[w].kind
          /\ j.kind = "incremental" => j.inserted = Cardinality(j.staged)
          /\ j.kind = "backfill" => j.inserted = Durable(w) + Cardinality(new)
    /\ row.inserted \in {runs[i].inserted, Durable(w) + Cardinality(new)}
    /\ HoldsRow(pc[w], job[w], runs[i]) =>
          /\ label # "idle" => HoldsRow(label, j, row)
          /\ row.inserted = runs[i].inserted + Cardinality(new)
          /\ RowConsistent(runs[i]) => RowConsistent(row)

RunInvariant == ArchiveInvariant /\ Counted

\* An UPDATE leaves a column as it is or writes the value of the session, and
\* the whole object where the row is still what was loaded.
LEMMA FlushFacts ==
    ASSUME NEW row \in RunRows, NEW loaded \in RunRows, NEW object \in RunRows
    PROVE  /\ Flush(row, loaded, object) \in RunRows
           /\ Flush(row, loaded, object).inserted
                 \in {row.inserted, object.inserted}
           /\ object.inserted = loaded.inserted
                 => Flush(row, loaded, object).inserted = row.inserted
           /\ row = loaded => Flush(row, loaded, object) = object
<1>1. /\ DOMAIN row = DOMAIN object
      /\ object = [f \in DOMAIN object |-> object[f]]
      /\ "inserted" \in DOMAIN row
  BY DEF RunRows
<1>2. row = loaded => Flush(row, loaded, object) = object
  BY <1>1 DEF Flush
<1>3. QED
  BY <1>1, <1>2, FlushRun DEF Flush

\* What is known of a worker that executes, and of its run.
LEMMA RunFacts ==
    ASSUME RunInvariant, NEW w \in Workers, pc[w] # "idle"
    PROVE  /\ job[w] \in Jobs /\ job[w].run \in RunIds
           /\ runs[job[w].run] \in RunRows /\ job[w].seenRun \in RunRows
           /\ job[w].tf \in Timeframes /\ Durable(w) \in Nat
           /\ job[w].kind \in {"backfill", "incremental"}
           /\ job[w].kind = "incremental"
                 => job[w].inserted = Cardinality(job[w].staged)
           /\ pc[w] \notin {"sync", "close"} => job[w].staged = {}
           /\ job[w].staged # {} => job[w].kind = "incremental"
           /\ pc[w] \in {"resume", "loop"} => job[w].kind = "backfill"
BY JobFacts, RunRowType
DEF RunInvariant, ArchiveInvariant, KindsFit, Counted, Jobs, Durable

\* A step that leaves the tables alone.
LEMMA LocalSteps ==
    ASSUME RunInvariant, NEW w \in Workers, pc[w] # "idle",
           NEW label, NEW j, Goto(w, label, j), UNCHANGED <<now, db>>,
           label # "idle" =>
              /\ j.run = job[w].run /\ j.kind = job[w].kind
              /\ j.seenRun = job[w].seenRun
              /\ j.kind = "incremental" => j.inserted = Cardinality(j.staged)
              /\ j.kind = "backfill" => j.inserted = job[w].inserted
              /\ pc[w] # "resume" /\ label # "resume"
              /\ pc[w] = "fsync" => label = "fail" /\ j.failed = job[w].failed
              /\ label \in {"fail", "fsync"} /\ pc[w] # "fsync"
                    => j.failed > 0
    PROVE  Steps(w, label, j, runs[job[w].run], job[w].tf, {})
<1> DEFINE i == job[w].run
           row == runs[i]
<1>1. /\ job[w] \in Jobs /\ i \in RunIds /\ row \in RunRows
      /\ job[w].tf \in Timeframes /\ Durable(w) \in Nat
  BY RunFacts
<1>2. bars' = bars /\ runs' = [runs EXCEPT ![i] = row]
  <2>1. runs \in Seq(RunRows)
    BY DEF RunInvariant, ArchiveInvariant, TypeOK
  <2>2. QED
    BY <1>1, <2>1 DEF db, RunIds
<1>3. Gains(job[w].tf, {}) /\ Cardinality({}) = 0
  BY <1>1, <1>2, NoGain DEF RunInvariant, ArchiveInvariant
<1>4. j.kind = "backfill" /\ label # "idle" => j.inserted = Durable(w) + 0
  BY <1>1 DEF Durable
<1>5. row.inserted \in Nat
  BY <1>1 DEF RunRows
<1>6. HoldsRow(pc[w], job[w], row) /\ label # "idle" => HoldsRow(label, j, row)
  <2>1. ASSUME HoldsRow(pc[w], job[w], row), label # "idle"
        PROVE  HoldsRow(label, j, row)
    <3>1. label \in {"fail", "fsync"} => j.failed > 0
      BY <2>1 DEF HoldsRow
    <3>2. QED
      BY <2>1, <3>1 DEF HoldsRow
  <2>2. QED
    BY <2>1
<1> HIDE DEF row
<1>7. QED
  BY <1>1, <1>2, <1>3, <1>4, <1>5, <1>6 DEF Steps, row

LEMMA CommitResumeSteps ==
    ASSUME RunInvariant, NEW w \in Workers, CommitResume(w)
    PROVE  \E label, j, row, tf, new : Steps(w, label, j, row, tf, new)
<1> DEFINE j == job[w]
           object == [j.seenRun EXCEPT !.status = "running", !.error = FALSE,
                                       !.finished = FALSE]
           row == Flush(runs[j.run], j.seenRun, object)
           next == [j EXCEPT !.seenRun = row]
           label == LoopHead(j)
<1>1. /\ pc[w] = "resume" /\ runs' = [runs EXCEPT ![j.run] = row]
      /\ Goto(w, label, next) /\ bars' = bars
  BY DEF CommitResume
<1>2. /\ j \in Jobs /\ runs[j.run] \in RunRows /\ j.seenRun \in RunRows
      /\ j.tf \in Timeframes /\ j.kind = "backfill" /\ Durable(w) = j.inserted
      /\ j.inserted \in Nat
  BY <1>1, RunFacts DEF Durable, Jobs
<1>3. /\ object \in RunRows /\ object.inserted = j.seenRun.inserted
      /\ object.status = "running" /\ ~object.finished
  BY <1>2 DEF RunRows, Statuses
<1> HIDE DEF object
<1>4. /\ row \in RunRows /\ row.inserted = runs[j.run].inserted
      /\ runs[j.run] = j.seenRun => row = object
  BY <1>2, <1>3, FlushFacts
<1>5. Gains(j.tf, {}) /\ Cardinality({}) = 0
  BY <1>1, <1>2, NoGain DEF RunInvariant, ArchiveInvariant
<1> HIDE DEF row
<1>6. /\ next.run = j.run /\ next.kind = j.kind /\ next.inserted = j.inserted
      /\ next.seenRun = row
  BY <1>2 DEF Jobs
<1>7. label \in {"sync", "close", "loop"}
  BY LoopHeadType
<1> HIDE DEF next, label
<1>8. row.inserted \in Nat
  BY <1>4 DEF RunRows
<1>9. ASSUME HoldsRow(pc[w], j, runs[j.run])
      PROVE  HoldsRow(label, next, row) /\ RowConsistent(row)
  <2>1. row.status = "running" /\ ~row.finished /\ next.inserted = row.inserted
    BY <1>2, <1>3, <1>4, <1>6, <1>9 DEF HoldsRow
  <2>2. QED
    BY <1>2, <1>6, <1>7, <2>1 DEF HoldsRow, RowConsistent
<1>10. Steps(w, label, next, row, j.tf, {})
  BY <1>1, <1>2, <1>4, <1>5, <1>6, <1>8, <1>9 DEF Steps
<1>11. QED
  BY <1>10

\* A commit of a backfill stores the bars that were missing, one of an
\* incremental call those that it had staged.
LEMMA CommitChunkGains ==
    ASSUME RunInvariant, NEW w \in Workers, CommitChunk(w)
    PROVE  Gains(job[w].tf, Missing(job[w]))
<1> DEFINE j == job[w]
           new == Missing(j)
<1>1. /\ pc[w] = "ingest"
      /\ bars' = [bars EXCEPT ![j.tf] = InsertMissing(bars[j.tf], j.batch)]
  BY DEF CommitChunk
<1>2. /\ j.tf \in Timeframes /\ j.batch \in Batches /\ bars[j.tf] \in Batches
      /\ bars \in [Timeframes -> Batches]
  BY <1>1, RunFacts DEF Jobs, RunInvariant, ArchiveInvariant, TypeOK
<1>3. DOMAIN j.batch \subseteq Time /\ IsFiniteSet(DOMAIN j.batch)
  BY <1>2, BatchType
<1>4. DOMAIN InsertMissing(bars[j.tf], j.batch)
        = DOMAIN bars[j.tf] \cup DOMAIN j.batch
  BY <1>2, InsertMissingFacts
<1> HIDE DEF j
<1>5. /\ DOMAIN bars'[j.tf] = DOMAIN bars[j.tf] \cup new
      /\ \A other \in Timeframes \ {j.tf} : bars'[other] = bars[other]
  BY <1>1, <1>2, <1>4 DEF Missing
<1>6. new \subseteq DOMAIN j.batch /\ new \cap DOMAIN bars[j.tf] = {}
  BY DEF Missing
<1>7. IsFiniteSet(new)
  BY <1>3, <1>6, FS_Subset
<1> HIDE DEF new
<1>8. Gains(j.tf, new)
  BY <1>2, <1>3, <1>5, <1>6, <1>7 DEF Gains
<1>9. QED
  BY <1>8 DEF j, new

LEMMA CommitSuccessGains ==
    ASSUME RunInvariant, NEW w \in Workers, CommitSuccess(w)
    PROVE  Gains(job[w].tf, job[w].staged)
<1> DEFINE j == job[w]
           new == j.staged
           table == [t \in DOMAIN bars[j.tf] \cup j.staged |->
                       IF t \in j.staged THEN j.batch[t] ELSE bars[j.tf][t]]
<1>1. /\ pc[w] = "close"
      /\ bars' = IF j.kind = "incremental" THEN [bars EXCEPT ![j.tf] = table]
                 ELSE bars
  BY DEF CommitSuccess
<1>2. /\ j.tf \in Timeframes /\ j.kind \in {"backfill", "incremental"}
      /\ new # {} => j.kind = "incremental"
      /\ bars \in [Timeframes -> Batches]
  BY <1>1, RunFacts DEF RunInvariant, ArchiveInvariant, TypeOK
<1>3. /\ new \subseteq Time /\ IsFiniteSet(new)
      /\ new \cap DOMAIN bars[j.tf] = {}
  <2>1. j.batch \in Batches /\ j.staged \subseteq DOMAIN j.batch
    BY JobFacts DEF RunInvariant, ArchiveInvariant, Jobs
  <2>2. QED
    BY <2>1, BatchType, FS_Subset
    DEF RunInvariant, ArchiveInvariant, StagedExclusive
<1>4. CASE j.kind = "incremental"
  <2>1. bars' = [bars EXCEPT ![j.tf] = table]
    BY <1>1, <1>4
  <2>2. DOMAIN table = DOMAIN bars[j.tf] \cup new
    OBVIOUS
  <2> HIDE DEF table, new, j
  <2>3. Gains(j.tf, new)
    BY <1>2, <1>3, <2>1, <2>2 DEF Gains
  <2>4. QED
    BY <2>3 DEF j, new
<1>5. CASE j.kind = "backfill"
  BY <1>1, <1>2, <1>5, NoGain DEF RunInvariant, ArchiveInvariant
<1>6. QED
  BY <1>2, <1>4, <1>5

LEMMA CommitChunkSteps ==
    ASSUME RunInvariant, NEW w \in Workers, CommitChunk(w)
    PROVE  \E label, j, row, tf, new : Steps(w, label, j, row, tf, new)
<1> DEFINE j == job[w]
           new == Missing(j)
           fetched == j.fetched + Cardinality(DOMAIN j.batch)
           inserted == j.inserted + Cardinality(new)
           object == [j.seenRun EXCEPT !.fetched = fetched,
                                       !.inserted = inserted]
           row == Flush(runs[j.run], j.seenRun, object)
           next == [Advance(j) EXCEPT !.fetched = fetched,
                      !.inserted = inserted, !.seenRun = row, !.batch = NoBars]
           label == LoopHead(next)
<1>1. /\ pc[w] = "ingest" /\ j.kind = "backfill"
      /\ bars' = [bars EXCEPT ![j.tf] = InsertMissing(bars[j.tf], j.batch)]
      /\ runs' = [runs EXCEPT ![j.run] = row]
      /\ Goto(w, label, next)
  BY DEF CommitChunk
<1>2. /\ j \in Jobs /\ runs[j.run] \in RunRows /\ j.seenRun \in RunRows
      /\ j.tf \in Timeframes /\ Durable(w) = j.inserted
      /\ j.inserted \in Nat /\ j.fetched \in Nat
      /\ j.batch \in Batches /\ bars[j.tf] \in Batches
      /\ bars \in [Timeframes -> Batches]
  BY <1>1, RunFacts DEF Durable, Jobs, RunInvariant, ArchiveInvariant, TypeOK
<1>3. /\ DOMAIN j.batch \subseteq Time /\ IsFiniteSet(DOMAIN j.batch)
      /\ Cardinality(DOMAIN j.batch) \in Nat /\ Cardinality(new) \in Nat
  BY <1>2, BatchType, BatchSize DEF Missing
<1>4. Gains(j.tf, new)
  BY CommitChunkGains
<1> HIDE DEF new
<1>5. fetched \in Nat /\ inserted \in Nat /\ inserted = Durable(w) + Cardinality(new)
  BY <1>2, <1>3
<1> HIDE DEF fetched, inserted
<1>6. /\ object \in RunRows /\ object.inserted = inserted
      /\ object.status = j.seenRun.status /\ object.finished = j.seenRun.finished
      /\ object.error = j.seenRun.error /\ object.failed = j.seenRun.failed
  BY <1>2, <1>5 DEF RunRows
<1> HIDE DEF object
<1>7. /\ row \in RunRows
      /\ row.inserted \in {runs[j.run].inserted, inserted}
      /\ runs[j.run] = j.seenRun => row = object
  BY <1>2, <1>6, FlushFacts
<1> HIDE DEF row
<1>8. /\ next.run = j.run /\ next.kind = j.kind /\ next.inserted = inserted
      /\ next.seenRun = row
  BY <1>2 DEF Jobs, Advance
<1>9. label \in {"sync", "close", "loop"}
  BY LoopHeadType
<1> HIDE DEF next, label
<1>10. ASSUME HoldsRow(pc[w], j, runs[j.run])
       PROVE  /\ HoldsRow(label, next, row)
              /\ row.inserted = runs[j.run].inserted + Cardinality(new)
              /\ RowConsistent(runs[j.run]) => RowConsistent(row)
  <2>1. /\ row = object /\ runs[j.run] = j.seenRun
        /\ j.seenRun.status = "running" /\ j.inserted = runs[j.run].inserted
    BY <1>1, <1>7, <1>10 DEF HoldsRow
  <2>2. QED
    BY <1>1, <1>2, <1>5, <1>6, <1>8, <1>9, <2>1 DEF HoldsRow, RowConsistent
<1>11. Steps(w, label, next, row, j.tf, new)
  BY <1>1, <1>4, <1>5, <1>7, <1>8, <1>10 DEF Steps
<1>12. QED
  BY <1>11

\* The two commits that end a call.
LEMMA CommitSuccessSteps ==
    ASSUME RunInvariant, NEW w \in Workers, CommitSuccess(w)
    PROVE  \E label, j, row, tf, new : Steps(w, label, j, row, tf, new)
<1> DEFINE j == job[w]
           new == j.staged
           object == [j.seenRun EXCEPT
                        !.status = "succeeded", !.finished = TRUE,
                        !.fetched = j.fetched, !.inserted = j.inserted,
                        !.failed = j.failed]
           row == Flush(runs[j.run], j.seenRun, object)
<1>1. /\ pc[w] = "close" /\ Goto(w, "idle", NoJob)
      /\ runs' = [runs EXCEPT ![j.run] = row]
  BY DEF CommitSuccess, Leave
<1>2. /\ j \in Jobs /\ runs[j.run] \in RunRows /\ j.seenRun \in RunRows
      /\ j.tf \in Timeframes /\ j.kind \in {"backfill", "incremental"}
      /\ j.kind = "incremental" => j.inserted = Cardinality(new)
      /\ new # {} => j.kind = "incremental"
      /\ j.inserted \in Nat /\ j.fetched \in Nat /\ j.failed \in Nat
  BY <1>1, RunFacts DEF Jobs
<1>3. Gains(j.tf, new) /\ IsFiniteSet(new)
  BY CommitSuccessGains DEF Gains
<1>4. /\ Durable(w) + Cardinality(new) = j.inserted
      /\ j.kind = "backfill" => Cardinality(new) = 0
      /\ Cardinality(new) \in Nat
  BY <1>2, <1>3, FS_EmptySet, FS_CardinalityType DEF Durable
<1> HIDE DEF new
<1>5. /\ object \in RunRows /\ object.inserted = j.inserted
      /\ object.status = "succeeded" /\ object.finished
  BY <1>2 DEF RunRows, Statuses
<1> HIDE DEF object
<1>6. /\ row \in RunRows
      /\ row.inserted \in {runs[j.run].inserted, j.inserted}
      /\ runs[j.run] = j.seenRun => row = object
  BY <1>2, <1>5, FlushFacts
<1> HIDE DEF row
<1>7. ASSUME HoldsRow(pc[w], j, runs[j.run])
      PROVE  /\ row.inserted = runs[j.run].inserted + Cardinality(new)
             /\ RowConsistent(row)
  <2>1. row = object
    BY <1>6, <1>7 DEF HoldsRow
  <2>2. runs[j.run].inserted + Cardinality(new) = j.inserted
    BY <1>2, <1>4, <1>7 DEF HoldsRow
  <2>3. QED
    BY <1>5, <2>1, <2>2 DEF RowConsistent
<1>8. Steps(w, "idle", NoJob, row, j.tf, new)
  BY <1>1, <1>3, <1>4, <1>6, <1>7 DEF Steps
<1>9. QED
  BY <1>8

LEMMA CommitFailureSteps ==
    ASSUME RunInvariant, NEW w \in Workers, CommitFailure(w)
    PROVE  \E label, j, row, tf, new : Steps(w, label, j, row, tf, new)
<1> DEFINE j == job[w]
           object == [j.seenRun EXCEPT
                        !.status = "failed", !.finished = TRUE,
                        !.error = TRUE, !.fetched = j.fetched,
                        !.inserted = j.inserted, !.failed = j.failed]
           row == Flush(runs[j.run], j.seenRun, object)
<1>1. /\ pc[w] = "fail" /\ Goto(w, "idle", NoJob)
      /\ runs' = [runs EXCEPT ![j.run] = row] /\ bars' = bars
  BY DEF CommitFailure, Leave
<1>2. /\ j \in Jobs /\ runs[j.run] \in RunRows /\ j.seenRun \in RunRows
      /\ j.tf \in Timeframes /\ j.kind \in {"backfill", "incremental"}
      /\ j.kind = "incremental" => j.inserted = Cardinality(j.staged)
      /\ j.staged = {}
      /\ j.inserted \in Nat /\ j.fetched \in Nat /\ j.failed \in Nat
  BY <1>1, RunFacts DEF Jobs
<1>3. Gains(j.tf, {}) /\ Cardinality({}) = 0
  BY <1>1, <1>2, NoGain DEF RunInvariant, ArchiveInvariant
<1>4. Durable(w) + Cardinality({}) = j.inserted
  BY <1>2, <1>3 DEF Durable
<1>5. /\ object \in RunRows /\ object.inserted = j.inserted
      /\ object.status = "failed" /\ object.finished
      /\ object.error /\ object.failed = j.failed
  BY <1>2 DEF RunRows, Statuses
<1> HIDE DEF object
<1>6. /\ row \in RunRows
      /\ row.inserted \in {runs[j.run].inserted, j.inserted}
      /\ runs[j.run] = j.seenRun => row = object
  BY <1>2, <1>5, FlushFacts
<1> HIDE DEF row
<1>7. ASSUME HoldsRow(pc[w], j, runs[j.run])
      PROVE  /\ row.inserted = runs[j.run].inserted + Cardinality({})
             /\ RowConsistent(row)
  <2>1. row = object /\ j.failed > 0
    BY <1>1, <1>6, <1>7 DEF HoldsRow
  <2>2. runs[j.run].inserted + Cardinality({}) = j.inserted
    BY <1>2, <1>3, <1>7 DEF HoldsRow
  <2>3. QED
    BY <1>5, <2>1, <2>2 DEF RowConsistent
<1>8. Steps(w, "idle", NoJob, row, j.tf, {})
  BY <1>1, <1>3, <1>4, <1>6, <1>7 DEF Steps
<1>9. QED
  BY <1>8

\* The other steps touch no row.
LEMMA MoveSteps ==
    ASSUME RunInvariant, NEW w \in Workers,
           \/ SkipChunk(w) \/ FetchChunk(w) \/ FetchIncremental(w)
           \/ StageIncremental(w) \/ ReadBounds(w)
    PROVE  \E label, j, row, tf, new : Steps(w, label, j, row, tf, new)
<1> DEFINE j == job[w]
<1>1. pc[w] \in {"loop", "fetch", "ingest", "sync", "fsync"}
      /\ UNCHANGED <<now, db>>
  BY DEF SkipChunk, FetchChunk, FetchIncremental, StageIncremental, ReadBounds
<1>2. /\ j \in Jobs /\ j.kind \in {"backfill", "incremental"}
      /\ j.kind = "incremental" => j.inserted = Cardinality(j.staged)
      /\ pc[w] \notin {"sync", "close"} => j.staged = {}
      /\ pc[w] \in {"resume", "loop"} => j.kind = "backfill"
  BY <1>1, RunFacts
<1>3. ASSUME NEW label, NEW next, Goto(w, label, next),
             label \notin {"idle", "resume", "fsync"}, label = "fail" => pc[w] = "fsync",
             pc[w] = "fsync" => label = "fail" /\ next.failed = j.failed,
             next.run = j.run, next.kind = j.kind, next.seenRun = j.seenRun,
             next.kind = "incremental" => next.inserted = Cardinality(next.staged),
             next.kind = "backfill" => next.inserted = j.inserted
      PROVE  \E l, k, row, tf, new : Steps(w, l, k, row, tf, new)
  <2>1. Steps(w, label, next, runs[j.run], j.tf, {})
    BY <1>1, <1>3, LocalSteps
  <2>2. QED
    BY <2>1
<1>4. CASE SkipChunk(w)
  <2>1. Goto(w, LoopHead(Advance(j)), Advance(j)) /\ pc[w] = "loop"
    BY <1>4 DEF SkipChunk
  <2>2. /\ Advance(j).run = j.run /\ Advance(j).kind = j.kind
        /\ Advance(j).seenRun = j.seenRun /\ Advance(j).inserted = j.inserted
    BY <1>2 DEF Advance, Jobs
  <2>3. LoopHead(Advance(j)) \in {"sync", "close", "loop"}
    BY LoopHeadType
  <2> HIDE DEF j
  <2>4. QED
    BY <1>2, <1>3, <2>1, <2>2, <2>3 DEF j
<1>5. CASE FetchChunk(w)
  <2> DEFINE b == Response(j.tf, j.cursor, ChunkEnd(j))
             next == [j EXCEPT !.batch = b]
  <2>1. Goto(w, "ingest", next) /\ pc[w] = "loop"
    BY <1>5 DEF FetchChunk
  <2>2. /\ next.run = j.run /\ next.kind = j.kind /\ next.staged = j.staged
        /\ next.seenRun = j.seenRun /\ next.inserted = j.inserted
    BY <1>2 DEF Jobs
  <2> HIDE DEF next
  <2>3. QED
    BY <1>2, <1>3, <2>1, <2>2
<1>6. CASE FetchIncremental(w)
  <2> DEFINE b == Response(j.tf, j.start, j.end)
             next == [j EXCEPT !.batch = b, !.fetched = Cardinality(DOMAIN b)]
  <2>1. Goto(w, "ingest", next) /\ pc[w] = "fetch"
    BY <1>6 DEF FetchIncremental
  <2>2. /\ next.run = j.run /\ next.kind = j.kind /\ next.staged = j.staged
        /\ next.seenRun = j.seenRun /\ next.inserted = j.inserted
    BY <1>2 DEF Jobs
  <2> HIDE DEF next
  <2>3. QED
    BY <1>2, <1>3, <2>1, <2>2
<1>7. CASE StageIncremental(w)
  <2> DEFINE next == [j EXCEPT !.staged = Missing(j),
                               !.inserted = Cardinality(Missing(j))]
  <2>1. /\ Goto(w, SuccessTail(next), next) /\ pc[w] = "ingest"
        /\ j.kind = "incremental"
    BY <1>7 DEF StageIncremental
  <2>2. /\ next.run = j.run /\ next.kind = j.kind
        /\ next.seenRun = j.seenRun
        /\ next.inserted = Cardinality(next.staged)
    BY <1>2 DEF Jobs
  <2>3. SuccessTail(next) \in {"sync", "close"}
    BY DEF SuccessTail
  <2> HIDE DEF next
  <2>4. QED
    BY <1>3, <2>1, <2>2, <2>3
<1>8. CASE ReadBounds(w)
  <2> DEFINE b == BoundsOf(Stored \cup j.staged)
             next == [j EXCEPT !.bounds = b, !.synced = TRUE]
  <2>1. \/ pc[w] = "sync" /\ Goto(w, "close", next)
        \/ pc[w] = "fsync" /\ Goto(w, "fail", next)
    BY <1>8 DEF ReadBounds
  <2>2. /\ next.run = j.run /\ next.kind = j.kind /\ next.staged = j.staged
        /\ next.seenRun = j.seenRun /\ next.inserted = j.inserted
        /\ next.failed = j.failed
    BY <1>2 DEF Jobs
  <2> HIDE DEF next
  <2>3. CASE pc[w] = "sync" /\ Goto(w, "close", next)
    BY <1>2, <1>3, <2>2, <2>3
  <2>4. CASE pc[w] = "fsync" /\ Goto(w, "fail", next)
    BY <1>2, <1>3, <2>2, <2>4
  <2>5. QED
    BY <2>1, <2>3, <2>4
<1>9. QED
  BY <1>4, <1>5, <1>6, <1>7, <1>8

LEMMA FaultSteps ==
    ASSUME RunInvariant, NEW w \in Workers, Fault(w)
    PROVE  \E label, j, row, tf, new : Steps(w, label, j, row, tf, new)
<1> DEFINE j == job[w]
<1>1. pc[w] # "idle" /\ UNCHANGED <<now, db>>
  BY DEF Fault, FetchFails, PipelineFails, TransactionFails, SyncRaises, Crash
<1>2. /\ j \in Jobs /\ j.kind \in {"backfill", "incremental"}
      /\ j.kind = "incremental" => j.inserted = Cardinality(j.staged)
      /\ pc[w] \notin {"sync", "close"} => j.staged = {}
  BY <1>1, RunFacts
<1>3. ASSUME Handle(w), pc[w] \in {"fetch", "loop", "ingest"}
      PROVE  \E l, k, row, tf, new : Steps(w, l, k, row, tf, new)
  <2> DEFINE count == j.failed + 1
             next == [j EXCEPT !.failed = count, !.batch = NoBars]
  <2>1. PICK label \in {"fsync", "fail"} : Goto(w, label, next)
    BY <1>3 DEF Handle
  <2>2. count > 0
    BY <1>2 DEF Jobs
  <2> HIDE DEF count
  <2>3. /\ next.run = j.run /\ next.kind = j.kind /\ next.staged = j.staged
        /\ next.seenRun = j.seenRun /\ next.inserted = j.inserted
        /\ next.failed > 0
    BY <1>2, <2>2 DEF Jobs
  <2> HIDE DEF next
  <2>4. Steps(w, label, next, runs[j.run], j.tf, {})
    BY <1>1, <1>2, <1>3, <2>1, <2>3, LocalSteps
  <2>5. QED
    BY <2>4
<1>4. ASSUME Leave(w)
      PROVE  \E l, k, row, tf, new : Steps(w, l, k, row, tf, new)
  <2>1. Steps(w, "idle", NoJob, runs[j.run], j.tf, {})
    BY <1>1, <1>4, LocalSteps DEF Leave
  <2>2. QED
    BY <2>1
<1>5. CASE FetchFails(w)
  BY <1>3, <1>5 DEF FetchFails
<1>6. CASE PipelineFails(w)
  BY <1>3, <1>6 DEF PipelineFails
<1>7. CASE TransactionFails(w) \/ Crash(w)
  BY <1>4, <1>7 DEF TransactionFails, Crash
<1>8. CASE SyncRaises(w)
  <2>1. pc[w] = "fsync" /\ Goto(w, "fail", j)
    BY <1>8 DEF SyncRaises
  <2>2. Steps(w, "fail", j, runs[j.run], j.tf, {})
    BY <1>1, <1>2, <2>1, LocalSteps
  <2>3. QED
    BY <2>2
<1>9. QED
  BY <1>5, <1>6, <1>7, <1>8 DEF Fault

\* Every step of a call that executes.
LEMMA WorkerSteps ==
    ASSUME RunInvariant, NEW w \in Workers, Work(w) \/ Fault(w)
    PROVE  /\ pc[w] # "idle"
           /\ \E label, j, row, tf, new : Steps(w, label, j, row, tf, new)
<1>1. pc[w] # "idle"
  BY DEF Work, Fault, CommitResume, SkipChunk, FetchChunk, CommitChunk,
         FetchIncremental, StageIncremental, ReadBounds, CommitSuccess,
         CommitFailure, FetchFails, PipelineFails, TransactionFails,
         SyncRaises, Crash
<1>2. QED
  BY <1>1, CommitResumeSteps, CommitChunkSteps, CommitSuccessSteps,
     CommitFailureSteps, MoveSteps, FaultSteps DEF Work

-----------------------------------------------------------------------------
\* The steps that begin a run or a call.

\* A row is added; a worker that starts with it has counted nothing yet.
Appends(row) ==
    /\ runs' = Append(runs, row) /\ row \in RunRows
    /\ row.inserted = 0 /\ RowConsistent(row) /\ bars' = bars
    /\ \/ UNCHANGED <<pc, job>>
       \/ \E w \in Workers, label \in Labels, j \in Jobs :
             /\ pc[w] = "idle" /\ Goto(w, label, j)
             /\ label \notin {"resume", "fail", "fsync"}
             /\ j.run = Len(runs) + 1
             /\ j.kind \in {"backfill", "incremental"} /\ j.inserted = 0
             /\ j.seenRun = row /\ row.status = "running" /\ j.staged = {}

\* A worker loads the row of a run and will mark it.
Resumes(w, i, j) ==
    /\ UNCHANGED <<now, db>> /\ pc[w] = "idle" /\ Goto(w, "resume", j)
    /\ i \in RunIds /\ j \in Jobs /\ j.run = i /\ j.kind = "backfill"
    /\ j.seenRun = runs[i] /\ j.inserted = runs[i].inserted
    /\ runs[i].status # "succeeded"
    /\ SharedResume \/ \A v \in Workers : job[v].run # i

LEMMA RunningFacts ==
    ASSUME TypeOK, NEW type \in {"backfill", "incremental"},
           NEW row, row = [NewRun(type) EXCEPT !.status = "running"]
    PROVE  /\ row \in RunRows /\ row.inserted = 0 /\ RowConsistent(row)
           /\ row.status = "running"
<1>1. NewRun(type) \in RunRows
  BY NewRunType DEF TypeOK
<1>2. QED
  BY <1>1 DEF NewRun, RunRows, Statuses, RowConsistent

LEMMA CallSteps ==
    ASSUME TypeOK, NEW w \in Workers, Call(w)
    PROVE  \/ \E row : Appends(row)
           \/ \E i, j : Resumes(w, i, j)
<1>0. NoJob \in Jobs /\ NoJob.staged = {} /\ NoJob.inserted = 0
      /\ cov \in Bounds /\ Len(runs) + 1 \in Nat
  BY NoJobType DEF NoJob, TypeOK
<1>1. PICK tf \in Timeframes :
         \/ \E range \in Ranges :
               \/ StartBackfill(w, tf, range)
               \/ \E i \in RunIds : BeginResume(w, i, tf, range)
         \/ StartIncremental(w, tf)
         \/ AlreadyCurrent(w, tf)
  BY DEF Call
<1>2. BoundsOf(DOMAIN bars[tf]) \in Bounds
  BY BatchType, BoundsOfType DEF TypeOK
<1>3. ASSUME NEW range \in Ranges, StartBackfill(w, tf, range)
      PROVE  \E row : Appends(row)
  <2> DEFINE row == [NewRun("backfill") EXCEPT !.status = "running"]
             j == [NoJob EXCEPT !.kind = "backfill", !.tf = tf,
                     !.start = range[1], !.end = range[2], !.cursor = range[1],
                     !.run = Len(runs) + 1,
                     !.existing = BoundsOf(DOMAIN bars[tf]),
                     !.seenRun = row, !.seenCov = cov]
             label == LoopHead(j)
  <2>1. /\ pc[w] = "idle" /\ runs' = Append(runs, row)
        /\ Goto(w, label, j) /\ bars' = bars
    BY <1>3 DEF StartBackfill
  <2>2. /\ row \in RunRows /\ row.inserted = 0 /\ RowConsistent(row)
        /\ row.status = "running"
    BY RunningFacts
  <2> HIDE DEF row
  <2>3. range[1] \in Int /\ range[2] \in Int
    BY IngestionAssumption DEF Time
  <2>4. /\ j \in Jobs /\ j.run = Len(runs) + 1 /\ j.kind = "backfill"
        /\ j.inserted = 0 /\ j.seenRun = row /\ j.staged = {}
    BY <1>0, <1>2, <2>2, <2>3 DEF Jobs
  <2>5. label \in {"sync", "close", "loop"}
    BY LoopHeadType
  <2>6. label \in Labels
    BY <2>5 DEF Labels
  <2> HIDE DEF j, label
  <2>7. Appends(row)
    BY <2>1, <2>2, <2>4, <2>5, <2>6 DEF Appends
  <2>8. QED
    BY <2>7
<1>4. ASSUME NEW range \in Ranges, NEW i \in RunIds, BeginResume(w, i, tf, range)
      PROVE  \E k, j : Resumes(w, k, j)
  <2> DEFINE keys == AlreadyProcessed(i)
             j == [NoJob EXCEPT !.kind = "backfill", !.tf = tf,
                     !.start = range[1], !.end = range[2], !.cursor = range[1],
                     !.run = i,
                     !.existing = BoundsOf(DOMAIN bars[tf]),
                     !.processed = keys,
                     !.fetched = runs[i].fetched, !.inserted = runs[i].inserted,
                     !.failed = runs[i].failed,
                     !.seenRun = runs[i], !.seenCov = cov]
  <2>1. /\ pc[w] = "idle" /\ Goto(w, "resume", j) /\ UNCHANGED <<now, db>>
        /\ runs[i].status # "succeeded"
        /\ SharedResume \/ \A v \in Workers : job[v].run # i
    BY <1>4 DEF BeginResume, Resumable
  <2>2. runs[i] \in RunRows /\ i \in Nat
    BY RunRowType DEF RunIds
  <2>3. range[1] \in Int /\ range[2] \in Int
    BY IngestionAssumption DEF Time
  <2>4. keys \in SUBSET (Timeframes \X Int \X Int)
    BY DEF TypeOK, RawRows, AlreadyProcessed
  <2>5. /\ runs[i].fetched \in Nat /\ runs[i].inserted \in Nat
        /\ runs[i].failed \in Nat
    BY <2>2 DEF RunRows
  <2> HIDE DEF keys
  <2>6. /\ j \in Jobs /\ j.run = i /\ j.kind = "backfill"
        /\ j.inserted = runs[i].inserted /\ j.seenRun = runs[i]
    BY <1>0, <1>2, <2>2, <2>3, <2>4, <2>5 DEF Jobs
  <2> HIDE DEF j
  <2>7. Resumes(w, i, j)
    BY <2>1, <2>6 DEF Resumes
  <2>8. QED
    BY <2>7
<1>5. ASSUME StartIncremental(w, tf) PROVE \E row : Appends(row)
  <2> DEFINE row == [NewRun("incremental") EXCEPT !.status = "running"]
             j == [NoJob EXCEPT !.kind = "incremental", !.tf = tf,
                     !.start = IncrementalStart, !.end = now,
                     !.run = Len(runs) + 1, !.seenRun = row, !.seenCov = cov]
  <2>1. /\ pc[w] = "idle" /\ runs' = Append(runs, row)
        /\ Goto(w, "fetch", j) /\ bars' = bars
    BY <1>5 DEF StartIncremental
  <2>2. /\ row \in RunRows /\ row.inserted = 0 /\ RowConsistent(row)
        /\ row.status = "running"
    BY RunningFacts
  <2> HIDE DEF row
  <2>3. IncrementalStart \in Int /\ now \in Int
    BY IngestionAssumption, MaxTimeAssumption
    DEF IncrementalStart, TypeOK, Bounds, Time
  <2>4. /\ j \in Jobs /\ j.run = Len(runs) + 1 /\ j.kind = "incremental"
        /\ j.inserted = 0 /\ j.seenRun = row /\ j.staged = {}
    BY <1>0, <2>2, <2>3 DEF Jobs
  <2>5. "fetch" \in Labels
    BY DEF Labels
  <2> HIDE DEF j
  <2>6. Appends(row)
    BY <2>1, <2>2, <2>4, <2>5 DEF Appends
  <2>7. QED
    BY <2>6
<1>6. ASSUME AlreadyCurrent(w, tf) PROVE \E row : Appends(row)
  <2> DEFINE row == [NewRun("incremental") EXCEPT
                       !.status = "succeeded", !.finished = TRUE]
  <2>1. /\ runs' = Append(runs, row) /\ UNCHANGED <<bars, pc, job>>
    BY <1>6 DEF AlreadyCurrent
  <2>2. row \in RunRows /\ row.inserted = 0 /\ RowConsistent(row)
    BY NewRunType DEF TypeOK, NewRun, RunRows, Statuses, RowConsistent
  <2> HIDE DEF row
  <2>3. Appends(row)
    BY <2>1, <2>2 DEF Appends
  <2>4. QED
    BY <2>3
<1>7. QED
  BY <1>1, <1>3, <1>4, <1>5, <1>6

LEMMA TriggerSteps ==
    ASSUME TypeOK, NEW type \in Kinds, Trigger(type)
    PROVE  \E row : Appends(row)
<1>1. type \in {"backfill", "incremental"}
  BY IngestionAssumption
<1>2. NewRun(type) \in RunRows /\ NewRun(type).inserted = 0
      /\ RowConsistent(NewRun(type))
  BY <1>1, NewRunType DEF NewRun, RowConsistent, TypeOK
<1>3. Appends(NewRun(type))
  BY <1>2 DEF Appends, Trigger
<1>4. QED
  BY <1>3

\* Every step of the system.
LEMMA NextSteps ==
    ASSUME RunInvariant, [Next]_vars
    PROVE  \/ \E row : Appends(row)
           \/ \E w \in Workers : \E i, j : Resumes(w, i, j)
           \/ \E w \in Workers :
                 /\ pc[w] # "idle"
                 /\ \E label, j, row, tf, new : Steps(w, label, j, row, tf, new)
           \/ UNCHANGED <<runs, bars, pc, job>>
<1>1. TypeOK
  BY DEF RunInvariant, ArchiveInvariant
<1>2. CASE \E type \in Kinds : Trigger(type)
  BY <1>1, <1>2, TriggerSteps
<1>3. CASE \E w \in Workers : Call(w)
  BY <1>1, <1>3, CallSteps
<1>4. CASE \E w \in Workers : Work(w) \/ Fault(w)
  BY <1>4, WorkerSteps
<1>5. CASE Tick \/ Rest \/ UNCHANGED vars
  BY <1>5 DEF Tick, Rest, vars, db
<1>6. QED
  BY <1>2, <1>3, <1>4, <1>5 DEF Next

\* After a move of worker w, the others are where they were.
LEMMA Moved ==
    ASSUME TypeOK, NEW w \in Workers, NEW label, NEW j, Goto(w, label, j)
    PROVE  /\ pc'[w] = label /\ job'[w] = j
           /\ \A v \in Workers \ {w} : pc'[v] = pc[v] /\ job'[v] = job[v]
BY DEF TypeOK, Goto

LEMMA RunInvariantNext ==
    ASSUME RunInvariant, [Next]_vars
    PROVE  RunInvariant'
<1>1. TypeOK /\ ArchiveInvariant'
  BY ArchiveInvariantNext DEF RunInvariant, ArchiveInvariant
<1>2. ASSUME NEW w \in Workers, NEW label, NEW j, Goto(w, label, j),
             label # "idle" =>
                /\ j.kind \in {"backfill", "incremental"}
                /\ j.kind = "incremental" => j.inserted = Cardinality(j.staged)
      PROVE  Counted'
  <2>1. /\ pc'[w] = label /\ job'[w] = j
        /\ \A v \in Workers \ {w} : pc'[v] = pc[v] /\ job'[v] = job[v]
    BY <1>1, <1>2, Moved
  <2>2. QED
    BY <1>2, <2>1 DEF RunInvariant, Counted
<1>3. ASSUME UNCHANGED <<pc, job>> PROVE Counted'
  BY <1>3 DEF RunInvariant, Counted
<1>4. ASSUME NEW row, Appends(row) PROVE Counted'
  <2>1. ASSUME NEW w \in Workers, NEW label, NEW j, Goto(w, label, j),
               j.kind \in {"backfill", "incremental"}, j.inserted = 0,
               j.staged = {}
        PROVE  Counted'
    BY <1>2, <2>1, FS_EmptySet
  <2>2. QED
    BY <1>3, <1>4, <2>1 DEF Appends
<1>5. ASSUME NEW w \in Workers, NEW i, NEW j, Resumes(w, i, j) PROVE Counted'
  <2>1. Goto(w, "resume", j) /\ j.kind = "backfill"
    BY <1>5 DEF Resumes
  <2>2. QED
    BY <1>2, <2>1
<1>6. ASSUME NEW w \in Workers, pc[w] # "idle",
             NEW label, NEW j, NEW row, NEW tf, NEW new,
             Steps(w, label, j, row, tf, new)
      PROVE  Counted'
  BY <1>2, <1>6, RunFacts DEF Steps
<1>7. Counted'
  <2>1. CASE \E row : Appends(row)
    BY <1>4, <2>1
  <2>2. CASE \E w \in Workers : \E i, j : Resumes(w, i, j)
    BY <1>5, <2>2
  <2>3. CASE \E w \in Workers :
                /\ pc[w] # "idle"
                /\ \E label, j, row, tf, new : Steps(w, label, j, row, tf, new)
    BY <1>6, <2>3
  <2>4. QED
    BY <1>3, <2>1, <2>2, <2>3, NextSteps
<1>8. QED
  BY <1>1, <1>7 DEF RunInvariant

LEMMA RunInvariantInit == Init => RunInvariant
BY ArchiveInvariantInit DEF Init, RunInvariant, Counted

-----------------------------------------------------------------------------
\* A run that one call executes is that call's.

RowsHeld ==
    \A w \in Workers : pc[w] # "idle" =>
        /\ HoldsRow(pc[w], job[w], runs[job[w].run])
        /\ \A v \in Workers \ {w} : pc[v] # "idle" => job[v].run # job[w].run

OwnedInvariant == RunInvariant /\ RowsHeld /\ OutcomeConsistent

LEMMA HeldMove ==
    ASSUME OwnedInvariant, NEW w \in Workers, NEW label, NEW j,
           Goto(w, label, j),
           label # "idle" => HoldsRow(label, j, runs'[j.run]),
           \A v \in Workers \ {w} : pc[v] # "idle" =>
              /\ label # "idle" => job[v].run # j.run
              /\ runs'[job[v].run] = runs[job[v].run]
    PROVE  RowsHeld'
<1>1. TypeOK
  BY DEF OwnedInvariant, RunInvariant, ArchiveInvariant
<1>2. /\ pc'[w] = label /\ job'[w] = j
      /\ \A v \in Workers \ {w} : pc'[v] = pc[v] /\ job'[v] = job[v]
  BY <1>1, Moved
<1>3. ASSUME NEW u \in Workers, pc'[u] # "idle"
      PROVE  HoldsRow(pc'[u], job'[u], runs'[job'[u].run])
  <2>1. CASE u = w
    BY <1>2, <1>3, <2>1
  <2>2. CASE u # w
    BY <1>2, <1>3, <2>2 DEF OwnedInvariant, RowsHeld
  <2>3. QED
    BY <2>1, <2>2
<1>4. ASSUME NEW u \in Workers, NEW v \in Workers \ {u},
             pc'[u] # "idle", pc'[v] # "idle"
      PROVE  job'[v].run # job'[u].run
  BY <1>2, <1>4 DEF OwnedInvariant, RowsHeld
<1>5. QED
  BY <1>3, <1>4 DEF RowsHeld, HoldsRow

\* What a step does to the rows when no live run is resumed: it adds a row, or
\* rewrites one that is not that of a run that succeeded, or leaves them alone;
\* the rows stay consistent and held, and what is stored is what is counted.
LEMMA OwnedStep ==
    ASSUME SharedResume = FALSE, OwnedInvariant, [Next]_vars
    PROVE  /\ RowsHeld'
           /\ \/ runs' = runs /\ bars' = bars
              \/ \E row \in RunRows : /\ runs' = Append(runs, row)
                                      /\ row.inserted = 0 /\ RowConsistent(row)
                                      /\ bars' = bars
              \/ \E i \in RunIds : \E row \in RunRows : \E tf, new :
                    /\ runs' = [runs EXCEPT ![i] = row]
                    /\ runs[i].status # "succeeded"
                    /\ RowConsistent(row)
                    /\ row.inserted = runs[i].inserted + Cardinality(new)
                    /\ Gains(tf, new)
<1> DEFINE Changes ==
       \/ runs' = runs /\ bars' = bars
       \/ \E row \in RunRows : /\ runs' = Append(runs, row)
                               /\ row.inserted = 0 /\ RowConsistent(row)
                               /\ bars' = bars
       \/ \E i \in RunIds : \E row \in RunRows : \E tf, new :
             /\ runs' = [runs EXCEPT ![i] = row]
             /\ runs[i].status # "succeeded"
             /\ RowConsistent(row)
             /\ row.inserted = runs[i].inserted + Cardinality(new)
             /\ Gains(tf, new)
<1>1. RunInvariant /\ TypeOK /\ runs \in Seq(RunRows)
  BY DEF OwnedInvariant, RunInvariant, ArchiveInvariant, TypeOK
<1>2. ASSUME NEW row, Appends(row) PROVE RowsHeld' /\ Changes
  <2>1. /\ runs' = Append(runs, row) /\ row \in RunRows /\ row.inserted = 0
        /\ RowConsistent(row) /\ bars' = bars
    BY <1>2 DEF Appends
  <2>2. /\ runs'[Len(runs) + 1] = row
        /\ \A k \in RunIds : k # Len(runs) + 1 /\ runs'[k] = runs[k]
    BY <1>1, <2>1 DEF RunIds
  <2>3. \A v \in Workers : pc[v] # "idle" => job[v].run \in RunIds
    BY <1>1, JobFacts
  <2>4. ASSUME UNCHANGED <<pc, job>> PROVE RowsHeld'
    BY <2>2, <2>3, <2>4 DEF OwnedInvariant, RowsHeld
  <2>5. ASSUME NEW w \in Workers, NEW label \in Labels, NEW j \in Jobs,
               Goto(w, label, j), label \notin {"resume", "fail", "fsync"},
               j.run = Len(runs) + 1, j.inserted = 0,
               j.seenRun = row, row.status = "running"
        PROVE  RowsHeld'
    <3>1. HoldsRow(label, j, runs'[j.run])
      BY <2>1, <2>2, <2>5 DEF HoldsRow
    <3>2. QED
      BY <2>2, <2>3, <2>5, <3>1, HeldMove
  <2>6. RowsHeld'
    BY <1>2, <2>4, <2>5 DEF Appends
  <2>7. QED
    BY <2>1, <2>6
<1>3. ASSUME NEW w \in Workers, NEW i, NEW j, Resumes(w, i, j)
      PROVE  RowsHeld' /\ Changes
  <2>1. /\ runs' = runs /\ bars' = bars /\ Goto(w, "resume", j)
        /\ j.run = i /\ j.kind = "backfill" /\ j.seenRun = runs[i]
        /\ j.inserted = runs[i].inserted /\ runs[i].status # "succeeded"
        /\ \A v \in Workers : job[v].run # i
    BY <1>3 DEF Resumes, db
  <2>2. HoldsRow("resume", j, runs'[j.run])
    BY <2>1 DEF HoldsRow
  <2>3. RowsHeld'
    BY <2>1, <2>2, HeldMove
  <2>4. QED
    BY <2>1, <2>3
<1>4. ASSUME NEW w \in Workers, pc[w] # "idle",
             NEW label, NEW j, NEW row, NEW tf, NEW new,
             Steps(w, label, j, row, tf, new)
      PROVE  RowsHeld' /\ Changes
  <2> DEFINE i == job[w].run
  <2>1. /\ i \in RunIds /\ HoldsRow(pc[w], job[w], runs[i])
        /\ \A v \in Workers \ {w} : pc[v] # "idle" => job[v].run # i
        /\ RowConsistent(runs[i])
    BY <1>1, <1>4, JobFacts
    DEF OwnedInvariant, RowsHeld, OutcomeConsistent, RowConsistent
  <2>2. /\ Goto(w, label, j) /\ row \in RunRows
        /\ runs' = [runs EXCEPT ![i] = row] /\ Gains(tf, new)
        /\ label # "idle" => j.run = i /\ HoldsRow(label, j, row)
        /\ row.inserted = runs[i].inserted + Cardinality(new)
        /\ RowConsistent(row)
    BY <1>4, <2>1 DEF Steps
  <2>3. runs[i].status # "succeeded"
    BY <2>1 DEF HoldsRow
  <2> HIDE DEF i
  <2>4. /\ runs'[i] = row
        /\ \A k \in RunIds \ {i} : runs'[k] = runs[k]
    BY <1>1, <2>1, <2>2 DEF RunIds
  <2>5. \A v \in Workers : pc[v] # "idle" => job[v].run \in RunIds
    BY <1>1, JobFacts
  <2>6. RowsHeld'
    BY <2>1, <2>2, <2>4, <2>5, HeldMove
  <2>7. QED
    BY <2>1, <2>2, <2>3, <2>6
<1>5. CASE UNCHANGED <<runs, bars, pc, job>>
  BY <1>5 DEF OwnedInvariant, RowsHeld
<1> HIDE DEF Changes
<1>6. RowsHeld' /\ Changes
  BY <1>1, <1>2, <1>3, <1>4, <1>5, NextSteps DEF Changes
<1>7. QED
  BY <1>6 DEF Changes

LEMMA OwnedInvariantNext ==
    ASSUME SharedResume = FALSE, OwnedInvariant, [Next]_vars
    PROVE  OwnedInvariant'
<1>1. RunInvariant' /\ RowsHeld'
  BY RunInvariantNext, OwnedStep DEF OwnedInvariant
<1>2. runs \in Seq(RunRows) /\ \A i \in RunIds : RowConsistent(runs[i])
  BY DEF OwnedInvariant, RunInvariant, ArchiveInvariant, TypeOK,
         OutcomeConsistent, RowConsistent
<1>3. ASSUME NEW i \in RunIds' PROVE RowConsistent(runs'[i])
  <2>1. CASE runs' = runs
    BY <1>2, <1>3, <2>1 DEF RunIds
  <2>2. ASSUME NEW row \in RunRows, runs' = Append(runs, row), RowConsistent(row)
        PROVE  RowConsistent(runs'[i])
    <3>1. (i \in RunIds /\ runs'[i] = runs[i]) \/ runs'[i] = row
      BY <1>2, <1>3, <2>2 DEF RunIds
    <3>2. QED
      BY <1>2, <2>2, <3>1
  <2>3. ASSUME NEW k \in RunIds, NEW row \in RunRows,
               runs' = [runs EXCEPT ![k] = row], RowConsistent(row)
        PROVE  RowConsistent(runs'[i])
    <3>1. i \in RunIds /\ runs'[i] \in {row, runs[i]}
      BY <1>2, <1>3, <2>3 DEF RunIds
    <3>2. QED
      BY <1>2, <2>3, <3>1
  <2>4. QED
    BY <2>1, <2>2, <2>3, OwnedStep
<1>4. OutcomeConsistent'
  BY <1>3 DEF OutcomeConsistent, RowConsistent
<1>5. QED
  BY <1>1, <1>4 DEF OwnedInvariant

LEMMA OwnedInvariantInit == Init => OwnedInvariant
BY RunInvariantInit DEF Init, OwnedInvariant, RowsHeld, OutcomeConsistent, RunIds

\* Where no live run is resumed, a run that is over says so in all its columns,
\* whatever fails and however often it is resumed.
THEOREM IngestionOutcomeConsistent ==
    ASSUME SharedResume = FALSE
    PROVE  Spec => []OutcomeConsistent
<1>1. ASSUME OwnedInvariant, [Next]_vars PROVE OwnedInvariant'
  BY <1>1, OwnedInvariantNext
<1>2. OwnedInvariant => OutcomeConsistent
  BY DEF OwnedInvariant
<1>3. QED
  BY <1>1, <1>2, OwnedInvariantInit, PTL DEF Spec

\* Where no live run is resumed, no step of any call changes the row of a run
\* that succeeded.
THEOREM IngestionSucceededFinal ==
    ASSUME SharedResume = FALSE
    PROVE  Spec => SucceededFinal
<1>1. ASSUME OwnedInvariant, [Next]_vars PROVE OwnedInvariant'
  BY <1>1, OwnedInvariantNext
<1>2. ASSUME OwnedInvariant, [Next]_vars
      PROVE  \A i \in RunIds : runs[i].status = "succeeded" => runs'[i] = runs[i]
  <2>1. runs \in Seq(RunRows)
    BY <1>2 DEF OwnedInvariant, RunInvariant, ArchiveInvariant, TypeOK
  <2>2. \/ runs' = runs
        \/ \E row \in RunRows : runs' = Append(runs, row)
        \/ \E k \in RunIds : \E row \in RunRows :
              runs' = [runs EXCEPT ![k] = row] /\ runs[k].status # "succeeded"
    BY <1>2, OwnedStep
  <2>3. QED
    BY <2>1, <2>2 DEF RunIds
<1>3. QED
  BY <1>1, <1>2, OwnedInvariantInit, PTL DEF Spec, SucceededFinal

-----------------------------------------------------------------------------
\* The sum of the counters.  A ledger is the running total of what each of the
\* first n runs contributed to t bars; tlapm knows a recursive function only
\* by the equation it satisfies, so every fact about one goes through ledgers.

Ledger(L, n, t) == L \in [0 .. n -> Nat] /\ L[0] = 0 /\ L[n] = t

Share(L, k) == L[k] - L[k - 1]

\* A new run contributes nothing.
LEMMA LedgerAppend ==
    ASSUME NEW n \in Nat, NEW t, NEW L, Ledger(L, n, t)
    PROVE  \E M : /\ Ledger(M, n + 1, t)
                  /\ \A k \in 1 .. n : Share(M, k) = Share(L, k)
                  /\ Share(M, n + 1) = 0
<1> DEFINE M == [k \in 0 .. n + 1 |-> IF k <= n THEN L[k] ELSE L[n]]
<1>1. L \in [0 .. n -> Nat] /\ L[0] = 0 /\ L[n] = t
  BY DEF Ledger
<1>2. M \in [0 .. n + 1 -> Nat] /\ M[0] = 0 /\ M[n + 1] = t
  BY <1>1
<1>3. \A k \in 1 .. n : k \in 0 .. n + 1 /\ k - 1 \in 0 .. n + 1
                        /\ M[k] = L[k] /\ M[k - 1] = L[k - 1]
  OBVIOUS
<1>4. M[n + 1] = L[n] /\ M[n + 1 - 1] = L[n] /\ L[n] \in Nat
  BY <1>1
<1> HIDE DEF M
<1>5. Ledger(M, n + 1, t)
  BY <1>2 DEF Ledger
<1>6. \A k \in 1 .. n : Share(M, k) = Share(L, k)
  BY <1>3 DEF Share
<1>7. Share(M, n + 1) = 0
  BY <1>4 DEF Share
<1>8. QED
  BY <1>5, <1>6, <1>7

\* A run contributes more.
LEMMA LedgerAdd ==
    ASSUME NEW n \in Nat, NEW t, NEW L, Ledger(L, n, t),
           NEW i \in 1 .. n, NEW d \in Nat
    PROVE  \E M : /\ Ledger(M, n, t + d)
                  /\ \A k \in 1 .. n \ {i} : Share(M, k) = Share(L, k)
                  /\ Share(M, i) = Share(L, i) + d
<1> DEFINE M == [k \in 0 .. n |-> IF i <= k THEN L[k] + d ELSE L[k]]
<1>1. L \in [0 .. n -> Nat] /\ L[0] = 0 /\ L[n] = t
  BY DEF Ledger
<1>2. M \in [0 .. n -> Nat] /\ M[0] = 0 /\ M[n] = t + d
  BY <1>1
<1>3. ASSUME NEW k \in 1 .. n, k # i PROVE Share(M, k) = Share(L, k)
  <2>1. k \in 0 .. n /\ k - 1 \in 0 .. n /\ L[k] \in Nat /\ L[k - 1] \in Nat
    BY <1>1
  <2>2. i <= k <=> i <= k - 1
    BY <1>3
  <2>3. M[k] - M[k - 1] = L[k] - L[k - 1]
    BY <2>1, <2>2
  <2> HIDE DEF M
  <2>4. QED
    BY <2>3 DEF Share
<1>4. Share(M, i) = Share(L, i) + d
  <2>1. i \in 0 .. n /\ i - 1 \in 0 .. n /\ L[i] \in Nat /\ L[i - 1] \in Nat
    BY <1>1
  <2>2. M[i] = L[i] + d /\ M[i - 1] = L[i - 1]
    BY <2>1
  <2> HIDE DEF M
  <2>3. QED
    BY <2>1, <2>2 DEF Share
<1> HIDE DEF M
<1>5. Ledger(M, n, t + d)
  BY <1>2 DEF Ledger
<1>6. QED
  BY <1>3, <1>4, <1>5

\* Where every run contributes at most as much to L as to M, so do all.
LEMMA LedgerBelow ==
    ASSUME NEW n \in Nat, NEW t, NEW u, NEW L, NEW M,
           Ledger(L, n, t), Ledger(M, n, u),
           \A k \in 1 .. n : Share(L, k) <= Share(M, k)
    PROVE  t <= u
<1> DEFINE Bad == {k \in 0 .. n : L[k] > M[k]}
<1>1. /\ L \in [0 .. n -> Nat] /\ L[0] = 0 /\ L[n] = t
      /\ M \in [0 .. n -> Nat] /\ M[0] = 0 /\ M[n] = u
  BY DEF Ledger
<1>2. ASSUME Bad # {} PROVE FALSE
  <2>1. Bad \subseteq Nat
    OBVIOUS
  <2>2. PICK m \in Bad : \A k \in Bad : m <= k
    <3> HIDE DEF Bad
    <3>1. QED
      BY <1>2, <2>1, NatMin
  <2>3. m \in 0 .. n /\ L[m] > M[m] /\ m # 0
    BY <1>1
  <2>4. m \in 1 .. n /\ m - 1 \in 0 .. n /\ m - 1 < m
    BY <2>3
  <2>5. m - 1 \notin Bad
    BY <2>2, <2>4
  <2>6. L[m - 1] <= M[m - 1]
    BY <1>1, <2>4, <2>5
  <2>7. L[m] - L[m - 1] <= M[m] - M[m - 1]
    BY <2>4 DEF Share
  <2>8. L[m] \in Nat /\ L[m - 1] \in Nat /\ M[m] \in Nat /\ M[m - 1] \in Nat
    BY <1>1, <2>3, <2>4
  <2>9. QED
    BY <2>3, <2>6, <2>7, <2>8
<1>3. n \in 0 .. n /\ L[n] <= M[n]
  BY <1>1, <1>2
<1>4. QED
  BY <1>1, <1>3

\* The sums of the first n of a sequence of counters exist.
LEMMA SumExists ==
    ASSUME NEW N \in Nat, NEW f \in [1 .. N -> Nat]
    PROVE  \E L : /\ L \in [0 .. N -> Nat] /\ L[0] = 0
                  /\ \A k \in 1 .. N : L[k] = L[k - 1] + f[k]
<1> DEFINE Sums(n, L) == /\ L \in [0 .. n -> Nat] /\ L[0] = 0
                         /\ \A k \in 1 .. n : L[k] = L[k - 1] + f[k]
           Bad == {n \in 0 .. N : ~ \E L : Sums(n, L)}
<1>1. ASSUME Bad # {} PROVE FALSE
  <2>1. Bad \subseteq Nat
    OBVIOUS
  <2>2. PICK m \in Bad : \A k \in Bad : m <= k
    <3> HIDE DEF Bad
    <3>1. QED
      BY <1>1, <2>1, NatMin
  <2>3. m \in 0 .. N /\ ~ \E L : Sums(m, L)
    OBVIOUS
  <2>4. CASE m = 0
    <3>1. Sums(0, [k \in 0 .. 0 |-> 0])
      OBVIOUS
    <3>2. QED
      BY <2>3, <2>4, <3>1
  <2>5. CASE m # 0
    <3>1. m - 1 \in 0 .. N /\ m \in 1 .. N /\ ~ (m <= m - 1)
      BY <2>3, <2>5
    <3>2. PICK L : Sums(m - 1, L)
      <4>1. m - 1 \notin Bad
        <5> HIDE DEF Bad
        <5>1. QED
          BY <2>2, <3>1
      <4> HIDE DEF Sums
      <4>2. QED
        BY <3>1, <4>1
    <3> DEFINE M == [k \in 0 .. m |-> IF k = m THEN L[m - 1] + f[m] ELSE L[k]]
    <3>3. L \in [0 .. m - 1 -> Nat] /\ f[m] \in Nat /\ L[m - 1] \in Nat
      BY <3>1, <3>2
    <3>4. M \in [0 .. m -> Nat] /\ M[0] = 0
      BY <2>5, <3>1, <3>2, <3>3
    <3>5. ASSUME NEW k \in 1 .. m PROVE M[k] = M[k - 1] + f[k]
      <4>1. CASE k = m
        BY <2>5, <3>1, <3>3, <4>1
      <4>2. CASE k # m
        <5>1. k \in 1 .. m - 1 /\ k - 1 \in 0 .. m /\ k - 1 # m
          BY <3>1, <4>2
        <5>2. L[k] = L[k - 1] + f[k]
          BY <3>2, <5>1
        <5>3. M[k] = L[k] /\ M[k - 1] = L[k - 1]
          BY <4>2, <5>1
        <5>4. QED
          BY <5>2, <5>3
      <4>3. QED
        BY <4>1, <4>2
    <3> HIDE DEF M
    <3>6. Sums(m, M)
      BY <3>4, <3>5
    <3>7. QED
      BY <2>3, <3>6
  <2>6. QED
    BY <2>4, <2>5
<1>2. N \in 0 .. N
  OBVIOUS
<1> HIDE DEF Sums
<1>3. \E L : Sums(N, L)
  BY <1>1, <1>2
<1>4. QED
  BY <1>3 DEF Sums

\* TotalInserted is the total of a ledger in which each run contributes its
\* counter.
LEMMA TotalInsertedLedger ==
    ASSUME TypeOK
    PROVE  \E L : /\ Ledger(L, Len(runs), TotalInserted)
                  /\ \A k \in RunIds : Share(L, k) = runs[k].inserted
<1> DEFINE N == Len(runs)
           f == [k \in 1 .. N |-> runs[k].inserted]
           Equation(s) == s = [n \in 0 .. N |->
                                 IF n = 0 THEN 0 ELSE s[n - 1] + runs[n].inserted]
           sum == CHOOSE s : Equation(s)
<1>1. N \in Nat /\ f \in [1 .. N -> Nat]
  <2>1. runs \in Seq(RunRows) /\ N \in Nat
    BY DEF TypeOK
  <2>2. \A k \in 1 .. N : runs[k].inserted \in Nat
    BY <2>1, RunRowType DEF RunIds, RunRows
  <2> HIDE DEF N
  <2>3. QED
    BY <2>1, <2>2
<1>2. TotalInserted = sum[N]
  BY DEF TotalInserted
<1>3. \E s : Equation(s)
  <2>1. PICK L : /\ L \in [0 .. N -> Nat] /\ L[0] = 0
                 /\ \A k \in 1 .. N : L[k] = L[k - 1] + f[k]
    <3> HIDE DEF f, N
    <3>1. QED
      BY <1>1, SumExists
  <2>2. \A n \in 0 .. N :
           L[n] = IF n = 0 THEN 0 ELSE L[n - 1] + runs[n].inserted
    BY <1>1, <2>1
  <2>3. Equation(L)
    BY <2>1, <2>2
  <2>4. QED
    BY <2>3
<1>4. Equation(sum)
  BY <1>3
<1>5. /\ DOMAIN sum = 0 .. N /\ sum = [n \in 0 .. N |-> sum[n]]
      /\ \A n \in 0 .. N :
           sum[n] = IF n = 0 THEN 0 ELSE sum[n - 1] + runs[n].inserted
  BY <1>4
<1> HIDE DEF sum
<1>6. sum \in [0 .. N -> Nat]
  <2> DEFINE Bad == {n \in 0 .. N : sum[n] \notin Nat}
  <2>1. ASSUME Bad # {} PROVE FALSE
    <3>1. Bad \subseteq Nat
      BY <1>1
    <3>2. PICK m \in Bad : \A k \in Bad : m <= k
      <4> HIDE DEF Bad
      <4>1. QED
        BY <2>1, <3>1, NatMin
    <3>3. m \in 0 .. N /\ sum[m] \notin Nat /\ m # 0
      BY <1>5
    <3>4. m - 1 \in 0 .. N /\ m - 1 < m /\ m \in 1 .. N
      BY <1>1, <3>3
    <3>5. sum[m - 1] \in Nat
      BY <3>2, <3>4
    <3>6. runs[m].inserted \in Nat
      BY <1>1, <3>4
    <3>7. sum[m] = sum[m - 1] + runs[m].inserted
      BY <1>5, <3>3
    <3>8. QED
      BY <3>3, <3>5, <3>6, <3>7
  <2>2. QED
    BY <1>5, <2>1
<1>7. Ledger(sum, N, TotalInserted)
  BY <1>1, <1>2, <1>5, <1>6 DEF Ledger
<1>8. ASSUME NEW k \in RunIds PROVE Share(sum, k) = runs[k].inserted
  <2>1. k \in 0 .. N /\ k # 0 /\ k - 1 \in 0 .. N
    BY <1>1 DEF RunIds
  <2>2. sum[k] = sum[k - 1] + runs[k].inserted
    BY <1>5, <2>1
  <2>3. sum[k - 1] \in Nat /\ runs[k].inserted \in Nat
    BY <1>1, <1>6, <2>1
  <2>4. QED
    BY <2>2, <2>3 DEF Share
<1>9. QED
  BY <1>7, <1>8

-----------------------------------------------------------------------------
\* Every stored bar was inserted by one run.

\* The ledger of the stored bars after a step.
LEMMA LedgerAppended ==
    ASSUME TypeOK, NEW row \in RunRows, runs' = Append(runs, row), bars' = bars,
           NEW L, Ledger(L, Len(runs), TotalStored)
    PROVE  \E M : /\ Ledger(M, Len(runs'), TotalStored')
                  /\ \A k \in RunIds : Share(M, k) = Share(L, k)
                  /\ Share(M, Len(runs) + 1) = 0
<1>1. Len(runs) \in Nat /\ Len(runs') = Len(runs) + 1
  BY AppendRun
<1>2. TotalStored' = TotalStored
  BY DEF TotalStored
<1>3. QED
  BY <1>1, <1>2, LedgerAppend DEF RunIds

LEMMA LedgerGained ==
    ASSUME TypeOK, IsFiniteSet(StoredKeys), NEW i \in RunIds,
           NEW row \in RunRows, runs' = [runs EXCEPT ![i] = row],
           NEW tf, NEW new, Gains(tf, new),
           NEW L, Ledger(L, Len(runs), TotalStored)
    PROVE  /\ Cardinality(new) \in Nat
           /\ \E M : /\ Ledger(M, Len(runs'), TotalStored')
                     /\ \A k \in RunIds \ {i} : Share(M, k) = Share(L, k)
                     /\ Share(M, i) = Share(L, i) + Cardinality(new)
<1>1. Len(runs') = Len(runs) /\ Len(runs) \in Nat /\ i \in 1 .. Len(runs)
  BY UpdateRun DEF RunIds
<1>2. TotalStored' = TotalStored + Cardinality(new)
  BY GainsCount
<1>3. Cardinality(new) \in Nat
  BY FS_CardinalityType DEF Gains
<1>4. QED
  BY <1>1, <1>2, <1>3, LedgerAdd DEF RunIds

\* The share of a run is a whole number.
LEMMA ShareType ==
    ASSUME NEW n \in Nat, NEW t, NEW L, Ledger(L, n, t), NEW k \in 1 .. n
    PROVE  Share(L, k) \in Int
<1>1. L[k] \in Nat /\ L[k - 1] \in Nat
  BY DEF Ledger
<1>2. QED
  BY <1>1 DEF Share

\* Before the first run nothing is stored.
LEMMA LedgerInit ==
    ASSUME Init
    PROVE  /\ IsFiniteSet(StoredKeys)
           /\ \E L : Ledger(L, Len(runs), TotalStored)
           /\ RunIds = {}
<1>1. StoredKeys = {}
  BY NoBarsType DEF Init, StoredKeys
<1>2. IsFiniteSet(StoredKeys) /\ TotalStored = 0
  BY <1>1, FS_EmptySet DEF TotalStored, StoredKeys
<1>3. Len(runs) = 0
  BY DEF Init
<1>4. Ledger([k \in 0 .. 0 |-> 0], 0, 0)
  BY DEF Ledger
<1>5. QED
  BY <1>2, <1>3, <1>4 DEF RunIds

\* Where no live run is resumed, each run counts what it contributed.
ExactLedger ==
    \E L : /\ Ledger(L, Len(runs), TotalStored)
           /\ \A k \in RunIds : Share(L, k) = runs[k].inserted

ExactInvariant == OwnedInvariant /\ IsFiniteSet(StoredKeys) /\ ExactLedger

LEMMA ExactInvariantNext ==
    ASSUME SharedResume = FALSE, ExactInvariant, [Next]_vars
    PROVE  ExactInvariant'
<1>1. OwnedInvariant' /\ OwnedInvariant
  BY OwnedInvariantNext DEF ExactInvariant
<1>2. TypeOK /\ runs \in Seq(RunRows)
  BY DEF ExactInvariant, OwnedInvariant, RunInvariant, ArchiveInvariant, TypeOK
<1>3. PICK L : /\ Ledger(L, Len(runs), TotalStored)
               /\ \A k \in RunIds : Share(L, k) = runs[k].inserted
  BY DEF ExactInvariant, ExactLedger
<1>4. ASSUME runs' = runs, bars' = bars
      PROVE  IsFiniteSet(StoredKeys') /\ ExactLedger'
  BY <1>4 DEF ExactInvariant, ExactLedger, TotalStored, StoredKeys, RunIds
<1>5. ASSUME NEW row \in RunRows, runs' = Append(runs, row), row.inserted = 0,
             bars' = bars
      PROVE  IsFiniteSet(StoredKeys') /\ ExactLedger'
  <2>1. PICK M : /\ Ledger(M, Len(runs'), TotalStored')
                 /\ \A k \in RunIds : Share(M, k) = Share(L, k)
                 /\ Share(M, Len(runs) + 1) = 0
    BY <1>2, <1>3, <1>5, LedgerAppended
  <2>2. \A k \in RunIds' : Share(M, k) = runs'[k].inserted
    BY <1>2, <1>3, <1>5, <2>1 DEF RunIds
  <2>3. IsFiniteSet(StoredKeys')
    BY <1>5 DEF ExactInvariant, StoredKeys
  <2>4. QED
    BY <2>1, <2>2, <2>3 DEF ExactLedger
<1>6. ASSUME NEW i \in RunIds, NEW row \in RunRows, NEW tf, NEW new,
             runs' = [runs EXCEPT ![i] = row],
             row.inserted = runs[i].inserted + Cardinality(new),
             Gains(tf, new)
      PROVE  IsFiniteSet(StoredKeys') /\ ExactLedger'
  <2>1. PICK M : /\ Ledger(M, Len(runs'), TotalStored')
                 /\ \A k \in RunIds \ {i} : Share(M, k) = Share(L, k)
                 /\ Share(M, i) = Share(L, i) + Cardinality(new)
    BY <1>2, <1>3, <1>6, LedgerGained DEF ExactInvariant
  <2>2. RunIds' = RunIds /\ runs'[i] = row
        /\ \A k \in RunIds \ {i} : runs'[k] = runs[k]
    BY <1>2, <1>6 DEF RunIds
  <2>3. \A k \in RunIds' : Share(M, k) = runs'[k].inserted
    BY <1>3, <1>6, <2>1, <2>2
  <2>4. IsFiniteSet(StoredKeys')
    BY <1>6, GainsCount DEF ExactInvariant
  <2>5. QED
    BY <2>1, <2>3, <2>4 DEF ExactLedger
<1>7. IsFiniteSet(StoredKeys') /\ ExactLedger'
  BY <1>1, <1>4, <1>5, <1>6, OwnedStep
<1>8. QED
  BY <1>1, <1>7 DEF ExactInvariant

LEMMA ExactInvariantInit == Init => ExactInvariant
BY OwnedInvariantInit, LedgerInit DEF ExactInvariant, ExactLedger

\* Where no live run is resumed, the counters of the runs add up to the bars
\* that are stored, across failures, crashes and resumed runs.
THEOREM IngestionInsertedExact ==
    ASSUME SharedResume = FALSE
    PROVE  Spec => []InsertedExact
<1>1. ASSUME ExactInvariant, [Next]_vars PROVE ExactInvariant'
  BY <1>1, ExactInvariantNext
<1>2. ASSUME ExactInvariant PROVE InsertedExact
  <2>1. TypeOK
    BY <1>2 DEF ExactInvariant, OwnedInvariant, RunInvariant, ArchiveInvariant
  <2>2. PICK L : /\ Ledger(L, Len(runs), TotalStored)
                 /\ \A k \in RunIds : Share(L, k) = runs[k].inserted
    BY <1>2 DEF ExactInvariant, ExactLedger
  <2>3. PICK S : /\ Ledger(S, Len(runs), TotalInserted)
                 /\ \A k \in RunIds : Share(S, k) = runs[k].inserted
    BY <2>1, TotalInsertedLedger
  <2>4. Len(runs) \in Nat /\ \A k \in RunIds : runs[k].inserted \in Nat
    BY <2>1, RunRowType DEF TypeOK, RunRows
  <2>5. TotalInserted <= TotalStored /\ TotalStored <= TotalInserted
    BY <2>2, <2>3, <2>4, LedgerBelow DEF RunIds
  <2>6. TotalInserted \in Nat /\ TotalStored \in Nat
    BY <2>2, <2>3, <2>4 DEF Ledger
  <2>7. QED
    BY <2>5, <2>6 DEF InsertedExact
<1>3. QED
  BY <1>1, <1>2, ExactInvariantInit, PTL DEF Spec

-----------------------------------------------------------------------------
\* Whoever shares a run: no row, and no call that will write one, counts more
\* than the run contributed.
Credits(L) ==
    /\ \A k \in RunIds : runs[k].inserted <= Share(L, k)
    /\ \A w \in Workers :
          pc[w] # "idle" /\ job[w].kind = "backfill"
          => job[w].inserted <= Share(L, job[w].run)

SharedLedger == \E L : Ledger(L, Len(runs), TotalStored) /\ Credits(L)

SharedInvariant == RunInvariant /\ IsFiniteSet(StoredKeys) /\ SharedLedger

LEMMA CreditsMove ==
    ASSUME TypeOK, NEW w \in Workers, NEW label, NEW j, Goto(w, label, j),
           NEW L, NEW M, Credits(L),
           \A k \in RunIds : Share(L, k) <= Share(M, k),
           \A k \in RunIds : Share(L, k) \in Int /\ Share(M, k) \in Int,
           \A k \in RunIds' : runs'[k].inserted <= Share(M, k),
           label # "idle" /\ j.kind = "backfill" => j.inserted <= Share(M, j.run)
    PROVE  Credits(M)'
<1>1. /\ pc'[w] = label /\ job'[w] = j
      /\ \A v \in Workers \ {w} : pc'[v] = pc[v] /\ job'[v] = job[v]
  BY Moved
<1>2. ASSUME NEW v \in Workers, v # w, pc[v] # "idle", job[v].kind = "backfill"
      PROVE  job[v].inserted <= Share(M, job[v].run)
  <2>1. job[v].run \in RunIds /\ job[v].inserted \in Nat
    BY <1>2, JobFacts DEF Jobs
  <2>2. job[v].inserted <= Share(L, job[v].run)
    BY <1>2 DEF Credits
  <2>3. QED
    BY <2>1, <2>2
<1>3. QED
  BY <1>1, <1>2 DEF Credits, Share

LEMMA SharedInvariantNext ==
    ASSUME SharedInvariant, [Next]_vars
    PROVE  SharedInvariant'
<1>1. RunInvariant' /\ RunInvariant /\ IsFiniteSet(StoredKeys)
  BY RunInvariantNext DEF SharedInvariant
<1>2. TypeOK /\ runs \in Seq(RunRows) /\ Len(runs) \in Nat
  BY DEF SharedInvariant, RunInvariant, ArchiveInvariant, TypeOK
<1>3. PICK L : Ledger(L, Len(runs), TotalStored) /\ Credits(L)
  BY DEF SharedInvariant, SharedLedger
<1>4. \A k \in RunIds : Share(L, k) \in Int /\ runs[k].inserted \in Nat
  BY <1>2, <1>3, ShareType, RunRowType DEF RunIds, RunRows
<1>5. ASSUME UNCHANGED <<runs, bars, pc, job>>
      PROVE  IsFiniteSet(StoredKeys') /\ SharedLedger'
  BY <1>5 DEF SharedInvariant, SharedLedger, Credits, TotalStored, StoredKeys,
              RunIds
<1>6. ASSUME NEW row, Appends(row)
      PROVE  IsFiniteSet(StoredKeys') /\ SharedLedger'
  <2>1. /\ runs' = Append(runs, row) /\ row \in RunRows
        /\ row.inserted = 0 /\ bars' = bars
    BY <1>6 DEF Appends
  <2>2. PICK M : /\ Ledger(M, Len(runs'), TotalStored')
                 /\ \A k \in RunIds : Share(M, k) = Share(L, k)
                 /\ Share(M, Len(runs) + 1) = 0
    BY <1>2, <1>3, <2>1, LedgerAppended
  <2>3. \A k \in RunIds' : runs'[k].inserted <= Share(M, k)
    <3>1. \A k \in RunIds' : (k \in RunIds /\ runs'[k] = runs[k])
                             \/ (k = Len(runs) + 1 /\ runs'[k] = row)
      BY <1>2, <2>1 DEF RunIds
    <3>2. ASSUME NEW k \in RunIds PROVE runs[k].inserted <= Share(M, k)
      BY <1>3, <2>2 DEF Credits
    <3>3. row.inserted <= Share(M, Len(runs) + 1)
      BY <2>1, <2>2
    <3>4. QED
      BY <3>1, <3>2, <3>3
  <2>4. ASSUME UNCHANGED <<pc, job>> PROVE Credits(M)'
    <3>1. ASSUME NEW v \in Workers, pc[v] # "idle", job[v].kind = "backfill"
          PROVE  job[v].inserted <= Share(M, job[v].run)
      BY <1>2, <1>3, <2>2, <3>1, JobFacts DEF Credits
    <3>2. QED
      BY <2>3, <2>4, <3>1 DEF Credits, Share
  <2>5. ASSUME NEW w \in Workers, NEW label, NEW j, Goto(w, label, j),
               j.run = Len(runs) + 1, j.inserted = 0
        PROVE  Credits(M)'
    <3>1. \A k \in RunIds : Share(L, k) <= Share(M, k) /\ Share(M, k) \in Int
      BY <1>4, <2>2
    <3>2. j.inserted <= Share(M, j.run)
      BY <2>2, <2>5
    <3>3. QED
      BY <1>2, <1>3, <1>4, <2>3, <2>5, <3>1, <3>2, CreditsMove
  <2>6. Credits(M)'
    BY <1>6, <2>4, <2>5 DEF Appends
  <2>7. IsFiniteSet(StoredKeys')
    BY <1>1, <2>1 DEF StoredKeys
  <2>8. QED
    BY <2>2, <2>6, <2>7 DEF SharedLedger, Ledger
<1>7. ASSUME NEW w \in Workers, NEW i, NEW j, Resumes(w, i, j)
      PROVE  IsFiniteSet(StoredKeys') /\ SharedLedger'
  <2>1. /\ runs' = runs /\ bars' = bars /\ Goto(w, "resume", j)
        /\ i \in RunIds /\ j.run = i /\ j.inserted = runs[i].inserted
    BY <1>7 DEF Resumes, db
  <2>2. /\ \A k \in RunIds' : runs'[k].inserted <= Share(L, k)
        /\ j.inserted <= Share(L, j.run)
    BY <1>3, <2>1 DEF Credits, RunIds
  <2>3. Credits(L)'
    BY <1>2, <1>3, <1>4, <2>1, <2>2, CreditsMove
  <2>4. TotalStored' = TotalStored /\ IsFiniteSet(StoredKeys')
    BY <1>1, <2>1 DEF TotalStored, StoredKeys
  <2>5. QED
    BY <1>3, <2>1, <2>3, <2>4 DEF SharedLedger, Ledger
<1>8. ASSUME NEW w \in Workers, pc[w] # "idle",
             NEW label, NEW j, NEW row, NEW tf, NEW new,
             Steps(w, label, j, row, tf, new)
      PROVE  IsFiniteSet(StoredKeys') /\ SharedLedger'
  <2> DEFINE i == job[w].run
             d == Cardinality(new)
  <2>1. /\ i \in RunIds /\ Durable(w) \in Nat
        /\ job[w].kind \in {"backfill", "incremental"}
    BY <1>1, <1>8, RunFacts
  <2>2. /\ Goto(w, label, j) /\ row \in RunRows
        /\ runs' = [runs EXCEPT ![i] = row] /\ Gains(tf, new)
        /\ label # "idle" => j.run = i /\ j.kind = job[w].kind
        /\ label # "idle" /\ j.kind = "backfill" => j.inserted = Durable(w) + d
        /\ row.inserted \in {runs[i].inserted, Durable(w) + d}
    BY <1>8 DEF Steps
  <2>3. runs[i].inserted <= Share(L, i)
    BY <1>3, <2>1 DEF Credits
  <2>4. Durable(w) <= Share(L, i)
    <3>1. runs[i].inserted \in Nat
      BY <1>4, <2>1
    <3>2. CASE job[w].kind = "backfill"
      BY <1>3, <1>8, <3>2 DEF Credits, Durable
    <3>3. CASE job[w].kind # "backfill"
      BY <1>4, <2>1, <2>3, <3>1, <3>3 DEF Durable
    <3>4. QED
      BY <3>2, <3>3
  <2> HIDE DEF i
  <2>5. d \in Nat
    BY <1>1, <1>2, <1>3, <2>1, <2>2, LedgerGained
  <2>6. PICK M : /\ Ledger(M, Len(runs'), TotalStored')
                 /\ \A k \in RunIds \ {i} : Share(M, k) = Share(L, k)
                 /\ Share(M, i) = Share(L, i) + d
    BY <1>1, <1>2, <1>3, <2>1, <2>2, LedgerGained
  <2> HIDE DEF d
  <2>7. \A k \in RunIds : Share(L, k) <= Share(M, k) /\ Share(M, k) \in Int
    <3>1. ASSUME NEW k \in RunIds
          PROVE  Share(L, k) <= Share(M, k) /\ Share(M, k) \in Int
      <4>1. Share(L, k) \in Int
        BY <1>4
      <4>2. CASE k = i
        BY <2>5, <2>6, <4>1, <4>2
      <4>3. CASE k # i
        BY <2>6, <4>1, <4>3
      <4>4. QED
        BY <4>2, <4>3
    <3>2. QED
      BY <3>1
  <2>8. /\ RunIds' = RunIds /\ runs'[i] = row
        /\ \A k \in RunIds \ {i} : runs'[k] = runs[k]
    BY <1>2, <2>1, <2>2 DEF RunIds
  <2>9. Durable(w) + d <= Share(M, i) /\ runs[i].inserted <= Share(M, i)
    BY <1>4, <2>1, <2>3, <2>4, <2>5, <2>6
  <2>10. row.inserted <= Share(M, i)
    BY <2>2, <2>9
  <2>11. \A k \in RunIds' : runs'[k].inserted <= Share(M, k)
    <3>1. ASSUME NEW k \in RunIds PROVE runs'[k].inserted <= Share(M, k)
      <4>1. CASE k = i
        BY <2>8, <2>10, <4>1
      <4>2. CASE k # i
        BY <1>3, <2>6, <2>8, <4>2 DEF Credits
      <4>3. QED
        BY <4>1, <4>2
    <3>2. QED
      BY <2>8, <3>1
  <2>12. label # "idle" /\ j.kind = "backfill" => j.inserted <= Share(M, j.run)
    BY <2>2, <2>9
  <2>13. Credits(M)'
    BY <1>2, <1>3, <1>4, <2>2, <2>7, <2>11, <2>12, CreditsMove
  <2>14. IsFiniteSet(StoredKeys')
    BY <1>1, <2>2, GainsCount
  <2>15. QED
    BY <2>6, <2>13, <2>14 DEF SharedLedger, Ledger
<1>9. IsFiniteSet(StoredKeys') /\ SharedLedger'
  <2>1. CASE \E row : Appends(row)
    BY <1>6, <2>1
  <2>2. CASE \E w \in Workers : \E i, j : Resumes(w, i, j)
    BY <1>7, <2>2
  <2>3. CASE \E w \in Workers :
                /\ pc[w] # "idle"
                /\ \E label, j, row, tf, new : Steps(w, label, j, row, tf, new)
    BY <1>8, <2>3
  <2>4. QED
    BY <1>1, <1>5, <2>1, <2>2, <2>3, NextSteps
<1>10. QED
  BY <1>1, <1>9 DEF SharedInvariant

LEMMA SharedInvariantInit == Init => SharedInvariant
<1>1. ASSUME Init PROVE SharedInvariant
  <2>1. PICK L : Ledger(L, Len(runs), TotalStored)
    BY <1>1, LedgerInit
  <2>2. Credits(L)
    BY <1>1, LedgerInit DEF Credits, Init
  <2>3. QED
    BY <1>1, <2>1, <2>2, LedgerInit, RunInvariantInit
    DEF SharedInvariant, SharedLedger
<1>2. QED
  BY <1>1

\* Whatever sessions share a run, the counters of the runs never add up to more
\* than the bars that are stored: no bar is counted twice.
THEOREM IngestionNeverOverstated == Spec => []InsertedNeverOverstated
<1>1. ASSUME SharedInvariant PROVE InsertedNeverOverstated
  <2>1. TypeOK
    BY <1>1 DEF SharedInvariant, RunInvariant, ArchiveInvariant
  <2>2. PICK L : Ledger(L, Len(runs), TotalStored) /\ Credits(L)
    BY <1>1 DEF SharedInvariant, SharedLedger
  <2>3. PICK S : /\ Ledger(S, Len(runs), TotalInserted)
                 /\ \A k \in RunIds : Share(S, k) = runs[k].inserted
    BY <2>1, TotalInsertedLedger
  <2>4. Len(runs) \in Nat
    BY <2>1 DEF TypeOK
  <2>5. \A k \in 1 .. Len(runs) : Share(S, k) <= Share(L, k)
    BY <2>2, <2>3 DEF Credits, RunIds
  <2>6. TotalInserted <= TotalStored
    BY <2>2, <2>3, <2>4, <2>5, LedgerBelow
  <2>7. QED
    BY <2>6 DEF InsertedNeverOverstated
<1>2. QED
  BY <1>1, SharedInvariantInit, SharedInvariantNext, PTL DEF Spec

-----------------------------------------------------------------------------
\* The coverage of the symbol.  It names stored bars only, although it is
\* written from bounds that a call read some steps earlier, when part of the
\* bars were still in its open transaction, and a session writes the columns
\* that differ from what it loaded.  The invariant follows both values
\* through the call.

\* Bounds that are NULL or name two timestamps of S.
Names(b, S) == b = NoBounds \/ {b.start, b.end} \subseteq S

\* A coverage that was loaded as set is still set; bounds that were read name
\* bars that are stored or staged, and are set if the coverage was.
JobCovers(w) ==
    LET j == job[w] IN
    /\ j.seenCov # NoBounds => cov # NoBounds
    /\ j.synced => /\ pc[w] \in {"close", "fail"}
                   /\ Names(j.bounds, Stored \cup j.staged)
                   /\ j.seenCov # NoBounds => j.bounds # NoBounds

CoverageInvariant ==
    /\ ArchiveInvariant
    /\ CoverageStored
    /\ \A w \in Workers : JobCovers(w)

\* An update from such a job leaves a coverage that names stored bars.
LEMMA WriteNames ==
    ASSUME NEW c \in Bounds, NEW j \in Jobs, NEW S, S \subseteq Time,
           NEW T, T \subseteq Time, S \subseteq T,
           Names(c, S), Names(j.bounds, T), j.seenCov # NoBounds => c # NoBounds,
           j.seenCov # NoBounds => j.bounds # NoBounds
    PROVE  /\ Names(Flush(c, j.seenCov, j.bounds), T)
           /\ c # NoBounds => Flush(c, j.seenCov, j.bounds) # NoBounds
<1> DEFINE b == j.bounds
           s == j.seenCov
           new == Flush(c, s, b)
<1>1. b \in Bounds /\ s \in Bounds
  BY DEF Jobs
<1>2. /\ new.start = IF b.start # s.start THEN b.start ELSE c.start
      /\ new.end = IF b.end # s.end THEN b.end ELSE c.end
      /\ new \in Bounds
  BY <1>1, FlushBounds DEF Flush, Bounds
<1>3. \A t \in T : t # 0
  BY MaxTimeAssumption DEF Time
<1>4. \A x \in Bounds : x = NoBounds <=> x.start = 0 /\ x.end = 0
  BY DEF Bounds, NoBounds
<1>5. c = NoBounds \/ (c.start \in T /\ c.end \in T)
  BY DEF Names
<1>6. b = NoBounds \/ (b.start \in T /\ b.end \in T)
  BY DEF Names
<1>7. (s = NoBounds \/ b # NoBounds) /\ (s = NoBounds \/ c # NoBounds)
  OBVIOUS
<1> HIDE DEF b, s, new
<1>8. CASE b = NoBounds
  <2>1. s = NoBounds
    BY <1>7, <1>8
  <2>2. new.start = c.start /\ new.end = c.end
    BY <1>2, <1>8, <2>1
  <2>3. QED
    BY <1>2, <1>4, <1>5, <2>2 DEF Names, new, b, s
<1>9. CASE b # NoBounds
  <2>1. new.start \in T /\ new.end \in T
    <3>1. CASE s = NoBounds
      BY <1>1, <1>2, <1>3, <1>4, <1>6, <1>9, <3>1
    <3>2. CASE s # NoBounds
      BY <1>2, <1>5, <1>6, <1>7, <1>9, <3>2
    <3>3. QED
      BY <3>1, <3>2
  <2>2. new # NoBounds
    BY <1>2, <1>3, <1>4, <2>1
  <2>3. QED
    BY <2>1, <2>2 DEF Names, new, b, s
<1>10. QED
  BY <1>8, <1>9

\* Rows of neither table are ever deleted.
LEMMA TablesGrow ==
    ASSUME ArchiveInvariant, [Next]_vars
    PROVE  /\ \A tf \in Timeframes : DOMAIN bars[tf] \subseteq DOMAIN bars'[tf]
           /\ raw \subseteq raw'
<1>1. bars \in [Timeframes -> Batches]
  BY DEF ArchiveInvariant, TypeOK
<1>2. ASSUME NEW row \in RawRows, Archive!Ingest(row),
             NEW tf \in Timeframes
      PROVE  DOMAIN bars[tf] \subseteq DOMAIN bars'[tf]
  <2>1. row.tf \in Timeframes /\ row.payload \in Batches
    BY DEF RawRows
  <2>2. bars' = [bars EXCEPT ![row.tf] = InsertMissing(bars[row.tf], row.payload)]
    BY <1>2 DEF Archive!Ingest, Archive!InsertMissing, InsertMissing
  <2>3. DOMAIN bars[row.tf]
        \subseteq DOMAIN InsertMissing(bars[row.tf], row.payload)
    <3>1. bars[row.tf] \in Batches
      BY <1>1, <2>1
    <3>2. DOMAIN InsertMissing(bars[row.tf], row.payload)
          = DOMAIN bars[row.tf] \cup DOMAIN row.payload
      BY <2>1, <3>1, InsertMissingFacts
    <3>3. QED
      BY <3>2
  <2>4. QED
    BY <1>1, <2>1, <2>2, <2>3
<1>3. \A tf \in Timeframes : DOMAIN bars[tf] \subseteq DOMAIN bars'[tf]
  BY <1>2, ArchiveStep
<1>4. raw \subseteq raw'
  BY ArchiveStep DEF Archive!Ingest
<1>5. QED
  BY <1>3, <1>4

LEMMA StoredGrows ==
    ASSUME ArchiveInvariant, [Next]_vars
    PROVE  Stored \subseteq Stored'
BY TablesGrow DEF Stored

\* What a step of one worker has to show.
LEMMA CoversMove ==
    ASSUME CoverageInvariant, [Next]_vars,
           NEW w \in Workers, NEW label, NEW j, Goto(w, label, j),
           Names(cov', Stored'), cov # NoBounds => cov' # NoBounds,
           j.seenCov # NoBounds => cov' # NoBounds,
           j.synced => /\ label \in {"close", "fail"}
                       /\ Names(j.bounds, Stored' \cup j.staged)
                       /\ j.seenCov # NoBounds => j.bounds # NoBounds
    PROVE  CoverageInvariant'
<1>1. ArchiveInvariant' /\ Stored \subseteq Stored'
  BY ArchiveInvariantNext, StoredGrows DEF CoverageInvariant
<1>2. pc'[w] = label /\ job'[w] = j
  BY DEF CoverageInvariant, ArchiveInvariant, TypeOK, Goto
<1>3. ASSUME NEW u \in Workers PROVE JobCovers(u)'
  <2>1. CASE u = w
    BY <1>2, <2>1 DEF JobCovers
  <2>2. CASE u # w
    <3>1. pc'[u] = pc[u] /\ job'[u] = job[u]
      BY <2>2 DEF CoverageInvariant, ArchiveInvariant, TypeOK, Goto
    <3>2. JobCovers(u)
      BY DEF CoverageInvariant
    <3>3. job[u].synced => Names(job[u].bounds, Stored' \cup job[u].staged)
      BY <1>1, <3>2 DEF JobCovers, Names
    <3>4. QED
      BY <3>1, <3>2, <3>3 DEF JobCovers
  <2>3. QED
    BY <2>1, <2>2
<1>4. CoverageStored'
  BY DEF CoverageStored, Names
<1>5. QED
  BY <1>1, <1>3, <1>4 DEF CoverageInvariant

\* A worker that has not synced yet, while the coverage stays as it is.
LEMMA UnsyncedMove ==
    ASSUME CoverageInvariant, [Next]_vars,
           NEW w \in Workers, NEW label, NEW j, Goto(w, label, j), cov' = cov,
           ~j.synced, j.seenCov # NoBounds => cov # NoBounds
    PROVE  CoverageInvariant'
<1>1. Names(cov, Stored')
  BY StoredGrows DEF CoverageInvariant, CoverageStored, Names
<1>2. QED
  BY <1>1, CoversMove

LEMMA NoJobUnsynced == ~NoJob.synced /\ NoJob.seenCov = NoBounds
BY DEF NoJob

LEMMA CoversLeave ==
    ASSUME CoverageInvariant, [Next]_vars, NEW w \in Workers, Leave(w),
           cov' = cov
    PROVE  CoverageInvariant'
BY UnsyncedMove, NoJobUnsynced DEF Leave

\* A call loads the coverage there is.
LEMMA CallCovers ==
    ASSUME CoverageInvariant, [Next]_vars, NEW w \in Workers, Call(w)
    PROVE  CoverageInvariant'
<1>0. NoJob \in Jobs /\ ~NoJob.synced
  BY NoJobType, NoJobUnsynced
<1>1. PICK tf \in Timeframes :
         \/ \E range \in Ranges :
               \/ StartBackfill(w, tf, range)
               \/ \E i \in RunIds : BeginResume(w, i, tf, range)
         \/ StartIncremental(w, tf)
         \/ AlreadyCurrent(w, tf)
  BY DEF Call
<1>2. ASSUME NEW range \in Ranges, StartBackfill(w, tf, range)
      PROVE  CoverageInvariant'
  <2> DEFINE j == [NoJob EXCEPT !.kind = "backfill", !.tf = tf,
                     !.start = range[1], !.end = range[2], !.cursor = range[1],
                     !.run = Len(runs) + 1,
                     !.existing = BoundsOf(DOMAIN bars[tf]),
                     !.seenRun = [NewRun("backfill") EXCEPT !.status = "running"],
                     !.seenCov = cov]
  <2>1. ~j.synced /\ j.seenCov = cov
    BY <1>0 DEF Jobs
  <2>2. Goto(w, LoopHead(j), j) /\ cov' = cov
    BY <1>2 DEF StartBackfill
  <2> HIDE DEF j
  <2>3. QED
    BY <2>1, <2>2, UnsyncedMove
<1>3. ASSUME NEW range \in Ranges, NEW i \in RunIds, BeginResume(w, i, tf, range)
      PROVE  CoverageInvariant'
  <2> DEFINE j == [NoJob EXCEPT !.kind = "backfill", !.tf = tf,
                     !.start = range[1], !.end = range[2], !.cursor = range[1],
                     !.run = i,
                     !.existing = BoundsOf(DOMAIN bars[tf]),
                     !.processed = AlreadyProcessed(i),
                     !.fetched = runs[i].fetched, !.inserted = runs[i].inserted,
                     !.failed = runs[i].failed,
                     !.seenRun = runs[i], !.seenCov = cov]
  <2>1. ~j.synced /\ j.seenCov = cov
    BY <1>0 DEF Jobs
  <2>2. Goto(w, "resume", j) /\ cov' = cov
    BY <1>3 DEF BeginResume, db
  <2> HIDE DEF j
  <2>3. QED
    BY <2>1, <2>2, UnsyncedMove
<1>4. ASSUME StartIncremental(w, tf) PROVE CoverageInvariant'
  <2> DEFINE j == [NoJob EXCEPT !.kind = "incremental", !.tf = tf,
                     !.start = IncrementalStart, !.end = now,
                     !.run = Len(runs) + 1,
                     !.seenRun = [NewRun("incremental") EXCEPT
                                     !.status = "running"],
                     !.seenCov = cov]
  <2>1. ~j.synced /\ j.seenCov = cov
    BY <1>0 DEF Jobs
  <2>2. Goto(w, "fetch", j) /\ cov' = cov
    BY <1>4 DEF StartIncremental
  <2> HIDE DEF j
  <2>3. QED
    BY <2>1, <2>2, UnsyncedMove
<1>5. ASSUME AlreadyCurrent(w, tf) PROVE CoverageInvariant'
  <2>1. bars' = bars /\ cov' = cov /\ pc' = pc /\ job' = job
    BY <1>5 DEF AlreadyCurrent
  <2>2. ArchiveInvariant'
    BY ArchiveInvariantNext DEF CoverageInvariant
  <2>3. QED
    BY <2>1, <2>2 DEF CoverageInvariant, CoverageStored, JobCovers, Stored
<1>6. QED
  BY <1>1, <1>2, <1>3, <1>4, <1>5

\* The steps before the bounds are read, and the error handlers.
LEMMA LocalCovers ==
    ASSUME CoverageInvariant, [Next]_vars, NEW w \in Workers,
           \/ CommitResume(w) \/ SkipChunk(w) \/ FetchChunk(w)
           \/ CommitChunk(w) \/ FetchIncremental(w) \/ StageIncremental(w)
    PROVE  CoverageInvariant'
<1> DEFINE j == job[w]
<1>1. j \in Jobs /\ (j.seenCov # NoBounds => cov # NoBounds)
  BY JobFacts DEF CoverageInvariant, ArchiveInvariant, JobCovers
<1>2. pc[w] \in {"resume", "loop", "fetch", "ingest"}
  BY DEF CommitResume, SkipChunk, FetchChunk, CommitChunk, FetchIncremental,
         StageIncremental
<1>3. ~j.synced
  BY <1>2 DEF CoverageInvariant, JobCovers
<1>4. cov' = cov
  BY DEF CommitResume, SkipChunk, FetchChunk, CommitChunk, FetchIncremental,
         StageIncremental, db
<1>5. ASSUME NEW label, NEW next, Goto(w, label, next),
             ~next.synced, next.seenCov = j.seenCov
      PROVE  CoverageInvariant'
  BY <1>1, <1>4, <1>5, UnsyncedMove
<1>6. CASE CommitResume(w)
  <2>1. PICK row : Goto(w, LoopHead(j), [j EXCEPT !.seenRun = row])
    BY <1>6 DEF CommitResume
  <2>2. /\ ~[j EXCEPT !.seenRun = row].synced
        /\ [j EXCEPT !.seenRun = row].seenCov = j.seenCov
    BY <1>1, <1>3 DEF Jobs
  <2>3. QED
    BY <1>5, <2>1, <2>2
<1>7. CASE SkipChunk(w)
  <2>1. Goto(w, LoopHead(Advance(j)), Advance(j))
    BY <1>7 DEF SkipChunk
  <2>2. ~Advance(j).synced /\ Advance(j).seenCov = j.seenCov
    BY <1>1, <1>3 DEF Advance, Jobs
  <2>3. QED
    BY <1>5, <2>1, <2>2
<1>8. CASE FetchChunk(w)
  <2>1. PICK b : Goto(w, "ingest", [j EXCEPT !.batch = b])
    BY <1>8 DEF FetchChunk
  <2>2. /\ ~[j EXCEPT !.batch = b].synced
        /\ [j EXCEPT !.batch = b].seenCov = j.seenCov
    BY <1>1, <1>3 DEF Jobs
  <2>3. QED
    BY <1>5, <2>1, <2>2
<1>9. CASE CommitChunk(w)
  <2> DEFINE fetched == j.fetched + Cardinality(DOMAIN j.batch)
             inserted == j.inserted + Cardinality(Missing(j))
             row == Flush(runs[j.run], j.seenRun,
                          [j.seenRun EXCEPT !.fetched = fetched,
                                            !.inserted = inserted])
             next == [Advance(j) EXCEPT !.fetched = fetched,
                        !.inserted = inserted, !.seenRun = row,
                        !.batch = NoBars]
  <2>1. Goto(w, LoopHead(next), next)
    BY <1>9 DEF CommitChunk
  <2> HIDE DEF fetched, inserted, row
  <2>2. ~next.synced /\ next.seenCov = j.seenCov
    BY <1>1, <1>3 DEF Advance, Jobs
  <2> HIDE DEF next
  <2>3. QED
    BY <1>5, <2>1, <2>2
<1>10. CASE FetchIncremental(w)
  <2>1. PICK b, n : Goto(w, "ingest", [j EXCEPT !.batch = b, !.fetched = n])
    BY <1>10 DEF FetchIncremental
  <2>2. /\ ~[j EXCEPT !.batch = b, !.fetched = n].synced
        /\ [j EXCEPT !.batch = b, !.fetched = n].seenCov = j.seenCov
    BY <1>1, <1>3 DEF Jobs
  <2>3. QED
    BY <1>5, <2>1, <2>2
<1>11. CASE StageIncremental(w)
  <2> DEFINE next == [j EXCEPT !.staged = Missing(j),
                               !.inserted = Cardinality(Missing(j))]
  <2>1. Goto(w, SuccessTail(next), next)
    BY <1>11 DEF StageIncremental
  <2>2. ~next.synced /\ next.seenCov = j.seenCov
    BY <1>1, <1>3 DEF Jobs
  <2> HIDE DEF next
  <2>3. QED
    BY <1>5, <2>1, <2>2
<1>12. QED
  BY <1>6, <1>7, <1>8, <1>9, <1>10, <1>11

LEMMA FaultCovers ==
    ASSUME CoverageInvariant, [Next]_vars, NEW w \in Workers, Fault(w)
    PROVE  CoverageInvariant'
<1> DEFINE j == job[w]
<1>1. j \in Jobs /\ (j.seenCov # NoBounds => cov # NoBounds)
  BY JobFacts DEF CoverageInvariant, ArchiveInvariant, JobCovers
<1>2. pc[w] \notin {"close", "fail"} => ~j.synced
  BY DEF CoverageInvariant, JobCovers
<1>3. cov' = cov
  BY DEF Fault, FetchFails, PipelineFails, TransactionFails, SyncRaises, Crash, db
<1>4. ASSUME Handle(w), pc[w] \notin {"close", "fail"} PROVE CoverageInvariant'
  <2>1. PICK label, n : Goto(w, label, [j EXCEPT !.failed = n, !.batch = NoBars])
    BY <1>4 DEF Handle
  <2>2. /\ ~[j EXCEPT !.failed = n, !.batch = NoBars].synced
        /\ [j EXCEPT !.failed = n, !.batch = NoBars].seenCov = j.seenCov
    BY <1>1, <1>2, <1>4 DEF Jobs
  <2>3. QED
    BY <1>1, <1>3, <2>1, <2>2, UnsyncedMove
<1>5. CASE FetchFails(w)
  BY <1>4, <1>5 DEF FetchFails
<1>6. CASE PipelineFails(w)
  BY <1>4, <1>6 DEF PipelineFails
<1>7. CASE TransactionFails(w) \/ Crash(w)
  BY <1>3, <1>7, CoversLeave DEF TransactionFails, Crash
<1>8. CASE SyncRaises(w)
  BY <1>1, <1>2, <1>3, <1>8, UnsyncedMove DEF SyncRaises
<1>9. QED
  BY <1>5, <1>6, <1>7, <1>8 DEF Fault

\* The bounds of the bars a transaction sees name these bars.
LEMMA ReadBoundsCovers ==
    ASSUME CoverageInvariant, [Next]_vars, NEW w \in Workers, ReadBounds(w)
    PROVE  CoverageInvariant'
<1> DEFINE j == job[w]
           seen == Stored \cup j.staged
           b == BoundsOf(seen)
           next == [j EXCEPT !.bounds = b, !.synced = TRUE]
<1>1. /\ j \in Jobs /\ j.staged \subseteq Time /\ Stored \subseteq Time
      /\ j.seenCov # NoBounds => cov # NoBounds
  BY JobFacts, StoredType DEF CoverageInvariant, ArchiveInvariant, JobCovers, Jobs
<1>2. PICK label \in {"close", "fail"} : Goto(w, label, next)
  BY DEF ReadBounds
<1>3. cov' = cov /\ bars' = bars
  BY DEF ReadBounds, db
<1>4. Names(b, seen)
  <2>1. CASE seen = {}
    BY <2>1 DEF BoundsOf, Names
  <2>2. CASE seen # {}
    <3> HIDE DEF seen
    <3>1. seen \subseteq Time
      BY <1>1 DEF seen
    <3>2. QED
      BY <2>2, <3>1, BoundsOfStored DEF Names
  <2>3. QED
    BY <2>1, <2>2
<1>5. ASSUME cov # NoBounds PROVE b # NoBounds
  <2>1. seen # {} /\ seen \subseteq Time
    BY <1>1, <1>5 DEF CoverageInvariant, CoverageStored
  <2> HIDE DEF seen
  <2>2. b.start \in seen
    BY <2>1, BoundsOfStored
  <2>3. b.start # 0
    BY <2>1, <2>2, MaxTimeAssumption DEF Time
  <2>4. QED
    BY <2>3 DEF NoBounds
<1>6. /\ next.bounds = b /\ next.staged = j.staged
      /\ next.seenCov = j.seenCov
  BY <1>1 DEF Jobs
<1>7. Stored' = Stored
  BY <1>3 DEF Stored
<1>8. Names(cov, Stored)
  BY DEF CoverageInvariant, CoverageStored, Names
<1> HIDE DEF next, b
<1>9. Names(next.bounds, Stored \cup next.staged)
  BY <1>4, <1>6
<1> HIDE DEF j, seen
<1>10. QED
  BY <1>1, <1>2, <1>3, <1>5, <1>6, <1>7, <1>8, <1>9, CoversMove

\* The commit of a call writes the bounds it read, when the bars they name are
\* stored: those its transaction had staged become so in the same commit.
LEMMA CloseCovers ==
    ASSUME CoverageInvariant, [Next]_vars, NEW w \in Workers,
           WriteCoverage(job[w]), Leave(w),
           Stored \cup job[w].staged \subseteq Stored'
    PROVE  CoverageInvariant'
<1> DEFINE j == job[w]
<1>1. /\ j \in Jobs /\ cov \in Bounds
      /\ Stored \subseteq Time /\ Stored' \subseteq Time
  BY JobFacts, StoredType, ArchiveInvariantNext
  DEF CoverageInvariant, ArchiveInvariant, TypeOK, Stored, Batches
<1>2. Names(cov, Stored)
  BY DEF CoverageInvariant, CoverageStored, Names
<1>3. j.seenCov # NoBounds => cov # NoBounds
  BY DEF CoverageInvariant, JobCovers
<1>4. CASE ~j.synced
  BY <1>4, CoversLeave DEF WriteCoverage
<1>5. CASE j.synced
  <2>1. cov' = Flush(cov, j.seenCov, j.bounds)
    BY <1>5 DEF WriteCoverage
  <2>2. /\ Names(j.bounds, Stored \cup j.staged)
        /\ j.seenCov # NoBounds => j.bounds # NoBounds
    BY <1>5 DEF CoverageInvariant, JobCovers
  <2>3. Names(j.bounds, Stored')
    BY <2>2 DEF Names
  <2>4. Stored \subseteq Stored'
    OBVIOUS
  <2> HIDE DEF j
  <2>5. /\ Names(Flush(cov, j.seenCov, j.bounds), Stored')
        /\ cov # NoBounds => Flush(cov, j.seenCov, j.bounds) # NoBounds
    BY <1>1, <1>2, <1>3, <2>2, <2>3, <2>4, WriteNames
  <2>6. QED
    BY <2>1, <2>5, NoJobUnsynced, CoversMove DEF Leave
<1>6. QED
  BY <1>4, <1>5

LEMMA CommitSuccessCovers ==
    ASSUME CoverageInvariant, [Next]_vars, NEW w \in Workers, CommitSuccess(w)
    PROVE  CoverageInvariant'
<1> DEFINE j == job[w]
           table == [t \in DOMAIN bars[j.tf] \cup j.staged |->
                       IF t \in j.staged THEN j.batch[t] ELSE bars[j.tf][t]]
<1>1. WriteCoverage(j) /\ Leave(w) /\ pc[w] = "close"
  BY DEF CommitSuccess
<1>2. Stored \subseteq Stored'
  BY StoredGrows DEF CoverageInvariant
<1>3. CASE j.kind = "incremental"
  <2>1. bars' = [bars EXCEPT ![j.tf] = table]
    BY <1>3 DEF CommitSuccess
  <2>2. j.tf \in Timeframes /\ bars \in [Timeframes -> Batches]
    BY JobFacts DEF CoverageInvariant, ArchiveInvariant, TypeOK, Jobs
  <2>3. j.staged \subseteq DOMAIN bars'[j.tf]
    BY <2>1, <2>2
  <2>4. j.staged \subseteq Stored'
    BY <2>2, <2>3 DEF Stored
  <2>5. QED
    BY <1>1, <1>2, <2>4, CloseCovers
<1>4. CASE j.kind # "incremental"
  <2>1. j.staged \subseteq Stored'
    BY <1>2, <1>4 DEF CoverageInvariant, ArchiveInvariant, KindsFit
  <2>2. QED
    BY <1>1, <1>2, <2>1, CloseCovers
<1>5. QED
  BY <1>3, <1>4

LEMMA CommitFailureCovers ==
    ASSUME CoverageInvariant, [Next]_vars, NEW w \in Workers, CommitFailure(w)
    PROVE  CoverageInvariant'
<1>1. /\ pc[w] = "fail" /\ WriteCoverage(job[w]) /\ Leave(w) /\ bars' = bars
  BY DEF CommitFailure
<1>2. job[w].staged = {}
  BY <1>1, JobFacts DEF CoverageInvariant, ArchiveInvariant
<1>3. Stored' = Stored
  BY <1>1 DEF Stored
<1>4. QED
  BY <1>1, <1>2, <1>3, CloseCovers

LEMMA CoverageInvariantNext ==
    ASSUME CoverageInvariant, [Next]_vars
    PROVE  CoverageInvariant'
<1>1. ASSUME bars' = bars, cov' = cov, pc' = pc, job' = job
      PROVE  CoverageInvariant'
  <2>1. ArchiveInvariant'
    BY ArchiveInvariantNext DEF CoverageInvariant
  <2>2. QED
    BY <1>1, <2>1 DEF CoverageInvariant, CoverageStored, JobCovers, Stored
<1>2. ASSUME NEW type \in Kinds, Trigger(type) PROVE CoverageInvariant'
  BY <1>1, <1>2 DEF Trigger
<1>3. ASSUME NEW w \in Workers, Work(w) PROVE CoverageInvariant'
  BY <1>3, LocalCovers, ReadBoundsCovers, CommitSuccessCovers,
     CommitFailureCovers DEF Work
<1>4. ASSUME NEW w \in Workers, Call(w) \/ Work(w) \/ Fault(w)
      PROVE  CoverageInvariant'
  BY <1>3, <1>4, CallCovers, FaultCovers
<1>5. CASE Tick
  BY <1>1, <1>5 DEF Tick, db
<1>6. CASE Rest \/ UNCHANGED vars
  BY <1>1, <1>6 DEF Rest, vars
<1>7. QED
  BY <1>2, <1>4, <1>5, <1>6 DEF Next

LEMMA CoverageInvariantInit == Init => CoverageInvariant
<1>1. ASSUME Init PROVE CoverageStored /\ \A w \in Workers : JobCovers(w)
  <2>1. cov = NoBounds /\ \A w \in Workers : job[w] = NoJob
    BY <1>1 DEF Init
  <2>2. QED
    BY <2>1, NoJobUnsynced DEF CoverageStored, JobCovers
<1>2. QED
  BY <1>1, ArchiveInvariantInit DEF CoverageInvariant

\* The coverage of the symbol, which the next incremental call starts from and
\* the API reports, names bars that are stored, in every reachable state.
THEOREM IngestionCoverageStored == Spec => []CoverageStored
<1>1. Spec => []CoverageInvariant
  BY CoverageInvariantInit, CoverageInvariantNext, PTL DEF Spec
<1>2. CoverageInvariant => CoverageStored
  BY DEF CoverageInvariant
<1>3. QED
  BY <1>1, <1>2, PTL

-----------------------------------------------------------------------------
\* One session at a time, whose calls fail only where the handlers expect it:
\* then the coverage is that of the stored bars whenever no call executes.

OneWorker == \A v, w \in Workers : v = w

HandledFaults == Faults \cap {"database", "sync", "crash"} = {}

\* A call has the coverage as it is.  That is exact as long as the call has
\* stored nothing; once it has, it reads the bounds before it ends.
Follows(label, j, c, S) ==
    /\ j.seenCov = c
    /\ j.kind = "incremental" \/ j.inserted = 0 => c = BoundsOf(S)
    /\ j.synced => /\ label \in {"close", "fail"}
                   /\ j.bounds = BoundsOf(S \cup j.staged)
    /\ label = "close" /\ ~j.synced => j.inserted = 0
    /\ label = "fail" /\ ~j.synced => j.kind = "incremental" \/ j.inserted = 0

ExactCoverageInvariant ==
    /\ RunInvariant
    /\ CoverageExact
    /\ \A w \in Workers : pc[w] # "idle" => Follows(pc[w], job[w], cov, Stored)

LEMMA FollowsMove ==
    ASSUME OneWorker, ExactCoverageInvariant, [Next]_vars,
           NEW w \in Workers, NEW label, NEW j, Goto(w, label, j),
           label = "idle" => cov' = BoundsOf(Stored'),
           label # "idle" => Follows(label, j, cov', Stored')
    PROVE  ExactCoverageInvariant'
<1>1. RunInvariant' /\ pc'[w] = label /\ job'[w] = j
  BY RunInvariantNext, Moved
  DEF ExactCoverageInvariant, RunInvariant, ArchiveInvariant
<1>2. \A v \in Workers : v = w
  BY DEF OneWorker
<1>3. CoverageExact'
  BY <1>1 DEF CoverageExact, Stored
<1>4. QED
  BY <1>1, <1>2, <1>3 DEF ExactCoverageInvariant, Follows, Stored

\* What a call that executes has done so far.
LEMMA FollowsFacts ==
    ASSUME ExactCoverageInvariant, NEW w \in Workers, pc[w] # "idle"
    PROVE  /\ Follows(pc[w], job[w], cov, Stored)
           /\ job[w] \in Jobs /\ job[w].inserted \in Nat
           /\ job[w].kind \in {"backfill", "incremental"}
           /\ job[w].kind = "incremental"
                 => job[w].inserted = Cardinality(job[w].staged)
           /\ pc[w] \notin {"sync", "close"} => job[w].staged = {}
           /\ job[w].staged # {} => job[w].kind = "incremental"
           /\ pc[w] \in {"resume", "loop"} => job[w].kind = "backfill"
           /\ IsFiniteSet(job[w].staged)
<1>1. RunInvariant /\ Follows(pc[w], job[w], cov, Stored)
  BY DEF ExactCoverageInvariant
<1>2. job[w] \in Jobs /\ job[w].staged \subseteq DOMAIN job[w].batch
  BY <1>1, JobFacts DEF RunInvariant, ArchiveInvariant
<1>3. IsFiniteSet(job[w].staged) /\ job[w].inserted \in Nat
  BY <1>2, BatchType, FS_Subset DEF Jobs
<1>4. QED
  BY <1>1, <1>2, <1>3, RunFacts

\* The head of the loop ends in a sync when the run has inserted bars.
LEMMA LoopHeadFollows ==
    ASSUME NEW j, j.inserted \in Nat
    PROVE  /\ LoopHead(j) \in {"sync", "close", "loop"}
           /\ LoopHead(j) = "close" => j.inserted = 0
           /\ SuccessTail(j) \in {"sync", "close"}
           /\ SuccessTail(j) = "close" => j.inserted = 0
BY DEF LoopHead, SuccessTail

LEMMA GainsStored ==
    ASSUME NEW tf, NEW new, Gains(tf, new) PROVE Stored' = Stored \cup new
<1>1. /\ tf \in Timeframes /\ DOMAIN bars'[tf] = DOMAIN bars[tf] \cup new
      /\ \A other \in Timeframes \ {tf} : DOMAIN bars'[other] = DOMAIN bars[other]
  BY DEF Gains
<1>2. ASSUME NEW t PROVE t \in Stored' <=> t \in Stored \cup new
  <2>1. t \in Stored' <=> \E k \in Timeframes : t \in DOMAIN bars'[k]
    BY DEF Stored
  <2>2. t \in Stored <=> \E k \in Timeframes : t \in DOMAIN bars[k]
    BY DEF Stored
  <2>3. QED
    BY <1>1, <2>1, <2>2
<1>3. QED
  BY <1>2

\* A call begins when none executes, with the exact coverage.
LEMMA CallFollows ==
    ASSUME OneWorker, ExactCoverageInvariant, [Next]_vars,
           NEW w \in Workers, Call(w)
    PROVE  ExactCoverageInvariant'
<1>0. /\ NoJob \in Jobs /\ NoJob.inserted = 0 /\ NoJob.staged = {} /\ ~NoJob.synced
      /\ TypeOK
  BY NoJobType, NoJobUnsynced
  DEF NoJob, ExactCoverageInvariant, RunInvariant, ArchiveInvariant
<1>1. PICK tf \in Timeframes :
         \/ \E range \in Ranges :
               \/ StartBackfill(w, tf, range)
               \/ \E i \in RunIds : BeginResume(w, i, tf, range)
         \/ StartIncremental(w, tf)
         \/ AlreadyCurrent(w, tf)
  BY DEF Call
<1>2. bars' = bars /\ cov' = cov /\ pc[w] = "idle"
  BY <1>1 DEF StartBackfill, BeginResume, StartIncremental, AlreadyCurrent, db
<1>3. Stored' = Stored /\ cov = BoundsOf(Stored)
  BY <1>2 DEF OneWorker, ExactCoverageInvariant, CoverageExact, Stored
<1>4. ASSUME NEW label, NEW j, Goto(w, label, j), label # "idle",
             j.seenCov = cov, ~j.synced, label # "fail",
             label = "close" => j.inserted = 0
      PROVE  ExactCoverageInvariant'
  BY <1>2, <1>3, <1>4, FollowsMove DEF Follows
<1>5. ASSUME NEW range \in Ranges, StartBackfill(w, tf, range)
      PROVE  ExactCoverageInvariant'
  <2> DEFINE j == [NoJob EXCEPT !.kind = "backfill", !.tf = tf,
                     !.start = range[1], !.end = range[2], !.cursor = range[1],
                     !.run = Len(runs) + 1,
                     !.existing = BoundsOf(DOMAIN bars[tf]),
                     !.seenRun = [NewRun("backfill") EXCEPT !.status = "running"],
                     !.seenCov = cov]
             label == LoopHead(j)
  <2>1. /\ ~j.synced /\ j.seenCov = cov /\ j.inserted = 0
    BY <1>0 DEF Jobs
  <2>2. Goto(w, label, j)
    BY <1>5 DEF StartBackfill
  <2> HIDE DEF j
  <2>3. label \in {"sync", "close", "loop"}
    BY LoopHeadType
  <2> HIDE DEF label
  <2>4. QED
    BY <1>4, <2>1, <2>2, <2>3
<1>6. ASSUME NEW range \in Ranges, NEW i \in RunIds, BeginResume(w, i, tf, range)
      PROVE  ExactCoverageInvariant'
  <2> DEFINE j == [NoJob EXCEPT !.kind = "backfill", !.tf = tf,
                     !.start = range[1], !.end = range[2], !.cursor = range[1],
                     !.run = i,
                     !.existing = BoundsOf(DOMAIN bars[tf]),
                     !.processed = AlreadyProcessed(i),
                     !.fetched = runs[i].fetched, !.inserted = runs[i].inserted,
                     !.failed = runs[i].failed,
                     !.seenRun = runs[i], !.seenCov = cov]
  <2>1. ~j.synced /\ j.seenCov = cov
    BY <1>0 DEF Jobs
  <2>2. Goto(w, "resume", j)
    BY <1>6 DEF BeginResume
  <2> HIDE DEF j
  <2>3. QED
    BY <1>4, <2>1, <2>2
<1>7. ASSUME StartIncremental(w, tf) PROVE ExactCoverageInvariant'
  <2> DEFINE j == [NoJob EXCEPT !.kind = "incremental", !.tf = tf,
                     !.start = IncrementalStart, !.end = now,
                     !.run = Len(runs) + 1,
                     !.seenRun = [NewRun("incremental") EXCEPT
                                     !.status = "running"],
                     !.seenCov = cov]
  <2>1. ~j.synced /\ j.seenCov = cov
    BY <1>0 DEF Jobs
  <2>2. Goto(w, "fetch", j)
    BY <1>7 DEF StartIncremental
  <2> HIDE DEF j
  <2>3. QED
    BY <1>4, <2>1, <2>2
<1>8. ASSUME AlreadyCurrent(w, tf) PROVE ExactCoverageInvariant'
  <2>1. pc' = pc /\ job' = job
    BY <1>8 DEF AlreadyCurrent
  <2>2. RunInvariant'
    BY RunInvariantNext DEF ExactCoverageInvariant
  <2>3. QED
    BY <1>2, <1>3, <2>1, <2>2
    DEF ExactCoverageInvariant, CoverageExact, Follows, Stored
<1>9. QED
  BY <1>1, <1>5, <1>6, <1>7, <1>8

\* The steps of a call that store nothing and write no coverage.
LEMMA LocalFollows ==
    ASSUME OneWorker, ExactCoverageInvariant, [Next]_vars, NEW w \in Workers,
           \/ CommitResume(w) \/ SkipChunk(w) \/ FetchChunk(w)
           \/ FetchIncremental(w) \/ StageIncremental(w)
    PROVE  ExactCoverageInvariant'
<1> DEFINE j == job[w]
<1>1. /\ pc[w] \in {"resume", "loop", "fetch", "ingest"}
      /\ bars' = bars /\ cov' = cov
  BY DEF CommitResume, SkipChunk, FetchChunk, FetchIncremental,
         StageIncremental, db
<1>2. /\ Follows(pc[w], j, cov, Stored) /\ j \in Jobs /\ j.inserted \in Nat
      /\ j.kind \in {"backfill", "incremental"}
      /\ pc[w] \in {"resume", "loop"} => j.kind = "backfill"
  BY <1>1, FollowsFacts
<1>3. /\ ~j.synced /\ j.seenCov = cov
      /\ j.kind = "incremental" \/ j.inserted = 0 => cov = BoundsOf(Stored)
  BY <1>1, <1>2 DEF Follows
<1>4. Stored' = Stored
  BY <1>1 DEF Stored
<1>5. ASSUME NEW label, NEW next, Goto(w, label, next), label # "idle",
             ~next.synced, next.seenCov = j.seenCov, next.kind = j.kind,
             j.kind = "backfill" => next.inserted = j.inserted,
             label # "fail", label = "close" => next.inserted = 0
      PROVE  ExactCoverageInvariant'
  <2>1. next.kind = "incremental" \/ next.inserted = 0 => cov = BoundsOf(Stored)
    BY <1>2, <1>3, <1>5
  <2>2. Follows(label, next, cov', Stored')
    BY <1>1, <1>3, <1>4, <1>5, <2>1 DEF Follows
  <2>3. QED
    BY <1>5, <2>2, FollowsMove
<1>6. CASE CommitResume(w)
  <2>1. PICK row : Goto(w, LoopHead(j), [j EXCEPT !.seenRun = row])
    BY <1>6 DEF CommitResume
  <2> DEFINE next == [j EXCEPT !.seenRun = row]
  <2>2. /\ ~next.synced /\ next.seenCov = j.seenCov /\ next.kind = j.kind
        /\ next.inserted = j.inserted
    BY <1>2, <1>3 DEF Jobs
  <2> HIDE DEF next
  <2>3. QED
    BY <1>2, <1>5, <2>1, <2>2, LoopHeadFollows DEF next
<1>7. CASE SkipChunk(w)
  <2>1. Goto(w, LoopHead(Advance(j)), Advance(j))
    BY <1>7 DEF SkipChunk
  <2>2. /\ ~Advance(j).synced /\ Advance(j).seenCov = j.seenCov
        /\ Advance(j).kind = j.kind /\ Advance(j).inserted = j.inserted
    BY <1>2, <1>3 DEF Advance, Jobs
  <2>3. QED
    BY <1>2, <1>5, <2>1, <2>2, LoopHeadFollows
<1>8. CASE FetchChunk(w)
  <2>1. PICK b : Goto(w, "ingest", [j EXCEPT !.batch = b])
    BY <1>8 DEF FetchChunk
  <2>2. /\ ~[j EXCEPT !.batch = b].synced
        /\ [j EXCEPT !.batch = b].seenCov = j.seenCov
        /\ [j EXCEPT !.batch = b].kind = j.kind
        /\ [j EXCEPT !.batch = b].inserted = j.inserted
    BY <1>2, <1>3 DEF Jobs
  <2>3. QED
    BY <1>5, <2>1, <2>2
<1>9. CASE FetchIncremental(w)
  <2>1. PICK b, n : Goto(w, "ingest", [j EXCEPT !.batch = b, !.fetched = n])
    BY <1>9 DEF FetchIncremental
  <2>2. /\ ~[j EXCEPT !.batch = b, !.fetched = n].synced
        /\ [j EXCEPT !.batch = b, !.fetched = n].seenCov = j.seenCov
        /\ [j EXCEPT !.batch = b, !.fetched = n].kind = j.kind
        /\ [j EXCEPT !.batch = b, !.fetched = n].inserted = j.inserted
    BY <1>2, <1>3 DEF Jobs
  <2>3. QED
    BY <1>5, <2>1, <2>2
<1>10. CASE StageIncremental(w)
  <2> DEFINE next == [j EXCEPT !.staged = Missing(j),
                               !.inserted = Cardinality(Missing(j))]
  <2>1. Goto(w, SuccessTail(next), next) /\ j.kind = "incremental"
    BY <1>10 DEF StageIncremental
  <2>2. /\ ~next.synced /\ next.seenCov = j.seenCov /\ next.kind = j.kind
        /\ next.inserted = Cardinality(Missing(j))
    BY <1>2, <1>3 DEF Jobs
  <2>3. Cardinality(Missing(j)) \in Nat
    <3>1. j.batch \in Batches
      BY <1>2 DEF Jobs
    <3>2. QED
      BY <3>1, BatchSize DEF Missing
  <2> HIDE DEF next
  <2>4. QED
    BY <1>5, <2>1, <2>2, <2>3, LoopHeadFollows
<1>11. QED
  BY <1>6, <1>7, <1>8, <1>9, <1>10

\* A chunk that stores a bar makes the run one that has inserted bars.
LEMMA CommitChunkFollows ==
    ASSUME OneWorker, ExactCoverageInvariant, [Next]_vars,
           NEW w \in Workers, CommitChunk(w)
    PROVE  ExactCoverageInvariant'
<1> DEFINE j == job[w]
           new == Missing(j)
           fetched == j.fetched + Cardinality(DOMAIN j.batch)
           inserted == j.inserted + Cardinality(new)
           row == Flush(runs[j.run], j.seenRun,
                        [j.seenRun EXCEPT !.fetched = fetched,
                                          !.inserted = inserted])
           next == [Advance(j) EXCEPT !.fetched = fetched,
                      !.inserted = inserted, !.seenRun = row, !.batch = NoBars]
<1>1. /\ pc[w] = "ingest" /\ j.kind = "backfill" /\ cov' = cov
      /\ Goto(w, LoopHead(next), next)
  BY DEF CommitChunk
<1>2. /\ Follows(pc[w], j, cov, Stored) /\ j \in Jobs /\ j.inserted \in Nat
  BY <1>1, FollowsFacts
<1>3. /\ ~j.synced /\ j.seenCov = cov
      /\ j.inserted = 0 => cov = BoundsOf(Stored)
  BY <1>1, <1>2 DEF Follows
<1>4. Gains(j.tf, new)
  BY CommitChunkGains DEF ExactCoverageInvariant
<1>5. Stored' = Stored \cup new /\ IsFiniteSet(new)
  BY <1>4, GainsStored DEF Gains
<1> HIDE DEF new
<1>6. inserted \in Nat /\ (inserted = 0 => j.inserted = 0 /\ new = {})
  BY <1>2, <1>5, FS_CardinalityType, FS_EmptySet
<1> HIDE DEF inserted, fetched, row
<1>7. /\ ~next.synced /\ next.seenCov = cov /\ next.kind = "backfill"
      /\ next.inserted = inserted
  BY <1>1, <1>2, <1>3 DEF Advance, Jobs
<1> HIDE DEF next
<1>8. inserted = 0 => cov = BoundsOf(Stored')
  BY <1>3, <1>5, <1>6
<1>9. /\ LoopHead(next) \in {"sync", "close", "loop"}
      /\ LoopHead(next) = "close" => next.inserted = 0
  BY <1>6, <1>7, LoopHeadFollows
<1>10. Follows(LoopHead(next), next, cov', Stored')
  BY <1>1, <1>7, <1>8, <1>9 DEF Follows
<1>11. QED
  BY <1>1, <1>9, <1>10, FollowsMove

LEMMA ReadBoundsFollows ==
    ASSUME OneWorker, ExactCoverageInvariant, [Next]_vars,
           NEW w \in Workers, ReadBounds(w)
    PROVE  ExactCoverageInvariant'
<1> DEFINE j == job[w]
           b == BoundsOf(Stored \cup j.staged)
           next == [j EXCEPT !.bounds = b, !.synced = TRUE]
<1>1. /\ pc[w] \in {"sync", "fsync"} /\ bars' = bars /\ cov' = cov
  BY DEF ReadBounds, db
<1>2. PICK label \in {"close", "fail"} : Goto(w, label, next)
  BY DEF ReadBounds
<1>3. Follows(pc[w], j, cov, Stored) /\ j \in Jobs
  BY <1>1, FollowsFacts
<1>4. Stored' = Stored
  BY <1>1 DEF Stored
<1>5. /\ next.seenCov = j.seenCov /\ next.kind = j.kind
      /\ next.inserted = j.inserted /\ next.staged = j.staged
      /\ next.synced /\ next.bounds = b
  BY <1>3 DEF Jobs
<1> HIDE DEF next
<1>6. next.bounds = BoundsOf(Stored \cup next.staged)
  BY <1>5
<1> HIDE DEF b
<1>7. Follows(label, next, cov', Stored')
  BY <1>1, <1>2, <1>3, <1>4, <1>5, <1>6 DEF Follows
<1>8. QED
  BY <1>2, <1>7, FollowsMove

\* The commit that ends a call writes the bounds of what is stored then, or
\* leaves a coverage that is exact.
LEMMA CloseFollows ==
    ASSUME OneWorker, ExactCoverageInvariant, [Next]_vars,
           NEW w \in Workers, pc[w] \in {"close", "fail"},
           WriteCoverage(job[w]), Leave(w),
           Stored' = Stored \cup job[w].staged
    PROVE  ExactCoverageInvariant'
<1> DEFINE j == job[w]
<1>1. /\ Follows(pc[w], j, cov, Stored) /\ j \in Jobs
      /\ j.kind = "incremental" => j.inserted = Cardinality(j.staged)
      /\ j.kind \in {"backfill", "incremental"}
      /\ j.staged # {} => j.kind = "incremental" /\ pc[w] = "close"
      /\ IsFiniteSet(j.staged)
  BY FollowsFacts
<1>2. cov \in Bounds /\ j.bounds \in Bounds
  BY <1>1 DEF Jobs, ExactCoverageInvariant, RunInvariant, ArchiveInvariant, TypeOK
<1>3. CASE j.synced
  <2>1. cov' = Flush(cov, cov, j.bounds) /\ j.bounds = BoundsOf(Stored')
    BY <1>1, <1>3 DEF WriteCoverage, Follows
  <2>2. Flush(cov, cov, j.bounds) = j.bounds
    <3>1. /\ DOMAIN cov = DOMAIN j.bounds
          /\ j.bounds = [f \in DOMAIN j.bounds |-> j.bounds[f]]
      BY <1>2 DEF Bounds
    <3> HIDE DEF j
    <3>2. QED
      BY <3>1 DEF Flush
  <2>3. QED
    BY <2>1, <2>2, FollowsMove DEF Leave
<1>4. CASE ~j.synced
  <2>1. cov' = cov
    BY <1>4 DEF WriteCoverage
  <2>2. j.staged = {}
    <3>1. CASE pc[w] = "close"
      BY <1>1, <1>4, <3>1, FS_EmptySet DEF Follows
    <3>2. CASE pc[w] = "fail"
      BY <1>1, <3>2
    <3>3. QED
      BY <3>1, <3>2
  <2>3. j.kind = "incremental" \/ j.inserted = 0
    BY <1>1, <1>4 DEF Follows
  <2>4. cov = BoundsOf(Stored)
    BY <1>1, <2>3 DEF Follows
  <2>5. Stored' = Stored
    BY <2>2
  <2>6. cov' = BoundsOf(Stored')
    BY <2>1, <2>4, <2>5
  <2>7. QED
    BY <2>6, FollowsMove DEF Leave
<1>5. QED
  BY <1>3, <1>4

LEMMA CommitFollows ==
    ASSUME OneWorker, ExactCoverageInvariant, [Next]_vars,
           NEW w \in Workers, CommitSuccess(w) \/ CommitFailure(w)
    PROVE  ExactCoverageInvariant'
<1>1. CASE CommitSuccess(w)
  <2>1. pc[w] = "close" /\ WriteCoverage(job[w]) /\ Leave(w)
    BY <1>1 DEF CommitSuccess
  <2>2. Stored' = Stored \cup job[w].staged
    BY <1>1, CommitSuccessGains, GainsStored DEF ExactCoverageInvariant
  <2>3. QED
    BY <2>1, <2>2, CloseFollows
<1>2. CASE CommitFailure(w)
  <2>1. pc[w] = "fail" /\ WriteCoverage(job[w]) /\ Leave(w) /\ bars' = bars
    BY <1>2 DEF CommitFailure
  <2>2. job[w].staged = {}
    BY <2>1, FollowsFacts
  <2>3. Stored' = Stored \cup job[w].staged
    BY <2>1, <2>2 DEF Stored
  <2>4. QED
    BY <2>1, <2>3, CloseFollows
<1>3. QED
  BY <1>1, <1>2

\* The handlers of a call that inserted bars go on to a sync.
LEMMA FaultFollows ==
    ASSUME OneWorker, HandledFaults, ExactCoverageInvariant, [Next]_vars,
           NEW w \in Workers, Fault(w)
    PROVE  ExactCoverageInvariant'
<1> DEFINE j == job[w]
           count == j.failed + 1
           next == [j EXCEPT !.failed = count, !.batch = NoBars]
           label == IF j.kind = "backfill" /\ j.inserted > 0 THEN "fsync"
                    ELSE "fail"
<1>1. FetchFails(w) \/ PipelineFails(w)
  BY DEF Fault, HandledFaults, TransactionFails, SyncRaises, Crash
<1>2. /\ pc[w] \in {"fetch", "loop", "ingest"} /\ Goto(w, label, next)
      /\ bars' = bars /\ cov' = cov
  BY <1>1 DEF FetchFails, PipelineFails, Handle, db
<1>3. /\ Follows(pc[w], j, cov, Stored) /\ j \in Jobs /\ j.inserted \in Nat
      /\ j.kind \in {"backfill", "incremental"}
  BY <1>2, FollowsFacts
<1> HIDE DEF count
<1>4. /\ next.seenCov = j.seenCov /\ next.kind = j.kind
      /\ next.inserted = j.inserted /\ next.synced = j.synced
  BY <1>3 DEF Jobs
<1>5. Stored' = Stored
  BY <1>2 DEF Stored
<1>6. /\ label \in {"fsync", "fail"}
      /\ label = "fail" => j.kind = "incremental" \/ j.inserted = 0
  BY <1>3
<1> HIDE DEF next, label, j
<1>7. Follows(label, next, cov', Stored')
  BY <1>2, <1>3, <1>4, <1>5, <1>6 DEF Follows
<1>8. QED
  BY <1>2, <1>6, <1>7, FollowsMove

LEMMA ExactCoverageNext ==
    ASSUME OneWorker, HandledFaults, ExactCoverageInvariant, [Next]_vars
    PROVE  ExactCoverageInvariant'
<1>1. ASSUME bars' = bars, cov' = cov, pc' = pc, job' = job
      PROVE  ExactCoverageInvariant'
  <2>1. RunInvariant' /\ Stored' = Stored
    BY <1>1, RunInvariantNext DEF ExactCoverageInvariant, Stored
  <2>2. CoverageExact'
    BY <1>1, <2>1 DEF ExactCoverageInvariant, CoverageExact
  <2>3. \A w \in Workers :
           pc'[w] # "idle" => Follows(pc'[w], job'[w], cov', Stored')
    BY <1>1, <2>1 DEF ExactCoverageInvariant
  <2>4. QED
    BY <2>1, <2>2, <2>3 DEF ExactCoverageInvariant, Follows
<1>2. ASSUME NEW type \in Kinds, Trigger(type) PROVE ExactCoverageInvariant'
  BY <1>1, <1>2 DEF Trigger
<1>3. ASSUME NEW w \in Workers, Call(w) \/ Work(w) \/ Fault(w)
      PROVE  ExactCoverageInvariant'
  BY <1>3, CallFollows, LocalFollows, CommitChunkFollows, ReadBoundsFollows,
     CommitFollows, FaultFollows DEF Work
<1>4. CASE Tick
  BY <1>1, <1>4 DEF Tick, db
<1>5. CASE Rest \/ UNCHANGED vars
  BY <1>1, <1>5 DEF Rest, vars
<1>6. QED
  BY <1>2, <1>3, <1>4, <1>5 DEF Next

LEMMA ExactCoverageInit == Init => ExactCoverageInvariant
<1>1. ASSUME Init PROVE ExactCoverageInvariant
  <2>1. Stored = {}
    BY <1>1, NoBarsType DEF Init, Stored
  <2>2. cov = BoundsOf(Stored)
    BY <1>1, <2>1 DEF Init, BoundsOf
  <2>3. \A w \in Workers : pc[w] = "idle"
    BY <1>1 DEF Init
  <2>4. QED
    BY <1>1, <2>2, <2>3, RunInvariantInit DEF ExactCoverageInvariant, CoverageExact
<1>2. QED
  BY <1>1

\* With one session at a time, whose calls fail only in the provider or before
\* the first statement of the pipeline, the coverage of the symbol is that of
\* its stored bars whenever no call executes, failed calls included.
THEOREM IngestionCoverageExact ==
    ASSUME OneWorker, HandledFaults
    PROVE  Spec => []CoverageExact
<1>1. ASSUME ExactCoverageInvariant, [Next]_vars PROVE ExactCoverageInvariant'
  BY <1>1, ExactCoverageNext
<1>2. ExactCoverageInvariant => CoverageExact
  BY DEF ExactCoverageInvariant
<1>3. QED
  BY <1>1, <1>2, ExactCoverageInit, PTL DEF Spec

-----------------------------------------------------------------------------
\* What a backfill that succeeds may have left out.
\*
\* The payload of a raw row has every bar of its range that the provider had
\* when the run was created, because each fetch of a run comes later.  So the
\* chunks a call fetches, and those it skips because its run has a raw row, are
\* stored; what it skips otherwise lies between the bounds it found.

\* Every bar of a range that the provider had on a date is in the response.
Answered(batch, tf, from, to, date) ==
    \A t \in Offered[tf] :
        from <= t /\ t <= to /\ t <= date => t \in DOMAIN batch

PayloadComplete(r) ==
    /\ r.run \in RunIds
    /\ Answered(r.payload, r.tf, r.start, r.end, runs[r.run].created)

\* What is known of a call whose run was created on a date: what it fetched is
\* complete, the chunks it trusts have raw rows, and a bar that is missing from
\* the chunks behind it lies between the bounds it found, which are stored.
Behind(label, j, date, table, rows) ==
    /\ j.kind = "backfill" =>
          /\ label # "fetch"
          /\ label = "ingest" =>
                Answered(j.batch, j.tf, j.cursor, ChunkEnd(j), date)
          /\ label \in {"sync", "close"} => j.cursor > j.end
          /\ \A key \in j.processed : \E r \in rows :
                r.run = j.run /\ key = <<r.tf, r.start, r.end>>
          /\ j.existing # NoBounds =>
                {j.existing.start, j.existing.end} \subseteq DOMAIN table[j.tf]
          /\ \A t \in Offered[j.tf] \ DOMAIN table[j.tf] :
                j.start <= t /\ t < j.cursor /\ t <= date =>
                   /\ j.existing # NoBounds
                   /\ j.existing.start <= t /\ t <= j.existing.end
    /\ j.kind = "incremental" /\ label \in {"ingest", "sync", "close"} =>
          Answered(j.batch, j.tf, j.start, j.end, date)

\* No run was created in the future.
Dated == \A i \in RunIds : runs[i].created <= now

AllAnswered ==
    /\ \A r \in raw : PayloadComplete(r)
    /\ \A w \in Workers : pc[w] # "idle" =>
          Behind(pc[w], job[w], runs[job[w].run].created, bars, raw)

AnsweredInvariant == RunInvariant /\ Traced /\ Dated /\ AllAnswered

\* A run keeps its date.
DatesKept == \A i \in RunIds : i \in RunIds' /\ runs'[i].created = runs[i].created

LEMMA FlushDate ==
    ASSUME NEW row \in RunRows, NEW loaded, NEW object,
           object.created = loaded.created
    PROVE  Flush(row, loaded, object).created = row.created
<1>1. "created" \in DOMAIN row
  BY DEF RunRows
<1>2. QED
  BY <1>1 DEF Flush

LEMMA DatedNext ==
    ASSUME RunInvariant, RunInvariant', Dated, [Next]_vars
    PROVE  Dated' /\ DatesKept
<1>1. /\ TypeOK /\ TypeOK' /\ runs \in Seq(RunRows) /\ runs' \in Seq(RunRows)
  BY DEF RunInvariant, ArchiveInvariant, TypeOK
<1>2. /\ now \in Int /\ now' \in Int
      /\ \A i \in RunIds : runs[i].created \in Int
      /\ \A i \in RunIds' : runs'[i].created \in Int
  <2>1. Time \subseteq Int
    BY MaxTimeAssumption DEF Time
  <2>2. \A i \in RunIds : runs[i] \in RunRows
    BY <1>1 DEF RunIds
  <2>3. \A i \in RunIds' : runs'[i] \in RunRows
    BY <1>1 DEF RunIds
  <2>4. QED
    BY <1>1, <2>1, <2>2, <2>3 DEF TypeOK, RunRows
<1>3. now' = now \/ now' = now + 1
  <2>1. ASSUME NEW w \in Workers, Call(w) PROVE now' = now
    BY <2>1
    DEF Call, StartBackfill, BeginResume, StartIncremental, AlreadyCurrent
  <2>2. ASSUME NEW w \in Workers, Work(w) PROVE now' = now
    BY <2>2
    DEF Work, CommitResume, SkipChunk, FetchChunk, CommitChunk,
        FetchIncremental, StageIncremental, ReadBounds, CommitSuccess,
        CommitFailure
  <2>3. ASSUME NEW w \in Workers, Fault(w) PROVE now' = now
    BY <2>3
    DEF Fault, FetchFails, PipelineFails, TransactionFails, SyncRaises, Crash
  <2>4. QED
    BY <2>1, <2>2, <2>3 DEF Next, Trigger, Tick, Rest, vars
<1>4. ASSUME UNCHANGED runs PROVE Dated' /\ DatesKept
  BY <1>2, <1>3, <1>4 DEF Dated, DatesKept, RunIds
<1>5. ASSUME NEW row, runs' = Append(runs, row), row.created = now
      PROVE  Dated' /\ DatesKept
  <2>1. /\ RunIds' = 1 .. Len(runs) + 1 /\ runs'[Len(runs) + 1] = row
        /\ \A i \in RunIds : i \in RunIds' /\ runs'[i] = runs[i]
    BY <1>1, <1>5 DEF RunIds
  <2>2. \A i \in RunIds' : i \in RunIds \/ i = Len(runs) + 1
    BY <1>1, <2>1 DEF RunIds
  <2>3. QED
    BY <1>2, <1>3, <1>5, <2>1, <2>2 DEF Dated, DatesKept
<1>6. ASSUME NEW i \in RunIds, NEW loaded, NEW object,
             object.created = loaded.created,
             runs' = [runs EXCEPT ![i] = Flush(runs[i], loaded, object)]
      PROVE  Dated' /\ DatesKept
  <2>1. runs[i] \in RunRows
    BY <1>1 DEF RunIds
  <2>2. Flush(runs[i], loaded, object).created = runs[i].created
    BY <1>6, <2>1, FlushDate
  <2>3. /\ RunIds' = RunIds
        /\ \A k \in RunIds : runs'[k].created = runs[k].created
    BY <1>1, <1>6, <2>2 DEF RunIds
  <2>4. QED
    BY <1>2, <1>3, <2>3 DEF Dated, DatesKept
<1>7. \A type \in {"backfill", "incremental"} : NewRun(type).created = now
  BY DEF NewRun
<1>8. ASSUME NEW type \in Kinds, Trigger(type) PROVE Dated' /\ DatesKept
  BY <1>5, <1>7, <1>8, IngestionAssumption DEF Trigger
<1>9. ASSUME NEW w \in Workers, Call(w) PROVE Dated' /\ DatesKept
  <2>1. ASSUME NEW type \in {"backfill", "incremental"}
        PROVE  /\ [NewRun(type) EXCEPT !.status = "running"].created = now
               /\ [NewRun(type) EXCEPT !.status = "succeeded",
                                       !.finished = TRUE].created = now
    BY DEF NewRun
  <2>2. PICK tf \in Timeframes :
           \/ \E range \in Ranges :
                 \/ StartBackfill(w, tf, range)
                 \/ \E i \in RunIds : BeginResume(w, i, tf, range)
           \/ StartIncremental(w, tf)
           \/ AlreadyCurrent(w, tf)
    BY <1>9 DEF Call
  <2>3. ASSUME NEW range, StartBackfill(w, tf, range) PROVE Dated' /\ DatesKept
    <3>1. runs' = Append(runs, [NewRun("backfill") EXCEPT !.status = "running"])
      BY <2>3 DEF StartBackfill
    <3>2. QED
      BY <1>5, <2>1, <3>1
  <2>4. ASSUME NEW range, NEW i, BeginResume(w, i, tf, range)
        PROVE  Dated' /\ DatesKept
    BY <1>4, <2>4 DEF BeginResume, db
  <2>5. ASSUME StartIncremental(w, tf) PROVE Dated' /\ DatesKept
    <3>1. runs' = Append(runs, [NewRun("incremental") EXCEPT !.status = "running"])
      BY <2>5 DEF StartIncremental
    <3>2. QED
      BY <1>5, <2>1, <3>1
  <2>6. ASSUME AlreadyCurrent(w, tf) PROVE Dated' /\ DatesKept
    <3>1. runs' = Append(runs, [NewRun("incremental") EXCEPT
                                  !.status = "succeeded", !.finished = TRUE])
      BY <2>6 DEF AlreadyCurrent
    <3>2. QED
      BY <1>5, <2>1, <3>1
  <2>7. QED
    BY <2>2, <2>3, <2>4, <2>5, <2>6
<1>10. ASSUME NEW w \in Workers, Work(w) \/ Fault(w) PROVE Dated' /\ DatesKept
  <2> DEFINE j == job[w]
             seen == j.seenRun
  <2>1. CASE UNCHANGED runs
    BY <1>4, <2>1
  <2>2. CASE ~UNCHANGED runs
    <3>1. CommitResume(w) \/ CommitChunk(w) \/ CommitSuccess(w) \/ CommitFailure(w)
      BY <1>10, <2>2
      DEF Work, Fault, SkipChunk, FetchChunk, FetchIncremental,
          StageIncremental, ReadBounds, FetchFails, PipelineFails,
          TransactionFails, SyncRaises, Crash, db
    <3>2. pc[w] # "idle"
      BY <3>1 DEF CommitResume, CommitChunk, CommitSuccess, CommitFailure
    <3>3. j \in Jobs /\ seen \in RunRows /\ j.run \in RunIds
      BY <1>1, <3>2, JobFacts DEF Jobs
    <3>4. PICK object : /\ object.created = seen.created
                        /\ runs' = [runs EXCEPT ![j.run] =
                                      Flush(runs[j.run], seen, object)]
      <4>1. CASE CommitResume(w)
        <5> DEFINE object == [seen EXCEPT !.status = "running", !.error = FALSE,
                                          !.finished = FALSE]
        <5>1. runs' = [runs EXCEPT ![j.run] = Flush(runs[j.run], seen, object)]
          BY <4>1 DEF CommitResume
        <5>2. object.created = seen.created
          BY <3>3 DEF RunRows
        <5>3. QED
          BY <5>1, <5>2
      <4>2. CASE CommitChunk(w)
        <5> DEFINE fetched == j.fetched + Cardinality(DOMAIN j.batch)
                   inserted == j.inserted + Cardinality(Missing(j))
                   object == [seen EXCEPT !.fetched = fetched,
                                          !.inserted = inserted]
        <5>1. runs' = [runs EXCEPT ![j.run] = Flush(runs[j.run], seen, object)]
          BY <4>2 DEF CommitChunk
        <5> HIDE DEF fetched, inserted
        <5>2. object.created = seen.created
          BY <3>3 DEF RunRows
        <5>3. QED
          BY <5>1, <5>2
      <4>3. CASE CommitSuccess(w)
        <5> DEFINE object == [seen EXCEPT
                                !.status = "succeeded", !.finished = TRUE,
                                !.fetched = j.fetched, !.inserted = j.inserted,
                                !.failed = j.failed]
        <5>1. runs' = [runs EXCEPT ![j.run] = Flush(runs[j.run], seen, object)]
          BY <1>1, <3>3, <4>3 DEF CommitSuccess, RunIds
        <5>2. object.created = seen.created
          BY <3>3 DEF RunRows
        <5>3. QED
          BY <5>1, <5>2
      <4>4. CASE CommitFailure(w)
        <5> DEFINE object == [seen EXCEPT
                                !.status = "failed", !.finished = TRUE,
                                !.error = TRUE, !.fetched = j.fetched,
                                !.inserted = j.inserted, !.failed = j.failed]
        <5>1. runs' = [runs EXCEPT ![j.run] = Flush(runs[j.run], seen, object)]
          BY <1>1, <3>3, <4>4 DEF CommitFailure, RunIds
        <5>2. object.created = seen.created
          BY <3>3 DEF RunRows
        <5>3. QED
          BY <5>1, <5>2
      <4>5. QED
        BY <3>1, <4>1, <4>2, <4>3, <4>4
    <3> HIDE DEF seen, j
    <3>5. QED
      BY <1>6, <3>3, <3>4
  <2>3. QED
    BY <2>1, <2>2
<1>11. ASSUME Tick \/ Rest \/ UNCHANGED vars PROVE Dated' /\ DatesKept
  BY <1>4, <1>11 DEF Tick, Rest, vars, db
<1>12. QED
  BY <1>8, <1>9, <1>10, <1>11 DEF Next

\* All that a step keeps for the calls that do not move.
Kept ==
    /\ RunInvariant' /\ DatesKept
    /\ \A tf \in Timeframes : DOMAIN bars[tf] \subseteq DOMAIN bars'[tf]
    /\ raw \subseteq raw'

LEMMA BehindKeeps ==
    ASSUME NEW label, NEW j \in Jobs, NEW date,
           NEW table, NEW rows, NEW table1, NEW rows1,
           Behind(label, j, date, table, rows), rows \subseteq rows1,
           \A tf \in Timeframes : DOMAIN table[tf] \subseteq DOMAIN table1[tf]
    PROVE  Behind(label, j, date, table1, rows1)
<1>1. DOMAIN table[j.tf] \subseteq DOMAIN table1[j.tf]
  BY DEF Jobs
<1>2. QED
  BY <1>1 DEF Behind

LEMMA PayloadKeeps ==
    ASSUME AllAnswered, Kept, NEW r \in raw
    PROVE  PayloadComplete(r)'
BY DEF AllAnswered, Kept, DatesKept, PayloadComplete, Answered

LEMMA BehindFacts ==
    ASSUME AnsweredInvariant, NEW w \in Workers, pc[w] # "idle"
    PROVE  LET j == job[w]
               date == runs[j.run].created
           IN  /\ Behind(pc[w], j, date, bars, raw)
               /\ j \in Jobs /\ j.tf \in Timeframes
               /\ j.start \in Int /\ j.cursor \in Int /\ j.end \in Int
               /\ j.kind \in {"backfill", "incremental"}
               /\ pc[w] \in {"resume", "loop"} => j.kind = "backfill"
               /\ j.run \in RunIds /\ date \in Int /\ now \in Int /\ date <= now
<1>1. /\ job[w] \in Jobs /\ job[w].run \in RunIds
      /\ runs[job[w].run] \in RunRows
      /\ job[w].kind \in {"backfill", "incremental"}
      /\ pc[w] \in {"resume", "loop"} => job[w].kind = "backfill"
  BY RunFacts DEF AnsweredInvariant
<1>2. now \in Int /\ Time \subseteq Int
  BY MaxTimeAssumption
  DEF AnsweredInvariant, RunInvariant, ArchiveInvariant, TypeOK, Time
<1>3. /\ Behind(pc[w], job[w], runs[job[w].run].created, bars, raw)
      /\ runs[job[w].run].created <= now
  BY <1>1 DEF AnsweredInvariant, AllAnswered, Dated
<1>4. QED
  BY <1>1, <1>2, <1>3 DEF Jobs, RunRows

LEMMA OfferedTimes ==
    ASSUME NEW tf \in Timeframes
    PROVE  Offered[tf] \subseteq Int
BY IngestionAssumption, MaxTimeAssumption DEF Time

\* What a step of one worker has to show.
LEMMA AnsweredMove ==
    ASSUME AnsweredInvariant, Kept,
           NEW w \in Workers, NEW label, NEW j, Goto(w, label, j),
           \A r \in raw' \ raw : PayloadComplete(r)',
           label # "idle" =>
              Behind(label, j, runs'[j.run].created, bars', raw')
    PROVE  AllAnswered'
<1>1. /\ TypeOK /\ AllAnswered
      /\ pc'[w] = label /\ job'[w] = j
      /\ \A v \in Workers \ {w} : pc'[v] = pc[v] /\ job'[v] = job[v]
  BY Moved DEF AnsweredInvariant, RunInvariant, ArchiveInvariant
<1>2. ASSUME NEW r \in raw' PROVE PayloadComplete(r)'
  BY <1>1, PayloadKeeps
<1>3. ASSUME NEW v \in Workers, pc'[v] # "idle"
      PROVE  Behind(pc'[v], job'[v], runs'[job'[v].run].created, bars', raw')
  <2>1. CASE v = w
    BY <1>1, <1>3, <2>1
  <2>2. CASE v # w
    <3>1. /\ job[v] \in Jobs /\ job[v].run \in RunIds
          /\ Behind(pc[v], job[v], runs[job[v].run].created, bars, raw)
      BY <1>1, <1>3, <2>2, BehindFacts
    <3>2. runs'[job[v].run].created = runs[job[v].run].created
      BY <3>1 DEF Kept, DatesKept
    <3>3. Behind(pc[v], job[v], runs[job[v].run].created, bars', raw')
      BY <3>1, BehindKeeps DEF Kept
    <3>4. QED
      BY <1>1, <2>2, <3>2, <3>3
  <2>3. QED
    BY <2>1, <2>2
<1>4. QED
  BY <1>2, <1>3 DEF AllAnswered, Behind, Answered

\* The same where the stored data does not change.
LEMMA AnsweredLocal ==
    ASSUME AnsweredInvariant, Kept, UNCHANGED <<bars, raw>>,
           NEW w \in Workers, NEW label, NEW j, Goto(w, label, j),
           label # "idle" => Behind(label, j, runs'[j.run].created, bars, raw)
    PROVE  AllAnswered'
BY AnsweredMove

\* A call that begins has nothing behind it but what it found.
LEMMA CallAnswered ==
    ASSUME AnsweredInvariant, Kept, NEW w \in Workers, Call(w)
    PROVE  AllAnswered'
<1>0. NoJob \in Jobs /\ NoJob.processed = {} /\ TypeOK
  BY NoJobType DEF NoJob, AnsweredInvariant, RunInvariant, ArchiveInvariant
<1>1. PICK tf \in Timeframes :
         \/ \E range \in Ranges :
               \/ StartBackfill(w, tf, range)
               \/ \E i \in RunIds : BeginResume(w, i, tf, range)
         \/ StartIncremental(w, tf)
         \/ AlreadyCurrent(w, tf)
  BY DEF Call
<1> DEFINE found == BoundsOf(DOMAIN bars[tf])
<1>2. found # NoBounds => {found.start, found.end} \subseteq DOMAIN bars[tf]
  <2>1. DOMAIN bars[tf] \subseteq Time
    BY <1>0, BatchType DEF TypeOK
  <2>2. CASE DOMAIN bars[tf] = {}
    BY <2>2 DEF BoundsOf
  <2>3. CASE DOMAIN bars[tf] # {}
    BY <2>1, <2>3, BoundsOfStored
  <2>4. QED
    BY <2>2, <2>3
<1> HIDE DEF found
\* Before the first chunk there is no bar of the range.
<1>3. ASSUME NEW range \in Ranges
      PROVE  /\ range[1] \in Int /\ range[2] \in Int /\ range[1] <= range[2]
             /\ \A t \in Offered[tf] : ~(range[1] <= t /\ t < range[1])
  <2>1. range[1] \in Int /\ range[2] \in Int /\ range[1] <= range[2]
    BY IngestionAssumption, MaxTimeAssumption DEF Time
  <2>2. QED
    BY <2>1, OfferedTimes
<1>4. ASSUME NEW range \in Ranges, StartBackfill(w, tf, range)
      PROVE  AllAnswered'
  <2> DEFINE j == [NoJob EXCEPT !.kind = "backfill", !.tf = tf,
                     !.start = range[1], !.end = range[2], !.cursor = range[1],
                     !.run = Len(runs) + 1, !.existing = found,
                     !.seenRun = [NewRun("backfill") EXCEPT !.status = "running"],
                     !.seenCov = cov]
             label == LoopHead(j)
  <2>1. /\ j.kind = "backfill" /\ j.tf = tf /\ j.start = range[1]
        /\ j.end = range[2] /\ j.cursor = range[1] /\ j.existing = found
        /\ j.processed = {}
    BY <1>0 DEF Jobs
  <2>2. Goto(w, label, j) /\ UNCHANGED <<bars, raw>>
    BY <1>4 DEF StartBackfill, found
  <2> HIDE DEF j
  <2>3. label = "loop"
    BY <1>3, <2>1 DEF LoopHead
  <2>4. \A date : Behind(label, j, date, bars, raw)
    BY <1>2, <1>3, <2>1, <2>3 DEF Behind
  <2> HIDE DEF label
  <2>5. QED
    BY <2>2, <2>4, AnsweredLocal
<1>5. ASSUME NEW range \in Ranges, NEW i \in RunIds, BeginResume(w, i, tf, range)
      PROVE  AllAnswered'
  <2> DEFINE keys == AlreadyProcessed(i)
             j == [NoJob EXCEPT !.kind = "backfill", !.tf = tf,
                     !.start = range[1], !.end = range[2], !.cursor = range[1],
                     !.run = i, !.existing = found, !.processed = keys,
                     !.fetched = runs[i].fetched, !.inserted = runs[i].inserted,
                     !.failed = runs[i].failed,
                     !.seenRun = runs[i], !.seenCov = cov]
  <2>1. \A key \in keys : \E r \in raw :
           r.run = i /\ key = <<r.tf, r.start, r.end>>
    BY DEF AlreadyProcessed
  <2>2. Goto(w, "resume", j) /\ UNCHANGED <<bars, raw>>
    BY <1>5 DEF BeginResume, db, found
  <2> HIDE DEF keys
  <2>3. /\ j.kind = "backfill" /\ j.tf = tf /\ j.start = range[1]
        /\ j.cursor = range[1] /\ j.existing = found
        /\ j.processed = keys /\ j.run = i
    BY <1>0 DEF Jobs
  <2> HIDE DEF j
  <2>4. \A date : Behind("resume", j, date, bars, raw)
    BY <1>2, <1>3, <2>1, <2>3 DEF Behind
  <2>5. QED
    BY <2>2, <2>4, AnsweredLocal
<1>6. ASSUME StartIncremental(w, tf) PROVE AllAnswered'
  <2> DEFINE j == [NoJob EXCEPT !.kind = "incremental", !.tf = tf,
                     !.start = IncrementalStart, !.end = now,
                     !.run = Len(runs) + 1,
                     !.seenRun = [NewRun("incremental") EXCEPT
                                     !.status = "running"],
                     !.seenCov = cov]
  <2>1. Goto(w, "fetch", j) /\ UNCHANGED <<bars, raw>>
    BY <1>6 DEF StartIncremental
  <2>2. j.kind = "incremental"
    BY <1>0 DEF Jobs
  <2> HIDE DEF j
  <2>3. \A date : Behind("fetch", j, date, bars, raw)
    BY <2>2 DEF Behind
  <2>4. QED
    BY <2>1, <2>3, AnsweredLocal
<1>7. ASSUME AlreadyCurrent(w, tf) PROVE AllAnswered'
  <2>1. UNCHANGED <<bars, raw, pc, job>>
    BY <1>7 DEF AlreadyCurrent
  <2>2. \A r \in raw : PayloadComplete(r)'
    BY PayloadKeeps DEF AnsweredInvariant
  <2>3. \A v \in Workers : pc[v] # "idle" =>
           Behind(pc[v], job[v], runs'[job[v].run].created, bars, raw)
    BY BehindFacts DEF Kept, DatesKept
  <2>4. QED
    BY <2>1, <2>2, <2>3 DEF AllAnswered, Behind, Answered
<1>8. QED
  BY <1>1, <1>4, <1>5, <1>6, <1>7

\* A backfill that goes on from the same chunk, or leaves the loop at its end,
\* and any call that has fetched nothing it still needs.
LEMMA SameBehind ==
    ASSUME NEW j, NEW k, NEW label, NEW next, NEW table, NEW rows, NEW date,
           Behind(label, j, date, table, rows),
           k.kind = j.kind, k.tf = j.tf, k.start = j.start, k.end = j.end,
           k.cursor = j.cursor, k.processed = j.processed,
           k.existing = j.existing, k.run = j.run,
           \/ next \in {"fsync", "fail"}
           \/ next = "loop" /\ k.kind = "backfill"
           \/ next \in {"sync", "close"} /\ k.kind = "backfill" /\ j.cursor > j.end
           \/ /\ next \in {"sync", "close"} /\ label \in {"ingest", "sync"}
              /\ k.kind = "incremental" /\ k.batch = j.batch
    PROVE  Behind(next, k, date, table, rows)
BY DEF Behind

\* A bar missing after the chunk at hand was missing before it, or lies in it.
LEMMA AdvanceBehind ==
    ASSUME NEW j \in Jobs, NEW table, NEW rows, NEW label, NEW date,
           Behind(label, j, date, table, rows), j.kind = "backfill",
           \A t \in Offered[j.tf] \ DOMAIN table[j.tf] :
              j.cursor <= t /\ t <= ChunkEnd(j) /\ t <= date =>
                 /\ j.existing # NoBounds
                 /\ j.existing.start <= t /\ t <= j.existing.end
    PROVE  LET k == Advance(j)
           IN  k \in Jobs /\ k.run = j.run
               /\ Behind(LoopHead(k), k, date, table, rows)
<1> DEFINE k == Advance(j)
<1>1. k \in Jobs /\ ChunkEnd(j) \in Int
  BY AdvanceType, ChunkEndType
<1>2. /\ k.kind = j.kind /\ k.start = j.start /\ k.end = j.end
      /\ k.tf = j.tf /\ k.processed = j.processed /\ k.existing = j.existing
      /\ k.run = j.run /\ k.cursor = ChunkEnd(j) + 1
  BY DEF Advance, NextWindow, Jobs
<1>3. /\ j.cursor \in Int /\ k.cursor \in Int /\ k.end \in Int
      /\ Offered[j.tf] \subseteq Int
  BY <1>1, OfferedTimes DEF Jobs
<1> HIDE DEF k
<1>4. \/ LoopHead(k) \in {"sync", "close"} /\ k.cursor > k.end
      \/ LoopHead(k) = "loop"
  BY DEF LoopHead, SuccessTail
<1>5. \A t \in Offered[k.tf] \ DOMAIN table[k.tf] :
         k.start <= t /\ t < k.cursor /\ t <= date =>
            /\ k.existing # NoBounds
            /\ k.existing.start <= t /\ t <= k.existing.end
  <2>1. \A t \in Offered[j.tf] \ DOMAIN table[j.tf] :
           j.start <= t /\ t < j.cursor /\ t <= date =>
              /\ j.existing # NoBounds
              /\ j.existing.start <= t /\ t <= j.existing.end
    BY DEF Behind
  <2>2. \A t \in Offered[j.tf] :
           t < k.cursor => t < j.cursor \/ (j.cursor <= t /\ t <= ChunkEnd(j))
    BY <1>1, <1>2, <1>3
  <2>3. QED
    BY <1>2, <2>1, <2>2
<1>6. Behind(LoopHead(k), k, date, table, rows)
  BY <1>2, <1>4, <1>5 DEF Behind
<1>7. QED
  BY <1>1, <1>2, <1>6 DEF k

LEMMA ResumeAnswered ==
    ASSUME AnsweredInvariant, Kept, NEW w \in Workers, CommitResume(w)
    PROVE  AllAnswered'
<1> DEFINE j == job[w]
           date == runs[j.run].created
<1>1. pc[w] = "resume" /\ UNCHANGED <<bars, raw>>
  BY DEF CommitResume
<1>2. PICK row : Goto(w, LoopHead(j), [j EXCEPT !.seenRun = row])
  BY DEF CommitResume
<1> DEFINE k == [j EXCEPT !.seenRun = row]
<1>3. /\ j \in Jobs /\ Behind("resume", j, date, bars, raw)
      /\ j.kind = "backfill" /\ runs'[j.run].created = date
  BY <1>1, BehindFacts DEF Kept, DatesKept
<1>4. /\ k.kind = j.kind /\ k.tf = j.tf /\ k.start = j.start /\ k.end = j.end
      /\ k.cursor = j.cursor /\ k.processed = j.processed
      /\ k.existing = j.existing /\ k.run = j.run
  BY <1>3 DEF Jobs
<1>5. \/ LoopHead(j) \in {"sync", "close"} /\ j.cursor > j.end
      \/ LoopHead(j) = "loop"
  BY DEF LoopHead, SuccessTail
<1> HIDE DEF k, j, date
<1>6. Behind(LoopHead(j), k, runs'[k.run].created, bars, raw)
  BY <1>3, <1>4, <1>5, SameBehind
<1>7. QED
  BY <1>1, <1>2, <1>6, AnsweredLocal DEF j, k

\* A chunk that is skipped is stored by its run as far as the provider had it,
\* or lies between the bounds there were when the call began.
LEMMA SkipAnswered ==
    ASSUME AnsweredInvariant, Kept, NEW w \in Workers, SkipChunk(w)
    PROVE  AllAnswered'
<1> DEFINE j == job[w]
           date == runs[j.run].created
<1>1. /\ pc[w] = "loop" /\ Skippable(j)
      /\ Goto(w, LoopHead(Advance(j)), Advance(j))
      /\ UNCHANGED <<runs, bars, raw>>
  BY DEF SkipChunk, db
<1>2. /\ j \in Jobs /\ Behind("loop", j, date, bars, raw) /\ j.tf \in Timeframes
      /\ j.kind = "backfill" /\ j.cursor \in Int
      /\ ChunkEnd(j) \in Int /\ Offered[j.tf] \subseteq Int
  BY <1>1, BehindFacts, ChunkEndType, OfferedTimes
<1>3. ASSUME NEW t \in Offered[j.tf] \ DOMAIN bars[j.tf],
             j.cursor <= t, t <= ChunkEnd(j), t <= date
      PROVE  /\ j.existing # NoBounds
             /\ j.existing.start <= t /\ t <= j.existing.end
  <2>1. ChunkKey(j) \notin j.processed
    <3>1. SUFFICES ASSUME ChunkKey(j) \in j.processed PROVE FALSE
      OBVIOUS
    <3>2. PICK r \in raw : r.run = j.run /\ ChunkKey(j) = <<r.tf, r.start, r.end>>
      BY <1>2, <3>1 DEF Behind
    <3>3. r.tf = j.tf /\ r.start = j.cursor /\ r.end = ChunkEnd(j)
      BY <3>2 DEF ChunkKey
    <3>4. t \in DOMAIN r.payload
      BY <1>3, <3>2, <3>3
      DEF AnsweredInvariant, AllAnswered, PayloadComplete, Answered
    <3>5. QED
      BY <3>3, <3>4
      DEF AnsweredInvariant, Traced, RawRowsStored, Archive!RawRowsStored
  <2>2. /\ j.existing # NoBounds /\ j.cursor >= j.existing.start
        /\ ChunkEnd(j) <= j.existing.end
    BY <1>1, <2>1 DEF Skippable
  <2>3. j.existing.start \in Int /\ j.existing.end \in Int /\ t \in Int
    BY <1>2, MaxTimeAssumption DEF Jobs, Bounds
  <2> HIDE DEF j
  <2>4. QED
    BY <1>2, <1>3, <2>2, <2>3
<1> DEFINE k == Advance(j)
<1>4. k.run = j.run /\ Behind(LoopHead(k), k, date, bars, raw)
  BY <1>2, <1>3, AdvanceBehind
<1> HIDE DEF k
<1>5. Behind(LoopHead(k), k, runs'[k.run].created, bars, raw)
  BY <1>1, <1>4
<1>6. QED
  BY <1>1, <1>5, AnsweredLocal DEF k

\* A fetch asks for all the bars there are by now, those of the date of the run
\* among them.
LEMMA FetchAnswered ==
    ASSUME AnsweredInvariant, Kept, NEW w \in Workers,
           FetchChunk(w) \/ FetchIncremental(w)
    PROVE  AllAnswered'
<1> DEFINE j == job[w]
           date == runs[j.run].created
<1>1. /\ pc[w] # "idle" /\ UNCHANGED <<runs, bars, raw>>
      /\ FetchChunk(w) => pc[w] = "loop"
      /\ FetchIncremental(w) => pc[w] = "fetch"
  BY DEF FetchChunk, FetchIncremental, db
<1>2. /\ j \in Jobs /\ Behind(pc[w], j, date, bars, raw) /\ j.tf \in Timeframes
      /\ j.kind \in {"backfill", "incremental"}
      /\ pc[w] = "loop" => j.kind = "backfill"
      /\ now \in Int /\ date \in Int /\ date <= now
  BY <1>1, BehindFacts
<1>3. \A from, to : Answered(Response(j.tf, from, to), j.tf, from, to, date)
  BY <1>2, OfferedTimes DEF Answered, Response
<1>4. CASE FetchChunk(w)
  <2> DEFINE batch == Response(j.tf, j.cursor, ChunkEnd(j))
             k == [j EXCEPT !.batch = batch]
  <2>1. Goto(w, "ingest", k)
    BY <1>4 DEF FetchChunk
  <2>2. Answered(batch, j.tf, j.cursor, ChunkEnd(j), date)
    BY <1>3
  <2> HIDE DEF batch
  <2>3. /\ k.kind = j.kind /\ k.tf = j.tf /\ k.start = j.start /\ k.end = j.end
        /\ k.cursor = j.cursor /\ k.processed = j.processed
        /\ k.existing = j.existing /\ k.batch = batch /\ k.run = j.run
    BY <1>2 DEF Jobs
  <2>4. ChunkEnd(k) = ChunkEnd(j)
    BY <2>3 DEF ChunkEnd
  <2> HIDE DEF k, j
  <2>5. Behind("ingest", k, date, bars, raw)
    BY <1>1, <1>2, <1>4, <2>2, <2>3, <2>4 DEF Behind
  <2>6. QED
    BY <1>1, <2>1, <2>3, <2>5, AnsweredLocal
<1>5. CASE FetchIncremental(w)
  <2> DEFINE batch == Response(j.tf, j.start, j.end)
             k == [j EXCEPT !.batch = batch,
                            !.fetched = Cardinality(DOMAIN batch)]
  <2>1. Goto(w, "ingest", k)
    BY <1>5 DEF FetchIncremental
  <2>2. Answered(batch, j.tf, j.start, j.end, date)
    BY <1>3
  <2> HIDE DEF batch
  <2>3. /\ k.kind = j.kind /\ k.tf = j.tf /\ k.start = j.start /\ k.end = j.end
        /\ k.batch = batch /\ k.run = j.run
    BY <1>2 DEF Jobs
  <2>4. j.kind = "incremental"
    BY <1>1, <1>2, <1>5 DEF Behind
  <2> HIDE DEF k, j
  <2>5. Behind("ingest", k, date, bars, raw)
    BY <2>2, <2>3, <2>4 DEF Behind
  <2>6. QED
    BY <1>1, <2>1, <2>3, <2>5, AnsweredLocal
<1>6. QED
  BY <1>4, <1>5

\* The bars of the chunk are stored, and the raw row names what was asked for.
LEMMA CommitChunkAnswered ==
    ASSUME AnsweredInvariant, Kept, NEW w \in Workers, CommitChunk(w)
    PROVE  AllAnswered'
<1> DEFINE j == job[w]
           date == runs[j.run].created
           to == ChunkEnd(j)
           fetched == j.fetched + Cardinality(DOMAIN j.batch)
           inserted == j.inserted + Cardinality(Missing(j))
           row == Flush(runs[j.run], j.seenRun,
                        [j.seenRun EXCEPT !.fetched = fetched,
                                          !.inserted = inserted])
           next == [Advance(j) EXCEPT !.fetched = fetched,
                      !.inserted = inserted, !.seenRun = row, !.batch = NoBars]
<1>1. /\ pc[w] = "ingest" /\ j.kind = "backfill"
      /\ raw' = raw \cup {RawRow(j, j.cursor, to)}
      /\ bars' = [bars EXCEPT ![j.tf] = InsertMissing(@, j.batch)]
      /\ Goto(w, LoopHead(next), next)
  BY DEF CommitChunk
<1>2. /\ j \in Jobs /\ Behind("ingest", j, date, bars, raw)
      /\ j.tf \in Timeframes /\ j.batch \in Batches /\ j.run \in RunIds
      /\ j.run \in RunIds' /\ runs'[j.run].created = date
      /\ bars \in [Timeframes -> Batches]
  <2>1. /\ j \in Jobs /\ Behind("ingest", j, date, bars, raw)
        /\ j.run \in RunIds
        /\ j.run \in RunIds' /\ runs'[j.run].created = date
    BY <1>1, BehindFacts DEF Kept, DatesKept
  <2>2. bars \in [Timeframes -> Batches]
    BY DEF AnsweredInvariant, RunInvariant, ArchiveInvariant, TypeOK
  <2>3. QED
    BY <2>1, <2>2 DEF Jobs
<1>3. Answered(j.batch, j.tf, j.cursor, to, date)
  BY <1>1, <1>2 DEF Behind
<1> HIDE DEF fetched, inserted, row, date
<1>4. DOMAIN j.batch \subseteq DOMAIN bars'[j.tf]
  <2>1. bars[j.tf] \in Batches
    BY <1>2
  <2>2. bars'[j.tf] = InsertMissing(bars[j.tf], j.batch)
    BY <1>1, <1>2
  <2>3. DOMAIN InsertMissing(bars[j.tf], j.batch)
        = DOMAIN bars[j.tf] \cup DOMAIN j.batch
    BY <1>2, <2>1, InsertMissingFacts
  <2>4. QED
    BY <2>2, <2>3
<1>5. ASSUME NEW r \in raw' \ raw PROVE PayloadComplete(r)'
  <2>1. /\ r.run = j.run /\ r.tf = j.tf /\ r.start = j.cursor /\ r.end = to
        /\ r.payload = j.batch
    BY <1>1, <1>5 DEF RawRow
  <2> HIDE DEF j, to
  <2>2. QED
    BY <1>2, <1>3, <2>1 DEF PayloadComplete, Answered
<1>6. Behind(LoopHead(next), next, runs'[next.run].created, bars', raw')
  <2>1. Behind("ingest", j, date, bars', raw')
    BY <1>2, BehindKeeps DEF Kept
  <2>2. \A t \in Offered[j.tf] \ DOMAIN bars'[j.tf] :
           ~(j.cursor <= t /\ t <= ChunkEnd(j) /\ t <= date)
    BY <1>3, <1>4 DEF Answered
  <2> DEFINE k == Advance(j)
  <2>3. /\ k \in Jobs /\ k.run = j.run
        /\ Behind(LoopHead(k), k, date, bars', raw')
    BY <1>1, <1>2, <2>1, <2>2, AdvanceBehind
  <2> HIDE DEF k
  <2>4. next = [k EXCEPT !.fetched = fetched, !.inserted = inserted,
                         !.seenRun = row, !.batch = NoBars]
    BY DEF k
  <2>5. /\ next.kind = k.kind /\ next.tf = k.tf /\ next.start = k.start
        /\ next.end = k.end /\ next.cursor = k.cursor
        /\ next.processed = k.processed /\ next.existing = k.existing
        /\ next.run = k.run
    BY <2>3, <2>4 DEF Jobs
  <2>6. k.kind = "backfill"
    BY <1>1, <1>2 DEF k, Advance, Jobs
  <2> HIDE DEF next
  <2>7. \/ LoopHead(next) = "loop"
        \/ LoopHead(next) \in {"sync", "close"} /\ k.cursor > k.end
    BY <2>5 DEF LoopHead, SuccessTail
  <2>8. Behind(LoopHead(next), next, date, bars', raw')
    BY <2>3, <2>5, <2>6, <2>7, SameBehind
  <2>9. QED
    BY <1>2, <2>3, <2>5, <2>8
<1> HIDE DEF next
<1>7. QED
  BY <1>1, <1>5, <1>6, AnsweredMove

\* A call that leaves makes at most the row of an incremental fetch durable.
LEMMA LeaveAnswered ==
    ASSUME AnsweredInvariant, Kept, NEW w \in Workers,
           CommitSuccess(w) \/ CommitFailure(w) \/ TransactionFails(w) \/ Crash(w)
    PROVE  AllAnswered'
<1> DEFINE j == job[w]
<1>1. Leave(w)
  BY DEF CommitSuccess, CommitFailure, TransactionFails, Crash
<1>2. ASSUME NEW r \in raw' \ raw PROVE PayloadComplete(r)'
  <2>1. /\ CommitSuccess(w) /\ j.kind = "incremental"
        /\ r = RawRow(j, j.start, j.end)
    BY <1>2 DEF CommitSuccess, CommitFailure, TransactionFails, Crash, db
  <2>2. pc[w] = "close"
    BY <2>1 DEF CommitSuccess
  <2>3. /\ Behind("close", j, runs[j.run].created, bars, raw)
        /\ j.run \in RunIds' /\ runs'[j.run].created = runs[j.run].created
    BY <2>2, BehindFacts DEF Kept, DatesKept
  <2>4. /\ r.run = j.run /\ r.tf = j.tf /\ r.start = j.start /\ r.end = j.end
        /\ r.payload = j.batch
    BY <2>1 DEF RawRow
  <2>5. Answered(j.batch, j.tf, j.start, j.end, runs[j.run].created)
    BY <2>1, <2>3 DEF Behind
  <2> HIDE DEF j
  <2>6. QED
    BY <2>3, <2>4, <2>5 DEF PayloadComplete, Answered
<1>3. QED
  BY <1>1, <1>2, AnsweredMove DEF Leave

\* The tails and the handlers.
LEMMA TailAnswered ==
    ASSUME AnsweredInvariant, Kept, NEW w \in Workers,
           \/ StageIncremental(w) \/ ReadBounds(w)
           \/ SyncRaises(w) \/ FetchFails(w) \/ PipelineFails(w)
    PROVE  AllAnswered'
<1> DEFINE j == job[w]
           date == runs[j.run].created
<1>1. pc[w] # "idle" /\ UNCHANGED <<runs, bars, raw>>
  BY DEF StageIncremental, ReadBounds, SyncRaises, FetchFails, PipelineFails, db
<1>2. /\ j \in Jobs /\ Behind(pc[w], j, date, bars, raw)
      /\ j.kind \in {"backfill", "incremental"}
  BY <1>1, BehindFacts
<1>3. ASSUME NEW k, NEW next, Goto(w, next, k),
             k.kind = j.kind, k.tf = j.tf, k.start = j.start, k.end = j.end,
             k.cursor = j.cursor, k.processed = j.processed,
             k.existing = j.existing, k.run = j.run,
             \/ next \in {"fsync", "fail"}
             \/ next = "close" /\ pc[w] = "sync" /\ k.batch = j.batch
             \/ /\ next \in {"sync", "close"} /\ pc[w] = "ingest"
                /\ j.kind = "incremental" /\ k.batch = j.batch
      PROVE  AllAnswered'
  <2>1. pc[w] = "sync" /\ j.kind = "backfill" => j.cursor > j.end
    BY <1>2 DEF Behind
  <2> HIDE DEF j, date
  <2>2. Behind(next, k, date, bars, raw)
    BY <1>2, <1>3, <2>1, SameBehind
  <2>3. Behind(next, k, runs'[k.run].created, bars, raw)
    BY <1>1, <1>3, <2>2 DEF date
  <2>4. QED
    BY <1>1, <1>3, <2>3, AnsweredLocal
<1>4. CASE StageIncremental(w)
  <2> DEFINE new == Missing(j)
             k == [j EXCEPT !.staged = new, !.inserted = Cardinality(new)]
  <2>1. /\ pc[w] = "ingest" /\ j.kind = "incremental"
        /\ Goto(w, SuccessTail(k), k) /\ SuccessTail(k) \in {"sync", "close"}
    BY <1>4 DEF StageIncremental, SuccessTail
  <2> HIDE DEF new
  <2>2. /\ k.kind = j.kind /\ k.tf = j.tf /\ k.start = j.start
        /\ k.end = j.end /\ k.cursor = j.cursor /\ k.batch = j.batch
        /\ k.processed = j.processed /\ k.existing = j.existing /\ k.run = j.run
    BY <1>2 DEF Jobs
  <2> HIDE DEF k, j
  <2>3. QED
    BY <1>3, <2>1, <2>2
<1>5. CASE ReadBounds(w)
  <2>1. PICK b : Goto(w, IF pc[w] = "sync" THEN "close" ELSE "fail",
                      [j EXCEPT !.bounds = b, !.synced = TRUE])
    BY <1>5 DEF ReadBounds
  <2> DEFINE k == [j EXCEPT !.bounds = b, !.synced = TRUE]
  <2>2. /\ k.kind = j.kind /\ k.tf = j.tf /\ k.start = j.start
        /\ k.end = j.end /\ k.cursor = j.cursor /\ k.batch = j.batch
        /\ k.processed = j.processed /\ k.existing = j.existing /\ k.run = j.run
    BY <1>2 DEF Jobs
  <2> HIDE DEF k
  <2>3. QED
    BY <1>3, <2>1, <2>2 DEF k
<1>6. CASE SyncRaises(w)
  BY <1>3, <1>6 DEF SyncRaises
<1>7. CASE FetchFails(w) \/ PipelineFails(w)
  <2>1. Handle(w)
    BY <1>7 DEF FetchFails, PipelineFails
  <2> DEFINE count == j.failed + 1
             k == [j EXCEPT !.failed = count, !.batch = NoBars]
  <2>2. PICK next \in {"fsync", "fail"} : Goto(w, next, k)
    BY <2>1 DEF Handle
  <2> HIDE DEF count
  <2>3. /\ k.kind = j.kind /\ k.tf = j.tf /\ k.start = j.start
        /\ k.end = j.end /\ k.cursor = j.cursor
        /\ k.processed = j.processed /\ k.existing = j.existing /\ k.run = j.run
    BY <1>2 DEF Jobs
  <2> HIDE DEF k
  <2>4. QED
    BY <1>3, <2>2, <2>3
<1>8. QED
  BY <1>4, <1>5, <1>6, <1>7

LEMMA AnsweredInvariantNext ==
    ASSUME AnsweredInvariant, [Next]_vars
    PROVE  AnsweredInvariant'
<1>1. RunInvariant' /\ Dated' /\ Kept
  BY RunInvariantNext, DatedNext, TablesGrow
  DEF AnsweredInvariant, RunInvariant, Kept
<1>2. Traced'
  <2>1. CASE UNCHANGED <<bars, raw>>
    BY <2>1 DEF AnsweredInvariant, Traced, RawRowsStored, Archive!RawRowsStored,
                BarsTraceable, Archive!BarsTraceable
  <2>2. QED
    BY <2>1, ArchiveStep, IngestTraced
    DEF AnsweredInvariant, RunInvariant, ArchiveInvariant
<1>3. ASSUME UNCHANGED <<bars, raw, pc, job>> PROVE AllAnswered'
  <2>1. \A r \in raw : PayloadComplete(r)'
    BY <1>1, PayloadKeeps DEF AnsweredInvariant
  <2>2. \A w \in Workers : pc[w] # "idle" =>
           Behind(pc[w], job[w], runs'[job[w].run].created, bars, raw)
    BY <1>1, BehindFacts DEF Kept, DatesKept
  <2>3. QED
    BY <1>3, <2>1, <2>2 DEF AllAnswered, Behind, Answered
<1>4. ASSUME NEW type \in Kinds, Trigger(type) PROVE AllAnswered'
  BY <1>3, <1>4 DEF Trigger
<1>5. ASSUME NEW w \in Workers, Call(w) PROVE AllAnswered'
  BY <1>1, <1>5, CallAnswered
<1>6. ASSUME NEW w \in Workers, Work(w) PROVE AllAnswered'
  BY <1>1, <1>6, ResumeAnswered, SkipAnswered, FetchAnswered,
     CommitChunkAnswered, LeaveAnswered, TailAnswered DEF Work
<1>7. ASSUME NEW w \in Workers, Fault(w) PROVE AllAnswered'
  BY <1>1, <1>7, LeaveAnswered, TailAnswered DEF Fault
<1>8. ASSUME Tick \/ Rest \/ UNCHANGED vars PROVE AllAnswered'
  BY <1>3, <1>8 DEF Tick, Rest, vars, db
<1>9. QED
  BY <1>1, <1>2, <1>4, <1>5, <1>6, <1>7, <1>8 DEF Next, AnsweredInvariant

LEMMA AnsweredInvariantInit == Init => AnsweredInvariant
<1>1. ASSUME Init PROVE Traced /\ Dated /\ AllAnswered
  <2>1. \A tf \in Timeframes : DOMAIN bars[tf] = {}
    BY <1>1, NoBarsType DEF Init
  <2>2. QED
    BY <1>1, <2>1
    DEF Init, Dated, AllAnswered, RunIds, Traced, RawRowsStored,
        Archive!RawRowsStored, BarsTraceable, Archive!BarsTraceable
<1>2. QED
  BY <1>1, RunInvariantInit DEF AnsweredInvariant

\* Whatever failed, crashed or was resumed, whoever shares the run, and whatever
\* increments and other backfills stored meanwhile: a backfill that is about to
\* record success lacks, of the bars its range had when the run was created,
\* only those in a hole between the bars its timeframe had when the call began,
\* in a chunk the run never fetched.
THEOREM IngestionOnlyHolesSkipped == Spec => []OnlyHolesSkipped
<1>1. ASSUME AnsweredInvariant PROVE OnlyHolesSkipped
  <2>1. SUFFICES ASSUME NEW w \in Workers, job[w].kind = "backfill",
                        pc[w] \in {"sync", "close"},
                        NEW t \in Offered[job[w].tf] \ DOMAIN bars[job[w].tf],
                        job[w].start <= t, t <= job[w].end,
                        t <= runs[job[w].run].created
                 PROVE  /\ job[w].existing # NoBounds
                        /\ job[w].existing.start < t /\ t < job[w].existing.end
                        /\ \A r \in raw :
                              r.run = job[w].run /\ r.tf = job[w].tf
                              => t < r.start \/ r.end < t
    BY DEF OnlyHolesSkipped
  <2> DEFINE j == job[w]
             e == j.existing
  <2>2. /\ Behind(pc[w], j, runs[j.run].created, bars, raw) /\ j \in Jobs
        /\ j.cursor \in Int /\ j.end \in Int /\ j.tf \in Timeframes
    BY <1>1, <2>1, BehindFacts
  <2>3. /\ t \in Int /\ e.start \in Int /\ e.end \in Int
        /\ raw \subseteq RawRows
    BY <1>1, <2>2, OfferedTimes, MaxTimeAssumption
    DEF Jobs, Bounds, AnsweredInvariant, RunInvariant, ArchiveInvariant, TypeOK
  <2>4. e # NoBounds /\ e.start <= t /\ t <= e.end
    <3>1. j.cursor > j.end
      BY <2>1, <2>2 DEF Behind
    <3>2. t < j.cursor
      BY <2>1, <2>2, <2>3, <3>1
    <3>3. QED
      BY <2>1, <2>2, <3>2 DEF Behind
  <2>5. t # e.start /\ t # e.end
    BY <2>1, <2>2, <2>4 DEF Behind
  <2>6. ASSUME NEW r \in raw, r.run = j.run, r.tf = j.tf
        PROVE  t < r.start \/ r.end < t
    <3>1. t \notin DOMAIN r.payload
      BY <1>1, <2>1, <2>6
      DEF AnsweredInvariant, Traced, RawRowsStored, Archive!RawRowsStored
    <3>2. ~(r.start <= t /\ t <= r.end)
      BY <1>1, <2>1, <2>6, <3>1
      DEF AnsweredInvariant, AllAnswered, PayloadComplete, Answered
    <3>3. r.start \in Int /\ r.end \in Int
      BY <2>3 DEF RawRows
    <3>4. QED
      BY <2>3, <3>2, <3>3
  <2> HIDE DEF j, e
  <2>7. QED
    BY <2>3, <2>4, <2>5, <2>6 DEF e, j
<1>2. QED
  BY <1>1, AnsweredInvariantInit, AnsweredInvariantNext, PTL DEF Spec
=============================================================================
