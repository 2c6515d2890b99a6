---------------------------- MODULE MCIngestion -----------------------------
\* Instances of Ingestion for TLC.
EXTENDS Ingestion, TLC

AllFaults == {"provider", "pipeline", "database", "sync", "crash"}
BothKinds == {"backfill", "incremental"}
OneRange == {<<1, MaxTime>>}

EveryBar == [tf \in Timeframes |-> Time]

WorkerSymmetry == Permutations(Workers)
=============================================================================
