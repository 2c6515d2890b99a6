----------------------------- MODULE BarArchive -----------------------------
(***************************************************************************)
(* What ingestion promises about stored data, whatever the workers do: the *)
(* archive of raw payloads and the table of bars change only together, by  *)
(* one whole fetch at a time, and a bar that is stored never changes.      *)
(***************************************************************************)
EXTENDS MarketData

VARIABLES
    bars,   \* market_bars: for each timeframe, the stored bars
    raw     \* raw_market_data

archive == <<bars, raw>>

Init ==
    /\ bars = [tf \in Timeframes |-> NoBars]
    /\ raw = {}

\* One fetch becomes durable: its raw row, and the bars it has that are missing.
Ingest(row) ==
    /\ raw' = raw \cup {row}
    /\ bars' = [bars EXCEPT ![row.tf] = InsertMissing(@, row.payload)]

\* The row that is added is a row of raw', where a model checker finds it.
Next == \E row \in raw' : row \in RawRows /\ Ingest(row)

Spec == Init /\ [][Next]_archive

-----------------------------------------------------------------------------
TypeOK ==
    /\ bars \in [Timeframes -> Batches]
    /\ raw \subseteq RawRows

\* A raw row is never durable without the bars it carries.  A resumed backfill
\* skips every chunk that has a raw row, so a row without its bars would be
\* a hole nobody fills again.
RawRowsStored ==
    \A row \in raw : DOMAIN row.payload \subseteq DOMAIN bars[row.tf]

\* Every stored bar is the quote some archived payload gave for it: the table
\* can be rebuilt from the archive, and no bar has an unknown origin.
BarsTraceable ==
    \A tf \in Timeframes : \A t \in DOMAIN bars[tf] :
        \E row \in raw : /\ row.tf = tf
                         /\ t \in DOMAIN row.payload
                         /\ row.payload[t] = bars[tf][t]
=============================================================================
