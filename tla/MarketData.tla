----------------------------- MODULE MarketData -----------------------------
(***************************************************************************)
(* The data every ingestion component shares, for one symbol: bars keyed   *)
(* by (timeframe, timestamp), the payloads a provider returns, the raw     *)
(* rows that archive those payloads, and the arithmetic of chunk windows.  *)
(*                                                                         *)
(* Time is counted in microseconds from 1, the unit chunk_date_range steps *)
(* by; 0 stands for a NULL timestamp.                                      *)
(***************************************************************************)
EXTENDS Integers

CONSTANTS
    Timeframes,     \* the bar widths in use: "1d", "1h", ...
    MaxTime         \* the last instant of a bounded run

ASSUME TimeframesAssumption == Timeframes # {}

ASSUME MaxTimeAssumption == MaxTime \in Nat \ {0}

Time == 1 .. MaxTime

\* What a bar says.  The period that is still open at the time of the fetch is
\* quoted "live" and changes until it closes; a closed one is "settled".
Quotes == {"live", "settled"}

\* The rows of market_bars of one timeframe, and a provider response: at most
\* one quote for each timestamp.
Batches == UNION {[S -> Quotes] : S \in SUBSET Time}

NoBars == [t \in {} |-> "settled"]

\* (coverage_start, coverage_end), of a symbol or of a timeframe; NULL is 0.
Bounds == [start: 0 .. MaxTime, end: 0 .. MaxTime]

NoBounds == [start |-> 0, end |-> 0]

\* A row of raw_market_data: the request it answers and the payload.
RawRows == [run: Nat, tf: Timeframes, start: Int, end: Int, payload: Batches]

\* INSERT ... ON CONFLICT DO NOTHING of every bar of a payload.
InsertMissing(stored, batch) ==
    [t \in DOMAIN stored \cup DOMAIN batch |->
        IF t \in DOMAIN stored THEN stored[t] ELSE batch[t]]

\* min() and max() of a column of timestamps, NULL on no rows.
BoundsOf(S) ==
    IF S = {} THEN NoBounds
    ELSE [start |-> CHOOSE t \in S : \A u \in S : t <= u,
          end   |-> CHOOSE t \in S : \A u \in S : u <= t]

-----------------------------------------------------------------------------
\* Mutant: a window is not clipped to the end.
WindowEndUnclipped(from, window, end) == from + window

\* The inclusive window that begins at `from`, clipped to the requested end.
WindowEnd(from, window, end) ==
    IF from + window <= end THEN from + window ELSE end

\* Mutant: the boundary is shared.
NextWindowShared(chunk_end) == chunk_end

\* The next window begins one microsecond later.
NextWindow(chunk_end) == chunk_end + 1
=============================================================================
