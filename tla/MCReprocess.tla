---------------------------- MODULE MCReprocess -----------------------------
\* An instance of Reprocess for TLC: two replays and an ingester, on two bars
\* whose payloads have them in orders that can deadlock.
EXTENDS Reprocess

TwoRows == {[created |-> 1, ts |-> {2}, object |-> 0],
            [created |-> 3, ts |-> {1, 2}, object |-> 2]}

FetchedBars == {{1}, {1, 2}}
=============================================================================
