----------------------------- MODULE BarHistory -----------------------------
(***************************************************************************)
(* What the stored bars of a symbol are, seen from outside the open        *)
(* transactions, once raw payloads can be replayed: ingestion never        *)
(* changes a stored bar (BarArchive), reprocess_from_raw is the one        *)
(* operation that does, and it does so at once and by whole payloads.      *)
(***************************************************************************)
EXTENDS Integers, FiniteSetsExt

CONSTANTS
    Keys,       \* the bars of the symbol, by timestamp
    FirstRaw,   \* raw rows at the start
    Stamps      \* created_at of raw rows; a bar is named by its payload's

VARIABLES bars, raw

\* A raw row: created_at, and the bars of its payload.
Rows == [created : Stamps, ts : SUBSET Keys]

Init ==
    /\ bars = [t \in Keys |-> 0]
    /\ raw = FirstRaw

\* The bars after the given rows have been replayed: the payload archived last
\* wins, whatever was stored.
Replayed(rows) ==
    [t \in Keys |->
        LET having == {r.created : r \in {q \in rows : t \in q.ts}}
        IN  IF having = {} THEN bars[t] ELSE Max(having)]

\* One fetch becomes durable: its raw row, which a model checker finds in raw',
\* and those of its bars there are not.
Archive ==
    \E row \in raw' \cap Rows :
        /\ raw' = raw \cup {row}
        /\ bars' = [t \in Keys |-> IF t \in row.ts /\ bars[t] = 0
                                   THEN row.created ELSE bars[t]]

\* One call of reprocess_from_raw becomes durable: of the rows it selected,
\* those that did not fail.
Rebuild ==
    /\ UNCHANGED raw
    /\ \E rows \in SUBSET raw : bars' = Replayed(rows)

Spec == Init /\ [][Archive \/ Rebuild]_<<bars, raw>>
=============================================================================
