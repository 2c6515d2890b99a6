--------------------------- MODULE ProviderAnswer ---------------------------
(***************************************************************************)
(* What a caller of a MarketDataProvider relies on: a request is answered  *)
(* in one step, with the bars the provider has at that moment, in order,   *)
(* or it fails.  Ingestion fetches its chunks in this way.                 *)
(***************************************************************************)
EXTENDS Integers, Sequences

CONSTANT
    Published       \* the timestamps of the bars the provider has or will have

VARIABLES
    now,            \* the time at the provider
    asked,          \* the arguments of the request
    status,         \* "asked", "answered" or "failed"
    answer          \* the timestamps of the bars returned

\* The bars of S that exist by now, each once, oldest first.
Lists(bars, S) ==
    LET there == {t \in S : t <= now} IN
    /\ bars \in Seq(there)
    /\ {bars[i] : i \in DOMAIN bars} = there
    /\ \A i, j \in DOMAIN bars : i < j => bars[i] < bars[j]

\* "Return bars within [start, end], ascending by ts".
WithinRange(bars) ==
    Lists(bars, {t \in Published : asked.start <= t /\ t <= asked.end})

\* "Return up to limit most recent bars, ascending by ts".
MostRecent(bars) ==
    /\ Len(bars) <= asked.limit
    /\ \E first \in 1 .. now + 1 : Lists(bars, {t \in Published : first <= t})

Init == status = "asked" /\ answer = <<>>

Answer ==
    /\ status = "asked" /\ status' = "answered"
    /\ IF asked.kind = "historical" THEN WithinRange(answer') ELSE MostRecent(answer')
    /\ UNCHANGED <<now, asked>>

Fail ==
    /\ status = "asked" /\ status' = "failed"
    /\ UNCHANGED <<now, asked, answer>>

Pass == now' > now /\ UNCHANGED <<asked, status, answer>>

Spec == Init /\ [][Answer \/ Fail \/ Pass]_<<now, asked, status, answer>>
=============================================================================
