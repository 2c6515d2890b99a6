------------------------------ MODULE Chunking ------------------------------
(***************************************************************************)
(* chunk_date_range: the loop that splits an inclusive range [start, end]  *)
(* into provider-safe windows.  One step is one iteration.                 *)
(***************************************************************************)
EXTENDS MarketData, Sequences

CONSTANTS
    Instants,       \* the starts and ends a caller may pass
    Windows         \* the window lengths of _TIMEFRAME_WINDOWS

ASSUME ChunkingAssumption ==
    /\ Instants \subseteq Int
    /\ Windows \subseteq Nat

VARIABLES
    start, end, window,     \* arguments
    chunk_start,
    chunks,                 \* the result: <<chunk_start, chunk_end>> pairs
    pc                      \* "while" or "return"

vars == <<start, end, window, chunk_start, chunks, pc>>

Init ==
    /\ start \in Instants
    /\ end \in Instants
    /\ window \in Windows
    /\ chunk_start = start
    /\ chunks = <<>>
    /\ pc = "while"

\* while chunk_start <= end: append the window; break once it reaches end.
Iterate ==
    LET chunk_end == WindowEnd(chunk_start, window, end)
    IN  /\ pc = "while"
        /\ chunk_start <= end
        /\ chunks' = Append(chunks, <<chunk_start, chunk_end>>)
        /\ IF chunk_end >= end
           THEN /\ pc' = "return"
                /\ UNCHANGED chunk_start
           ELSE /\ chunk_start' = NextWindow(chunk_end)
                /\ UNCHANGED pc
        /\ UNCHANGED <<start, end, window>>

\* An empty range has no window.
Exit ==
    /\ pc = "while"
    /\ chunk_start > end
    /\ pc' = "return"
    /\ UNCHANGED <<start, end, window, chunk_start, chunks>>

\* The list has been returned.
Returned == pc = "return" /\ UNCHANGED vars

Next == Iterate \/ Exit \/ Returned

Spec == Init /\ [][Next]_vars /\ WF_vars(Iterate \/ Exit)

-----------------------------------------------------------------------------
TypeOK ==
    /\ start \in Int
    /\ end \in Int
    /\ window \in Nat
    /\ chunk_start \in Int
    /\ chunks \in Seq(Int \X Int)
    /\ pc \in {"while", "return"}

\* The instants that belong to some window of a list.
Span(s) == UNION {s[i][1] .. s[i][2] : i \in DOMAIN s}

Covered == Span(chunks)

\* The windows returned are exactly the requested range: no instant, not even
\* the microsecond between two windows, is left out or added.
CoversRange == pc = "return" => Covered = start .. end

\* The windows are in order and share no instant, so no bar is fetched twice.
Disjoint ==
    \A i, j \in DOMAIN chunks : i < j => chunks[i][2] < chunks[j][1]

\* No window is longer than the provider accepts.
ProviderSafe ==
    \A i \in DOMAIN chunks :
        /\ chunks[i][1] <= chunks[i][2]
        /\ chunks[i][2] - chunks[i][1] <= window

\* What one more iteration relies on: the windows so far end right before
\* chunk_start.
LoopInvariant ==
    /\ pc = "while" => Covered = start .. chunk_start - 1
    /\ pc = "while" => \A i \in DOMAIN chunks : chunks[i][2] < chunk_start
    /\ start <= chunk_start
    /\ IF start <= end THEN chunk_start <= end ELSE chunk_start = start
    /\ CoversRange /\ Disjoint /\ ProviderSafe
=============================================================================
