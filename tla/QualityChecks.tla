---------------------------- MODULE QualityChecks ----------------------------
(***************************************************************************)
(* One provider payload on its way through normalize_bars and the batch    *)
(* checks: check_empty_response, check_missing_timestamps, the price jumps *)
(* and check_incomplete_backfill_range.                                    *)
(*                                                                         *)
(* An instant is a number, DayLength of them make a UTC day, and day 0 is  *)
(* a Monday.  A bar is its timestamp and its close.                        *)
(***************************************************************************)
EXTENDS Integers, FiniteSets, SequencesExt

CONSTANTS
    DayLength,
    Step,           \* the cadence of the intraday timeframe
    Instants,       \* timestamps of the entries a payload may have
    Closes,         \* closing prices of the entries
    Requests,       \* the ranges <<start, end>> that may have been requested
    MaxEntries,     \* bound: entries of a payload
    Threshold       \* percent: a larger change of the close is a jump

ASSUME QualityAssumption ==
    /\ DayLength \in Nat \ {0}
    /\ Step \in Nat \ {0}
    /\ Instants \subseteq Nat
    /\ Closes \subseteq Nat \ {0}
    /\ Requests \subseteq {r \in Nat \X Nat : r[1] <= r[2]}
    /\ MaxEntries \in Nat
    /\ Threshold \in Nat

VARIABLES
    timeframe,      \* "1d", an intraday one, or one without a known cadence
    request,        \* <<start, end>>
    entries,        \* the payload
    next,           \* index of the entry or of the parsed bar at hand
    parsed,         \* the loop of normalize_bars
    deduped,        \* its dict, in the order of insertion
    report,         \* what the checks found
    phase           \* "map", "dedupe", "check", "checked" or "rejected"

vars == <<timeframe, request, entries, next, parsed, deduped, report, phase>>

Bars == [ts: Instants, close: Closes]

\* An entry that lacks a field, has no number in it, or fails the validation of
\* Bar, such as a price that is not positive.
Malformed == [ts |-> 0, close |-> 0]

\* The adapter returns bars of the requested range only.
Payloads(range) ==
    LET wanted == {b \in Bars : range[1] <= b.ts /\ b.ts <= range[2]}
    IN  UNION {[1 .. n -> wanted \cup {Malformed}] : n \in 0 .. MaxEntries}

NoReport == [empty |-> FALSE, days |-> {}, slots |-> {}, jumps |-> {},
             leading |-> {}, trailing |-> {}]

Init ==
    /\ timeframe \in {"1d", "intraday", "1wk"}
    /\ request \in Requests
    /\ entries \in Payloads(request)
    /\ next = 1
    /\ parsed = <<>> /\ deduped = <<>>
    /\ report = NoReport
    /\ phase = "map"

-----------------------------------------------------------------------------
\* normalize_bars.

\* One malformed entry makes the whole payload fail.
MapEntry ==
    /\ phase = "map" /\ next <= Len(entries)
    /\ IF entries[next] = Malformed
       THEN phase' = "rejected" /\ UNCHANGED <<parsed, next>>
       ELSE /\ parsed' = Append(parsed, entries[next])
            /\ next' = next + 1
            /\ UNCHANGED phase
    /\ UNCHANGED <<timeframe, request, entries, deduped, report>>

MapDone ==
    /\ phase = "map" /\ next > Len(entries)
    /\ phase' = "dedupe" /\ next' = 1
    /\ UNCHANGED <<timeframe, request, entries, parsed, deduped, report>>

\* Mutant: the first bar of a timestamp is kept, as setdefault would.
KeepFirst(dict, bar) ==
    IF \E i \in DOMAIN dict : dict[i].ts = bar.ts THEN dict ELSE Append(dict, bar)

\* deduped[bar.ts] = bar: a key keeps its place and takes the new value.
Keep(dict, bar) ==
    IF \E i \in DOMAIN dict : dict[i].ts = bar.ts
    THEN [i \in DOMAIN dict |-> IF dict[i].ts = bar.ts THEN bar ELSE dict[i]]
    ELSE Append(dict, bar)

DedupeBar ==
    /\ phase = "dedupe" /\ next <= Len(parsed)
    /\ deduped' = Keep(deduped, parsed[next])
    /\ next' = next + 1
    /\ UNCHANGED <<timeframe, request, entries, parsed, report, phase>>

DedupeDone ==
    /\ phase = "dedupe" /\ next > Len(parsed)
    /\ phase' = "check"
    /\ UNCHANGED <<timeframe, request, entries, next, parsed, deduped, report>>

-----------------------------------------------------------------------------
\* The batch checks.

Date(t) == t \div DayLength

\* weekday() < 5
TradingDay(day) == day % 7 < 5

\* Mutant: the cursor of the loop starts at the day of the previous bar.
MissingWeekdaysFrom(prev, curr) ==
    {day \in Date(prev) .. Date(curr) - 1 : TradingDay(day)}

\* Weekdays strictly between the dates of two instants.
MissingWeekdays(prev, curr) ==
    {day \in Date(prev) + 1 .. Date(curr) - 1 : TradingDay(day)}

\* Mutant: the bars are compared in the order of the payload.
OrderedAsReceived(bars) == bars

\* sorted(group, key=lambda bar: bar.ts); no two bars have one timestamp.
Ordered(bars) ==
    CHOOSE s \in [DOMAIN bars -> Range(bars)] :
        /\ Range(s) = Range(bars)
        /\ \A i, j \in DOMAIN bars : i < j => s[i].ts < s[j].ts

Neighbours(ordered) ==
    {<<ordered[i], ordered[i + 1]>> : i \in 1 .. Len(ordered) - 1}

DailyGaps(ordered) ==
    UNION {MissingWeekdays(p[1].ts, p[2].ts) : p \in Neighbours(ordered)}

\* Mutant: the bar at the end of a gap is counted as missing.
GapSlotsLong(prev, curr) ==
    LET gap_count == (curr - prev) \div Step
    IN  {prev + k * Step : k \in 1 .. gap_count}

\* The slots of one report: range_start, and gap_count of them a step apart.
GapSlots(prev, curr) ==
    LET gap_count == (curr - prev) \div Step - 1
    IN  {prev + k * Step : k \in 1 .. gap_count}

\* Closed hours are no gaps: only bars of one date are compared.
IntradayGaps(ordered) ==
    UNION {GapSlots(p[1].ts, p[2].ts) :
              p \in {q \in Neighbours(ordered) : Date(q[1].ts) = Date(q[2].ts)}}

Change(prev, curr) == IF curr > prev THEN curr - prev ELSE prev - curr

PriceJumps(ordered) ==
    {p[2].ts : p \in {q \in Neighbours(ordered) :
        Change(q[1].close, q[2].close) * 100 > Threshold * q[1].close}}

\* check_incomplete_backfill_range looks one day further on both sides to make
\* the requested bounds inclusive.
Leading(ordered) == MissingWeekdays(request[1] - DayLength, ordered[1].ts)

Trailing(ordered) ==
    MissingWeekdays(ordered[Len(ordered)].ts, request[2] + DayLength)

Check ==
    LET ordered == Ordered(deduped)
        known == timeframe \in {"1d", "intraday"} /\ ordered # <<>>
    IN  /\ phase = "check"
        /\ phase' = "checked"
        /\ report' =
              [empty |-> deduped = <<>>,
               days |-> IF timeframe = "1d" THEN DailyGaps(ordered) ELSE {},
               slots |-> IF timeframe = "intraday" THEN IntradayGaps(ordered)
                         ELSE {},
               jumps |-> PriceJumps(ordered),
               leading |-> IF known THEN Leading(ordered) ELSE {},
               trailing |-> IF known THEN Trailing(ordered) ELSE {}]
        /\ UNCHANGED <<timeframe, request, entries, next, parsed, deduped>>

Finished == phase \in {"checked", "rejected"} /\ UNCHANGED vars

Next == MapEntry \/ MapDone \/ DedupeBar \/ DedupeDone \/ Check \/ Finished

Spec == Init /\ [][Next]_vars

-----------------------------------------------------------------------------
Stored == {deduped[i].ts : i \in DOMAIN deduped}

\* A payload becomes one bar a timestamp, in the order the timestamps first
\* appear, and a corrected entry replaces the one it corrects.
NormalizedOnce ==
    phase = "checked" =>
        /\ \A i, j \in DOMAIN deduped : i # j => deduped[i].ts # deduped[j].ts
        /\ \A i \in DOMAIN deduped :
              LET same == {k \in DOMAIN entries : entries[k].ts = deduped[i].ts}
              IN  \E k \in same : /\ deduped[i] = entries[k]
                                  /\ \A m \in same : m <= k
        /\ \A k \in DOMAIN entries : entries[k].ts \in Stored
        /\ \A i, j \in DOMAIN deduped :
              i < j => \E k \in DOMAIN entries :
                          /\ entries[k].ts = deduped[i].ts
                          /\ \A m \in 1 .. k : entries[m].ts # deduped[j].ts

\* The three checks of a daily backfill together account for every trading day
\* requested: it has a bar, or exactly one of the reports names it.
DaysAccounted ==
    phase = "checked" /\ timeframe = "1d" /\ ~report.empty =>
        LET wanted == {d \in Date(request[1]) .. Date(request[2]) : TradingDay(d)}
            have == {Date(t) : t \in Stored}
            parts == <<have \cap wanted, report.days, report.leading,
                       report.trailing>>
        IN  /\ wanted = UNION {parts[i] : i \in DOMAIN parts}
            /\ \A i, j \in DOMAIN parts : i # j => parts[i] \cap parts[j] = {}

\* A slot is reported when no bar is less than one step away from it, its date
\* has bars on both sides, and it is a number of steps from the bar before.
SlotsAccounted ==
    phase = "checked" /\ timeframe = "intraday" =>
        \A t \in 0 .. request[2] :
            LET today == {u \in Stored : Date(u) = Date(t)}
            IN  t \in report.slots <=>
                   \E before \in today :
                      /\ before < t /\ (t - before) % Step = 0
                      /\ \E after \in today : t < after
                      /\ \A u \in today : u <= before \/ t + Step <= u

\* A jump is a change against the bar before in time, in whatever order the
\* provider sent the bars.
JumpsChronological ==
    phase = "checked" =>
        \A i \in DOMAIN deduped :
            deduped[i].ts \in report.jumps <=>
               \E j \in DOMAIN deduped :
                  /\ deduped[j].ts < deduped[i].ts
                  /\ \A t \in Stored : t <= deduped[j].ts \/ deduped[i].ts <= t
                  /\ Change(deduped[j].close, deduped[i].close) * 100
                        > Threshold * deduped[j].close
=============================================================================
