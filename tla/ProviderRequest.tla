--------------------------- MODULE ProviderRequest ---------------------------
(***************************************************************************)
(* AlpacaProvider: one call of fetch_historical_bars or fetch_latest_bars, *)
(* request by request.  Each page is asked for up to MaxAttempts times,    *)
(* with a delay between attempts, and a call reads up to MaxPages pages    *)
(* while new bars are published.                                           *)
(*                                                                         *)
(* A bar is its timestamp.  The provider's server is external: it answers  *)
(* a page as it likes, as long as the pages of one call are the bars it    *)
(* has, in order, from where the page token points.                        *)
(***************************************************************************)
EXTENDS Integers, FiniteSets, SequencesExt

CONSTANTS
    LastTime,           \* the last instant of a bounded run
    Published,          \* the timestamps of the bars the provider ever has
    Second,             \* instants in the resolution of a query parameter
    Limits,             \* the limits fetch_latest_bars is asked for
    PageSize,           \* bars on a page: the limit of a historical query
    MaxPages,
    MaxAttempts,        \* MAX_RETRY_ATTEMPTS
    BaseDelay,          \* RETRY_BASE_DELAY_SECONDS
    MaxDelay,           \* RETRY_MAX_DELAY_SECONDS
    RetryAfters         \* delays a server may ask for

ASSUME ProviderAssumption ==
    /\ LastTime \in Nat
    /\ Second \in Nat \ {0}
    /\ Published \subseteq {t \in 1 .. LastTime : t % Second = 0}
    /\ Limits \subseteq Nat \ {0}
    /\ PageSize \in Nat \ {0}
    /\ MaxPages \in Nat \ {0}
    /\ MaxAttempts \in Nat \ {0}
    /\ BaseDelay \in Nat
    /\ MaxDelay \in Nat
    /\ RetryAfters \subseteq Int

\* Arithmetic the provers do not have: powers of two are natural numbers.
ASSUME PowerAssumption == \A n \in 0 .. MaxAttempts : 2^n \in Nat

VARIABLES
    now,        \* the time at the provider
    asked,      \* the arguments of the call
    phase,      \* "request", "sleep", "answered" or "failed"
    attempt,    \* of the loop in _request_bars
    pages,      \* pages read
    token,      \* page_token: the last bar of the page before, 0 for none
    raw_bars,   \* what the pages read so far contain
    delay,      \* of the sleep at hand
    answer,     \* the bars returned
    sent,       \* history: requests sent in this call
    slept,      \* history: time slept in this call
    streak      \* history: the last requests, as many as failed in a row

retry == <<attempt, delay, slept>>
vars == <<now, asked, phase, attempt, pages, token, raw_bars, delay, answer,
          sent, slept, streak>>

Instant == 1 .. LastTime

\* The argument check of fetch_latest_bars is a limit of at least 1.
Calls ==
    [kind: {"historical"}, start: Instant, end: Instant, limit: {PageSize}]
        \cup [kind: {"latest"}, start: {0}, end: {0}, limit: Limits]

Init ==
    /\ now \in Instant
    /\ asked \in Calls
    /\ phase = "request"
    /\ attempt = 0 /\ pages = 0 /\ token = 0 /\ delay = 0
    /\ raw_bars = <<>> /\ answer = <<>>
    /\ sent = 0 /\ slept = 0 /\ streak = 0

-----------------------------------------------------------------------------
\* Numbers in order, least first.
Ascending(S) ==
    CHOOSE s \in [1 .. Cardinality(S) -> S] :
        \A i, j \in DOMAIN s : i < j => s[i] < s[j]

\* _format_datetime drops what is smaller than a second.
Format(t) == t - (t % Second)

\* What the server has for a historical query, from the page token on.
Remaining ==
    {t \in Published : /\ Format(asked.start) <= t /\ t <= Format(asked.end)
                       /\ token < t /\ t <= now}

\* [bar for bar in bars if start <= bar.ts <= end]
Within(bars) ==
    LET wanted == {i \in DOMAIN bars : asked.start <= bars[i] /\ bars[i] <= asked.end}
        index == Ascending(wanted)
    IN  [k \in DOMAIN index |-> bars[index[k]]]

\* Mutant: the server's delay is not capped.
RetryAfterUncapped(header) == IF header < 0 THEN {} ELSE {header}

\* _parse_retry_after: no delay for a negative one, and never more than the cap.
RetryAfter(header) ==
    IF header < 0 THEN {}
    ELSE {IF header <= MaxDelay THEN header ELSE MaxDelay}

\* _compute_delay without a header: exponential, capped, plus up to a tenth.
Backoff(n) ==
    LET base == IF BaseDelay * 2^n <= MaxDelay THEN BaseDelay * 2^n ELSE MaxDelay
    IN  base .. base + base \div 10

\* The delays after a 429, whose header may be missing, unreadable or negative,
\* and after a timeout, a failed connection or a 5xx.
Delays == Backoff(attempt) \cup UNION {RetryAfter(h) : h \in RetryAfters}

-----------------------------------------------------------------------------
\* A request gets its answer, good or bad.
Sent(bad) == sent' = sent + 1 /\ streak' = IF bad THEN streak + 1 ELSE 0

Done(outcome, bars) == phase' = outcome /\ answer' = bars

\* Mutant: the attempts of one page count for the next one.
NextPageKeeping(last) ==
    /\ token' = last
    /\ UNCHANGED <<phase, attempt, answer>>

\* The loop over pages goes on with the next page_token.
NextPage(last) ==
    /\ token' = last /\ attempt' = 0
    /\ UNCHANGED <<phase, answer>>

\* Mutant: the pages read are returned when there are too many.
TooManyPagesPartial(bars) ==
    Done("answered", Within(bars)) /\ UNCHANGED <<token, attempt>>

\* The else branch of the loop over pages.
TooManyPages(bars) == Done("failed", <<>>) /\ UNCHANGED <<token, attempt>>

\* A 200 with a page of a historical query.  The server may send fewer bars than
\* the limit, and a page token although nothing is left.
ReadPage ==
    /\ phase = "request" /\ asked.kind = "historical"
    /\ \E n \in 0 .. Cardinality(Remaining), more \in BOOLEAN :
          LET page == SubSeq(Ascending(Remaining), 1, n)
          IN  /\ n <= asked.limit
              /\ n < Cardinality(Remaining) => more
              /\ raw_bars' = raw_bars \o page
              /\ IF ~more
                 THEN /\ Done("answered", Within(raw_bars'))
                      /\ UNCHANGED <<token, attempt>>
                 ELSE IF pages + 1 = MaxPages THEN TooManyPages(raw_bars')
                 ELSE NextPage(IF n = 0 THEN token ELSE page[n])
    /\ pages' = pages + 1
    /\ Sent(FALSE)
    /\ UNCHANGED <<now, asked, delay, slept>>

\* list(reversed(bars))
OldestFirst(bars) == Reverse(bars)

\* A 200 of fetch_latest_bars: newest first, one page, its token is ignored.
ReadLatest ==
    /\ phase = "request" /\ asked.kind = "latest"
    /\ LET have == Reverse(Ascending({t \in Published : t <= now}))
       IN  \E n \in 0 .. Len(have) :
              /\ n <= asked.limit
              /\ raw_bars' = SubSeq(have, 1, n)
    /\ Done("answered", OldestFirst(raw_bars'))
    /\ pages' = pages + 1
    /\ Sent(FALSE)
    /\ UNCHANGED <<now, asked, token, retry>>

\* A timeout, a failed connection, a 429 or a 5xx.
TransientFailure ==
    /\ phase = "request"
    /\ IF attempt + 1 < MaxAttempts
       THEN phase' = "sleep" /\ delay' \in Delays
       ELSE phase' = "failed" /\ UNCHANGED delay
    /\ Sent(TRUE)
    /\ UNCHANGED <<now, asked, attempt, pages, token, raw_bars, answer, slept>>

\* asyncio.sleep is over: the same request again.
Wake ==
    /\ phase = "sleep"
    /\ phase' = "request"
    /\ attempt' = attempt + 1
    /\ slept' = slept + delay /\ delay' = 0
    /\ UNCHANGED <<now, asked, pages, token, raw_bars, answer, sent, streak>>

\* Another status of 400 or more, another transport error, a body that is not
\* the JSON expected, a bar that is malformed.
PermanentFailure ==
    /\ phase = "request"
    /\ Done("failed", <<>>)
    /\ Sent(FALSE)
    /\ UNCHANGED <<now, asked, pages, token, raw_bars, retry>>

\* Bars are published while the call goes on.
Tick ==
    /\ now < LastTime
    /\ now' = now + 1
    /\ UNCHANGED <<asked, phase, attempt, pages, token, raw_bars, delay, answer,
                   sent, slept, streak>>

\* The call has returned or raised.
Ended == phase \in {"answered", "failed"} /\ UNCHANGED vars

Step == ReadPage \/ ReadLatest \/ TransientFailure \/ Wake \/ PermanentFailure

Next == Step \/ Tick \/ Ended

Spec == Init /\ [][Next]_vars

-----------------------------------------------------------------------------
TypeOK ==
    /\ now \in Instant
    /\ asked \in Calls
    /\ phase \in {"request", "sleep", "answered", "failed"}
    /\ attempt \in 0 .. MaxAttempts - 1
    /\ pages \in 0 .. MaxPages
    /\ token \in 0 .. LastTime
    /\ raw_bars \in Seq(Instant)
    /\ delay \in Nat
    /\ answer \in Seq(Instant)
    /\ sent \in Nat /\ slept \in Nat /\ streak \in Nat

\* Many pages, read at different times, each after lost attempts, are one
\* answer: the bars of the range that exist as the last page is read, each
\* once and in order.  Otherwise the call fails; it never returns a part.
Caller == INSTANCE ProviderAnswer WITH
    status <- IF phase \in {"request", "sleep"} THEN "asked" ELSE phase
ImplementsAnswer == Caller!Spec

\* A call sends at most MAX_RETRY_ATTEMPTS requests for each of its pages,
\* however retries and pages alternate.
RequestsBounded == sent <= MaxAttempts * MaxPages

\* Nor does it sleep longer than the capped delays add up to, whatever delays
\* the server asks for.
Longest == MaxDelay + MaxDelay \div 10
SleepBounded == slept + delay <= (MaxAttempts - 1) * MaxPages * Longest

\* A page is given up for transient failures only when all its attempts failed
\* in a row: an outage shorter than that is never seen by the caller.
OutageTolerated == phase = "failed" /\ streak > 0 => streak = MaxAttempts
=============================================================================
