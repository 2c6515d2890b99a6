--------------------------- MODULE FeatureSeries ----------------------------
(***************************************************************************)
(* The features of the registry, as functions from the bars of a symbol to *)
(* one value a bar.  A frame is the sequence of its prices (or volumes),   *)
(* oldest first, and a value is NaN or the numbers it is computed from:    *)
(* the formulas are left out, what they read and when they are defined is  *)
(* kept.  A feature is a kind and a number of rows.                        *)
(***************************************************************************)
EXTENDS Integers, Sequences

NaN == <<>>

\* Mutant: a volatility over n returns asks for n closes.
LookbackReturns(feature) ==
    CASE feature.kind \in {"sma", "volume", "spike", "volatility"} -> feature.n
      [] feature.kind \in {"return", "rsi"} -> feature.n + 1
      [] feature.kind = "cumulative" -> 1

\* lookback_window, as the specification of each feature declares it.
Lookback(feature) ==
    CASE feature.kind \in {"sma", "volume", "spike"} -> feature.n
      [] feature.kind \in {"return", "volatility", "rsi"} -> feature.n + 1
      [] feature.kind = "cumulative" -> 1

-----------------------------------------------------------------------------
CleanClose(frame) == [i \in DOMAIN frame |-> IF frame[i] > 0 THEN <<frame[i]>> ELSE NaN]

CleanVolume(frame) == [i \in DOMAIN frame |-> IF frame[i] >= 0 THEN <<frame[i]>> ELSE NaN]

\* Mutant: the window is centred.
RollingCentred(series, n) ==
    [i \in DOMAIN series |->
        LET last == i + n \div 2
        IN  IF last \in n .. Len(series) /\ \A k \in last - n + 1 .. last : series[k] # NaN
            THEN SubSeq(series, last - n + 1, last) ELSE NaN]

\* rolling(n, min_periods = n)
Rolling(series, n) ==
    [i \in DOMAIN series |->
        IF i >= n /\ \A k \in i - n + 1 .. i : series[k] # NaN
        THEN SubSeq(series, i - n + 1, i) ELSE NaN]

\* close / close.shift(n) - 1
Return(frame, n) ==
    LET close == CleanClose(frame)
    IN  [i \in DOMAIN frame |->
            IF i > n /\ close[i] # NaN /\ close[i - n] # NaN
            THEN <<close[i - n], close[i]>> ELSE NaN]

\* The standard deviation of daily returns.
Volatility(frame, n) == Rolling(Return(frame, 1), n)

\* A volume against its average, which may be zero.
Spike(frame, n) ==
    LET average == Rolling(CleanVolume(frame), n)
    IN  [i \in DOMAIN frame |->
            IF \E k \in DOMAIN average[i] : average[i][k][1] > 0
            THEN average[i] ELSE NaN]

\* A close against the first valid one of the frame.
Cumulative(frame) ==
    LET close == CleanClose(frame)
    IN  [i \in DOMAIN frame |->
            IF close[i] = NaN THEN NaN
            ELSE LET first == CHOOSE k \in 1 .. i :
                                /\ close[k] # NaN
                                /\ \A m \in 1 .. k - 1 : close[m] = NaN
                 IN  <<close[first], close[i]>>]

\* The state of the RSI's loop after row i: the changes that wait for the first
\* average, and the changes the averages are made of.
Reset == [seed |-> <<>>, averages |-> <<>>]

\* Mutant: a bad price drops the averages but not the changes that wait.
SmoothKeepingSeed(state, change, period) ==
    IF change = NaN THEN [state EXCEPT !.averages = <<>>]
    ELSE IF state.averages # <<>> THEN [state EXCEPT !.averages = @ \o change]
    ELSE LET seed == state.seed \o change
         IN  [seed |-> seed, averages |-> IF Len(seed) < period THEN <<>> ELSE seed]

Smooth(state, change, period) ==
    IF change = NaN THEN Reset
    ELSE IF state.averages # <<>> THEN [state EXCEPT !.averages = @ \o change]
    ELSE LET seed == state.seed \o change
         IN  [seed |-> seed, averages |-> IF Len(seed) < period THEN <<>> ELSE seed]

\* Without a gain or a loss the index has no value.
Rsi(frame, period) ==
    LET close == CleanClose(frame)
        change(i) == IF close[i] = NaN \/ close[i - 1] = NaN THEN NaN
                     ELSE <<close[i][1] - close[i - 1][1]>>
        state[i \in DOMAIN frame] ==
            IF i = 1 THEN Reset ELSE Smooth(state[i - 1], change(i), period)
    IN  [i \in DOMAIN frame |->
            IF \E k \in DOMAIN state[i].averages : state[i].averages[k] # 0
            THEN state[i].averages ELSE NaN]

Raw(feature, frame) ==
    CASE feature.kind = "sma" -> Rolling(CleanClose(frame), feature.n)
      [] feature.kind = "return" -> Return(frame, feature.n)
      [] feature.kind = "volatility" -> Volatility(frame, feature.n)
      [] feature.kind = "rsi" -> Rsi(frame, feature.n)
      [] feature.kind = "volume" -> Rolling(CleanVolume(frame), feature.n)
      [] feature.kind = "spike" -> Spike(frame, feature.n)
      [] feature.kind = "cumulative" -> Cumulative(frame)

\* The first lookback_window - 1 rows are masked.
Compute(feature, frame) ==
    [i \in DOMAIN frame |->
        IF i < Lookback(feature) THEN NaN ELSE Raw(feature, frame)[i]]
=============================================================================
