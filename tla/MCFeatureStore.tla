--------------------------- MODULE MCFeatureStore ---------------------------
\* An instance of FeatureStore for TLC: two servers, one of them started with
\* an edited file, two requests whose features are in opposite orders, and one for
\* bars there are not.
EXTENDS FeatureStore

SmallRegistry ==
    [average |-> [kind |-> "sma", n |-> 2], index |-> [kind |-> "rsi", n |-> 2],
     change |-> [kind |-> "return", n |-> 2], risk |-> [kind |-> "volatility", n |-> 2],
     volume |-> [kind |-> "volume", n |-> 2],
     ratio |-> [kind |-> "spike", n |-> 2], total |-> [kind |-> "cumulative", n |-> 1]]

Entry(name, lookback) == [name |-> name, lookback |-> lookback]

Files ==
    [p \in Processes |->
        IF p = 1 THEN <<Entry("average", 2), Entry("index", 3)>>
        ELSE <<Entry("index", 4), Entry("average", 2)>>]

FewRequests ==
    {[symbols |-> <<1, 2>>, features |-> <<"average", "index">>, start |-> 2, end |-> 3],
     [symbols |-> <<2>>, features |-> <<"index", "average">>, start |-> 1, end |-> 3],
     [symbols |-> <<1>>, features |-> <<"average">>, start |-> 1, end |-> 1]}

FewBars == <<<<None, 2, 1>>, <<2, 1, 2>>>>

\* A bar appears, and a price is corrected.
FewChanges ==
    {[symbol |-> 1, time |-> 1, cell |-> 1],
     [symbol |-> 2, time |-> 3, cell |-> 1]}
=============================================================================
