-------------------------- MODULE MCProviderRequest --------------------------
\* Calls over five instants, two to a second, with pages of one bar.
EXTENDS ProviderRequest

EverySecond == {t \in 1 .. LastTime : t % Second = 0}
SomeLimits == {1, 2}
SomeRetryAfters == {-1, 0, 40}
=============================================================================
