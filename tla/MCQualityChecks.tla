--------------------------- MODULE MCQualityChecks ---------------------------
\* Payloads of up to three entries, from Thursday to the Tuesday after.
EXTENDS QualityChecks

SomeInstants == {20, 24, 26, 27, 29, 33, 42, 53}
SomeRequests == {<<18, 53>>, <<22, 43>>, <<30, 35>>}
=============================================================================
