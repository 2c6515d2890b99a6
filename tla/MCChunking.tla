----------------------------- MODULE MCChunking -----------------------------
\* Every range of nine instants, split by windows of one to four.
EXTENDS Chunking

SomeInstants == 0 .. 8
SomeWindows == 0 .. 3
=============================================================================
