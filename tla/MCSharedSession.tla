-------------------------- MODULE MCSharedSession ---------------------------
\* An instance of SharedSession for TLC: the scheduler's job and a request.
EXTENDS SharedSession

EveryBar == Time
=============================================================================
