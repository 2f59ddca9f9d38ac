---------------------------- MODULE MCSummaryTask ----------------------------
\* Instances of SummaryTask for TLC.  Goroutine slots are interchangeable: the
\* runs for safety use them as a symmetry set, those for liveness do not.
EXTENDS SummaryTask, TLC

Slots == Permutations(Run)
=============================================================================
