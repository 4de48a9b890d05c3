---------------------------- MODULE MCPostMetrics ----------------------------
EXTENDS PostMetrics, TLC

\* Flushes are interchangeable in the safety run.
FlushSymmetry == Permutations(Flushes)
=============================================================================
