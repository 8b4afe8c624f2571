----------------------------- MODULE MCRowPool -----------------------------
(* Instances of RowPool for TLC: two streams share a pool of two workers.   *)
EXTENDS RowPool

CONSTANTS c1, c2, w1, w2

MCCallers == {c1, c2}
MCWorkers == {w1, w2}
MCCounts == {1, 2, 3}
=============================================================================
