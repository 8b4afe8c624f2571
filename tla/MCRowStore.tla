----------------------------- MODULE MCRowStore -----------------------------
(* Instances of RowStore: two threads, a table of four rows, this rank owns   *)
(* rows 1..3; caches of up to three sets and two ways.                        *)
EXTENDS RowStore, TLC

CONSTANTS t1, t2

MCThreads == {t1, t2}
MCBudgets == {0, 545, 819}
MCCacheWays == {0, 2}
MCRanges == {<<1, 4>>, <<3, 2>>, <<0, 5>>}
Shard(l, lo, hi, whole) ==
  [layer |-> l, lo |-> lo, hi |-> hi, rows |-> 4, whole |-> whole]
MCShards == {Shard(1, 1, 4, TRUE), Shard(2, 1, 4, TRUE), Shard(1, 0, 3, TRUE),
             Shard(1, 1, 4, FALSE)}
MCSymmetry == Permutations(MCThreads)
=============================================================================
