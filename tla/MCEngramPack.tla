----------------------------- MODULE MCEngramPack -----------------------------
(* Instances of EngramPack: runs over two shards of three rows, the first and   *)
(* the last of them sampled.  Checkpoints c1, c2 and c3 have one identity: c1    *)
(* and c2 differ in the middle row only, c3 also in a sampled one.  c4 has       *)
(* another identity and differs from c1 in the middle row only.                  *)
EXTENDS EngramPack, TLC

CONSTANTS p1, p2, p3, c1, c2, c3, c4

MCRuns == {p1, p2, p3}
MCSampled == {1, 3}
MCCheckpoints == {c1, c2, c3, c4}
MCBytes == c1 :> <<0, 0, 0>> @@ c2 :> <<0, 1, 0>> @@ c3 :> <<1, 2, 0>>
           @@ c4 :> <<0, 3, 0>>
MCIdentity == [c \in MCCheckpoints |-> IF c = c4 THEN 2 ELSE 1]

\* Rows are only compared, so c1 and c2 can change places.
MCSymmetry == Permutations(MCRuns) \cup Permutations({c1, c2})
===============================================================================
