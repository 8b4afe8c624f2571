------------------------- MODULE CompressPairsProofs -------------------------
(***************************************************************************)
(* Proofs about CompressPairs for every set of requests, every draft       *)
(* length, every ring that is wider, every chunk and every padding.        *)
(***************************************************************************)
EXTENDS CompressPairs, FiniteSetTheorems, WellFoundedInduction, TLAPS

-----------------------------------------------------------------------------
(* Arithmetic of the ring.                                                 *)

\* Division with remainder, for a divisor that is not a literal.
LEMMA DivMod ==
  ASSUME NEW n \in Nat \ {0}, NEW a \in Int
  PROVE  /\ a = (a \div n) * n + (a % n) /\ a \div n \in Int
         /\ a % n \in 0 .. n - 1
  OBVIOUS

\* Different multiples of n are n apart.
LEMMA Gap ==
  ASSUME NEW n \in Nat \ {0}, NEW p \in Int, NEW q \in Int, p < q
  PROVE  q * n - p * n >= n
<1>1. q - p >= 1  OBVIOUS
<1>2. (q - p) * n >= n  BY <1>1
<1> QED  BY <1>2

LEMMA SameRemainder ==
  ASSUME NEW n \in Nat \ {0}, NEW p \in Int, NEW q \in Int, NEW m \in Int,
         NEW a \in Int, NEW b \in Int,
         a = p * n + m, b = q * n + m, a < b, b - a < n
  PROVE  FALSE
<1>1. p * n \in Int /\ q * n \in Int  OBVIOUS
<1>2. b - a = q * n - p * n  BY <1>1
<1>3. CASE p < q  BY <1>2, <1>3, Gap
<1>4. CASE p = q  BY <1>1, <1>2, <1>4
<1>5. CASE q < p
  <2>1. p * n - q * n >= n  BY <1>5, Gap
  <2> QED  BY <1>1, <1>2, <2>1
<1> QED  BY <1>3, <1>4, <1>5

LEMMA NextMultiple ==
  ASSUME NEW n \in Nat \ {0}, NEW a \in Int, a % n = 0
  PROVE  (a + n) % n = 0
<1> DEFINE p == (a + n) \div n  m == (a + n) % n  q == a \div n
<1>0. a + n = p * n + m /\ p \in Int /\ m \in 0 .. n - 1
  <2>1. a + n \in Int  OBVIOUS
  <2> QED  BY <2>1, DivMod
<1>1. a + n = p * n + m /\ a = q * n /\ p \in Int /\ q \in Int /\ m \in 0 .. n - 1
  <2>1. a = q * n + (a % n) /\ q \in Int  BY DivMod
  <2>2. q * n \in Int  BY <2>1
  <2> QED  BY <1>0, <2>1, <2>2
<1> HIDE DEF p, m, q
<1>2. p * n \in Int /\ q * n \in Int  BY <1>1
<1>3. CASE q + 1 < p
  <2>1. p * n - (q + 1) * n >= n  BY <1>1, <1>3, Gap
  <2>2. (q + 1) * n = q * n + n  BY <1>1
  <2> QED  BY <1>1, <1>2, <2>1, <2>2
<1>4. CASE p < q + 1
  <2>1. (q + 1) * n - p * n >= n  BY <1>1, <1>4, Gap
  <2>2. (q + 1) * n = q * n + n  BY <1>1
  <2> QED  BY <1>1, <1>2, <2>1, <2>2
<1>5. CASE p = q + 1
  <2>1. p * n = q * n + n  BY <1>1, <1>5
  <2>2. m = 0  BY <1>1, <1>2, <2>1
  <2> QED  BY <2>2 DEF m
<1> QED  BY <1>1, <1>3, <1>4, <1>5

LEMMA RemaindersDiffer ==
  ASSUME NEW n \in Nat \ {0}, NEW a \in Int, NEW b \in Int, a < b, b - a < n
  PROVE  a % n # b % n
<1>1. SUFFICES ASSUME a % n = b % n  PROVE FALSE  OBVIOUS
<1>2. /\ a = (a \div n) * n + (a % n) /\ b = (b \div n) * n + (a % n)
      /\ a \div n \in Int /\ b \div n \in Int /\ a % n \in Int
  BY <1>1, DivMod
<1> QED  BY <1>2, SameRemainder

\* Positions less than a ring apart have different slots.
LEMMA SlotsDiffer ==
  ASSUME NEW a \in Int, NEW b \in Int, a < b, b - a < RingSize
  PROVE  Slot(a) # Slot(b)
<1>1. RingSize \in Nat \ {0}  BY CompressAssumption
<1> QED  BY <1>1, RemaindersDiffer DEF Slot

LEMMA SlotType == \A a \in Int : Slot(a) \in Slots
  BY CompressAssumption, DivMod DEF Slot, Slots

\* A set of natural numbers has a least one.
LEMMA Least ==
  ASSUME NEW T \in SUBSET Nat, T # {}
  PROVE  \E x \in T : \A y \in T : x <= y
<1>1. PICK x \in T : \A y \in T : ~(<<y, x>> \in OpToRel(<, Nat))
  BY NatLessThanWellFounded, WFMin
<1>2. \A y \in T : ~(y < x)  BY <1>1 DEF OpToRel
<1> QED  BY <1>2

LEMMA WidestType == Widest \in Int
<1>1. Cardinality(Reqs) \in Nat  BY CompressAssumption, FS_CardinalityType
<1>2. \A c \in Nat : ChunkLen * (c - 1) \in Int  BY CompressAssumption
<1> QED  BY <1>1, <1>2 DEF Widest

\* Blocks of DraftLen rows each start at a multiple of it: blockIdx.x of the
\* kernel is the offset in the block.
LEMMA Multiples ==
  ASSUME NEW n \in [Reqs -> Nat], NEW first \in [Reqs -> Nat], RequestMajor(n, first),
         \A r \in Reqs : n[r] \in {0, DraftLen}
  PROVE  \A r \in Reqs : n[r] > 0 => first[r] % DraftLen = 0
<1> DEFINE T == {first[r] : r \in {q \in Reqs : n[q] > 0 /\ first[q] % DraftLen # 0}}
<1>1. DraftLen \in Nat \ {0}  BY CompressAssumption
<1>2. SUFFICES ASSUME T # {}  PROVE FALSE  OBVIOUS
<1>3. PICK r \in Reqs : /\ n[r] > 0 /\ first[r] % DraftLen # 0
                        /\ \A y \in T : first[r] <= y
  <2>1. T \in SUBSET Nat  OBVIOUS
  <2> HIDE DEF T
  <2>2. PICK x \in T : \A y \in T : x <= y  BY <1>2, <2>1, Least
  <2> QED  BY <2>2 DEF T
<1>4. first[r] # 0  BY <1>1, <1>3
<1>5. PICK s \in Reqs : n[s] > 0 /\ first[r] = first[s] + n[s]
  BY <1>3, <1>4 DEF RequestMajor
<1>6. first[s] < first[r] /\ n[s] = DraftLen  BY <1>5
<1>7. first[s] % DraftLen = 0
  <2>1. SUFFICES ASSUME first[s] % DraftLen # 0  PROVE FALSE  OBVIOUS
  <2>2. first[s] \in T  BY <1>5, <2>1
  <2> QED  BY <1>3, <1>6, <2>2
<1> QED  BY <1>1, <1>3, <1>5, <1>6, <1>7, NextMultiple
-----------------------------------------------------------------------------
(* The invariant.                                                          *)

\* Blocks of a launch: apart, within the launch and the text's bound, and as
\* long as the kind of launch has them.
Shape ==
  /\ \A r \in Reqs :
       /\ launch.kept[r] <= launch.n[r] /\ len[r] + launch.n[r] <= MaxLen[r]
       /\ launch.n[r] > 0 => /\ launch.kept[r] > 0
                             /\ launch.first[r] + launch.n[r] <= launch.width
       /\ launch.kind = "none" => launch.n[r] = 0
       /\ launch.kind = "extend" => launch.kept[r] = launch.n[r]
       /\ launch.kind = "block" => launch.n[r] <= DraftLen
       /\ launch.kind = "block" /\ launch.n[r] > 0 => len[r] > 0
       /\ Fused /\ launch.n[r] > 0 =>
            IF mode.verify = "none" THEN launch.n[r] = 1
            ELSE launch.first[r] % DraftLen = 0
  /\ \A r, s \in Reqs : r # s /\ launch.n[r] > 0 /\ launch.n[s] > 0 =>
       \/ launch.first[r] + launch.n[r] <= launch.first[s]
       \/ launch.first[s] + launch.n[s] <= launch.first[r]

\* The first token of an incomplete pair waits in the ring, until a launch
\* that scatters the request's rows is done.
Waiting ==
  \A r \in Reqs :
    len[r] % 2 = 1 /\ (launch.n[r] = 0 \/ Fused \/ launch.done = {}) =>
      ring[r][Slot(len[r] - 1)] = <<r, len[r] - 1>>

\* A row that is done has cached its pair, or waits if it is the last to stay.
Done ==
  \A i \in launch.done : ~Pad(i) =>
    /\ Odd(i) => cache[Req(i)][Pos(i) \div 2] = <<Text(Req(i), Pos(i) - 1), Tok(i)>>
    /\ ~Odd(i) /\ Pos(i) = len[Req(i)] + launch.kept[Req(i)] - 1 =>
         ring[Req(i)][Slot(Pos(i))] = <<Req(i), Pos(i)>>

IInv == TypeOK /\ Shape /\ PairsExact /\ Waiting /\ Done

-----------------------------------------------------------------------------
(* Rows of a launch.                                                       *)

\* Row j of request r's block.
LEMMA RowOf ==
  ASSUME TypeOK, Shape, NEW r \in Reqs, NEW j \in 0 .. launch.n[r] - 1,
         NEW i, i = launch.first[r] + j
  PROVE  /\ i \in Rows /\ Owner(i) = {r} /\ ~Pad(i) /\ Req(i) = r
         /\ Pos(i) = len[r] + j /\ Tok(i) = Text(r, len[r] + j)
<1>1. /\ launch.first[r] \in Nat /\ launch.n[r] \in Nat /\ launch.width \in Nat
      /\ len[r] \in Nat /\ launch.n[r] > 0
      /\ launch.first[r] + launch.n[r] <= launch.width
  BY DEF TypeOK, Shape
<1>2. i \in Rows  BY <1>1 DEF Rows
<1>3. r \in Owner(i)  BY <1>1 DEF Owner
<1>4. \A s \in Owner(i) : s = r
  <2>1. SUFFICES ASSUME NEW s \in Reqs, i - launch.first[s] \in 0 .. launch.n[s] - 1, s # r
                 PROVE  FALSE
    BY DEF Owner
  <2>2. launch.first[s] \in Nat /\ launch.n[s] \in Nat  BY DEF TypeOK
  <2>3. launch.n[s] > 0  BY <2>1, <2>2
  <2>4. \/ launch.first[r] + launch.n[r] <= launch.first[s]
        \/ launch.first[s] + launch.n[s] <= launch.first[r]
    BY <1>1, <2>1, <2>3 DEF Shape
  <2> QED  BY <1>1, <2>1, <2>2, <2>4
<1>5. Owner(i) = {r}  BY <1>3, <1>4
<1>6. ~Pad(i) /\ Req(i) = r  BY <1>5 DEF Pad, Req
<1>7. Pos(i) = len[r] + j  BY <1>1, <1>6 DEF Pos
<1> QED  BY <1>2, <1>5, <1>6, <1>7 DEF Tok

\* A row that is no padding belongs to a block.
LEMMA RealRow ==
  ASSUME TypeOK, Shape, NEW i \in Int, ~Pad(i)
  PROVE  /\ Req(i) \in Reqs /\ i - launch.first[Req(i)] \in 0 .. launch.n[Req(i)] - 1
         /\ i \in Rows /\ launch.n[Req(i)] > 0 /\ Pos(i) \in Nat
         /\ Pos(i) = len[Req(i)] + (i - launch.first[Req(i)])
         /\ Pos(i) < len[Req(i)] + launch.n[Req(i)]
         /\ Tok(i) = Text(Req(i), Pos(i)) /\ Pos(i) < MaxLen[Req(i)]
<1>1. Req(i) \in Owner(i)  BY DEF Pad, Req
<1> DEFINE r == Req(i)
<1>2. r \in Reqs /\ i - launch.first[r] \in 0 .. launch.n[r] - 1  BY <1>1 DEF Owner
<1> HIDE DEF r
<1>3. /\ launch.first[r] \in Nat /\ launch.n[r] \in Nat /\ launch.width \in Nat
      /\ len[r] \in Nat /\ MaxLen[r] \in Nat /\ len[r] + launch.n[r] <= MaxLen[r]
  BY <1>2, CompressAssumption DEF TypeOK, Shape
<1>4. i = launch.first[r] + (i - launch.first[r])  BY <1>3
<1>5. /\ i \in Rows /\ Pos(i) = len[r] + (i - launch.first[r])
      /\ Tok(i) = Text(r, len[r] + (i - launch.first[r]))
  BY <1>2, <1>4, RowOf
<1> QED  BY <1>2, <1>3, <1>5 DEF r

\* Two rows of one request are as far apart as their positions.
LEMMA RowsApart ==
  ASSUME TypeOK, Shape, NEW i \in Int, NEW j \in Int, ~Pad(i), ~Pad(j), Req(i) = Req(j)
  PROVE  Pos(i) - Pos(j) = i - j
<1>1. launch.first[Req(i)] \in Nat /\ len[Req(i)] \in Nat  BY RealRow DEF TypeOK
<1> QED  BY <1>1, RealRow

\* The row before a row of a block, unless that is its first.
LEMMA RowBefore ==
  ASSUME TypeOK, Shape, NEW i \in Int, ~Pad(i), i # launch.first[Req(i)]
  PROVE  /\ ~Pad(i - 1) /\ Req(i - 1) = Req(i) /\ Pos(i - 1) = Pos(i) - 1
         /\ Tok(i - 1) = Text(Req(i), Pos(i) - 1) /\ i > 0
<1> DEFINE r == Req(i)  j == i - launch.first[r]
<1>1. r \in Reqs /\ j \in 0 .. launch.n[r] - 1 /\ Pos(i) = len[r] + j  BY RealRow
<1>2. launch.first[r] \in Nat /\ launch.n[r] \in Nat /\ len[r] \in Nat  BY <1>1 DEF TypeOK
<1>3. j - 1 \in 0 .. launch.n[r] - 1 /\ i - 1 = launch.first[r] + (j - 1)
      /\ len[r] + (j - 1) = Pos(i) - 1 /\ i > 0
  BY <1>1, <1>2
<1> HIDE DEF j
<1>4. /\ ~Pad(i - 1) /\ Req(i - 1) = r /\ Pos(i - 1) = len[r] + (j - 1)
      /\ Tok(i - 1) = Text(r, len[r] + (j - 1))
  BY <1>1, <1>3, RowOf
<1> QED  BY <1>3, <1>4
-----------------------------------------------------------------------------
(* The invariant is inductive.                                             *)

LEMMA InitIInv == Init => IInv
<1> SUFFICES ASSUME Init  PROVE IInv  OBVIOUS
<1> USE DEF Init, NoLaunch
<1>1. TypeOK
  <2>1. ring \in [Reqs -> [Slots -> Tokens]]  BY DEF Tokens
  <2>2. DOMAIN cache = Reqs /\ \A r \in Reqs : cache[r] \in [Pairs(r) -> Tokens \X Tokens]
    BY DEF Tokens
  <2> QED  BY <2>1, <2>2, CompressAssumption DEF TypeOK, Rows
<1>2. Shape  BY CompressAssumption DEF Shape, Fused
<1>3. PairsExact  BY DEF PairsExact, Pairs
<1>4. Waiting  BY DEF Waiting
<1>5. Done  BY DEF Done
<1> QED  BY <1>1, <1>2, <1>3, <1>4, <1>5 DEF IInv

\* A launch of blocks as Shape wants them, with everything else left alone.
LEMMA LaunchIInv ==
  ASSUME IInv, NEW kind \in {"extend", "block"},
         NEW n \in [Reqs -> Nat], NEW kept \in [Reqs -> Nat], NEW pads \in Nat,
         Launch(kind, n, kept, pads),
         \A r \in Reqs :
           /\ kept[r] <= n[r] /\ (n[r] > 0 => kept[r] > 0)
           /\ kind = "extend" => kept[r] = n[r]
           /\ kind = "block" => n[r] <= DraftLen /\ (n[r] > 0 => len[r] > 0)
           /\ kind = "block" /\ mode.verify = "none" => n[r] \in {0, 1}
           /\ kind = "block" /\ mode.verify = "static" => n[r] \in {0, DraftLen}
  PROVE  IInv'
<1>1. PICK first \in [Reqs -> 0 .. Widest], last \in {r \in Reqs : n[r] > 0} :
        /\ RequestMajor(n, first) /\ \A r \in Reqs : first[r] <= first[last]
        /\ launch' = [kind |-> kind, first |-> first, n |-> n, kept |-> kept,
                      width |-> first[last] + n[last] + pads, done |-> {},
                      before |-> IF kind = "block" /\ Static THEN [ring |-> ring, cache |-> cache]
                                 ELSE <<>>]
  BY DEF Launch
<1>2. UNCHANGED <<mode, len, ring, cache>> /\ \A r \in Reqs : len[r] + n[r] <= MaxLen[r]
  BY DEF Launch
<1>3. first \in [Reqs -> Nat]
  <2>1. \A x \in 0 .. Widest : x \in Nat  BY WidestType
  <2> QED  BY <2>1
<1>4. /\ launch'.kind = kind /\ launch'.first = first /\ launch'.n = n
      /\ launch'.kept = kept /\ launch'.done = {}
      /\ launch'.width = first[last] + n[last] + pads /\ DOMAIN launch' = DOMAIN NoLaunch
  BY <1>1 DEF NoLaunch
<1>5. launch.n = [r \in Reqs |-> 0]
  BY DEF IInv, TypeOK, Shape, Launch, Flying
<1>6. TypeOK'
  BY <1>2, <1>3, <1>4 DEF IInv, TypeOK, Rows
<1>7. Shape'
  <2>3. \A r, s \in Reqs : r # s /\ n[r] > 0 /\ n[s] > 0 =>
          first[r] + n[r] <= first[s] \/ first[s] + n[s] <= first[r]
    <3> SUFFICES ASSUME NEW r \in Reqs, NEW s \in Reqs, r # s, n[r] > 0, n[s] > 0
                 PROVE  first[r] + n[r] <= first[s] \/ first[s] + n[s] <= first[r]
      OBVIOUS
    <3>1. s \in Reqs \ {r} /\ n[r] # 0  OBVIOUS
    <3> QED  BY <1>1, <3>1 DEF RequestMajor
  <2>1. \A r \in Reqs : n[r] > 0 => first[r] + n[r] <= launch'.width
    <3> SUFFICES ASSUME NEW r \in Reqs, n[r] > 0  PROVE first[r] + n[r] <= launch'.width
      OBVIOUS
    <3>1. first[r] <= first[last]  BY <1>1
    <3>2. CASE r = last  BY <1>3, <1>4, <3>2
    <3>3. CASE r # last
      <4>1. first[r] + n[r] <= first[last] \/ first[last] + n[last] <= first[r]
        BY <2>3, <3>3
      <4> QED  BY <1>3, <1>4, <3>1, <4>1
    <3> QED  BY <3>2, <3>3
  <2>2. \A r \in Reqs : Fused' /\ n[r] > 0 =>
          IF mode.verify = "none" THEN n[r] = 1 ELSE first[r] % DraftLen = 0
    <3>1. CASE mode.verify = "none"  BY <1>2, <1>4, <3>1 DEF Fused
    <3>2. CASE mode.verify # "none"
      <4>1. SUFFICES ASSUME Fused'  PROVE \A r \in Reqs : n[r] > 0 => first[r] % DraftLen = 0
        BY <3>2
      <4>2. kind = "block" /\ mode.verify = "static"  BY <1>2, <1>4, <3>2, <4>1 DEF Fused, Static
      <4> QED  BY <1>1, <1>3, <4>2, Multiples
    <3> QED  BY <3>1, <3>2
  <2>4. \A r \in Reqs :
          /\ kept[r] <= n[r] /\ len[r] + n[r] <= MaxLen[r] /\ (n[r] > 0 => kept[r] > 0)
          /\ kind = "extend" => kept[r] = n[r]
          /\ kind = "block" => n[r] <= DraftLen /\ (n[r] > 0 => len[r] > 0)
    BY <1>2
  <2> QED  BY <1>2, <1>4, <2>1, <2>2, <2>3, <2>4 DEF Shape
<1>8. PairsExact'  BY <1>2 DEF IInv, PairsExact, Pairs
<1>9. Waiting'
  <2>1. \A r \in Reqs : len[r] % 2 = 1 => ring[r][Slot(len[r] - 1)] = <<r, len[r] - 1>>
    BY <1>5 DEF IInv, Waiting
  <2> QED  BY <1>2, <2>1 DEF Waiting, Slot
<1>10. Done'  BY <1>4 DEF Done
<1> QED  BY <1>6, <1>7, <1>8, <1>9, <1>10 DEF IInv

LEMMA ExtendIInv == ASSUME IInv, Extend  PROVE IInv'
<1>1. PICK n \in [Reqs -> 0 .. ChunkLen], pads \in Paddings : Launch("extend", n, n, pads)
  BY DEF Extend
<1>2. n \in [Reqs -> Nat] /\ pads \in Nat  BY CompressAssumption
<1> QED  BY <1>1, <1>2, LaunchIInv

LEMMA BlockIInv == ASSUME IInv, Block  PROVE IInv'
<1>1. PICK n \in [Reqs -> {0} \cup BlockLengths], kept \in [Reqs -> 0 .. DraftLen],
           pads \in Paddings :
        /\ \A r \in Reqs : IF n[r] = 0 THEN kept[r] = 0
                           ELSE len[r] > 0 /\ kept[r] \in 1 .. n[r]
        /\ Launch("block", n, kept, pads)
  BY DEF Block
<1>2. mode.verify \in {"none", "static", "compact"}
  BY CompressAssumption DEF IInv, TypeOK
<1>3. BlockLengths \subseteq 1 .. DraftLen
      /\ (mode.verify = "none" => BlockLengths = {1})
      /\ (mode.verify = "static" => BlockLengths = {DraftLen})
  BY <1>2, CompressAssumption DEF BlockLengths
<1>4. n \in [Reqs -> Nat] /\ kept \in [Reqs -> Nat] /\ pads \in Nat
      /\ \A r \in Reqs : n[r] <= DraftLen
  <2>1. DraftLen \in Nat /\ pads \in Nat  BY CompressAssumption
  <2>2. \A x \in {0} \cup BlockLengths : x \in Nat /\ x <= DraftLen  BY <1>3, <2>1
  <2>3. n \in [Reqs -> Nat] /\ \A r \in Reqs : n[r] <= DraftLen  BY <2>2
  <2>4. kept \in [Reqs -> Nat]  BY <2>1
  <2> QED  BY <2>1, <2>3, <2>4
<1>5. \A r \in Reqs : /\ kept[r] <= n[r] /\ (n[r] > 0 => kept[r] > 0)
                      /\ n[r] > 0 => len[r] > 0
  BY <1>1, <1>4
<1> QED  BY <1>1, <1>3, <1>4, <1>5, LaunchIInv

LEMMA ReuseIInv ==
  ASSUME IInv, NEW r \in Reqs, NEW m \in 0 .. MaxLen[r], Reuse(r, m)
  PROVE  IInv'
<1> USE DEF Reuse
<1>1. launch.n = [q \in Reqs |-> 0] /\ launch.done \subseteq Rows
  BY DEF IInv, TypeOK, Shape, Flying
<1>2. TypeOK'
  <2>1. ring' \in [Reqs -> [Slots -> Tokens]]  BY DEF IInv, TypeOK, Tokens
  <2>2. DOMAIN cache' = Reqs  BY DEF IInv, TypeOK
  <2>3. \A q \in Reqs : cache'[q] \in [Pairs(q) -> Tokens \X Tokens]
    BY DEF IInv, TypeOK, Tokens
  <2>4. len' \in [Reqs -> Nat] /\ \A q \in Reqs : len'[q] <= MaxLen[q]
    BY CompressAssumption DEF IInv, TypeOK
  <2> QED  BY <2>1, <2>2, <2>3, <2>4 DEF IInv, TypeOK, Rows
<1>3. \A q \in Reqs : len'[q] = IF q = r THEN m ELSE len[q]  BY DEF IInv, TypeOK
<1>4. Shape'
  <2>1. \A q \in Reqs : len'[q] + launch.n[q] <= MaxLen[q]
    BY <1>1, <1>2 DEF TypeOK
  <2> QED  BY <1>1, <2>1 DEF IInv, TypeOK, Shape, Fused, Static
<1>5. PairsExact'
  <2> SUFFICES ASSUME NEW q \in Reqs, NEW k \in Pairs(q), 2 * k + 1 < len'[q]
               PROVE  cache'[q][k] = <<<<q, 2 * k>>, <<q, 2 * k + 1>>>>
    BY DEF PairsExact, Pairs
  <2>1. len[q] \in Nat /\ k \in Int /\ 2 * k + 1 < len[q]
    BY <1>3, CompressAssumption DEF IInv, TypeOK, Pairs
  <2>2. cache[q][k] = <<<<q, 2 * k>>, <<q, 2 * k + 1>>>>
    BY <2>1 DEF IInv, PairsExact
  <2>3. q = r => 2 * k < m  BY <1>3, <2>1
  <2> QED  BY <2>2, <2>3 DEF IInv, TypeOK
<1>6. Waiting'
  <2> SUFFICES ASSUME NEW q \in Reqs, len'[q] % 2 = 1
               PROVE  ring'[q][Slot(len'[q] - 1)] = <<q, len'[q] - 1>>
    BY DEF Waiting, Slot
  <2>1. q # r  BY <1>3
  <2> QED  BY <1>1, <1>3, <2>1 DEF IInv, TypeOK, Waiting
<1>7. Done'
  <2>1. \A i : Pad(i)'  BY <1>1 DEF Pad, Owner, IInv, TypeOK
  <2> QED  BY <2>1 DEF Done
<1> QED  BY <1>2, <1>4, <1>5, <1>6, <1>7 DEF IInv

\* An odd position is the second of its pair.
LEMMA Second ==
  ASSUME NEW k \in Nat, NEW p, p = 2 * k + 1
  PROVE  p % 2 = 1 /\ p \div 2 = k /\ p - 1 = 2 * k
  OBVIOUS

LEMMA CommitIInv == ASSUME IInv, Commit  PROVE IInv'
<1> USE DEF Commit
<1>1. /\ launch.done = Rows /\ UNCHANGED <<mode, ring, cache>>
      /\ launch' = NoLaunch /\ \A r \in Reqs : len'[r] = len[r] + launch.kept[r]
  BY DEF Finished
<1>2. \A r \in Reqs :
        /\ len[r] \in Nat /\ launch.kept[r] \in Nat /\ launch.n[r] \in Nat
        /\ launch.first[r] \in Nat /\ launch.kept[r] <= launch.n[r]
        /\ launch.kept[r] = 0 => launch.n[r] = 0
        /\ len[r] + launch.n[r] <= MaxLen[r] /\ MaxLen[r] \in Nat
  BY CompressAssumption DEF IInv, TypeOK, Shape
<1>3. TypeOK'
  <2>1. len' \in [Reqs -> Nat] /\ \A r \in Reqs : len'[r] <= MaxLen[r]  BY <1>2
  <2> QED  BY <1>1, <2>1, CompressAssumption DEF IInv, TypeOK, NoLaunch, Rows
<1>4. Shape'
  <2>1. \A r \in Reqs : launch'.n[r] = 0 /\ launch'.kept[r] = 0  BY <1>1 DEF NoLaunch
  <2>2. launch'.kind = "none"  BY <1>1 DEF NoLaunch
  <2>3. \A r \in Reqs : len'[r] + 0 <= MaxLen[r]  BY <1>1, <1>2
  <2> QED  BY <2>1, <2>2, <2>3 DEF Shape, Fused
<1>5. \A r \in Reqs : \A p \in Nat : len[r] <= p /\ p < len'[r] =>
        LET i == launch.first[r] + (p - len[r])
        IN i \in launch.done /\ ~Pad(i) /\ Req(i) = r /\ Pos(i) = p /\ Tok(i) = <<r, p>>
  <2> SUFFICES ASSUME NEW r \in Reqs, NEW p \in Nat, len[r] <= p, p < len'[r],
                      NEW j, j = p - len[r], NEW i, i = launch.first[r] + j
               PROVE  i \in launch.done /\ ~Pad(i) /\ Req(i) = r /\ Pos(i) = p /\ Tok(i) = <<r, p>>
    OBVIOUS
  <2>1. j \in 0 .. launch.n[r] - 1 /\ len[r] + j = p  BY <1>1, <1>2
  <2>2. /\ i \in Rows /\ ~Pad(i) /\ Req(i) = r /\ Pos(i) = p /\ Tok(i) = Text(r, p)
    BY <2>1, RowOf DEF IInv
  <2> QED  BY <1>1, <2>2 DEF Text
<1>6. PairsExact'
  <2> SUFFICES ASSUME NEW r \in Reqs, NEW k \in Pairs(r), 2 * k + 1 < len'[r]
               PROVE  cache[r][k] = <<<<r, 2 * k>>, <<r, 2 * k + 1>>>>
    BY <1>1 DEF PairsExact, Pairs
  <2>1. k \in Nat  BY <1>2 DEF Pairs
  <2>2. CASE 2 * k + 1 < len[r]  BY <2>2 DEF IInv, PairsExact
  <2>3. CASE len[r] <= 2 * k + 1
    <3>1. PICK i \in launch.done : /\ ~Pad(i) /\ Req(i) = r /\ Pos(i) = 2 * k + 1
                                   /\ Tok(i) = <<r, 2 * k + 1>>
      BY <1>5, <2>1, <2>3
    <3>2. Odd(i) /\ Pos(i) \div 2 = k /\ Pos(i) - 1 = 2 * k
      <4> HIDE DEF Commit
      <4>1. Pos(i) = 2 * k + 1  BY <3>1
      <4> QED  BY <2>1, <4>1, Second DEF Odd
    <3>3. Text(r, 2 * k) = <<r, 2 * k>>  BY <1>1, <1>2, <2>1 DEF Text
    <3> QED  BY <3>1, <3>2, <3>3 DEF IInv, Done
  <2> QED  BY <1>2, <2>1, <2>2, <2>3
<1>7. Waiting'
  <2> SUFFICES ASSUME NEW r \in Reqs, len'[r] % 2 = 1
               PROVE  ring[r][Slot(len'[r] - 1)] = <<r, len'[r] - 1>>
    BY <1>1 DEF Waiting, Slot
  <2>1. CASE launch.kept[r] = 0
    BY <1>1, <1>2, <2>1 DEF IInv, Waiting
  <2>2. CASE launch.kept[r] > 0
    <3>1. /\ len'[r] \in Nat /\ len'[r] - 1 \in Nat /\ len[r] <= len'[r] - 1 /\ len'[r] - 1 < len'[r]
          /\ len'[r] - 1 = len[r] + launch.kept[r] - 1
      BY <1>1, <1>2, <2>2
    <3>2. PICK i \in launch.done : ~Pad(i) /\ Req(i) = r /\ Pos(i) = len'[r] - 1
      BY <1>5, <3>1
    <3>3. ~Odd(i)  BY <3>1, <3>2 DEF Odd
    <3> QED  BY <3>1, <3>2, <3>3 DEF IInv, Done
  <2> QED  BY <1>2, <2>1, <2>2
<1>8. Done'  BY <1>1 DEF Done, NoLaunch
<1> QED  BY <1>3, <1>4, <1>6, <1>7, <1>8 DEF IInv

\* What rows are is the same before and after some of them are done.
LEMMA Frame ==
  ASSUME TypeOK, UNCHANGED <<mode, len>>, NEW D, launch' = [launch EXCEPT !.done = D]
  PROVE  /\ launch'.kind = launch.kind /\ launch'.first = launch.first
         /\ launch'.n = launch.n /\ launch'.kept = launch.kept
         /\ launch'.width = launch.width /\ launch'.done = D
         /\ DOMAIN launch' = DOMAIN launch
         /\ Rows' = Rows /\ Fused' = Fused
         /\ \A r, q : Text(r, q)' = Text(r, q)
         /\ \A i : Pad(i)' = Pad(i) /\ Req(i)' = Req(i) /\ Pos(i)' = Pos(i)
                   /\ Tok(i)' = Tok(i) /\ Odd(i)' = Odd(i)
<1>1. /\ launch'.kind = launch.kind /\ launch'.first = launch.first
      /\ launch'.n = launch.n /\ launch'.kept = launch.kept
      /\ launch'.width = launch.width /\ launch'.done = D
      /\ DOMAIN launch' = DOMAIN launch
  BY DEF TypeOK, NoLaunch
<1>2. Rows' = Rows /\ Fused' = Fused  BY <1>1 DEF Rows, Fused, Static
<1>3. \A r, q : Text(r, q)' = Text(r, q)  BY <1>1 DEF Text
<1>4. \A i : Owner(i)' = Owner(i)  BY <1>1 DEF Owner
<1>5. ASSUME NEW i  PROVE Pad(i)' = Pad(i) /\ Req(i)' = Req(i)
  <2>1. Owner(i)' = Owner(i)  BY <1>4
  <2>2. (CHOOSE r \in Owner(i) : TRUE)' = CHOOSE r \in Owner(i) : TRUE  BY <2>1
  <2>3. Pad(i)' = Pad(i)  BY <2>1 DEF Pad
  <2>4. CASE Pad(i)  BY <2>3, <2>4 DEF Req
  <2>5. CASE ~Pad(i)
    <3>1. Req(i) = CHOOSE r \in Owner(i) : TRUE  BY <2>5 DEF Req
    <3>2. Req(i)' = (CHOOSE r \in Owner(i) : TRUE)'  BY <2>3, <2>5 DEF Req
    <3> QED  BY <2>2, <2>3, <3>1, <3>2
  <2> QED  BY <2>4, <2>5
<1>6. \A i : Pos(i)' = Pos(i)  BY <1>1, <1>5 DEF Pos
<1>7. \A i : Tok(i)' = Tok(i) /\ Odd(i)' = Odd(i)  BY <1>3, <1>5, <1>6 DEF Tok, Odd
<1> QED  BY <1>1, <1>2, <1>3, <1>5, <1>6, <1>7

LEMMA FrameShape ==
  ASSUME TypeOK, Shape, UNCHANGED <<mode, len>>, NEW D, launch' = [launch EXCEPT !.done = D]
  PROVE  Shape'
  BY Frame DEF Shape

LEMMA TokType == ASSUME TypeOK, Shape, NEW i \in Int  PROVE Tok(i) \in Tokens
<1>1. CASE Pad(i)  BY <1>1 DEF Tok, Tokens
<1>2. CASE ~Pad(i)
  <2>1. Req(i) \in Reqs /\ Pos(i) \in Nat /\ Tok(i) = Text(Req(i), Pos(i))  BY <1>2, RealRow
  <2> QED  BY <2>1 DEF Text, Tokens
<1> QED  BY <1>1, <1>2

LEMMA CarriedType ==
  ASSUME TypeOK, Shape, NEW i \in Int, ~Pad(i)  PROVE Carried(i) \in Tokens
<1>1. Req(i) \in Reqs /\ Pos(i) - 1 \in Int  BY RealRow
<1>2. Slot(Pos(i) - 1) \in Slots  BY <1>1, SlotType
<1> QED  BY <1>1, <1>2 DEF Carried, TypeOK

\* The first row of a block finds the token before it in the ring.
LEMMA CarriedExact ==
  ASSUME IInv, NEW i \in Int, ~Pad(i), Odd(i), i = launch.first[Req(i)],
         Fused \/ launch.done = {}
  PROVE  Carried(i) = Text(Req(i), Pos(i) - 1)
<1> DEFINE r == Req(i)
<1>1. /\ r \in Reqs /\ launch.n[r] > 0 /\ Pos(i) = len[r] + (i - launch.first[r])
      /\ Pos(i) < len[r] + launch.n[r]
  BY RealRow DEF IInv
<1>2. len[r] \in Nat /\ launch.kept[r] \in Nat /\ launch.first[r] \in Nat /\ launch.kept[r] > 0
  BY <1>1 DEF IInv, TypeOK, Shape
<1>3. Pos(i) = len[r] /\ len[r] % 2 = 1  BY <1>1, <1>2 DEF Odd
<1>4. ring[r][Slot(len[r] - 1)] = <<r, len[r] - 1>>  BY <1>1, <1>3 DEF IInv, Waiting
<1>5. Text(r, len[r] - 1) = <<r, len[r] - 1>>  BY <1>2 DEF Text
<1> QED  BY <1>3, <1>4, <1>5 DEF Carried

LEMMA FusedPartnerExact ==
  ASSUME IInv, Fused, NEW i \in Int, ~Pad(i), Odd(i)
  PROVE  FusedPartner(i) = Text(Req(i), Pos(i) - 1)
<1> DEFINE r == Req(i)
<1>1. /\ r \in Reqs /\ launch.n[r] > 0 /\ i - launch.first[r] \in 0 .. launch.n[r] - 1
  BY RealRow DEF IInv
<1>2. /\ launch.first[r] \in Nat /\ launch.n[r] \in Nat /\ launch.n[r] <= DraftLen
      /\ IF mode.verify = "none" THEN launch.n[r] = 1 ELSE launch.first[r] % DraftLen = 0
  BY <1>1 DEF IInv, TypeOK, Shape, Fused
<1>3. CASE i = launch.first[r]
  <2>1. Head(i)  BY <1>2, <1>3 DEF Head
  <2> QED  BY <1>3, <2>1, CarriedExact DEF FusedPartner
<1>4. CASE i # launch.first[r]
  <2>1. mode.verify # "none"  BY <1>1, <1>2, <1>4
  <2>2. launch.first[r] < i /\ i - launch.first[r] < DraftLen /\ DraftLen \in Nat \ {0}
    BY <1>1, <1>2, <1>4, CompressAssumption
  <2>3. i % DraftLen # 0  BY <1>2, <2>1, <2>2, RemaindersDiffer
  <2>4. ~Head(i)  BY <2>1, <2>3 DEF Head
  <2>5. Tok(i - 1) = Text(r, Pos(i) - 1)  BY <1>4, RowBefore DEF IInv
  <2> QED  BY <2>4, <2>5 DEF FusedPartner
<1> QED  BY <1>3, <1>4

LEMMA CtaIInv == ASSUME IInv, NEW i \in Rows \ launch.done, Cta(i)  PROVE IInv'
<1> DEFINE r == Req(i)  p == Pos(i)  D == launch.done \cup {i}
<1>1. Fused /\ UNCHANGED <<mode, len>> /\ launch' = [launch EXCEPT !.done = D]
  BY DEF Cta
<1>2. TypeOK /\ Shape /\ i \in Int /\ launch.done \subseteq Rows /\ launch.done \subseteq Int
  BY DEF IInv, TypeOK, Rows
<1>3. Shape'  BY <1>1, <1>2, FrameShape
<1>4. /\ launch'.done = D /\ launch'.n = launch.n /\ launch'.kept = launch.kept
      /\ Fused' = Fused /\ \A s, q : Text(s, q)' = Text(s, q)
      /\ \A j : Pad(j)' = Pad(j) /\ Req(j)' = Req(j) /\ Pos(j)' = Pos(j)
                /\ Tok(j)' = Tok(j) /\ Odd(j)' = Odd(j)
  BY <1>1, <1>2, Frame
<1>5. ring' \in [Reqs -> [Slots -> Tokens]] /\ DOMAIN cache' = Reqs
      /\ (\A q \in Reqs : cache'[q] \in [Pairs(q) -> Tokens \X Tokens]) => TypeOK'
  BY <1>1, <1>2, Frame DEF TypeOK, Rows
<1>6. CASE Pad(i)
  <2>1. UNCHANGED <<ring, cache>>  BY <1>6 DEF Cta
  <2>2. TypeOK'  BY <1>2, <1>5, <2>1 DEF TypeOK
  <2>3. PairsExact'  BY <1>1, <2>1 DEF IInv, PairsExact, Pairs
  <2>4. Waiting'  BY <1>1, <1>4, <2>1 DEF IInv, Waiting, Slot
  <2>5. Done'  BY <1>1, <1>4, <1>6, <2>1 DEF IInv, Done, Slot
  <2> QED  BY <1>3, <2>2, <2>3, <2>4, <2>5 DEF IInv
<1>7. ASSUME ~Pad(i)
      PROVE  /\ r \in Reqs /\ p \in Nat /\ len[r] \in Nat /\ launch.kept[r] \in Nat
             /\ launch.n[r] \in Nat /\ launch.n[r] <= DraftLen /\ launch.first[r] \in Nat
             /\ len[r] <= p /\ p < len[r] + launch.n[r] /\ p < MaxLen[r] /\ MaxLen[r] \in Nat
             /\ Tok(i) = Text(r, p) /\ Slot(p) \in Slots
  <2>1. /\ r \in Reqs /\ p \in Nat /\ i - launch.first[r] \in 0 .. launch.n[r] - 1
        /\ p = len[r] + (i - launch.first[r]) /\ p < len[r] + launch.n[r]
        /\ Tok(i) = Text(r, p) /\ p < MaxLen[r]
    BY <1>2, <1>7, RealRow
  <2>2. /\ len[r] \in Nat /\ launch.kept[r] \in Nat /\ launch.n[r] \in Nat
        /\ launch.n[r] <= DraftLen /\ launch.first[r] \in Nat /\ MaxLen[r] \in Nat
    BY <1>1, <1>2, <2>1, CompressAssumption DEF TypeOK, Shape, Fused
  <2>3. Slot(p) \in Slots  BY <2>1, SlotType
  <2> QED  BY <2>1, <2>2, <2>3
<1>8. CASE ~Pad(i) /\ ~Odd(i)
  <2>1. ring' = [ring EXCEPT ![r][Slot(p)] = Tok(i)] /\ UNCHANGED cache  BY <1>8 DEF Cta
  <2>2. ring' \in [Reqs -> [Slots -> Tokens]]
    BY <1>2, <2>1, TokType DEF TypeOK
  <2>3. TypeOK'  BY <1>2, <1>5, <2>1, <2>2 DEF TypeOK
  <2>4. PairsExact'  BY <1>1, <2>1 DEF IInv, PairsExact, Pairs
  <2>5. ring'[r][Slot(p)] = Tok(i)  BY <1>2, <1>7, <1>8, <2>1 DEF TypeOK
  <2>6. ASSUME NEW q \in Reqs, NEW t \in Int, q # r \/ Slot(t) # Slot(p)
        PROVE  ring'[q][Slot(t)] = ring[q][Slot(t)]
    <3>1. Slot(t) \in Slots  BY SlotType
    <3> QED  BY <1>2, <1>7, <1>8, <2>1, <2>6, <3>1 DEF TypeOK
  <2>7. Waiting'
    <3> SUFFICES ASSUME NEW q \in Reqs, len[q] % 2 = 1
                 PROVE  ring'[q][Slot(len[q] - 1)] = <<q, len[q] - 1>>
      BY <1>1 DEF Waiting, Slot
    <3>1. ring[q][Slot(len[q] - 1)] = <<q, len[q] - 1>>  BY <1>1 DEF IInv, Waiting
    <3>2. len[q] - 1 \in Int  BY <1>2 DEF TypeOK
    <3>3. CASE q # r  BY <2>6, <3>1, <3>2, <3>3
    <3>4. CASE q = r
      <4>1. len[r] - 1 < p /\ p - (len[r] - 1) < RingSize  BY <1>7, <1>8, CompressAssumption
      <4>2. Slot(len[r] - 1) # Slot(p)  BY <1>7, <1>8, <3>2, <3>4, <4>1, SlotsDiffer
      <4> QED  BY <2>6, <3>1, <3>2, <3>4, <4>2
    <3> QED  BY <3>3, <3>4
  <2>8. Done'
    <3> SUFFICES ASSUME NEW j \in D, ~Pad(j)
                 PROVE  /\ Odd(j) => cache[Req(j)][Pos(j) \div 2]
                                       = <<Text(Req(j), Pos(j) - 1), Tok(j)>>
                        /\ ~Odd(j) /\ Pos(j) = len[Req(j)] + launch.kept[Req(j)] - 1 =>
                             ring'[Req(j)][Slot(Pos(j))] = <<Req(j), Pos(j)>>
      BY <1>1, <1>4, <2>1 DEF Done, Slot
    <3>1. CASE j = i
      <4>1. p = len[r] + launch.kept[r] - 1 => Tok(i) = <<r, p>>
        BY <1>7, <1>8 DEF Text
      <4> QED  BY <1>8, <2>5, <3>1, <4>1
    <3>2. CASE j # i
      <4>1. j \in launch.done /\ j \in Int  BY <1>2, <3>2
      <4>2. Req(j) \in Reqs /\ Pos(j) \in Nat /\ Pos(j) < len[Req(j)] + launch.n[Req(j)]
            /\ Pos(j) >= len[Req(j)]
        <5>1. Req(j) \in Reqs /\ len[Req(j)] \in Nat /\ launch.first[Req(j)] \in Nat
          BY <1>2, <4>1, RealRow DEF TypeOK
        <5> QED  BY <1>2, <4>1, <5>1, RealRow
      <4>3. Req(j) # r \/ Slot(Pos(j)) # Slot(p)
        <5>1. SUFFICES ASSUME Req(j) = r  PROVE Slot(Pos(j)) # Slot(p)  OBVIOUS
        <5>2. Pos(j) # p
          <6>1. Pos(j) - p = j - i  BY <1>2, <1>8, <4>1, <5>1, RowsApart
          <6> QED  BY <1>2, <1>7, <1>8, <3>2, <4>1, <4>2, <6>1
        <5>3. /\ Pos(j) < p => p - Pos(j) < RingSize
              /\ p < Pos(j) => Pos(j) - p < RingSize
          BY <1>7, <1>8, <4>2, <5>1, CompressAssumption
        <5> HIDE DEF p
        <5>4. p \in Nat  BY <1>7, <1>8
        <5>5. CASE Pos(j) < p  BY <4>2, <5>3, <5>4, <5>5, SlotsDiffer
        <5>6. CASE p < Pos(j)  BY <4>2, <5>3, <5>4, <5>6, SlotsDiffer
        <5> QED  BY <4>2, <5>2, <5>4, <5>5, <5>6
      <4>4. ring'[Req(j)][Slot(Pos(j))] = ring[Req(j)][Slot(Pos(j))]
        BY <2>6, <4>2, <4>3
      <4> QED  BY <4>1, <4>4 DEF IInv, Done
    <3> QED  BY <3>1, <3>2
  <2> QED  BY <1>3, <2>3, <2>4, <2>7, <2>8 DEF IInv
<1>9. CASE ~Pad(i) /\ Odd(i)
  <2> DEFINE v == <<Text(r, p - 1), Tok(i)>>
  <2>1. cache' = [cache EXCEPT ![r][p \div 2] = v] /\ UNCHANGED ring
    BY <1>1, <1>2, <1>9, FusedPartnerExact DEF Cta, Pooled
  <2>2. p \div 2 \in Pairs(r) /\ p = 2 * (p \div 2) + 1
    BY <1>7, <1>9 DEF Pairs, Odd
  <2>3. v \in Tokens \X Tokens
    <3>1. p - 1 \in Nat  BY <1>7, <1>9, <2>2
    <3>2. Text(r, p - 1) \in Tokens  BY <1>7, <1>9, <3>1 DEF Text, Tokens
    <3> QED  BY <1>2, <3>2, TokType
  <2> HIDE DEF v
  <2>4. DOMAIN cache' = Reqs /\ \A q \in Reqs : cache'[q] \in [Pairs(q) -> Tokens \X Tokens]
    BY <1>2, <2>1, <2>3 DEF TypeOK
  <2>5. TypeOK'  BY <1>2, <1>5, <2>1, <2>4 DEF TypeOK
  <2>6. cache'[r][p \div 2] = v  BY <1>2, <1>7, <1>9, <2>1, <2>2 DEF TypeOK
  <2>7. ASSUME NEW q \in Reqs, NEW k \in Pairs(q), q # r \/ k # p \div 2
        PROVE  cache'[q][k] = cache[q][k]
    BY <1>2, <1>7, <1>9, <2>1, <2>7 DEF TypeOK
  <2>8. PairsExact'
    <3> SUFFICES ASSUME NEW q \in Reqs, NEW k \in Pairs(q), 2 * k + 1 < len[q]
                 PROVE  cache'[q][k] = <<<<q, 2 * k>>, <<q, 2 * k + 1>>>>
      BY <1>1 DEF PairsExact, Pairs
    <3>1. q # r \/ k # p \div 2  BY <1>7, <1>9, <2>2
    <3> QED  BY <2>7, <3>1 DEF IInv, PairsExact
  <2>9. Waiting'  BY <1>1, <1>4, <2>1 DEF IInv, Waiting, Slot
  <2>10. Done'
    <3> SUFFICES ASSUME NEW j \in D, ~Pad(j)
                 PROVE  /\ Odd(j) => cache'[Req(j)][Pos(j) \div 2]
                                       = <<Text(Req(j), Pos(j) - 1), Tok(j)>>
                        /\ ~Odd(j) /\ Pos(j) = len[Req(j)] + launch.kept[Req(j)] - 1 =>
                             ring[Req(j)][Slot(Pos(j))] = <<Req(j), Pos(j)>>
      BY <1>1, <1>4, <2>1 DEF Done, Slot
    <3>1. CASE j = i  BY <1>9, <2>6, <3>1 DEF v
    <3>2. CASE j # i
      <4>1. j \in launch.done /\ j \in Int  BY <1>2, <3>2
      <4>2. Req(j) \in Reqs /\ Pos(j) \in Nat /\ Pos(j) < MaxLen[Req(j)] /\ MaxLen[Req(j)] \in Nat
        BY <1>2, <4>1, RealRow, CompressAssumption
      <4>3. ASSUME Odd(j)
            PROVE  cache'[Req(j)][Pos(j) \div 2] = cache[Req(j)][Pos(j) \div 2]
        <5>1. Pos(j) \div 2 \in Pairs(Req(j)) /\ Pos(j) = 2 * (Pos(j) \div 2) + 1
          BY <4>2, <4>3 DEF Pairs, Odd
        <5>2. Req(j) # r \/ Pos(j) \div 2 # p \div 2
          <6>1. SUFFICES ASSUME Req(j) = r  PROVE Pos(j) # p  BY <2>2, <5>1
          <6>2. Pos(j) - p = j - i  BY <1>2, <1>9, <4>1, <6>1, RowsApart
          <6> QED  BY <1>2, <1>7, <1>9, <3>2, <4>1, <4>2, <6>2
        <5> QED  BY <2>7, <4>2, <5>1, <5>2
      <4> QED  BY <4>1, <4>3 DEF IInv, Done
    <3> QED  BY <3>1, <3>2
  <2> QED  BY <1>3, <2>5, <2>8, <2>9, <2>10 DEF IInv
<1> QED  BY <1>6, <1>8, <1>9

LEMMA TorchPartnerExact ==
  ASSUME IInv, launch.done = {}, NEW i \in Int, ~Pad(i), Odd(i)
  PROVE  TorchPartner(i) = Text(Req(i), Pos(i) - 1)
<1>1. /\ Req(i) \in Reqs /\ Pos(i) \in Nat /\ i - launch.first[Req(i)] >= 0
      /\ launch.first[Req(i)] \in Nat
  BY RealRow DEF IInv, TypeOK
<1>2. CASE i = launch.first[Req(i)]
  <2>1. ~InBatch(i)
    <3>1. SUFFICES ASSUME ~Pad(i - 1), Req(i) = Req(i - 1)  PROVE FALSE  BY DEF InBatch
    <3>2. (i - 1) - launch.first[Req(i)] >= 0  BY <3>1, RealRow DEF IInv
    <3> QED  BY <1>1, <1>2, <3>2
  <2> QED  BY <1>2, <2>1, CarriedExact DEF TorchPartner
<1>3. CASE i # launch.first[Req(i)]
  <2>1. /\ ~Pad(i - 1) /\ Req(i - 1) = Req(i) /\ Pos(i - 1) = Pos(i) - 1
        /\ Tok(i - 1) = Text(Req(i), Pos(i) - 1) /\ i > 0
    BY <1>3, RowBefore DEF IInv
  <2>2. InBatch(i)  BY <1>1, <2>1 DEF InBatch
  <2> QED  BY <2>1, <2>2 DEF TorchPartner
<1> QED  BY <1>2, <1>3

\* The scatter writes one row of a request to a slot at most ...
LEMMA OnePublisher ==
  ASSUME IInv, NEW r \in Reqs, NEW s, NEW i \in Publishers(r, s), NEW j \in Publishers(r, s)
  PROVE  i = j
<1>1. \A k \in Publishers(r, s) : k \in Rows /\ k \in Int /\ ~Pad(k) /\ Req(k) = r
                                  /\ Keep(k) /\ Slot(Pos(k)) = s
  BY DEF Publishers, Keep, Rows, IInv, TypeOK
<1>2. ASSUME NEW a \in Publishers(r, s), NEW b \in Publishers(r, s), a < b  PROVE FALSE
  <2>1. /\ a \in Int /\ b \in Int /\ ~Pad(a) /\ ~Pad(b) /\ Req(a) = r /\ Req(b) = r
        /\ Keep(a) /\ Slot(Pos(a)) = Slot(Pos(b))
    BY <1>1
  <2>2. Pos(b) - Pos(a) = b - a /\ Pos(a) \in Nat /\ Pos(b) \in Nat
    BY <2>1, RowsApart, RealRow DEF IInv
  <2>3. b - a >= RingSize
    <3>1. SUFFICES ASSUME b - a < RingSize  PROVE FALSE
      BY <2>1, CompressAssumption
    <3>2. Pos(a) < Pos(b) /\ Pos(b) - Pos(a) < RingSize  BY <1>2, <2>1, <2>2, <3>1
    <3> QED  BY <2>1, <2>2, <3>2, SlotsDiffer
  <2>4. /\ launch.first[r] \in Nat /\ launch.n[r] \in Nat /\ RingSize \in Nat
        /\ a - launch.first[r] \in 0 .. launch.n[r] - 1
        /\ b - launch.first[r] \in 0 .. launch.n[r] - 1
    BY <2>1, RealRow, CompressAssumption DEF IInv, TypeOK
  <2>5. PICK j0 \in 0 .. launch.n[r] - 1 : a + RingSize = launch.first[r] + j0
    <3>1. a + RingSize - launch.first[r] \in 0 .. launch.n[r] - 1  BY <2>1, <2>3, <2>4
    <3> QED  BY <2>1, <2>4, <3>1
  <2>6. a + RingSize \in Rows /\ ~Pad(a + RingSize) /\ Req(a + RingSize) = r
    BY <2>5, RowOf DEF IInv
  <2> QED  BY <2>1, <2>6 DEF Keep
<1> QED  BY <1>1, <1>2

\* ... and among them the last row that stays.
LEMMA LastIsKept ==
  ASSUME IInv, Flying, NEW i \in Int, ~Pad(i),
         Pos(i) = len[Req(i)] + launch.kept[Req(i)] - 1
  PROVE  i \in Publishers(Req(i), Slot(Pos(i)))
<1> DEFINE r == Req(i)
<1>1. /\ r \in Reqs /\ i \in Rows /\ Pos(i) \in Nat
      /\ Pos(i) < len[r] + launch.n[r] /\ launch.n[r] > 0
  BY RealRow DEF IInv
<1>2. /\ len[r] \in Nat /\ launch.n[r] \in Nat /\ launch.kept[r] \in Nat /\ launch.kept[r] > 0
      /\ launch.kept[r] = launch.n[r] \/ launch.n[r] <= DraftLen
  BY <1>1 DEF IInv, TypeOK, Shape, Flying
<1>3. SUFFICES ASSUME i + RingSize \in Rows, Req(i + RingSize) = r, ~Pad(i + RingSize)
               PROVE  FALSE
  BY <1>1 DEF Publishers, Keep
<1>4. i + RingSize \in Int /\ RingSize \in Nat  BY CompressAssumption
<1>5. /\ Pos(i + RingSize) - Pos(i) = (i + RingSize) - i
      /\ Pos(i + RingSize) < len[r] + launch.n[r] /\ Pos(i + RingSize) \in Nat
  BY <1>3, <1>4, RowsApart, RealRow DEF IInv
<1> QED  BY <1>1, <1>2, <1>4, <1>5, CompressAssumption

LEMMA OneCompleter ==
  ASSUME IInv, NEW r \in Reqs, NEW k, NEW i \in Completers(r, k), NEW j \in Completers(r, k)
  PROVE  i = j
<1>1. \A a \in Completers(r, k) : a \in Int /\ ~Pad(a) /\ Req(a) = r /\ Pos(a) = 2 * k + 1
  BY DEF Completers, Rows, IInv, TypeOK
<1>2. Pos(i) - Pos(j) = i - j /\ Pos(i) \in Nat /\ Pos(j) \in Nat
  BY <1>1, RowsApart, RealRow DEF IInv
<1> QED  BY <1>1, <1>2

LEMMA TorchIInv == ASSUME IInv, Torch  PROVE IInv'
<1>1. /\ ~Fused /\ Flying /\ launch.done = {} /\ UNCHANGED <<mode, len>>
      /\ launch' = [launch EXCEPT !.done = Rows]
      /\ ring' = [r \in Reqs |-> [s \in Slots |->
           IF Publishers(r, s) = {} THEN ring[r][s]
           ELSE Tok(CHOOSE i \in Publishers(r, s) : TRUE)]]
      /\ cache' = [r \in Reqs |-> [k \in Pairs(r) |->
           IF Completers(r, k) = {} THEN cache[r][k]
           ELSE <<TorchPartner(CHOOSE i \in Completers(r, k) : TRUE),
                  Tok(CHOOSE i \in Completers(r, k) : TRUE)>>]]
  BY DEF Torch
<1>2. TypeOK /\ Shape /\ Rows \subseteq Int  BY DEF IInv, TypeOK, Rows
<1>3. Shape'  BY <1>1, <1>2, FrameShape
<1>4. /\ launch'.done = Rows /\ launch'.n = launch.n /\ launch'.kept = launch.kept
      /\ Fused' = Fused /\ \A s, q : Text(s, q)' = Text(s, q)
      /\ \A j : Pad(j)' = Pad(j) /\ Req(j)' = Req(j) /\ Pos(j)' = Pos(j)
                /\ Tok(j)' = Tok(j) /\ Odd(j)' = Odd(j)
  BY <1>1, <1>2, Frame
<1>5. ASSUME NEW r \in Reqs, NEW k, Completers(r, k) # {}
      PROVE  (CHOOSE i \in Completers(r, k) : TRUE) \in Completers(r, k)
  BY <1>5
<1>6. ASSUME NEW r \in Reqs, NEW s, Publishers(r, s) # {}
      PROVE  (CHOOSE i \in Publishers(r, s) : TRUE) \in Publishers(r, s)
  BY <1>6
<1>7. TypeOK'
  <2>1. ring' \in [Reqs -> [Slots -> Tokens]]
    <3>1. \A r \in Reqs : \A s \in Slots : Publishers(r, s) # {} =>
            Tok(CHOOSE i \in Publishers(r, s) : TRUE) \in Tokens
      BY <1>2, <1>6, TokType DEF Publishers
    <3>2. \A r \in Reqs : \A s \in Slots : ring[r][s] \in Tokens  BY <1>2 DEF TypeOK
    <3> QED  BY <1>1, <3>1, <3>2
  <2>2. DOMAIN cache' = Reqs  BY <1>1
  <2>3. \A r \in Reqs : cache'[r] \in [Pairs(r) -> Tokens \X Tokens]
    <3> TAKE r \in Reqs
    <3>1. \A k \in Pairs(r) : Completers(r, k) # {} =>
            <<TorchPartner(CHOOSE i \in Completers(r, k) : TRUE),
              Tok(CHOOSE i \in Completers(r, k) : TRUE)>> \in Tokens \X Tokens
      <4> SUFFICES ASSUME NEW k, NEW i \in Completers(r, k)
                   PROVE  TorchPartner(i) \in Tokens /\ Tok(i) \in Tokens
        BY <1>5
      <4>1. i \in Int /\ ~Pad(i)  BY <1>2 DEF Completers
      <4>2. i - 1 \in Int  BY <4>1
      <4> QED  BY <1>2, <4>1, <4>2, TokType, CarriedType DEF TorchPartner
    <3>2. \A k \in Pairs(r) : cache[r][k] \in Tokens \X Tokens  BY <1>2 DEF TypeOK
    <3>3. cache'[r] = [k \in Pairs(r) |->
             IF Completers(r, k) = {} THEN cache[r][k]
             ELSE <<TorchPartner(CHOOSE i \in Completers(r, k) : TRUE),
                    Tok(CHOOSE i \in Completers(r, k) : TRUE)>>]
      BY <1>1
    <3> QED  BY <3>1, <3>2, <3>3
  <2> QED  BY <1>1, <1>2, <2>1, <2>2, <2>3, Frame DEF TypeOK
<1>8. PairsExact'
  <2> SUFFICES ASSUME NEW r \in Reqs, NEW k \in Pairs(r), 2 * k + 1 < len[r]
               PROVE  cache'[r][k] = <<<<r, 2 * k>>, <<r, 2 * k + 1>>>>
    BY <1>1 DEF PairsExact, Pairs
  <2>1. Completers(r, k) = {}
    <3> SUFFICES ASSUME NEW i \in Completers(r, k)  PROVE FALSE  OBVIOUS
    <3>1. i \in Int /\ ~Pad(i) /\ Req(i) = r /\ Pos(i) = 2 * k + 1
      BY <1>2 DEF Completers
    <3>2. len[r] \in Nat /\ launch.first[r] \in Nat /\ k \in Int
      BY <1>2 DEF TypeOK, Pairs
    <3>3. Pos(i) = len[r] + (i - launch.first[r]) /\ i - launch.first[r] >= 0
      BY <1>2, <3>1, <3>2, RealRow
    <3> QED  BY <3>1, <3>2, <3>3
  <2> QED  BY <1>1, <2>1 DEF IInv, PairsExact
<1>9. Waiting'
  <2> SUFFICES ASSUME NEW r \in Reqs, len[r] % 2 = 1, launch.n[r] = 0 \/ Rows = {}
               PROVE  ring'[r][Slot(len[r] - 1)] = <<r, len[r] - 1>>
    BY <1>1, <1>4 DEF Waiting, Slot
  <2>1. \A s : Publishers(r, s) = {}
    <3> SUFFICES ASSUME NEW s, NEW i \in Publishers(r, s)  PROVE FALSE  OBVIOUS
    <3>1. i \in Rows /\ i \in Int /\ ~Pad(i) /\ Req(i) = r  BY <1>2 DEF Publishers, Keep
    <3>2. launch.n[r] > 0  BY <1>2, <3>1, RealRow
    <3> QED  BY <3>1, <3>2
  <2>2. Slot(len[r] - 1) \in Slots
    <3>1. len[r] - 1 \in Int  BY <1>2 DEF TypeOK
    <3> QED  BY <3>1, SlotType
  <2>3. ring'[r][Slot(len[r] - 1)] = ring[r][Slot(len[r] - 1)]  BY <1>1, <2>1, <2>2
  <2> QED  BY <1>1, <2>3 DEF IInv, Waiting
<1>10. Done'
  <2> SUFFICES ASSUME NEW i \in Rows, ~Pad(i)
               PROVE  /\ Odd(i) => cache'[Req(i)][Pos(i) \div 2]
                                     = <<Text(Req(i), Pos(i) - 1), Tok(i)>>
                      /\ ~Odd(i) /\ Pos(i) = len[Req(i)] + launch.kept[Req(i)] - 1 =>
                           ring'[Req(i)][Slot(Pos(i))] = <<Req(i), Pos(i)>>
    BY <1>1, <1>4 DEF Done, Slot
  <2> DEFINE r == Req(i)  p == Pos(i)
  <2>1. /\ i \in Int /\ r \in Reqs /\ p \in Nat /\ p < MaxLen[r] /\ MaxLen[r] \in Nat
        /\ Tok(i) = Text(r, p)
    BY <1>2, RealRow, CompressAssumption
  <2>2. ASSUME Odd(i)  PROVE cache'[r][p \div 2] = <<Text(r, p - 1), Tok(i)>>
    <3>1. p \div 2 \in Pairs(r) /\ p = 2 * (p \div 2) + 1  BY <2>1, <2>2 DEF Pairs, Odd
    <3>2. i \in Completers(r, p \div 2)  BY <2>1, <3>1 DEF Completers
    <3>3. (CHOOSE j \in Completers(r, p \div 2) : TRUE) = i
      BY <1>5, <2>1, <3>2, OneCompleter
    <3>4. cache'[r][p \div 2] = <<TorchPartner(i), Tok(i)>>  BY <1>1, <2>1, <3>1, <3>2, <3>3
    <3> QED  BY <1>1, <2>1, <2>2, <3>4, TorchPartnerExact
  <2>3. ASSUME p = len[r] + launch.kept[r] - 1  PROVE ring'[r][Slot(p)] = <<r, p>>
    <3>1. i \in Publishers(r, Slot(p))  BY <1>1, <2>1, <2>3, LastIsKept
    <3>2. (CHOOSE j \in Publishers(r, Slot(p)) : TRUE) = i
      BY <1>6, <2>1, <3>1, OnePublisher
    <3>3. Slot(p) \in Slots  BY <2>1, SlotType
    <3>4. ring'[r][Slot(p)] = Tok(i)  BY <1>1, <2>1, <3>1, <3>2, <3>3
    <3>5. p < len[r] + launch.kept[r]
      BY <1>2, <2>1, <2>3 DEF TypeOK
    <3> QED  BY <2>1, <3>4, <3>5 DEF Text
  <2> QED  BY <2>2, <2>3
<1> QED  BY <1>3, <1>7, <1>8, <1>9, <1>10 DEF IInv

LEMMA StutterIInv == ASSUME IInv, UNCHANGED vars  PROVE IInv'
<1> USE DEF vars
<1>1. TypeOK' /\ PairsExact'  BY DEF IInv, TypeOK, PairsExact, Rows, Pairs
<1>2. Shape'  BY DEF IInv, Shape, Fused, Static
<1>3. Waiting'  BY DEF IInv, Waiting, Fused, Static, Slot
<1>4. Done'
  <2>1. \A i : Pad(i)' = Pad(i) /\ Req(i)' = Req(i) /\ Pos(i)' = Pos(i) /\ Tok(i)' = Tok(i)
               /\ Odd(i)' = Odd(i)
    BY DEF Pad, Req, Pos, Tok, Odd, Owner, Text
  <2> QED  BY <2>1 DEF IInv, Done, Text, Slot
<1> QED  BY <1>1, <1>2, <1>3, <1>4 DEF IInv

-----------------------------------------------------------------------------
(* Theorems.                                                               *)

\* The strengthening of PairsExact is inductive: blocks keep apart, the first
\* token of an incomplete pair stays in the ring until it is needed, and rows
\* that are done have cached what the text will say.
THEOREM Invariance == Spec => []IInv
<1>1. Init => IInv  BY InitIInv
<1>2. IInv /\ [Next]_vars => IInv'
  <2> SUFFICES ASSUME IInv, [Next]_vars  PROVE IInv'  OBVIOUS
  <2>1. CASE Extend  BY <2>1, ExtendIInv
  <2>2. CASE Block  BY <2>2, BlockIInv
  <2>3. CASE Torch  BY <2>3, TorchIInv
  <2>4. CASE Commit  BY <2>4, CommitIInv
  <2>5. ASSUME NEW i \in Rows \ launch.done, Cta(i)  PROVE IInv'  BY <2>5, CtaIInv
  <2>6. ASSUME NEW r \in Reqs, NEW m \in 0 .. MaxLen[r], Reuse(r, m)  PROVE IInv'
    BY <2>6, ReuseIInv
  <2>7. CASE UNCHANGED vars  BY <2>7, StutterIInv
  <2> QED  BY <2>1, <2>2, <2>3, <2>4, <2>5, <2>6, <2>7 DEF Next
<1> QED  BY <1>1, <1>2, PTL DEF Spec

\* The state has its types for every instance.
THEOREM TypesHold == Spec => []TypeOK
<1>1. IInv => TypeOK  BY DEF IInv
<1> QED  BY <1>1, Invariance, PTL

\* Every pair of a text is cached from its own two tokens, for every ring that
\* is wider than the blocks of drafts.
THEOREM PairsHold == Spec => []PairsExact
<1>1. IInv => PairsExact  BY DEF IInv
<1> QED  BY <1>1, Invariance, PTL

\* After a launch every row attends to exactly the pairs before it.
THEOREM AttendedHolds == Spec => []AttendedExact
<1>1. IInv => AttendedExact
  <2> SUFFICES ASSUME IInv, Finished, NEW i \in Rows, ~Pad(i),
                      NEW k \in 0 .. Attended(i) - 1
               PROVE  cache[Req(i)][k] = <<Text(Req(i), 2 * k), Text(Req(i), 2 * k + 1)>>
    BY DEF AttendedExact
  <2> DEFINE r == Req(i)  p == Pos(i)
  <2>1. i \in Int  BY DEF IInv, TypeOK, Rows
  <2>2. /\ r \in Reqs /\ p \in Nat /\ p = len[r] + (i - launch.first[r])
        /\ p < len[r] + launch.n[r] /\ p < MaxLen[r] /\ launch.n[r] > 0
    BY <2>1, RealRow DEF IInv
  <2>3. /\ len[r] \in Nat /\ launch.first[r] \in Nat /\ launch.n[r] \in Nat /\ MaxLen[r] \in Nat
        /\ launch.kept[r] \in Nat /\ i - launch.first[r] >= 0
        /\ launch.kind = "block" => len[r] > 0
    <3>1. i - launch.first[r] \in 0 .. launch.n[r] - 1  BY <2>1, RealRow DEF IInv
    <3>2. /\ len[r] \in Nat /\ launch.first[r] \in Nat /\ launch.n[r] \in Nat
          /\ MaxLen[r] \in Nat /\ launch.kept[r] \in Nat
      BY <2>2, CompressAssumption DEF IInv, TypeOK
    <3>3. launch.kind = "block" => len[r] > 0  BY <2>2 DEF IInv, Shape
    <3> QED  BY <3>1, <3>2, <3>3
  <2> HIDE DEF r, p
  <2>4. k \in Nat /\ 2 * k + 1 <= p
    <3>1. launch.kind = "block" => (p + 1) \div 2 # 0  BY <2>1, <2>2, <2>3
    <3>2. k \in 0 .. (p + 1) \div 2 - 1  BY <3>1 DEF Attended, p
    <3> QED  BY <2>2, <3>2
  <2>5. CASE 2 * k + 1 < len[r]
    <3>1. k \in Pairs(r)  BY <2>2, <2>3, <2>4 DEF Pairs
    <3>2. cache[r][k] = <<<<r, 2 * k>>, <<r, 2 * k + 1>>>>
      BY <2>2, <2>5, <3>1 DEF IInv, PairsExact
    <3> QED  BY <2>3, <2>4, <2>5, <3>2 DEF Text, r
  <2>6. CASE len[r] <= 2 * k + 1
    <3> DEFINE j == 2 * k + 1 - len[r]  i2 == launch.first[r] + j
    <3>1. j \in 0 .. launch.n[r] - 1 /\ len[r] + j = 2 * k + 1 /\ i2 = launch.first[r] + j
      BY <2>2, <2>3, <2>4, <2>6
    <3> HIDE DEF j, i2
    <3>2. /\ i2 \in Rows /\ ~Pad(i2) /\ Req(i2) = r /\ Pos(i2) = 2 * k + 1
          /\ Tok(i2) = Text(r, 2 * k + 1)
      BY <2>2, <3>1, RowOf DEF IInv
    <3>3. Odd(i2) /\ Pos(i2) \div 2 = k /\ Pos(i2) - 1 = 2 * k  BY <2>4, <3>2 DEF Odd
    <3>4. i2 \in launch.done  BY <3>2 DEF Finished
    <3> QED  BY <3>2, <3>3, <3>4 DEF IInv, Done, r
  <2> QED  BY <2>3, <2>4, <2>5, <2>6
<1> QED  BY <1>1, Invariance, PTL

\* The rows of a launch, which nothing orders, write different ring slots and
\* leave alone the one that the first row of a block reads.
THEOREM RaceFreedom == Spec => []RaceFree
<1>1. IInv => RaceFree
  <2> SUFFICES ASSUME IInv, NEW i \in Rows, NEW j \in Rows, i # j,
                      NEW place \in RingWrites(i), place \in RingWrites(j) \cup RingReads(j)
               PROVE  FALSE
    BY DEF RaceFree
  <2>1. i \in Int /\ j \in Int  BY DEF IInv, TypeOK, Rows
  <2>2. ~Pad(i) /\ ~Pad(j) /\ place = <<Req(i), Slot(Pos(i))>>
    BY DEF RingWrites, RingReads
  <2>3. Req(i) = Req(j)  BY <2>2 DEF RingWrites, RingReads
  <2> DEFINE r == Req(i)
  <2>4. /\ r \in Reqs /\ Pos(i) \in Nat /\ Pos(j) \in Nat
        /\ i - launch.first[r] \in 0 .. launch.n[r] - 1
        /\ j - launch.first[r] \in 0 .. launch.n[r] - 1
        /\ Pos(i) = len[r] + (i - launch.first[r])
        /\ Pos(j) = len[r] + (j - launch.first[r])
    BY <2>1, <2>2, <2>3, RealRow DEF IInv
  <2>5. launch.first[r] \in Nat /\ launch.n[r] \in Nat /\ len[r] \in Nat
    BY <2>4 DEF IInv, TypeOK
  <2> HIDE DEF r
  <2>6. CASE Fused
    <3>1. launch.n[r] <= DraftLen /\ DraftLen \in Nat \ {0} /\ RingSize \in Nat /\ RingSize > DraftLen
      BY <2>4, <2>6, CompressAssumption DEF IInv, Shape, Fused
    <3>2. CASE place \in RingWrites(j)
      <4>1. Slot(Pos(i)) = Slot(Pos(j))  BY <2>2, <3>2 DEF RingWrites
      <4>2. CASE Pos(i) < Pos(j)
        <5>1. Pos(j) - Pos(i) < RingSize  BY <2>1, <2>4, <2>5, <3>1
        <5> QED  BY <2>4, <4>1, <4>2, <5>1, SlotsDiffer
      <4>3. CASE Pos(j) < Pos(i)
        <5>1. Pos(i) - Pos(j) < RingSize  BY <2>1, <2>4, <2>5, <3>1
        <5> QED  BY <2>4, <4>1, <4>3, <5>1, SlotsDiffer
      <4>4. Pos(i) # Pos(j)  BY <2>1, <2>4, <2>5
      <4> QED  BY <2>4, <4>2, <4>3, <4>4
    <3>3. CASE place \in RingReads(j)
      <4>1. Slot(Pos(i)) = Slot(Pos(j) - 1) /\ Head(j)  BY <2>2, <3>3 DEF RingReads
      <4>2. j = launch.first[r]
        <5>1. CASE mode.verify = "none"
          <6>1. launch.n[r] > 0  BY <2>4, <2>5
          <6>2. launch.n[r] = 1  BY <2>4, <2>6, <5>1, <6>1 DEF IInv, Shape
          <6>3. j - launch.first[r] \in 0 .. 1 - 1  BY <2>4, <6>2
          <6>4. j - launch.first[r] = 0  BY <6>3
          <6> QED  BY <2>1, <2>5, <6>4
        <5>2. CASE mode.verify # "none"
          <6>1. launch.first[r] % DraftLen = 0  BY <2>4, <2>5, <2>6, <5>2 DEF IInv, Shape
          <6>2. j % DraftLen = 0  BY <4>1, <5>2 DEF Head
          <6>3. ~(launch.first[r] < j)
            <7>1. j - launch.first[r] < DraftLen  BY <2>1, <2>4, <2>5, <3>1
            <7> QED  BY <2>1, <2>5, <3>1, <6>1, <6>2, <7>1, RemaindersDiffer
          <6> QED  BY <2>1, <2>4, <2>5, <6>3
        <5> QED  BY <5>1, <5>2
      <4>3. Pos(j) - 1 < Pos(i) /\ Pos(i) - (Pos(j) - 1) < RingSize /\ Pos(j) - 1 \in Int
        BY <2>1, <2>4, <2>5, <3>1, <4>2
      <4> QED  BY <2>4, <4>1, <4>3, SlotsDiffer
    <3> QED  BY <3>2, <3>3
  <2>7. CASE ~Fused
    <3>1. place \in RingWrites(j)  BY <2>7 DEF RingReads
    <3>2. Slot(Pos(i)) = Slot(Pos(j)) /\ Keep(i) /\ Keep(j)
      BY <2>2, <2>7, <3>1 DEF RingWrites
    <3>3. i \in Publishers(r, Slot(Pos(i))) /\ j \in Publishers(r, Slot(Pos(i)))
      BY <2>3, <3>2 DEF Publishers, r
    <3> QED  BY <2>4, <3>3, OnePublisher
  <2> QED  BY <2>6, <2>7
<1> QED  BY <1>1, Invariance, PTL

-----------------------------------------------------------------------------
(* A verify block and its replay, one position at a time.                  *)

\* Row i leaves its token in slot s of r's ring, or completes pair k of r; what
\* it pairs with is the row before it, or what the ring held before the launch.
Leaves(i, r, s) == ~Pad(i) /\ ~Odd(i) /\ Req(i) = r /\ Slot(Pos(i)) = s
Completes(i, r, k) == ~Pad(i) /\ Req(i) = r /\ Pos(i) = 2 * k + 1
Partner(i) == IF i % DraftLen = 0 THEN launch.before.ring[Req(i)][Slot(Pos(i) - 1)]
              ELSE Tok(i - 1)

\* Q and B are R and C with what the rows in E write on top.
Adds(E, R, C, Q, B) ==
  /\ Q \in [Reqs -> [Slots -> Tokens]]
  /\ B = [r \in Reqs |-> B[r]] /\ \A r \in Reqs : B[r] \in [Pairs(r) -> Tokens \X Tokens]
  /\ \A r \in Reqs : \A s \in Slots :
       /\ \A i \in E : Leaves(i, r, s) => Q[r][s] = Tok(i)
       /\ (\A i \in E : ~Leaves(i, r, s)) => Q[r][s] = R[r][s]
  /\ \A r \in Reqs : \A k \in Pairs(r) :
       /\ \A i \in E : Completes(i, r, k) => B[r][k] = <<Partner(i), Tok(i)>>
       /\ (\A i \in E : ~Completes(i, r, k)) => B[r][k] = C[r][k]

\* R and C are the ring and the cache after the rows in D, in any order.
After(D, R, C) == Adds(D, launch.before.ring, launch.before.cache, R, C)

\* A launch in flight has done what its rows that are done do.
Replaying ==
  /\ cache = [r \in Reqs |-> cache[r]]
  /\ Fused /\ Static =>
       /\ launch.before = [ring |-> launch.before.ring, cache |-> launch.before.cache]
       /\ After({}, launch.before.ring, launch.before.cache)
       /\ After(launch.done, ring, cache)

LEMMA Offset ==
  ASSUME NEW n \in Nat \ {0}, NEW a \in Int, a % n = 0, NEW j \in 0 .. n - 1
  PROVE  (a + j) % n = j
<1> DEFINE p == a \div n  q == (a + j) \div n  m == (a + j) % n
<1>1. /\ a = p * n /\ p \in Int
      /\ a + j = q * n + m /\ q \in Int /\ m \in 0 .. n - 1
  <2>1. a = p * n + (a % n) /\ p \in Int  BY DivMod
  <2>2. p * n \in Int  BY <2>1
  <2>3. a = p * n  BY <2>1, <2>2
  <2>4. a + j \in Int  OBVIOUS
  <2>5. a + j = q * n + m /\ q \in Int /\ m \in 0 .. n - 1  BY <2>4, DivMod
  <2> QED  BY <2>1, <2>3, <2>5
<1> HIDE DEF p, q, m
<1>2. p * n \in Int /\ q * n \in Int  BY <1>1
<1>3. CASE p < q
  <2>1. q * n - p * n >= n  BY <1>1, <1>3, Gap
  <2> QED  BY <1>1, <1>2, <2>1
<1>4. CASE q < p
  <2>1. p * n - q * n >= n  BY <1>1, <1>4, Gap
  <2> QED  BY <1>1, <1>2, <2>1
<1>5. CASE p = q
  <2>1. j = m  BY <1>1, <1>2, <1>5
  <2> QED  BY <2>1 DEF m
<1> QED  BY <1>1, <1>3, <1>4, <1>5

\* A block of a static verify starts at a multiple of its length, so the place
\* of a row in its block is its remainder.
LEMMA InBlock ==
  ASSUME TypeOK, Shape, Fused, Static, NEW i \in Int, ~Pad(i)
  PROVE  /\ Req(i) \in Reqs /\ launch.first[Req(i)] \in Nat /\ len[Req(i)] \in Nat
         /\ i % DraftLen = i - launch.first[Req(i)]
         /\ i % DraftLen \in 0 .. DraftLen - 1
         /\ Pos(i) = len[Req(i)] + (i % DraftLen) /\ Pos(i) \in Nat
<1> DEFINE r == Req(i)  f == launch.first[r]  n == launch.n[r]
<1>1. /\ r \in Reqs /\ i - f \in 0 .. n - 1 /\ n > 0
      /\ Pos(i) = len[r] + (i - f) /\ Pos(i) \in Nat
  BY RealRow
<1>2. /\ f \in Nat /\ n \in Nat /\ len[r] \in Nat /\ n <= DraftLen /\ f % DraftLen = 0
      /\ DraftLen \in Nat \ {0}
  BY <1>1, CompressAssumption DEF TypeOK, Shape, Fused, Static
<1> HIDE DEF r, f, n
<1>3. i - f \in 0 .. DraftLen - 1 /\ f + (i - f) = i  BY <1>1, <1>2
<1>4. \A j \in 0 .. DraftLen - 1 : (f + j) % DraftLen = j
  <2>1. f \in Int  BY <1>2
  <2> QED  BY <1>2, <2>1, Offset
<1>5. i % DraftLen = i - f
  <2>1. PICK j \in 0 .. DraftLen - 1 : j = i - f  BY <1>3
  <2>2. f + j = i  BY <1>2, <2>1
  <2> QED  BY <1>4, <2>1, <2>2
<1>6. i % DraftLen \in 0 .. DraftLen - 1 /\ Pos(i) = len[r] + (i % DraftLen)
  BY <1>1, <1>3, <1>5
<1> QED  BY <1>1, <1>2, <1>5, <1>6 DEF r, f

\* A slot is left to one row of a launch at most, and a pair to one.
LEMMA OneLeaves ==
  ASSUME TypeOK, Shape, Fused, Static, NEW i \in Int, NEW j \in Int, NEW r, NEW s,
         Leaves(i, r, s), Leaves(j, r, s)
  PROVE  i = j
<1>1. ~Pad(i) /\ ~Pad(j) /\ Req(i) = r /\ Req(j) = r /\ Slot(Pos(i)) = Slot(Pos(j))
  BY DEF Leaves
<1>2. /\ i % DraftLen = i - launch.first[r] /\ i % DraftLen \in 0 .. DraftLen - 1
      /\ Pos(i) = len[r] + (i % DraftLen) /\ launch.first[r] \in Nat /\ len[r] \in Nat
  BY <1>1, InBlock
<1>3. /\ j % DraftLen = j - launch.first[r] /\ j % DraftLen \in 0 .. DraftLen - 1
      /\ Pos(j) = len[r] + (j % DraftLen)
  BY <1>1, InBlock
<1>4. DraftLen \in Nat /\ RingSize \in Nat /\ RingSize > DraftLen  BY CompressAssumption
<1> DEFINE a == i % DraftLen  b == j % DraftLen
<1> HIDE DEF a, b
<1>a. a = i - launch.first[r] /\ a \in 0 .. DraftLen - 1 /\ Pos(i) = len[r] + a
  BY <1>2 DEF a
<1>b. b = j - launch.first[r] /\ b \in 0 .. DraftLen - 1 /\ Pos(j) = len[r] + b
  BY <1>3 DEF b
<1>5. CASE Pos(i) < Pos(j)
  <2>1. Pos(j) - Pos(i) < RingSize /\ Pos(i) \in Int /\ Pos(j) \in Int
    BY <1>2, <1>3, <1>4
  <2> QED  BY <1>1, <1>5, <2>1, SlotsDiffer
<1>6. CASE Pos(j) < Pos(i)
  <2>1. Pos(i) - Pos(j) < RingSize /\ Pos(i) \in Int /\ Pos(j) \in Int
    BY <1>2, <1>3, <1>4
  <2> QED  BY <1>1, <1>6, <2>1, SlotsDiffer
<1>7. CASE Pos(i) = Pos(j)
  <2>1. launch.first[r] \in Int /\ len[r] \in Int /\ a \in Int /\ b \in Int
    BY <1>2, <1>4, <1>a, <1>b
  <2>2. len[r] + a = len[r] + b  BY <1>7, <1>a, <1>b
  <2>a. \A x, y, z \in Int : x + y = x + z => y = z  OBVIOUS
  <2>3. a = b  BY <2>1, <2>2, <2>a
  <2>4. i - launch.first[r] = j - launch.first[r]  BY <1>a, <1>b, <2>3
  <2> QED  BY <2>1, <2>4
<1>8. Pos(i) \in Int /\ Pos(j) \in Int  BY <1>2, <1>4, <1>a, <1>b
<1> QED  BY <1>5, <1>6, <1>7, <1>8

LEMMA OneCompletes ==
  ASSUME TypeOK, Shape, NEW i \in Int, NEW j \in Int, NEW r, NEW k,
         Completes(i, r, k), Completes(j, r, k)
  PROVE  i = j
<1>1. ~Pad(i) /\ ~Pad(j) /\ Req(i) = Req(j) /\ Pos(i) = Pos(j)  BY DEF Completes
<1>2. Pos(i) - Pos(j) = i - j /\ Pos(i) \in Nat  BY <1>1, RowsApart, RealRow
<1> QED  BY <1>1, <1>2

\* Nobody writes the slot that the first row of a block reads.
LEMMA NoneCarries ==
  ASSUME TypeOK, Shape, Fused, Static, NEW i \in Int, ~Pad(i), i % DraftLen = 0,
         NEW j \in Int
  PROVE  ~Leaves(j, Req(i), Slot(Pos(i) - 1))
<1> SUFFICES ASSUME Leaves(j, Req(i), Slot(Pos(i) - 1))  PROVE FALSE
  OBVIOUS
<1> DEFINE r == Req(i)
<1>1. ~Pad(j) /\ Req(j) = r /\ Slot(Pos(j)) = Slot(Pos(i) - 1)  BY DEF Leaves
<1>2. Pos(i) = len[r] /\ len[r] \in Nat
  <2>1. Pos(i) = len[r] + (i % DraftLen) /\ len[r] \in Nat  BY InBlock
  <2>2. Pos(i) = len[r] + 0  BY <2>1
  <2> QED  BY <2>1, <2>2
<1> DEFINE b == j % DraftLen
<1>3. Pos(j) = len[r] + b /\ b \in 0 .. DraftLen - 1
  BY <1>1, InBlock
<1>4. DraftLen \in Nat /\ RingSize \in Nat /\ RingSize > DraftLen  BY CompressAssumption
<1> HIDE DEF r, b
<1>5. /\ Pos(i) - 1 \in Int /\ Pos(j) \in Int /\ Pos(i) - 1 < Pos(j)
      /\ Pos(j) - (Pos(i) - 1) < RingSize
  BY <1>2, <1>3, <1>4
<1> QED  BY <1>1, <1>5, SlotsDiffer

\* A position behind the first of a block: the row before it is the one before
\* it in the block.
LEMMA PartnerRow ==
  ASSUME TypeOK, Shape, Fused, Static, NEW i \in Int, ~Pad(i), i % DraftLen # 0
  PROVE  /\ ~Pad(i - 1) /\ Req(i - 1) = Req(i) /\ Pos(i - 1) = Pos(i) - 1
         /\ (i - 1) % DraftLen = (i % DraftLen) - 1 /\ i - 1 \in Rows
<1> DEFINE r == Req(i)  f == launch.first[r]  a == i % DraftLen  b == (i - 1) % DraftLen
<1>1. f \in Nat /\ a = i - f /\ a # 0  BY InBlock
<1>2. i # f  BY <1>1
<1>3. ~Pad(i - 1) /\ Req(i - 1) = r /\ Pos(i - 1) = Pos(i) - 1  BY <1>2, RowBefore
<1>4. i - 1 \in Int  OBVIOUS
<1>5. b = (i - 1) - f  BY <1>3, <1>4, InBlock
<1>6. i - 1 \in Rows  BY <1>3, <1>4, RealRow
<1> HIDE DEF f, a, b
<1>7. b = a - 1  BY <1>1, <1>5
<1> QED  BY <1>3, <1>6, <1>7 DEF a, b

\* The token that the kernel takes for the first of the pair, when the row runs.
LEMMA PartnerTaken ==
  ASSUME TypeOK, Shape, Fused, Static, NEW i \in Int, ~Pad(i),
         NEW D \in SUBSET Int, After(D, ring, cache)
  PROVE  FusedPartner(i) = Partner(i)
<1>1. Head(i) <=> i % DraftLen = 0  BY DEF Head, Static
<1>2. CASE i % DraftLen # 0  BY <1>1, <1>2 DEF FusedPartner, Partner
<1>3. CASE i % DraftLen = 0
  <2>1. Req(i) \in Reqs /\ Pos(i) - 1 \in Int  BY RealRow
  <2>2. Slot(Pos(i) - 1) \in Slots  BY <2>1, SlotType
  <2>3. \A j \in D : ~Leaves(j, Req(i), Slot(Pos(i) - 1))  BY <1>3, NoneCarries
  <2>4. ring[Req(i)][Slot(Pos(i) - 1)] = launch.before.ring[Req(i)][Slot(Pos(i) - 1)]
    BY <2>1, <2>2, <2>3 DEF After, Adds
  <2> QED  BY <1>1, <1>3, <2>4 DEF FusedPartner, Partner, Carried
<1> QED  BY <1>2, <1>3

LEMMA PartnerType ==
  ASSUME TypeOK, Shape, Fused, Static, NEW i \in Int, ~Pad(i),
         NEW C, After({}, launch.before.ring, C)
  PROVE  Partner(i) \in Tokens
<1>1. CASE i % DraftLen = 0
  <2>1. Req(i) \in Reqs /\ Pos(i) - 1 \in Int  BY RealRow
  <2>2. Slot(Pos(i) - 1) \in Slots  BY <2>1, SlotType
  <2> QED  BY <1>1, <2>1, <2>2 DEF Partner, After, Adds
<1>2. CASE i % DraftLen # 0
  <2>1. i - 1 \in Int  OBVIOUS
  <2> QED  BY <1>2, <2>1, TokType DEF Partner
<1> QED  BY <1>1, <1>2

\* What is left after some rows is determined.
LEMMA AfterUnique ==
  ASSUME NEW D, NEW R, NEW C, NEW Q, NEW B, After(D, R, C), After(D, Q, B)
  PROVE  R = Q /\ C = B
<1>1. ASSUME NEW r \in Reqs, NEW s \in Slots  PROVE R[r][s] = Q[r][s]
  <2>0. /\ \A i \in D : Leaves(i, r, s) => R[r][s] = Tok(i) /\ Q[r][s] = Tok(i)
        /\ (\A i \in D : ~Leaves(i, r, s)) =>
             /\ R[r][s] = launch.before.ring[r][s] /\ Q[r][s] = launch.before.ring[r][s]
    BY DEF After, Adds
  <2>1. CASE \E i \in D : Leaves(i, r, s)  BY <2>0, <2>1
  <2>2. CASE \A i \in D : ~Leaves(i, r, s)  BY <2>0, <2>2
  <2> QED  BY <2>1, <2>2
<1>2. ASSUME NEW r \in Reqs, NEW k \in Pairs(r)  PROVE C[r][k] = B[r][k]
  <2>0. /\ \A i \in D : Completes(i, r, k) =>
             C[r][k] = <<Partner(i), Tok(i)>> /\ B[r][k] = <<Partner(i), Tok(i)>>
        /\ (\A i \in D : ~Completes(i, r, k)) =>
             /\ C[r][k] = launch.before.cache[r][k] /\ B[r][k] = launch.before.cache[r][k]
    BY DEF After, Adds
  <2>1. CASE \E i \in D : Completes(i, r, k)  BY <2>0, <2>1
  <2>2. CASE \A i \in D : ~Completes(i, r, k)  BY <2>0, <2>2
  <2> QED  BY <2>1, <2>2
<1>3. R = Q
  <2>1. R \in [Reqs -> [Slots -> Tokens]] /\ Q \in [Reqs -> [Slots -> Tokens]]  BY DEF After, Adds
  <2>2. \A r \in Reqs : R[r] = Q[r]  BY <1>1, <2>1
  <2> QED  BY <2>1, <2>2
<1>4. C = B
  <2>1. /\ C = [r \in Reqs |-> C[r]] /\ B = [r \in Reqs |-> B[r]]
        /\ \A r \in Reqs : C[r] \in [Pairs(r) -> Tokens \X Tokens]
                           /\ B[r] \in [Pairs(r) -> Tokens \X Tokens]
    BY DEF After, Adds
  <2>2. ASSUME NEW r \in Reqs  PROVE C[r] = B[r]
    <3>1. C[r] \in [Pairs(r) -> Tokens \X Tokens] /\ B[r] \in [Pairs(r) -> Tokens \X Tokens]
      BY <2>1
    <3> QED  BY <1>2, <3>1
  <2>3. [r \in Reqs |-> C[r]] = [r \in Reqs |-> B[r]]  BY <2>2
  <2> QED  BY <2>1, <2>3
<1> QED  BY <1>3, <1>4

\* What the rows in E write is theirs alone.
LEMMA AfterMore ==
  ASSUME TypeOK, Shape, Fused, Static,
         NEW D \in SUBSET Int, NEW E \in SUBSET Int, NEW R, NEW C, After(D, R, C),
         NEW Q, NEW B, Adds(E, R, C, Q, B)
  PROVE  After(D \cup E, Q, B)
<1>1. ASSUME NEW r \in Reqs, NEW s \in Slots
      PROVE  /\ \A i \in D \cup E : Leaves(i, r, s) => Q[r][s] = Tok(i)
             /\ (\A i \in D \cup E : ~Leaves(i, r, s)) => Q[r][s] = launch.before.ring[r][s]
  <2>0. /\ \A i \in D : Leaves(i, r, s) => R[r][s] = Tok(i)
        /\ (\A i \in D : ~Leaves(i, r, s)) => R[r][s] = launch.before.ring[r][s]
    BY DEF After, Adds
  <2>1. CASE \A i \in E : ~Leaves(i, r, s)
    <3>1. Q[r][s] = R[r][s]  BY <2>1 DEF Adds
    <3> QED  BY <2>0, <2>1, <3>1
  <2>2. ASSUME NEW e \in E, Leaves(e, r, s)
        PROVE  \A i \in D \cup E : Leaves(i, r, s) => Q[r][s] = Tok(i)
    <3>1. Q[r][s] = Tok(e)  BY <2>2 DEF Adds
    <3>2. \A i \in D \cup E : Leaves(i, r, s) => i = e  BY <2>2, OneLeaves
    <3> QED  BY <3>1, <3>2
  <2> QED  BY <2>1, <2>2
<1>2. ASSUME NEW r \in Reqs, NEW k \in Pairs(r)
      PROVE  /\ \A i \in D \cup E : Completes(i, r, k) => B[r][k] = <<Partner(i), Tok(i)>>
             /\ (\A i \in D \cup E : ~Completes(i, r, k)) =>
                  B[r][k] = launch.before.cache[r][k]
  <2>0. /\ \A i \in D : Completes(i, r, k) => C[r][k] = <<Partner(i), Tok(i)>>
        /\ (\A i \in D : ~Completes(i, r, k)) => C[r][k] = launch.before.cache[r][k]
    BY DEF After, Adds
  <2>1. CASE \A i \in E : ~Completes(i, r, k)
    <3>1. B[r][k] = C[r][k]  BY <2>1 DEF Adds
    <3> QED  BY <2>0, <2>1, <3>1
  <2>2. ASSUME NEW e \in E, Completes(e, r, k)
        PROVE  \A i \in D \cup E : Completes(i, r, k) => B[r][k] = <<Partner(i), Tok(i)>>
    <3>1. B[r][k] = <<Partner(e), Tok(e)>>  BY <2>2 DEF Adds
    <3>2. \A i \in D \cup E : Completes(i, r, k) => i = e  BY <2>2, OneCompletes
    <3> QED  BY <3>1, <3>2
  <2> QED  BY <2>1, <2>2
<1>3. /\ Q \in [Reqs -> [Slots -> Tokens]]
      /\ B = [r \in Reqs |-> B[r]] /\ \A r \in Reqs : B[r] \in [Pairs(r) -> Tokens \X Tokens]
  BY DEF Adds
<1> QED  BY <1>1, <1>2, <1>3 DEF After, Adds

LEMMA CtaReplaying ==
  ASSUME IInv, Replaying, NEW i \in Rows \ launch.done, Cta(i)  PROVE Replaying'
<1> DEFINE r == Req(i)  p == Pos(i)  D == launch.done \cup {i}
<1>1. Fused /\ UNCHANGED <<mode, len>> /\ launch' = [launch EXCEPT !.done = D]
  BY DEF Cta
<1>2. TypeOK /\ Shape /\ TypeOK' /\ i \in Int /\ launch.done \in SUBSET Int
  <2>1. IInv'  BY CtaIInv
  <2> QED  BY <2>1 DEF IInv, TypeOK, Rows
<1>3. /\ launch'.done = D /\ launch'.before = launch.before
      /\ \A j : Pad(j)' = Pad(j) /\ Req(j)' = Req(j) /\ Pos(j)' = Pos(j)
                /\ Tok(j)' = Tok(j) /\ Odd(j)' = Odd(j)
  <2>1. launch'.before = launch.before  BY <1>1, <1>2 DEF TypeOK, NoLaunch
  <2> QED  BY <1>1, <1>2, <2>1, Frame
<1>4. /\ \A j, q, s : Leaves(j, q, s)' = Leaves(j, q, s)
      /\ \A j, q, k : Completes(j, q, k)' = Completes(j, q, k)
      /\ \A j : Partner(j)' = Partner(j)
  BY <1>3 DEF Leaves, Completes, Partner, Slot
<1>5. cache' = [q \in Reqs |-> cache'[q]]
  BY <1>2 DEF Replaying, Cta, Pooled
<1>6. SUFFICES ASSUME Static
               PROVE  /\ launch'.before = [ring |-> launch'.before.ring, cache |-> launch'.before.cache]
                      /\ After({}, launch.before.ring, launch.before.cache)'
                      /\ After(launch.done, ring, cache)'
  BY <1>1, <1>5 DEF Replaying, Static
<1>7. /\ launch.before = [ring |-> launch.before.ring, cache |-> launch.before.cache]
      /\ After({}, launch.before.ring, launch.before.cache)
      /\ After(launch.done, ring, cache)
  BY <1>1, <1>6 DEF Replaying
<1>8. After(D, ring', cache')
  <2>1. ring' \in [Reqs -> [Slots -> Tokens]]
        /\ \A q \in Reqs : cache'[q] \in [Pairs(q) -> Tokens \X Tokens]
    BY <1>2 DEF TypeOK, Slots, Pairs, Tokens
  <2>2. \A q \in Reqs : \A s \in Slots :
          IF Leaves(i, q, s) THEN ring'[q][s] = Tok(i) ELSE ring'[q][s] = ring[q][s]
    <3> SUFFICES ASSUME NEW q \in Reqs, NEW s \in Slots
                 PROVE  IF Leaves(i, q, s) THEN ring'[q][s] = Tok(i) ELSE ring'[q][s] = ring[q][s]
      OBVIOUS
    <3>1. CASE Pad(i) \/ Odd(i)
      <4>1. ring' = ring /\ ~Leaves(i, q, s)  BY <3>1 DEF Cta, Leaves
      <4> QED  BY <4>1
    <3>2. CASE ~Pad(i) /\ ~Odd(i)
      <4>1. ring' = [ring EXCEPT ![r][Slot(p)] = Tok(i)]  BY <3>2 DEF Cta
      <4>2. Leaves(i, q, s) <=> r = q /\ Slot(p) = s  BY <3>2 DEF Leaves
      <4> QED  BY <1>2, <4>1, <4>2 DEF TypeOK
    <3> QED  BY <3>1, <3>2
  <2>3. \A q \in Reqs : \A k \in Pairs(q) :
          IF Completes(i, q, k) THEN cache'[q][k] = <<Partner(i), Tok(i)>>
          ELSE cache'[q][k] = cache[q][k]
    <3> SUFFICES ASSUME NEW q \in Reqs, NEW k \in Pairs(q)
                 PROVE  IF Completes(i, q, k) THEN cache'[q][k] = <<Partner(i), Tok(i)>>
                        ELSE cache'[q][k] = cache[q][k]
      OBVIOUS
    <3>0. k \in Int  BY DEF Pairs
    <3>1. CASE Pad(i) \/ ~Odd(i)
      <4>1. cache' = cache  BY <3>1 DEF Cta
      <4>2. ~Completes(i, q, k)
        <5>1. CASE Pad(i)  BY <5>1 DEF Completes
        <5>2. CASE ~Odd(i)
          <6>1. (2 * k + 1) % 2 = 1  BY <3>0
          <6> QED  BY <5>2, <6>1 DEF Completes, Odd
        <5> QED  BY <3>1, <5>1, <5>2
      <4> QED  BY <4>1, <4>2
    <3>2. CASE ~Pad(i) /\ Odd(i)
      <4>1. cache' = [cache EXCEPT ![r][p \div 2] = <<FusedPartner(i), Tok(i)>>]
        BY <3>2 DEF Cta, Pooled
      <4>2. FusedPartner(i) = Partner(i)  BY <1>1, <1>2, <1>6, <1>7, <3>2, PartnerTaken
      <4>3. p \in Nat /\ p = 2 * (p \div 2) + 1 /\ p \div 2 \in Int
        <5>1. p \in Nat /\ p % 2 = 1  BY <1>2, <3>2, RealRow DEF Odd
        <5> QED  BY <5>1
      <4>4. Completes(i, q, k) <=> r = q /\ p \div 2 = k
        BY <3>0, <3>2, <4>3 DEF Completes
      <4>5. DOMAIN cache = Reqs /\ cache[q] \in [Pairs(q) -> Tokens \X Tokens]
        BY <1>2 DEF TypeOK
      <4> QED  BY <4>1, <4>2, <4>4, <4>5
    <3> QED  BY <3>1, <3>2
  <2>4. {i} \in SUBSET Int /\ D = launch.done \cup {i}  BY <1>2
  <2>5. \A q \in Reqs : \A s \in Slots :
          /\ \A j \in {i} : Leaves(j, q, s) => ring'[q][s] = Tok(j)
          /\ (\A j \in {i} : ~Leaves(j, q, s)) => ring'[q][s] = ring[q][s]
    BY <2>2
  <2>6. \A q \in Reqs : \A k \in Pairs(q) :
          /\ \A j \in {i} : Completes(j, q, k) => cache'[q][k] = <<Partner(j), Tok(j)>>
          /\ (\A j \in {i} : ~Completes(j, q, k)) => cache'[q][k] = cache[q][k]
    BY <2>3
  <2>7. TypeOK /\ Shape /\ Fused /\ Static /\ After(launch.done, ring, cache)
    BY <1>1, <1>2, <1>6, <1>7
  <2> HIDE DEF D
  <2>8. Adds({i}, ring, cache, ring', cache')  BY <1>5, <2>1, <2>5, <2>6 DEF Adds
  <2>9. After(launch.done \cup {i}, ring', cache')
    BY ONLY <1>2, <2>4, <2>7, <2>8, AfterMore
  <2> QED  BY <2>4, <2>9
<1>9. After({}, launch.before.ring, launch.before.cache)'
  BY <1>3, <1>7 DEF After, Adds, Slots, Pairs, Tokens
<1>10. After(launch.done, ring, cache)'
  BY <1>3, <1>4, <1>8 DEF After, Adds, Slots, Pairs, Tokens
<1> QED  BY <1>3, <1>7, <1>9, <1>10

LEMMA LaunchReplaying ==
  ASSUME IInv, Replaying, NEW kind, NEW n, NEW kept, NEW pads, Launch(kind, n, kept, pads)
  PROVE  Replaying'
<1>1. UNCHANGED <<mode, len, ring, cache>>  BY DEF Launch
<1>2. PICK first \in [Reqs -> 0 .. Widest], last \in {r \in Reqs : n[r] > 0} :
        launch' = [kind |-> kind, first |-> first, n |-> n, kept |-> kept,
                   width |-> first[last] + n[last] + pads, done |-> {},
                   before |-> IF kind = "block" /\ Static THEN [ring |-> ring, cache |-> cache]
                              ELSE <<>>]
  BY DEF Launch
<1>3. launch'.done = {} /\ launch'.kind = kind
      /\ (kind = "block" /\ Static => launch'.before = [ring |-> ring, cache |-> cache])
  BY <1>2
<1>4. cache' = [r \in Reqs |-> cache'[r]]  BY <1>1 DEF Replaying
<1>5. SUFFICES ASSUME (Fused /\ Static)'
               PROVE  /\ launch'.before = [ring |-> launch'.before.ring, cache |-> launch'.before.cache]
                      /\ After({}, launch.before.ring, launch.before.cache)'
                      /\ After(launch.done, ring, cache)'
  BY <1>4 DEF Replaying
<1>6. kind = "block" /\ Static  BY <1>1, <1>3, <1>5 DEF Fused, Static
<1>7. launch'.before.ring = ring /\ launch'.before.cache = cache
      /\ launch'.before = [ring |-> ring, cache |-> cache]
  BY <1>3, <1>6
<1>8. ring \in [Reqs -> [Slots -> Tokens]]
      /\ cache = [r \in Reqs |-> cache[r]]
      /\ \A r \in Reqs : cache[r] \in [Pairs(r) -> Tokens \X Tokens]
  BY DEF IInv, TypeOK, Replaying
<1>9. After({}, launch.before.ring, launch.before.cache)'
  BY <1>7, <1>8 DEF After, Adds, Slots, Pairs, Tokens
<1>10. After(launch.done, ring, cache)'
  BY <1>1, <1>3, <1>7, <1>8 DEF After, Adds, Slots, Pairs, Tokens
<1> QED  BY <1>7, <1>9, <1>10

\* The other steps leave no block of drafts in flight.
LEMMA OtherReplaying ==
  ASSUME IInv, Replaying, cache' = [r \in Reqs |-> cache'[r]], ~Fused'
  PROVE  Replaying'
BY DEF Replaying

LEMMA StutterReplaying == ASSUME Replaying, UNCHANGED vars  PROVE Replaying'
<1> USE DEF vars
<1>1. \A i : Pad(i)' = Pad(i) /\ Req(i)' = Req(i) /\ Pos(i)' = Pos(i) /\ Tok(i)' = Tok(i)
             /\ Odd(i)' = Odd(i)
  BY DEF Pad, Req, Pos, Tok, Odd, Owner, Text
<1>2. /\ \A j, q, s : Leaves(j, q, s)' = Leaves(j, q, s)
      /\ \A j, q, k : Completes(j, q, k)' = Completes(j, q, k)
      /\ \A j : Partner(j)' = Partner(j)
  BY <1>1 DEF Leaves, Completes, Partner, Slot
<1>3. Fused' = Fused /\ Static' = Static  BY DEF Fused, Static
<1>4. cache' = [r \in Reqs |-> cache'[r]]  BY DEF Replaying
<1>5. SUFFICES ASSUME Fused, Static
               PROVE  /\ launch'.before = [ring |-> launch'.before.ring, cache |-> launch'.before.cache]
                      /\ After({}, launch.before.ring, launch.before.cache)'
                      /\ After(launch.done, ring, cache)'
  BY <1>3, <1>4 DEF Replaying
<1>6. After({}, launch.before.ring, launch.before.cache) /\ After(launch.done, ring, cache)
      /\ launch.before = [ring |-> launch.before.ring, cache |-> launch.before.cache]
  BY <1>5 DEF Replaying
<1>7. After({}, launch.before.ring, launch.before.cache)'
  BY <1>6 DEF After, Adds, Slots, Pairs, Tokens
<1>8. After(launch.done, ring, cache)'
  BY <1>2, <1>1, <1>6 DEF After, Adds, Slots, Pairs, Tokens
<1> QED  BY <1>6, <1>7, <1>8

\* A launch in flight has done what its rows that are done do, in whatever
\* order they ran.
LEMMA ReplayingHolds == Spec => []Replaying
<1>1. Init => Replaying
  <2> SUFFICES ASSUME Init  PROVE Replaying  OBVIOUS
  <2>1. cache = [r \in Reqs |-> cache[r]]  BY DEF Init
  <2>2. ~Fused  BY DEF Init, NoLaunch, Fused
  <2> QED  BY <2>1, <2>2 DEF Replaying
<1>2. IInv /\ Replaying /\ [Next]_vars => Replaying'
  <2> SUFFICES ASSUME IInv, Replaying, [Next]_vars  PROVE Replaying'  OBVIOUS
  <2>0. cache = [r \in Reqs |-> cache[r]]  BY DEF Replaying
  <2>1. CASE Extend  BY <2>1, LaunchReplaying DEF Extend
  <2>2. CASE Block
    <3>1. PICK n \in [Reqs -> {0} \cup BlockLengths], kept \in [Reqs -> 0 .. DraftLen],
               pads \in Paddings : Launch("block", n, kept, pads)
      BY <2>2 DEF Block
    <3> QED  BY <3>1, LaunchReplaying
  <2>3. CASE Torch
    <3>1. cache' = [r \in Reqs |-> cache'[r]]  BY <2>3 DEF Torch
    <3>2. ~Fused'
      <4>1. ~Fused /\ UNCHANGED <<mode, len>> /\ launch' = [launch EXCEPT !.done = Rows]
        BY <2>3 DEF Torch
      <4> QED  BY <4>1, Frame DEF IInv
    <3> QED  BY <3>1, <3>2, OtherReplaying
  <2>4. CASE Commit
    <3>1. cache' = [r \in Reqs |-> cache'[r]] /\ ~Fused'
      BY <2>0, <2>4 DEF Commit, NoLaunch, Fused
    <3> QED  BY <3>1, OtherReplaying
  <2>5. ASSUME NEW i \in Rows \ launch.done, Cta(i)  PROVE Replaying'  BY <2>5, CtaReplaying
  <2>6. ASSUME NEW r \in Reqs, NEW m \in 0 .. MaxLen[r], Reuse(r, m)  PROVE Replaying'
    <3>1. cache' = [q \in Reqs |-> cache'[q]]  BY <2>0, <2>6 DEF Reuse
    <3>2. ~Fused'  BY <2>6 DEF Reuse, Flying, Fused, IInv, TypeOK
    <3> QED  BY <3>1, <3>2, OtherReplaying
  <2>7. CASE UNCHANGED vars  BY <2>7, StutterReplaying
  <2> QED  BY <2>1, <2>2, <2>3, <2>4, <2>5, <2>6, <2>7 DEF Next
<1> QED  BY <1>1, <1>2, Invariance, PTL DEF Spec

\* Rows at the first j positions of their blocks, and those at position j.
Before(j) == {i \in Rows : i % DraftLen < j}
At(j) == {i \in Rows : i % DraftLen = j}

LEMMA RowsInt == TypeOK => Rows \in SUBSET Int
  BY DEF TypeOK, Rows

\* What a row completes with, decoding one position at a time, is what it
\* completes with in the block.
LEMMA PartnerCarried ==
  ASSUME TypeOK, Shape, Fused, Static, NEW j \in 0 .. DraftLen - 1,
         NEW R, NEW C, After(Before(j), R, C), NEW i \in At(j), NEW r \in Reqs,
         NEW k \in Pairs(r), Completes(i, r, k)
  PROVE  R[r][Slot(2 * k)] = Partner(i)
<1>1. i \in Rows /\ i \in Int /\ i % DraftLen = j  BY RowsInt DEF At
<1>2. ~Pad(i) /\ Req(i) = r /\ Pos(i) = 2 * k + 1 /\ k \in Int /\ 2 * k \in Int
  BY DEF Completes, Pairs
<1>3. Pos(i) - 1 = 2 * k  BY <1>2
<1>4. Slot(2 * k) \in Slots  BY <1>2, SlotType
<1>5. CASE j = 0
  <2>1. Before(j) \in SUBSET Int  BY RowsInt DEF Before
  <2>2. \A m \in Before(j) : ~Leaves(m, r, Slot(2 * k))
    <3>1. \A m \in Int : ~Leaves(m, Req(i), Slot(Pos(i) - 1))
      BY <1>1, <1>2, <1>5, NoneCarries
    <3> QED  BY <1>2, <1>3, <2>1, <3>1
  <2>3. R[r][Slot(2 * k)] = launch.before.ring[r][Slot(2 * k)]
    BY <1>4, <2>2 DEF After, Adds
  <2> QED  BY <1>1, <1>2, <1>3, <1>5, <2>3 DEF Partner
<1>6. CASE j # 0
  <2>1. /\ ~Pad(i - 1) /\ Req(i - 1) = r /\ Pos(i - 1) = 2 * k
        /\ (i - 1) % DraftLen = (i % DraftLen) - 1 /\ i - 1 \in Rows
    BY <1>1, <1>2, <1>3, <1>6, PartnerRow
  <2>2. i - 1 \in Before(j)  BY <1>1, <2>1 DEF Before
  <2>3. Leaves(i - 1, r, Slot(2 * k))
    <3>1. (2 * k) % 2 = 0  BY <1>2
    <3> QED  BY <2>1, <3>1 DEF Leaves, Odd
  <2>4. R[r][Slot(2 * k)] = Tok(i - 1)  BY <1>4, <2>2, <2>3 DEF After, Adds
  <2> QED  BY <1>1, <1>6, <2>4 DEF Partner
<1> QED  BY <1>5, <1>6

\* A step of the replay does the rows of one position.
LEMMA StepAdds ==
  ASSUME TypeOK, Shape, Fused, Static, NEW j \in 0 .. DraftLen - 1,
         NEW w, After(Before(j), w.ring, w.cache)
  PROVE  /\ Step(w, j) = [ring |-> Step(w, j).ring, cache |-> Step(w, j).cache]
         /\ After(Before(j + 1), Step(w, j).ring, Step(w, j).cache)
<1> DEFINE at == {i \in Rows : i % DraftLen = j /\ ~Pad(i)}
           Even(r, s) == {i \in at : Req(i) = r /\ ~Odd(i) /\ Slot(Pos(i)) = s}
           Whole(r, k) == {i \in at : Req(i) = r /\ Pos(i) = 2 * k + 1}
           R == w.ring  C == w.cache
           Q == [r \in Reqs |-> [s \in Slots |->
                  IF Even(r, s) = {} THEN R[r][s]
                  ELSE Tok(CHOOSE i \in Even(r, s) : TRUE)]]
           B == [r \in Reqs |-> [k \in Pairs(r) |->
                  IF Whole(r, k) = {} THEN C[r][k]
                  ELSE <<R[r][Slot(2 * k)], Tok(CHOOSE i \in Whole(r, k) : TRUE)>>]]
<1>1. Step(w, j) = [ring |-> Q, cache |-> B]  BY DEF Step
<1>2. Rows \in SUBSET Int /\ At(j) \in SUBSET Int /\ Before(j) \in SUBSET Int
  BY RowsInt DEF At, Before
<1>3. \A r, s : /\ Even(r, s) = {i \in At(j) : Leaves(i, r, s)}
                /\ Even(r, s) \in SUBSET Int
  BY <1>2 DEF At, Leaves
<1>4. \A r, k : /\ Whole(r, k) = {i \in At(j) : Completes(i, r, k)}
                /\ Whole(r, k) \in SUBSET Int
  BY <1>2 DEF At, Completes
<1> HIDE DEF at, Even, Whole
<1>5. ASSUME NEW r \in Reqs, NEW s \in Slots
      PROVE  /\ \A i \in At(j) : Leaves(i, r, s) => Q[r][s] = Tok(i)
             /\ (\A i \in At(j) : ~Leaves(i, r, s)) => Q[r][s] = R[r][s]
             /\ Q[r][s] \in Tokens
  <2>1. Q[r][s] = IF Even(r, s) = {} THEN R[r][s]
                  ELSE Tok(CHOOSE i \in Even(r, s) : TRUE)
    OBVIOUS
  <2> HIDE DEF Q, B, R
  <2>2. CASE Even(r, s) = {}
    <3>1. R[r][s] \in Tokens  BY DEF After, Adds, R
    <3> QED  BY <1>3, <2>1, <2>2, <3>1
  <2>3. CASE Even(r, s) # {}
    <3>1. PICK e \in Even(r, s) : e = CHOOSE i \in Even(r, s) : TRUE  BY <2>3
    <3>2. e \in At(j) /\ Leaves(e, r, s) /\ e \in Int  BY <1>3, <3>1
    <3>3. Q[r][s] = Tok(e)  BY <2>1, <2>3, <3>1
    <3>4. \A i \in Int : Leaves(i, r, s) => i = e  BY <3>2, OneLeaves
    <3> QED  BY <1>2, <3>2, <3>3, <3>4, TokType
  <2> QED  BY <2>2, <2>3
<1>6. ASSUME NEW r \in Reqs, NEW k \in Pairs(r)
      PROVE  /\ \A i \in At(j) : Completes(i, r, k) => B[r][k] = <<Partner(i), Tok(i)>>
             /\ (\A i \in At(j) : ~Completes(i, r, k)) => B[r][k] = C[r][k]
             /\ B[r][k] \in Tokens \X Tokens
  <2>1. B[r][k] = IF Whole(r, k) = {} THEN C[r][k]
                  ELSE <<R[r][Slot(2 * k)], Tok(CHOOSE i \in Whole(r, k) : TRUE)>>
    OBVIOUS
  <2> HIDE DEF Q, B, R, C
  <2>2. CASE Whole(r, k) = {}
    <3>1. C[r] \in [Pairs(r) -> Tokens \X Tokens]  BY DEF After, Adds, C
    <3> QED  BY <1>4, <2>1, <2>2, <3>1
  <2>3. CASE Whole(r, k) # {}
    <3>1. PICK e \in Whole(r, k) : e = CHOOSE i \in Whole(r, k) : TRUE  BY <2>3
    <3>2. e \in At(j) /\ Completes(e, r, k) /\ e \in Int  BY <1>4, <3>1
    <3>3. R[r][Slot(2 * k)] = Partner(e)  BY <3>2, PartnerCarried DEF R
    <3>4. B[r][k] = <<Partner(e), Tok(e)>>  BY <2>1, <2>3, <3>1, <3>3
    <3>5. \A i \in Int : Completes(i, r, k) => i = e  BY <3>2, OneCompletes
    <3>6. R[r][Slot(2 * k)] \in Tokens
      <4>1. k \in Int  BY DEF Pairs
      <4>2. Slot(2 * k) \in Slots  BY <4>1, SlotType
      <4> QED  BY <4>2 DEF After, Adds, R
    <3> QED  BY <1>2, <3>2, <3>3, <3>4, <3>5, <3>6, TokType
  <2> QED  BY <2>2, <2>3
<1>7. Adds(At(j), R, C, Q, B)
  <2>1. Q \in [Reqs -> [Slots -> Tokens]]
    <3>1. \A r \in Reqs : Q[r] \in [Slots -> Tokens]  BY <1>5
    <3> QED  BY <3>1
  <2>2. \A r \in Reqs : B[r] \in [Pairs(r) -> Tokens \X Tokens]  BY <1>6
  <2>3. B = [r \in Reqs |-> B[r]]  OBVIOUS
  <2> HIDE DEF Q, B, R, C
  <2> QED  BY <1>5, <1>6, <2>1, <2>2, <2>3 DEF Adds
<1>8. Before(j + 1) = Before(j) \cup At(j)
  <2>1. \A i \in Rows : i % DraftLen \in Int  BY <1>2, CompressAssumption
  <2> QED  BY <2>1 DEF Before, At
<1> HIDE DEF Q, B
<1>9. After(Before(j) \cup At(j), Q, B)  BY <1>2, <1>7, AfterMore
<1>10. After(Before(j + 1), Q, B)  BY <1>8, <1>9
<1>11. Step(w, j).ring = Q /\ Step(w, j).cache = B  BY <1>1
<1> QED  BY <1>1, <1>10, <1>11

\* w is what the rows at the first j positions of their blocks leave.
LeftAt(j, w) ==
  w = [ring |-> w.ring, cache |-> w.cache] /\ After(Before(j), w.ring, w.cache)

LEMMA LeftUnique ==
  ASSUME NEW j, NEW w, NEW v, LeftAt(j, w), LeftAt(j, v)  PROVE w = v
<1>1. w.ring = v.ring /\ w.cache = v.cache
  <2>1. After(Before(j), w.ring, w.cache) /\ After(Before(j), v.ring, v.cache)  BY DEF LeftAt
  <2> QED  BY <2>1, AfterUnique
<1>2. w = [ring |-> w.ring, cache |-> w.cache] /\ v = [ring |-> v.ring, cache |-> v.cache]
  BY DEF LeftAt
<1> QED  BY <1>1, <1>2

LEMMA LeftNext ==
  ASSUME TypeOK, Shape, Fused, Static, NEW j \in 0 .. DraftLen - 1, NEW w, LeftAt(j, w)
  PROVE  LeftAt(j + 1, Step(w, j))
<1>1. After(Before(j), w.ring, w.cache)  BY DEF LeftAt
<1>2. /\ Step(w, j) = [ring |-> Step(w, j).ring, cache |-> Step(w, j).cache]
      /\ After(Before(j + 1), Step(w, j).ring, Step(w, j).cache)
  BY <1>1, StepAdds
<1> QED  BY <1>2 DEF LeftAt

\* The equation of Upto, which some function solves: what the rows at the
\* first j positions leave, for every j.
Unfolds(f) ==
  f = [j \in 0 .. DraftLen |-> IF j = 0 THEN launch.before ELSE Step(f[j - 1], j - 1)]

LEMMA UptoUnfolds ==
  ASSUME TypeOK, Shape, Replaying, Fused, Static
  PROVE  Unfolds(Upto) /\ LeftAt(0, launch.before)
<1> DEFINE g == [j \in 0 .. DraftLen |->
                  IF j = 0 THEN launch.before ELSE CHOOSE w : LeftAt(j, w)]
<1>0. DraftLen \in Nat  BY CompressAssumption
<1>1. LeftAt(0, launch.before)
  <2>1. Before(0) = {}
    <3>1. \A i \in Int : i % DraftLen >= 0  BY CompressAssumption, DivMod
    <3>2. \A i \in Rows : i \in Int  BY RowsInt
    <3>3. \A i \in Rows : ~(i % DraftLen < 0)
      <4> SUFFICES ASSUME NEW i \in Rows  PROVE ~(i % DraftLen < 0)  OBVIOUS
      <4>1. i \in Int  BY <3>2
      <4>2. i % DraftLen \in 0 .. DraftLen - 1  BY <4>1, CompressAssumption, DivMod
      <4> QED  BY <4>2
    <3> QED  BY <3>3 DEF Before
  <2> QED  BY <2>1 DEF LeftAt, Replaying
<1>2. \A j \in 0 .. DraftLen : LeftAt(j, g[j])
  <2> DEFINE T == {j \in 0 .. DraftLen : ~LeftAt(j, g[j])}
  <2>1. SUFFICES ASSUME T # {}  PROVE FALSE  OBVIOUS
  <2>2. T \in SUBSET Nat  BY <1>0
  <2>3. PICK j \in T : \A m \in T : j <= m
    <3> HIDE DEF T
    <3> QED  BY <2>1, <2>2, Least
  <2>4. j \in 0 .. DraftLen /\ ~LeftAt(j, g[j])  OBVIOUS
  <2>5. j # 0
    <3>1. g[0] = launch.before  BY <1>0
    <3> QED  BY <1>1, <2>4, <3>1
  <2>6. j - 1 \in 0 .. DraftLen - 1 /\ j - 1 \in 0 .. DraftLen /\ (j - 1) + 1 = j
    BY <1>0, <2>4, <2>5
  <2>7. LeftAt(j - 1, g[j - 1])
    <3>1. j - 1 \notin T  BY <1>0, <2>3, <2>4
    <3> QED  BY <2>6, <3>1
  <2> HIDE DEF T, g
  <2>8. LeftAt(j, Step(g[j - 1], j - 1))
    <3>1. LeftAt((j - 1) + 1, Step(g[j - 1], j - 1))  BY <2>6, <2>7, LeftNext
    <3> QED  BY <2>6, <3>1
  <2>9. g[j] = CHOOSE w : LeftAt(j, w)  BY <2>4, <2>5 DEF g
  <2>10. LeftAt(j, CHOOSE w : LeftAt(j, w))  BY <2>8
  <2> QED  BY <2>4, <2>9, <2>10
<1>3. \A j \in 0 .. DraftLen : j # 0 => g[j] = Step(g[j - 1], j - 1)
  <2> SUFFICES ASSUME NEW j \in 0 .. DraftLen, j # 0  PROVE g[j] = Step(g[j - 1], j - 1)
    OBVIOUS
  <2>1. j - 1 \in 0 .. DraftLen - 1 /\ j - 1 \in 0 .. DraftLen /\ (j - 1) + 1 = j  BY <1>0
  <2> HIDE DEF g
  <2>2. LeftAt((j - 1) + 1, Step(g[j - 1], j - 1))  BY <1>2, <2>1, LeftNext
  <2>3. LeftAt(j, Step(g[j - 1], j - 1)) /\ LeftAt(j, g[j])  BY <1>2, <2>1, <2>2
  <2> QED  BY <2>3, LeftUnique
<1>4. Unfolds(g)
  <2>1. \A j \in 0 .. DraftLen :
          g[j] = IF j = 0 THEN launch.before ELSE Step(g[j - 1], j - 1)
    <3>1. \A j \in 0 .. DraftLen : j = 0 => g[j] = launch.before  OBVIOUS
    <3> HIDE DEF g
    <3> QED  BY <1>3, <3>1
  <2>2. g = [j \in 0 .. DraftLen |-> g[j]]  OBVIOUS
  <2> HIDE DEF g
  <2> QED  BY <2>1, <2>2 DEF Unfolds
<1> HIDE DEF g
<1>5. Upto = CHOOSE f : Unfolds(f)  BY DEF Upto, Unfolds
<1> QED  BY <1>1, <1>4, <1>5

\* What the replay leaves is what the block leaves.
LEMMA UptoLeft ==
  ASSUME TypeOK, Shape, Replaying, Fused, Static
  PROVE  \A j \in 0 .. DraftLen : LeftAt(j, Upto[j])
<1> DEFINE T == {j \in 0 .. DraftLen : ~LeftAt(j, Upto[j])}
<1>0. DraftLen \in Nat  BY CompressAssumption
<1>1. SUFFICES ASSUME T # {}  PROVE FALSE  OBVIOUS
<1>2. T \in SUBSET Nat  BY <1>0
<1>3. PICK j \in T : \A m \in T : j <= m
  <2> HIDE DEF T
  <2> QED  BY <1>1, <1>2, Least
<1>4. j \in 0 .. DraftLen /\ ~LeftAt(j, Upto[j])  OBVIOUS
<1>5. Upto[j] = IF j = 0 THEN launch.before ELSE Step(Upto[j - 1], j - 1)
  <2>1. Unfolds(Upto)  BY UptoUnfolds
  <2> HIDE DEF T
  <2> QED  BY <1>4, <2>1 DEF Unfolds
<1>6. j # 0  BY <1>4, <1>5, UptoUnfolds
<1>7. j - 1 \in 0 .. DraftLen - 1 /\ j - 1 \in 0 .. DraftLen /\ (j - 1) + 1 = j
  BY <1>0, <1>4, <1>6
<1>8. LeftAt(j - 1, Upto[j - 1])
  <2>1. j - 1 \notin T  BY <1>0, <1>3, <1>4
  <2> QED  BY <1>7, <2>1
<1> HIDE DEF T
<1>9. LeftAt((j - 1) + 1, Step(Upto[j - 1], j - 1))  BY <1>7, <1>8, LeftNext
<1> QED  BY <1>4, <1>5, <1>6, <1>7, <1>9

\* A verify block, whose rows run in any order, leaves the ring and the cache
\* of decoding its rows one position at a time, for every length of the blocks
\* and every ring that is wider.
THEOREM ReplaySameHolds == Spec => []ReplaySame
<1>1. IInv /\ Replaying => ReplaySame
  <2> SUFFICES ASSUME IInv, Replaying, Finished, Fused, Static
               PROVE  [ring |-> ring, cache |-> cache] = Replayed
    BY DEF ReplaySame
  <2>1. TypeOK /\ Shape  BY DEF IInv
  <2>2. DraftLen \in Nat /\ DraftLen \in 0 .. DraftLen  BY CompressAssumption
  <2>3. LeftAt(DraftLen, Upto[DraftLen])  BY <2>1, <2>2, UptoLeft
  <2>4. Before(DraftLen) = launch.done
    <3>1. \A i \in Rows : i % DraftLen < DraftLen
      <4> SUFFICES ASSUME NEW i \in Rows  PROVE i % DraftLen < DraftLen  OBVIOUS
      <4>1. i \in Int  BY <2>1, RowsInt
      <4>2. i % DraftLen \in 0 .. DraftLen - 1  BY <4>1, CompressAssumption, DivMod
      <4> QED  BY <2>2, <4>2
    <3> QED  BY <3>1 DEF Before, Finished
  <2> DEFINE w == [ring |-> ring, cache |-> cache]
  <2>5. LeftAt(DraftLen, w)
    <3>1. w.ring = ring /\ w.cache = cache  OBVIOUS
    <3>2. After(launch.done, ring, cache)  BY DEF Replaying
    <3> QED  BY <2>4, <3>1, <3>2 DEF LeftAt
  <2> HIDE DEF w
  <2>6. w = Upto[DraftLen]  BY <2>3, <2>5, LeftUnique
  <2> QED  BY <2>6 DEF w, Replayed
<1> QED  BY <1>1, Invariance, ReplayingHolds, PTL

===============================================================================
