-------------------------- MODULE CollectivesProofs --------------------------
(***************************************************************************)
(* The groups of every layout, for any number of ranks: those that         *)
(* initialize_model_parallel lists, and those that the ranks form while    *)
(* each of them runs its own program; then the collectives in which they   *)
(* meet, while they set up and in every forward pass.                      *)
(***************************************************************************)
EXTENDS Collectives, WellFoundedInduction, TLAPS

-----------------------------------------------------------------------------
(* Quotients and remainders.                                               *)

LEMMA DivMod ==
  ASSUME NEW n \in Nat \ {0}, NEW a \in Int
  PROVE  /\ a = (a \div n) * n + (a % n) /\ a \div n \in Int
         /\ a % n \in 0 .. n - 1
  OBVIOUS

LEMMA DivUnique ==
  ASSUME NEW n \in Nat \ {0}, NEW q \in Int, NEW m \in 0 .. n - 1
  PROVE  (q * n + m) \div n = q /\ (q * n + m) % n = m
<1> DEFINE a == q * n + m  p == a \div n  k == a % n
<1>1. q * n \in Int /\ a \in Int  OBVIOUS
<1>2. a = p * n + k /\ p \in Int /\ k \in 0 .. n - 1  BY <1>1, DivMod
<1>3. q * n + m = p * n + k  BY <1>2
<1> HIDE DEF a, p, k
<1>4. \A x, y \in Int : x < y => y * n - x * n >= n
  <2> SUFFICES ASSUME NEW x \in Int, NEW y \in Int, x < y  PROVE y * n - x * n >= n
    OBVIOUS
  <2>1. (y - x) * n >= n  OBVIOUS
  <2> QED  BY <2>1
<1>5. p * n \in Int  BY <1>2
<1>6. CASE p < q
  <2>1. q * n - p * n >= n  BY <1>2, <1>4, <1>6
  <2> QED  BY <1>1, <1>2, <1>3, <1>5, <2>1
<1>7. CASE q < p
  <2>1. p * n - q * n >= n  BY <1>2, <1>4, <1>7
  <2> QED  BY <1>1, <1>2, <1>3, <1>5, <2>1
<1>8. CASE p = q
  <2>1. k = m  BY <1>1, <1>2, <1>3, <1>8
  <2> QED  BY <1>8, <2>1 DEF p, k, a
<1> QED  BY <1>2, <1>6, <1>7, <1>8

LEMMA DivSimple ==
  ASSUME NEW n \in Nat \ {0}, NEW q \in Int, NEW m \in 0 .. n - 1
  PROVE  /\ (q * n) \div n = q /\ (q * n) % n = 0
         /\ m \div n = 0 /\ m % n = m
<1> DEFINE z == 0
<1>1. z \in Int /\ z \in 0 .. n - 1 /\ z * n = 0  OBVIOUS
<1> HIDE DEF z
<1>2. /\ (q * n + z) \div n = q /\ (q * n + z) % n = z
      /\ (z * n + m) \div n = z /\ (z * n + m) % n = m
  BY <1>1, DivUnique
<1>3. q * n + z = q * n /\ z * n + m = m  BY <1>1 DEF z
<1> QED  BY <1>2, <1>3 DEF z

LEMMA DivSmall ==
  ASSUME NEW n \in Nat \ {0}, NEW m \in 0 .. n - 1
  PROVE  m \div n = 0 /\ m % n = m
<1>1. 0 \in Int  OBVIOUS
<1> QED  BY <1>1, DivSimple

\* Below a product: the digits are in range.
LEMMA TwoDigits ==
  ASSUME NEW n \in Nat \ {0}, NEW k \in Nat \ {0}, NEW q \in 0 .. k - 1, NEW m \in 0 .. n - 1
  PROVE  q * n + m \in 0 .. n * k - 1 /\ n * k \in Nat \ {0}
<1>1. (k - 1 - q) * n >= 0 /\ q * n >= 0 /\ q * n \in Int /\ n * k \in Int  OBVIOUS
<1>2. (k - 1 - q) * n = n * k - n - q * n  OBVIOUS
<1>3. n * k >= n  BY <1>1, <1>2
<1> QED  BY <1>1, <1>2, <1>3

\* Dividing twice is dividing by the product.
LEMMA DivDiv ==
  ASSUME NEW n \in Nat \ {0}, NEW k \in Nat \ {0}, NEW a \in Int
  PROVE  /\ a \div (n * k) = (a \div n) \div k
         /\ a % (n * k) = ((a \div n) % k) * n + (a % n)
<1> DEFINE b == a \div n  m == a % n  e == b \div k  f == b % k
<1>1. a = b * n + m /\ b \in Int /\ m \in 0 .. n - 1  BY DivMod
<1>2. b = e * k + f /\ e \in Int /\ f \in 0 .. k - 1  BY <1>1, DivMod
<1> HIDE DEF b, m, e, f
<1>3. f * n + m \in 0 .. n * k - 1 /\ n * k \in Nat \ {0}  BY <1>1, <1>2, TwoDigits
<1>4. a = e * (n * k) + (f * n + m)
  <2>1. b * n = (e * k) * n + f * n  BY <1>2
  <2>2. (e * k) * n = e * (n * k)  BY <1>2
  <2>3. (e * k) * n \in Int /\ f * n \in Int  BY <1>2
  <2> QED  BY <1>1, <2>1, <2>2, <2>3
<1>5. a \div (n * k) = e /\ a % (n * k) = f * n + m
  <2> DEFINE N == n * k  M == f * n + m
  <2>1. a = e * N + M /\ N \in Nat \ {0} /\ M \in 0 .. N - 1  BY <1>3, <1>4
  <2> HIDE DEF N, M
  <2>2. a \div N = e /\ a % N = M  BY <1>2, <2>1, DivUnique
  <2> QED  BY <2>2 DEF N, M
<1> QED  BY <1>5 DEF b, m, e, f

-----------------------------------------------------------------------------
(* Lists of ranks.                                                         *)

\* The ranks with quotient h by w * n and remainder l by w: one digit is free.
Free(n, w, h, l) == {s \in Ranks : s \div (w * n) = h /\ s % w = l}

Strided(n, w, first) == {first + j * w : j \in 0 .. n - 1}

LEMMA StrideSet ==
  ASSUME NEW n \in Nat, NEW w \in Int, NEW first \in Int
  PROVE  ToSet(Stride(first, n, w)) = Strided(n, w, first)
<1>1. DOMAIN Stride(first, n, w) = 1 .. n  BY DEF Stride
<1>2. \A k \in 1 .. n : k - 1 \in 0 .. n - 1 /\ Stride(first, n, w)[k] = first + (k - 1) * w
  BY DEF Stride
<1>3. ToSet(Stride(first, n, w)) \subseteq {first + j * w : j \in 0 .. n - 1}
  BY <1>1, <1>2 DEF ToSet
<1>4. ASSUME NEW j \in 0 .. n - 1  PROVE first + j * w \in ToSet(Stride(first, n, w))
  <2>1. j + 1 \in 1 .. n /\ (j + 1) - 1 = j  OBVIOUS
  <2>2. Stride(first, n, w)[j + 1] = first + j * w  BY <1>2, <2>1
  <2> QED  BY <1>1, <2>1, <2>2 DEF ToSet
<1> QED  BY <1>3, <1>4 DEF Strided

LEMMA StrideFree ==
  ASSUME NEW n \in Nat \ {0}, NEW w \in Nat \ {0}, NEW g \in Nat, World = g * (w * n),
         NEW h \in 0 .. g - 1, NEW l \in 0 .. w - 1
  PROVE  ToSet(Stride(h * (w * n) + l, n, w)) = Free(n, w, h, l)
<1> DEFINE first == h * (w * n) + l
<1>1. w * n \in Nat \ {0} /\ h * (w * n) \in Int /\ first \in Int /\ World \in Int
  <2>1. w * n \in Nat \ {0}  BY TwoDigits
  <2>2. \A x \in Nat : h * x \in Int /\ g * x \in Int  OBVIOUS
  <2> QED  BY <2>1, <2>2
<1>2. ASSUME NEW j \in 0 .. n - 1
      PROVE  /\ first + j * w \in Ranks
             /\ (first + j * w) \div (w * n) = h /\ (first + j * w) % w = l
  <2>1. j * w + l \in 0 .. w * n - 1 /\ j * w \in Int  BY TwoDigits
  <2>2. first + j * w = h * (w * n) + (j * w + l)  BY <1>1, <2>1
  <2>3. (first + j * w) \div (w * n) = h  BY <1>1, <2>1, <2>2, DivUnique
  <2>4. (first + j * w) % w = l
    <3>1. h * (w * n) = (h * n) * w  OBVIOUS
    <3>2. (h * n + j) * w = (h * n) * w + j * w /\ h * n + j \in Int  OBVIOUS
    <3>3. (h * n) * w \in Int  OBVIOUS
    <3>4. first + j * w = (h * n + j) * w + l  BY <2>1, <3>1, <3>2, <3>3
    <3> QED  BY <3>2, <3>4, DivUnique
  <2>5. first + j * w \in Ranks
    <3>1. h * (w * n) + (j * w + l) \in 0 .. (w * n) * g - 1
      BY <1>1, <2>1, TwoDigits
    <3>2. g * (w * n) = (w * n) * g  BY <1>1
    <3> QED  BY <2>2, <3>1, <3>2 DEF Ranks
  <2> QED  BY <2>3, <2>4, <2>5
<1>3. ASSUME NEW s \in Ranks, s \div (w * n) = h, s % w = l
      PROVE  \E j \in 0 .. n - 1 : s = first + j * w
  <2> DEFINE j == (s \div w) % n
  <2>0. s \in Int  BY <1>1 DEF Ranks
  <2>1. j \in 0 .. n - 1  BY <2>0, DivMod
  <2>2. s % (w * n) = j * w + l  BY <1>3, <2>0, DivDiv
  <2>3. s = h * (w * n) + (s % (w * n))  BY <1>1, <1>3, <2>0, DivMod
  <2> HIDE DEF j
  <2>4. j * w \in Int  BY <2>1
  <2>5. s = first + j * w  BY <1>1, <2>2, <2>3, <2>4
  <2> QED  BY <2>1, <2>5
<1> HIDE DEF first
<1>4. ToSet(Stride(first, n, w)) = Strided(n, w, first)
  <2>1. first \in Int /\ n \in Nat /\ w \in Int  BY <1>1
  <2> QED  BY ONLY <2>1, StrideSet
<1>5. Strided(n, w, first) = Free(n, w, h, l)  BY <1>2, <1>3 DEF Free, Strided
<1> QED  BY <1>4, <1>5 DEF first

-----------------------------------------------------------------------------
(* What the groups are meant to be.                                        *)

LEMMA SameDigits ==
  ASSUME NEW n \in Nat \ {0}, NEW a \in Int, NEW b \in Int
  PROVE  a = b <=> a \div n = b \div n /\ a % n = b % n
<1>1. /\ a = (a \div n) * n + (a % n) /\ b = (b \div n) * n + (b % n)  BY DivMod
<1> QED  BY <1>1

\* Widths t, k and d, of the last two together, and of all three.
Three(t, k, d, N, T) == t \in Nat \ {0} /\ k \in Nat \ {0} /\ d \in Nat \ {0}
                        /\ N = t * k /\ T = N * d

\* The digits of a rank: three within its stage, counted from the last.
LEMMA Digits ==
  ASSUME NEW t, NEW k, NEW d, NEW N, NEW T, Three(t, k, d, N, T), NEW s \in Int
  PROVE  /\ N \in Nat \ {0} /\ T \in Nat \ {0} /\ s % T \in Int
         /\ s \div t \in Int /\ s \div N \in Int /\ s % t \in 0 .. t - 1
         /\ s \div T = (s \div N) \div d /\ (s % T) \div N = (s \div N) % d
         /\ s \div N = (s \div t) \div k /\ ((s % T) \div t) % k = (s \div t) % k
         /\ (s % T) % t = s % t
         /\ s % N = ((s \div t) % k) * t + (s % t) /\ (s \div t) % k \in 0 .. k - 1
<1> DEFINE i == s % T
<1> USE DEF Three
<1>1. N \in Nat \ {0} /\ T \in Nat \ {0}
  <2>1. N \in Nat \ {0}  BY TwoDigits
  <2>2. N * d \in Nat \ {0}  BY ONLY <2>1, d \in Nat \ {0}, TwoDigits
  <2> QED  BY <2>1, <2>2
<1>2. /\ s \div t \in Int /\ s % t \in 0 .. t - 1
      /\ s \div N = (s \div t) \div k /\ s % N = ((s \div t) % k) * t + (s % t)
      /\ i \in Int
  <2>1. s \div t \in Int /\ s % t \in 0 .. t - 1  BY DivMod
  <2>2. s \div N = (s \div t) \div k /\ s % N = ((s \div t) % k) * t + (s % t)  BY DivDiv
  <2>3. i \in Int  BY <1>1, DivMod
  <2> QED  BY <2>1, <2>2, <2>3
<1>3. s \div N \in Int /\ s % N \in 0 .. N - 1  BY <1>1, DivMod
<1>4. s \div T = (s \div N) \div d /\ i = ((s \div N) % d) * N + (s % N)
  BY <1>1, DivDiv
<1>5. (s \div N) % d \in 0 .. d - 1 /\ (s \div t) % k \in 0 .. k - 1  BY <1>2, <1>3, DivMod
<1>6. i \div N = (s \div N) % d
  <2> DEFINE x == (s \div N) % d  y == s % N
  <2>1. N \in Nat \ {0} /\ x \in Int /\ y \in 0 .. N - 1 /\ i = x * N + y
    BY <1>1, <1>3, <1>4, <1>5
  <2> HIDE DEF x, y, i
  <2> QED  BY ONLY <2>1, DivUnique DEF x
<1>7. i \div t = ((s \div N) % d) * k + ((s \div t) % k) /\ i % t = s % t
  <2> DEFINE x == (s \div N) % d  y == (s \div t) % k  z == s % t  q == x * k + y
  <2>1. x \in Int /\ y \in Int /\ z \in 0 .. t - 1 /\ q \in Int  BY <1>2, <1>5
  <2>2. i = x * (t * k) + (y * t + z)  BY <1>2, <1>4
  <2> HIDE DEF x, y, z, i
  <2>3. x * (t * k) = (x * k) * t /\ q * t = (x * k) * t + y * t  BY <2>1
  <2>4. (x * k) * t \in Int /\ y * t \in Int  BY <2>1
  <2>5. i = q * t + z  BY <2>1, <2>2, <2>3, <2>4
  <2> HIDE DEF q
  <2>6. i \div t = q /\ i % t = z  BY <2>1, <2>5, DivUnique
  <2> QED  BY <2>6 DEF q, x, y, z
<1>8. (i \div t) % k = (s \div t) % k
  <2> DEFINE x == (s \div N) % d  y == (s \div t) % k
  <2>1. x \in Int /\ y \in 0 .. k - 1 /\ i \div t = x * k + y  BY <1>5, <1>7
  <2> HIDE DEF x, y
  <2>2. (x * k + y) % k = y  BY <2>1, DivUnique
  <2> QED  BY <2>1, <2>2 DEF y
<1> QED  BY <1>1, <1>2, <1>3, <1>4, <1>5, <1>6, <1>7, <1>8

\* Ranks that agree on the digits but one.
LEMMA Agreeing ==
  ASSUME NEW t, NEW k, NEW d, NEW N, NEW T, Three(t, k, d, N, T),
         NEW s \in Int, NEW r \in Int
  PROVE  /\ s \div T = r \div T /\ (s % T) \div N = (r % T) \div N
              <=> s \div N = r \div N
         /\ s \div N = r \div N /\ ((s % T) \div t) % k = ((r % T) \div t) % k
              <=> s \div t = r \div t
         /\ ((s % T) \div t) % k = ((r % T) \div t) % k /\ (s % T) % t = (r % T) % t
              <=> s % N = r % N
         /\ (s % T) % t = s % t /\ (r % T) % t = r % t
<1>1. /\ N \in Nat \ {0}
      /\ s \div t \in Int /\ s \div N \in Int /\ s % t \in 0 .. t - 1
      /\ s \div T = (s \div N) \div d /\ (s % T) \div N = (s \div N) % d
      /\ s \div N = (s \div t) \div k /\ ((s % T) \div t) % k = (s \div t) % k
      /\ (s % T) % t = s % t /\ s % N = ((s \div t) % k) * t + (s % t)
      /\ (s \div t) % k \in 0 .. k - 1
  BY Digits
<1>2. /\ r \div t \in Int /\ r \div N \in Int /\ r % t \in 0 .. t - 1
      /\ r \div T = (r \div N) \div d /\ (r % T) \div N = (r \div N) % d
      /\ r \div N = (r \div t) \div k /\ ((r % T) \div t) % k = (r \div t) % k
      /\ (r % T) % t = r % t /\ r % N = ((r \div t) % k) * t + (r % t)
      /\ (r \div t) % k \in 0 .. k - 1
  BY Digits
<1>0. t \in Nat \ {0} /\ k \in Nat \ {0} /\ d \in Nat \ {0}  BY DEF Three
<1>3. s \div T = r \div T /\ (s % T) \div N = (r % T) \div N <=> s \div N = r \div N
  <2> DEFINE a == s \div N  b == r \div N
  <2>1. a \in Int /\ b \in Int  BY <1>1, <1>2
  <2>2. /\ s \div T = a \div d /\ (s % T) \div N = a % d
        /\ r \div T = b \div d /\ (r % T) \div N = b % d
    BY <1>1, <1>2
  <2> HIDE DEF a, b
  <2>3. a = b <=> a \div d = b \div d /\ a % d = b % d
    BY ONLY <1>0, <2>1, SameDigits
  <2> QED  BY ONLY <2>2, <2>3 DEF a, b
<1>4. s \div N = r \div N /\ ((s % T) \div t) % k = ((r % T) \div t) % k
        <=> s \div t = r \div t
  <2> DEFINE a == s \div t  b == r \div t
  <2>1. a \in Int /\ b \in Int  BY <1>1, <1>2
  <2>2. /\ s \div N = a \div k /\ ((s % T) \div t) % k = a % k
        /\ r \div N = b \div k /\ ((r % T) \div t) % k = b % k
    BY <1>1, <1>2
  <2> HIDE DEF a, b
  <2>3. a = b <=> a \div k = b \div k /\ a % k = b % k
    BY ONLY <1>0, <2>1, SameDigits
  <2> QED  BY ONLY <2>2, <2>3 DEF a, b
<1>5. ((s % T) \div t) % k = ((r % T) \div t) % k /\ (s % T) % t = (r % T) % t
        <=> s % N = r % N
  <2> DEFINE a == (s \div t) % k  b == s % t  e == (r \div t) % k  f == r % t
  <2>1. /\ a \in Int /\ b \in 0 .. t - 1 /\ e \in Int /\ f \in 0 .. t - 1
        /\ s % N = a * t + b /\ r % N = e * t + f
        /\ ((s % T) \div t) % k = a /\ (s % T) % t = b
        /\ ((r % T) \div t) % k = e /\ (r % T) % t = f
    BY <1>1, <1>2
  <2> HIDE DEF a, b, e, f
  <2>2. (a * t + b) \div t = a /\ (a * t + b) % t = b
        /\ (e * t + f) \div t = e /\ (e * t + f) % t = f
    BY ONLY <1>0, <2>1, DivUnique
  <2>3. a = e /\ b = f <=> s % N = r % N  BY <2>1, <2>2
  <2> QED  BY <2>1, <2>3
<1> QED  BY <1>1, <1>2, <1>3, <1>4, <1>5

LEMMA Widths ==
  ASSUME NEW c, Layout(c)
  PROVE  /\ Three(AttnTp(c), c.cp, c.dp, AttnTp(c) * c.cp, c.tp)
         /\ Three(MoeTp(c), c.ep, c.mdp, MoeTp(c) * c.ep, c.tp)
         /\ c.pp \in Nat \ {0} /\ c.tp \in Nat \ {0} /\ c.dcp \in Nat \ {0}
         /\ World = c.pp * c.tp /\ World \in Nat \ {0} /\ c.tp % c.dcp = 0
<1>1. \A a, b \in Nat \ {0} : a * b \in Nat \ {0}  BY TwoDigits
<1>2. ASSUME NEW T \in Nat \ {0}, NEW k \in Nat \ {0}, NEW d \in Nat \ {0}, T % (k * d) = 0
      PROVE  Three(T \div (k * d), k, d, (T \div (k * d)) * k, T)
  <2> DEFINE n == k * d  t == T \div n
  <2>1. n \in Nat \ {0}  BY <1>1
  <2>0. T % n = 0  BY <1>2
  <2> HIDE DEF n
  <2>2. t \in Int /\ T = t * n
    <3>1. T = (T \div n) * n + (T % n) /\ T \div n \in Int  BY <2>1, DivMod
    <3>2. (T \div n) * n \in Int  BY <2>1, <3>1
    <3> QED  BY ONLY <2>0, <3>1, <3>2 DEF t
  <2> HIDE DEF t
  <2>3. t \in Nat \ {0}
    <3>1. t <= 0 => t * n <= 0
      <4>1. t <= 0 => (0 - t) * n >= 0  BY <2>1, <2>2
      <4>2. (0 - t) * n = 0 - t * n  BY <2>1, <2>2
      <4>3. t * n \in Int  BY <2>1, <2>2
      <4> QED  BY <4>1, <4>2, <4>3
    <3> QED  BY <2>2, <3>1
  <2>4. t * (k * d) = (t * k) * d  BY <2>3
  <2> QED  BY <2>2, <2>3, <2>4 DEF Three, t, n
<1>3. /\ c.tp \in Nat \ {0} /\ c.pp \in Nat \ {0} /\ c.ep \in Nat \ {0} /\ c.mdp \in Nat \ {0}
      /\ c.dp \in Nat \ {0} /\ c.cp \in Nat \ {0} /\ c.dcp \in Nat \ {0}
      /\ World = c.tp * c.pp /\ c.tp % c.dcp = 0
      /\ c.tp % (c.cp * c.dp) = 0 /\ c.tp % (c.ep * c.mdp) = 0
  BY DEF Layout
<1>4. c.tp * c.pp = c.pp * c.tp  BY <1>3
<1>5. World \in Nat \ {0}  BY <1>1, <1>3
<1> QED  BY <1>2, <1>3, <1>4, <1>5 DEF AttnTp, MoeTp

\* The ranks that share with r all but one digit, of width n over ranks w apart.
Class(n, w, r) == Free(n, w, r \div (w * n), r % w)

-----------------------------------------------------------------------------
(* The lists of ranks of a kind of group: for each h and each l, one.      *)

Canonical(g, n, w) == Lists(g * w, LAMBDA k : Stride((k \div w) * (w * n) + (k % w), n, w))

\* Every rank is in exactly one list, with the ranks that share its other digits.
Partition(lists, n, w) ==
  /\ lists \in Seq(Seq(Int))
  /\ \A r \in Ranks : \E k \in DOMAIN lists : r \in ToSet(lists[k])
  /\ \A r \in Ranks : \A k \in DOMAIN lists :
       r \in ToSet(lists[k]) => ToSet(lists[k]) = Class(n, w, r)
  /\ \A r \in Ranks : \A k, j \in DOMAIN lists :
       r \in ToSet(lists[k]) /\ r \in ToSet(lists[j]) => k = j

LEMMA CanonicalPartition ==
  ASSUME NEW g \in Nat \ {0}, NEW n \in Nat \ {0}, NEW w \in Nat \ {0}, World = g * (w * n)
  PROVE  Partition(Canonical(g, n, w), n, w)
<1> DEFINE lists == Canonical(g, n, w)  first(k) == (k \div w) * (w * n) + (k % w)
           count == g * w  N == w * n
<1>1. count \in Nat \ {0} /\ N \in Nat \ {0}  BY TwoDigits
<1>2. /\ lists = [k \in 1 .. count |-> Stride(first(k - 1), n, w)]
      /\ DOMAIN lists = 1 .. count
  BY DEF Canonical, Lists
<1>3. \A k \in Int : first(k) \in Int
  <2> SUFFICES ASSUME NEW k \in Int  PROVE first(k) \in Int
    OBVIOUS
  <2>1. k \div w \in Int /\ k % w \in Int  BY DivMod
  <2>2. (k \div w) * N \in Int  BY <1>1, <2>1
  <2> QED  BY <2>1, <2>2
<1>4. \A f \in Int : Stride(f, n, w) \in Seq(Int)
  <2> SUFFICES ASSUME NEW f \in Int  PROVE Stride(f, n, w) \in Seq(Int)
    OBVIOUS
  <2>1. \A k \in 1 .. n : f + (k - 1) * w \in Int  OBVIOUS
  <2> QED  BY <2>1 DEF Stride
<1>5. lists \in Seq(Seq(Int))
  <2>1. \A k \in 1 .. count : k - 1 \in Int  BY <1>1
  <2>2. \A k \in 1 .. count : Stride(first(k - 1), n, w) \in Seq(Int)  BY <1>3, <1>4, <2>1
  <2> HIDE DEF first, lists, count
  <2> QED  BY <1>1, <1>2, <2>2
<1>6. \A k \in 1 .. count :
        /\ (k - 1) \div w \in 0 .. g - 1 /\ (k - 1) % w \in 0 .. w - 1
        /\ k - 1 = ((k - 1) \div w) * w + ((k - 1) % w)
  <2> SUFFICES ASSUME NEW k \in 1 .. count
               PROVE  /\ (k - 1) \div w \in 0 .. g - 1 /\ (k - 1) % w \in 0 .. w - 1
                      /\ k - 1 = ((k - 1) \div w) * w + ((k - 1) % w)
    OBVIOUS
  <2> DEFINE i == k - 1  q == i \div w  m == i % w
  <2>1. i \in 0 .. count - 1 /\ i \in Int  BY <1>1
  <2>2. i = q * w + m /\ q \in Int /\ m \in 0 .. w - 1  BY <2>1, DivMod
  <2> HIDE DEF i, q, m
  <2>3. q >= 0
    <3>1. q <= -1 => (0 - 1 - q) * w >= 0  BY <2>2
    <3>2. (0 - 1 - q) * w = 0 - w - q * w /\ q * w \in Int  BY <2>2
    <3> QED  BY <2>1, <2>2, <3>1, <3>2
  <2>4. q <= g - 1
    <3>1. q >= g => (q - g) * w >= 0  BY <2>2
    <3>2. (q - g) * w = q * w - g * w /\ q * w \in Int /\ g * w \in Int  BY <2>2
    <3> QED  BY <2>1, <2>2, <3>1, <3>2
  <2> QED  BY <2>2, <2>3, <2>4 DEF i, q, m
<1>7. \A k \in 1 .. count :
        ToSet(lists[k]) = Free(n, w, (k - 1) \div w, (k - 1) % w)
  <2> SUFFICES ASSUME NEW k \in 1 .. count
               PROVE  ToSet(lists[k]) = Free(n, w, (k - 1) \div w, (k - 1) % w)
    OBVIOUS
  <2> DEFINE h == (k - 1) \div w  l == (k - 1) % w
  <2>1. h \in 0 .. g - 1 /\ l \in 0 .. w - 1  BY <1>6
  <2>2. lists[k] = Stride(h * (w * n) + l, n, w)  BY <1>2
  <2> HIDE DEF h, l
  <2>3. ToSet(Stride(h * (w * n) + l, n, w)) = Free(n, w, h, l)  BY <2>1, StrideFree
  <2> QED  BY <2>2, <2>3 DEF h, l
<1>8. ASSUME NEW r \in Ranks  PROVE \E k \in 1 .. count : r \in ToSet(lists[k])
  <2> DEFINE h == r \div N  l == r % w  k == h * w + l + 1
  <2>1. r \in Int /\ World \in Int  BY <1>1, TwoDigits DEF Ranks
  <2>2. r = h * N + (r % N) /\ h \in Int /\ r % N \in 0 .. N - 1 /\ l \in 0 .. w - 1
    BY <1>1, <2>1, DivMod
  <2>3. h \in 0 .. g - 1
    <3> HIDE DEF h, l, N
    <3>1. h <= -1 => (0 - 1 - h) * N >= 0  BY <1>1, <2>2
    <3>2. (0 - 1 - h) * N = 0 - N - h * N /\ h * N \in Int  BY <1>1, <2>2
    <3>3. h >= g => (h - g) * N >= 0  BY <1>1, <2>2
    <3>4. (h - g) * N = h * N - g * N /\ g * N \in Int  BY <1>1, <2>2
    <3>5. r \in 0 .. g * N - 1  BY DEF Ranks, N
    <3> QED  BY <1>1, <2>1, <2>2, <3>1, <3>2, <3>3, <3>4, <3>5
  <2> HIDE DEF h, l, N
  <2>4. h * w + l \in 0 .. w * g - 1  BY <2>2, <2>3, TwoDigits
  <2>5. w * g = count /\ h * w \in Int  BY <2>3
  <2>6. k \in 1 .. count /\ k - 1 = h * w + l  BY <1>1, <2>2, <2>4, <2>5
  <2>7. (k - 1) \div w = h /\ (k - 1) % w = l
    <3> HIDE DEF k
    <3>1. h \in Int /\ w \in Nat \ {0} /\ l \in 0 .. w - 1 /\ k - 1 = h * w + l
      BY <2>2, <2>6
    <3> QED  BY ONLY <3>1, DivUnique
  <2>8. r \in Free(n, w, h, l)  BY DEF Free, h, l, N
  <2> QED  BY <1>7, <2>6, <2>7, <2>8
<1>9. ASSUME NEW r \in Ranks, NEW k \in 1 .. count, r \in ToSet(lists[k])
      PROVE  /\ (k - 1) \div w = r \div (w * n) /\ (k - 1) % w = r % w
             /\ ToSet(lists[k]) = Class(n, w, r)
  BY <1>7, <1>9 DEF Free, Class
<1>10. ASSUME NEW r \in Ranks, NEW k \in 1 .. count, NEW j \in 1 .. count,
              r \in ToSet(lists[k]), r \in ToSet(lists[j])
       PROVE  k = j
  <2>1. (k - 1) \div w = (j - 1) \div w /\ (k - 1) % w = (j - 1) % w  BY <1>9, <1>10
  <2>2. k - 1 = j - 1  BY <1>6, <2>1
  <2> QED  BY <2>2
<1> HIDE DEF lists, count
<1> QED  BY <1>2, <1>5, <1>8, <1>9, <1>10 DEF Partition, lists

-----------------------------------------------------------------------------
(* The kinds of group as initialize_model_parallel lists them.             *)

LEMMA PlainLists ==
  ASSUME NEW g \in Nat, NEW n \in Nat
  PROVE  Lists(g, LAMBDA k : Stride(k * n, n, 1)) = Canonical(g, n, 1)
<1>1. g * 1 = g /\ 1 * n = n  OBVIOUS
<1>2. \A k \in 1 .. g : (k - 1) \div 1 = k - 1 /\ (k - 1) % 1 = 0
  <2>1. \A a \in Int : a * 1 = a /\ a + 0 = a  OBVIOUS
  <2>2. \A a \in Int : (a * 1 + 0) \div 1 = a /\ (a * 1 + 0) % 1 = 0  BY DivUnique
  <2> QED  BY <2>1, <2>2
<1>3. \A k \in 1 .. g : (k - 1) * n + 0 = (k - 1) * n
  <2>1. \A k \in 1 .. g : (k - 1) * n \in Int  OBVIOUS
  <2> QED  BY <2>1
<1> QED  BY <1>1, <1>2, <1>3 DEF Lists, Canonical

LEMMA NestedLists ==
  ASSUME NEW t, NEW k, NEW d, NEW N, NEW T, Three(t, k, d, N, T), NEW j \in Int
  PROVE  /\ (j \div (t * d)) * T + ((j \div t) % d) * t * k + (j % t)
              = (j \div t) * (t * k) + (j % t)
         /\ (j \div (t * d)) * T + ((j \div t) % d) * k * t + (j % t)
              = (j \div t) * (t * k) + (j % t)
<1> DEFINE b == j \div t  e == b \div d  f == b % d  m == j % t
<1>0. t \in Nat \ {0} /\ k \in Nat \ {0} /\ d \in Nat \ {0} /\ T = (t * k) * d
  BY DEF Three
<1>1. b \in Int /\ m \in Int  BY <1>0, DivMod
<1>2. j \div (t * d) = e  BY <1>0, DivDiv
<1> HIDE DEF b, m
<1>3. b = e * d + f /\ e \in Int /\ f \in Int
  <2>1. b \in Int /\ d \in Nat \ {0}  BY <1>0, <1>1
  <2> QED  BY ONLY <2>1, DivMod DEF e, f
<1> HIDE DEF e, f
<1>4. /\ e * ((t * k) * d) + f * t * k = (e * d + f) * (t * k)
      /\ e * ((t * k) * d) + f * k * t = (e * d + f) * (t * k)
  BY ONLY <1>0, <1>3
<1>5. e * T + f * t * k = b * (t * k) /\ e * T + f * k * t = b * (t * k)
  BY ONLY <1>0, <1>3, <1>4
<1> QED  BY <1>2, <1>5 DEF b, f, m

LEMMA ThreeFacts ==
  ASSUME NEW t, NEW k, NEW d, NEW N, NEW T, Three(t, k, d, N, T), NEW p \in Nat \ {0}
  PROVE  /\ t \in Nat \ {0} /\ k \in Nat \ {0} /\ d \in Nat \ {0} /\ N = t * k
         /\ N \in Nat \ {0} /\ p * d \in Nat \ {0} /\ p * d * t \in Nat \ {0}
         /\ p * T = (p * d) * (t * k) /\ p * T = p * (N * d)
         /\ (p * T) \div t = p * (k * d) /\ (p * T) \div k = p * d * t
         /\ p * (k * d) \in Nat \ {0} /\ p * T = (p * (k * d)) * (1 * t)
<1>0. t \in Nat \ {0} /\ k \in Nat \ {0} /\ d \in Nat \ {0} /\ T = (t * k) * d /\ N = t * k
  BY DEF Three
<1>1. \A a, b \in Nat \ {0} : a * b \in Nat \ {0}  BY TwoDigits
<1>2. N \in Nat \ {0} /\ p * d \in Nat \ {0} /\ k * d \in Nat \ {0}  BY <1>0, <1>1
<1>3. p * d * t \in Nat \ {0} /\ p * (k * d) \in Nat \ {0}  BY <1>0, <1>1, <1>2
<1>4. /\ p * ((t * k) * d) = (p * d) * (t * k) /\ p * ((t * k) * d) = (p * (k * d)) * t
      /\ p * ((t * k) * d) = (p * d * t) * k /\ 1 * t = t
  BY ONLY <1>0, p \in Nat \ {0}
<1>5. \A a \in Int, n \in Nat \ {0} : (a * n) \div n = a
  <2> SUFFICES ASSUME NEW a \in Int, NEW n \in Nat \ {0}  PROVE (a * n) \div n = a
    OBVIOUS
  <2>1. (a * n + 0) \div n = a  BY DivUnique
  <2>2. a * n + 0 = a * n  OBVIOUS
  <2> QED  BY <2>1, <2>2
<1>6. (p * T) \div t = p * (k * d)
  <2> DEFINE a == p * (k * d)
  <2>1. p * T = a * t /\ a \in Int  BY <1>0, <1>3, <1>4
  <2> HIDE DEF a
  <2> QED  BY ONLY <1>0, <1>5, <2>1 DEF a
<1>7. (p * T) \div k = p * d * t
  <2> DEFINE a == p * d * t
  <2>1. p * T = a * k /\ a \in Int  BY <1>0, <1>3, <1>4
  <2> HIDE DEF a
  <2> QED  BY ONLY <1>0, <1>5, <2>1 DEF a
<1> QED  BY <1>0, <1>2, <1>3, <1>4, <1>6, <1>7

\* All kinds of group are of one form.
LEMMA ListsCanonical ==
  ASSUME NEW c, Layout(c)
  PROVE  /\ TpLists(c) = Canonical(c.pp, c.tp, 1)
         /\ DcpLists(c) = Canonical(World \div c.dcp, c.dcp, 1)
         /\ AttnCpLists(c) = Canonical(c.pp * c.dp, c.cp, AttnTp(c))
         /\ AttnCpOverlapLists(c) = Canonical(c.pp * c.dp, c.cp, AttnTp(c))
         /\ AttnTpLists(c) = Canonical(World \div AttnTp(c), AttnTp(c), 1)
         /\ MoeDpLists(c) = Canonical(c.pp, c.mdp, MoeTp(c) * c.ep)
         /\ MoeEpLists(c) = Canonical(c.pp * c.mdp, c.ep, MoeTp(c))
         /\ MoeTpLists(c) = Canonical(World \div MoeTp(c), MoeTp(c), 1)
         /\ PpLists(c) = Canonical(1, c.pp, c.tp)
<1> DEFINE t == AttnTp(c)  m == MoeTp(c)  T == c.tp  p == c.pp
<1>1. /\ Three(t, c.cp, c.dp, t * c.cp, T) /\ Three(m, c.ep, c.mdp, m * c.ep, T)
      /\ p \in Nat \ {0} /\ T \in Nat \ {0} /\ c.dcp \in Nat \ {0}
      /\ World = p * T /\ World \in Nat \ {0}
  BY Widths
<1> HIDE DEF t, m, T, p
<1>2. /\ t \in Nat \ {0} /\ c.cp \in Nat \ {0} /\ c.dp \in Nat \ {0}
      /\ p * c.dp \in Nat \ {0} /\ p * c.dp * t \in Nat \ {0}
      /\ World \div t = p * (c.cp * c.dp) /\ World \div c.cp = p * c.dp * t
      /\ p * (c.cp * c.dp) \in Nat \ {0}
  <2> DEFINE N == t * c.cp
  <2>1. Three(t, c.cp, c.dp, N, T) /\ p \in Nat \ {0}  BY <1>1
  <2> HIDE DEF N
  <2>2. /\ t \in Nat \ {0} /\ c.cp \in Nat \ {0} /\ c.dp \in Nat \ {0}
        /\ p * c.dp \in Nat \ {0} /\ p * c.dp * t \in Nat \ {0}
        /\ (p * T) \div t = p * (c.cp * c.dp) /\ (p * T) \div c.cp = p * c.dp * t
        /\ p * (c.cp * c.dp) \in Nat \ {0}
    BY ONLY <2>1, ThreeFacts
  <2> QED  BY ONLY <1>1, <2>2
<1>3. /\ m \in Nat \ {0} /\ c.ep \in Nat \ {0} /\ c.mdp \in Nat \ {0}
      /\ p * c.mdp \in Nat \ {0} /\ p * c.mdp * m \in Nat \ {0}
      /\ World \div m = p * (c.ep * c.mdp) /\ p * (c.ep * c.mdp) \in Nat \ {0}
      /\ m * c.ep \in Nat \ {0} /\ T = (m * c.ep) * c.mdp
  <2> DEFINE N == m * c.ep
  <2>1. Three(m, c.ep, c.mdp, N, T) /\ p \in Nat \ {0}  BY <1>1
  <2> HIDE DEF N
  <2>2. /\ m \in Nat \ {0} /\ c.ep \in Nat \ {0} /\ c.mdp \in Nat \ {0}
        /\ p * c.mdp \in Nat \ {0} /\ p * c.mdp * m \in Nat \ {0}
        /\ (p * T) \div m = p * (c.ep * c.mdp) /\ p * (c.ep * c.mdp) \in Nat \ {0}
        /\ N \in Nat \ {0}
    BY ONLY <2>1, ThreeFacts
  <2>3. T = N * c.mdp  BY <2>1 DEF Three
  <2> QED  BY ONLY <1>1, <2>2, <2>3 DEF N
<1>4. Lists(p, LAMBDA k : Stride(k * T, T, 1)) = Canonical(p, T, 1)
  BY <1>1, PlainLists
<1>5. Lists(World \div t, LAMBDA k : Stride(k * t, t, 1)) = Canonical(World \div t, t, 1)
  BY <1>2, PlainLists
<1>6. Lists(World \div m, LAMBDA k : Stride(k * m, m, 1)) = Canonical(World \div m, m, 1)
  BY <1>3, PlainLists
<1>7. Lists(World \div c.dcp, LAMBDA k : Stride(k * c.dcp, c.dcp, 1))
        = Canonical(World \div c.dcp, c.dcp, 1)
  <2>1. World \div c.dcp \in Nat  BY <1>1
  <2> QED  BY <1>1, <2>1, PlainLists
<1>8. Lists(p * c.dp * t, LAMBDA k :
        Stride((k \div (t * c.dp)) * T + ((k \div t) % c.dp) * t * c.cp + (k % t), c.cp, t))
          = Canonical(p * c.dp, c.cp, t)
  <2>1. \A k \in Int : (k \div (t * c.dp)) * T + ((k \div t) % c.dp) * t * c.cp + (k % t)
                         = (k \div t) * (t * c.cp) + (k % t)
    BY <1>1, NestedLists
  <2>2. \A k \in 1 .. p * c.dp * t : k - 1 \in Int  BY <1>2
  <2> QED  BY ONLY <2>1, <2>2 DEF Lists, Canonical
<1>9. Lists(World \div c.cp, LAMBDA k : Stride((k \div t) * t * c.cp + (k % t), c.cp, t))
        = Canonical(p * c.dp, c.cp, t)
  <2>1. \A k \in Int : (k \div t) * t * c.cp = (k \div t) * (t * c.cp)
    <3> SUFFICES ASSUME NEW k \in Int  PROVE (k \div t) * t * c.cp = (k \div t) * (t * c.cp)
      OBVIOUS
    <3>1. k \div t \in Int  BY <1>2, DivMod
    <3> DEFINE b == k \div t
    <3> HIDE DEF b
    <3>2. b * t * c.cp = b * (t * c.cp)  BY ONLY <1>2, <3>1 DEF b
    <3> QED  BY <3>2 DEF b
  <2>2. \A k \in 1 .. p * c.dp * t : k - 1 \in Int  BY <1>2
  <2>3. World \div c.cp = p * c.dp * t  BY <1>2
  <2> QED  BY ONLY <2>1, <2>2, <2>3 DEF Lists, Canonical
<1>10. Lists(p * (m * c.ep), LAMBDA k :
         Stride((k \div (m * c.ep)) * T + (k % (m * c.ep)), c.mdp, m * c.ep))
           = Canonical(p, c.mdp, m * c.ep)
  BY ONLY <1>3 DEF Lists, Canonical
<1>11. Lists(p * c.mdp * m, LAMBDA k :
         Stride((k \div (m * c.mdp)) * T + ((k \div m) % c.mdp) * c.ep * m + (k % m), c.ep, m))
           = Canonical(p * c.mdp, c.ep, m)
  <2>1. \A k \in Int : (k \div (m * c.mdp)) * T + ((k \div m) % c.mdp) * c.ep * m + (k % m)
                         = (k \div m) * (m * c.ep) + (k % m)
    BY <1>1, NestedLists
  <2>2. \A k \in 1 .. p * c.mdp * m : k - 1 \in Int  BY <1>3
  <2> QED  BY ONLY <2>1, <2>2 DEF Lists, Canonical
<1>12. Lists(World \div p, LAMBDA k : Stride(k, p, World \div p)) = Canonical(1, p, T)
  <2>1. World \div p = T /\ 1 * T = T
    <3>1. p * T = T * p + 0 /\ T \in Int /\ 1 * T = T  BY <1>1
    <3>2. (T * p + 0) \div p = T  BY <1>1, DivUnique
    <3> QED  BY <1>1, <3>1, <3>2
  <2>2. \A k \in 1 .. T : (k - 1) \div T = 0 /\ (k - 1) % T = k - 1
    <3> SUFFICES ASSUME NEW k \in 1 .. T  PROVE (k - 1) \div T = 0 /\ (k - 1) % T = k - 1
      OBVIOUS
    <3>1. k - 1 \in 0 .. T - 1 /\ 0 * T + (k - 1) = k - 1  BY <1>1
    <3> DEFINE i == k - 1
    <3>2. T \in Nat \ {0} /\ i \in 0 .. T - 1  BY <1>1, <3>1
    <3> HIDE DEF i
    <3>3. (0 * T + i) \div T = 0 /\ (0 * T + i) % T = i  BY ONLY <3>2, DivUnique
    <3> QED  BY <3>1, <3>3 DEF i
  <2>3. T * p \in Int  BY <1>1
  <2>4. \A k \in 1 .. T : 0 * (T * p) + (k - 1) = k - 1  BY <1>1, <2>3
  <2> QED  BY ONLY <2>1, <2>2, <2>4 DEF Lists, Canonical
<1> QED  BY <1>4, <1>5, <1>6, <1>7, <1>8, <1>9, <1>10, <1>11, <1>12
         DEF TpLists, DcpLists, AttnCpLists, AttnCpOverlapLists, AttnTpLists, MoeDpLists,
             MoeEpLists, MoeTpLists, PpLists, t, m, T, p

LEMMA Partitions ==
  ASSUME NEW c, Layout(c)
  PROVE  /\ Partition(TpLists(c), c.tp, 1)
         /\ Partition(DcpLists(c), c.dcp, 1)
         /\ Partition(AttnCpLists(c), c.cp, AttnTp(c))
         /\ Partition(AttnCpOverlapLists(c), c.cp, AttnTp(c))
         /\ Partition(AttnTpLists(c), AttnTp(c), 1)
         /\ Partition(MoeDpLists(c), c.mdp, MoeTp(c) * c.ep)
         /\ Partition(MoeEpLists(c), c.ep, MoeTp(c))
         /\ Partition(MoeTpLists(c), MoeTp(c), 1)
         /\ Partition(PpLists(c), c.pp, c.tp)
         /\ Partition(SelfPpLists, 1, 1)
         /\ Partition(<<Stride(0, World, 1)>>, World, 1)
<1> DEFINE t == AttnTp(c)  m == MoeTp(c)  T == c.tp  p == c.pp  N == t * c.cp  M == m * c.ep
<1>1. /\ Three(t, c.cp, c.dp, N, T) /\ Three(m, c.ep, c.mdp, M, T)
      /\ p \in Nat \ {0} /\ T \in Nat \ {0} /\ c.dcp \in Nat \ {0}
      /\ World = p * T /\ World \in Nat \ {0} /\ T % c.dcp = 0
  BY Widths
<1>2. N = t * c.cp /\ M = m * c.ep  OBVIOUS
<1>3. /\ TpLists(c) = Canonical(p, T, 1)
      /\ DcpLists(c) = Canonical(World \div c.dcp, c.dcp, 1)
      /\ AttnCpLists(c) = Canonical(p * c.dp, c.cp, t)
      /\ AttnCpOverlapLists(c) = Canonical(p * c.dp, c.cp, t)
      /\ AttnTpLists(c) = Canonical(World \div t, t, 1)
      /\ MoeDpLists(c) = Canonical(p, c.mdp, M)
      /\ MoeEpLists(c) = Canonical(p * c.mdp, c.ep, m)
      /\ MoeTpLists(c) = Canonical(World \div m, m, 1)
      /\ PpLists(c) = Canonical(1, p, T)
  BY ListsCanonical
<1> HIDE DEF t, m, T, p, N, M
<1>4. /\ t \in Nat \ {0} /\ c.cp \in Nat \ {0} /\ p * c.dp \in Nat \ {0}
      /\ World = (p * c.dp) * (t * c.cp)
      /\ World \div t \in Nat \ {0} /\ World = (World \div t) * (1 * t)
  <2>1. /\ t \in Nat \ {0} /\ c.cp \in Nat \ {0} /\ p * c.dp \in Nat \ {0}
        /\ (p * T) \div t = p * (c.cp * c.dp) /\ p * (c.cp * c.dp) \in Nat \ {0}
    <3>1. Three(t, c.cp, c.dp, N, T) /\ p \in Nat \ {0}  BY ONLY <1>1
    <3> QED  BY ONLY <3>1, ThreeFacts
  <2>2. T = (t * c.cp) * c.dp /\ c.dp \in Nat \ {0}  BY ONLY <1>1 DEF Three
  <2>3. /\ p * ((t * c.cp) * c.dp) = (p * c.dp) * (t * c.cp)
        /\ p * ((t * c.cp) * c.dp) = (p * (c.cp * c.dp)) * (1 * t)
    BY ONLY <1>1, <2>1, <2>2
  <2>4. p * T = (p * c.dp) * (t * c.cp) /\ p * T = (p * (c.cp * c.dp)) * (1 * t)
    BY ONLY <2>2, <2>3
  <2> QED  BY ONLY <1>1, <2>1, <2>4
<1>5. /\ m \in Nat \ {0} /\ c.ep \in Nat \ {0} /\ p * c.mdp \in Nat \ {0}
      /\ M \in Nat \ {0} /\ c.mdp \in Nat \ {0}
      /\ World = (p * c.mdp) * (m * c.ep) /\ World = p * (M * c.mdp)
      /\ World \div m \in Nat \ {0} /\ World = (World \div m) * (1 * m)
  <2>1. /\ m \in Nat \ {0} /\ c.ep \in Nat \ {0} /\ p * c.mdp \in Nat \ {0}
        /\ M \in Nat \ {0}
        /\ (p * T) \div m = p * (c.ep * c.mdp) /\ p * (c.ep * c.mdp) \in Nat \ {0}
    <3>1. Three(m, c.ep, c.mdp, M, T) /\ p \in Nat \ {0}  BY ONLY <1>1
    <3> QED  BY ONLY <3>1, ThreeFacts
  <2>2. T = (m * c.ep) * c.mdp /\ T = M * c.mdp /\ c.mdp \in Nat \ {0}
    BY ONLY <1>1 DEF Three
  <2>3. /\ p * ((m * c.ep) * c.mdp) = (p * c.mdp) * (m * c.ep)
        /\ p * ((m * c.ep) * c.mdp) = (p * (c.ep * c.mdp)) * (1 * m)
    BY ONLY <1>1, <2>1, <2>2
  <2>4. p * T = (p * c.mdp) * (m * c.ep) /\ p * T = (p * (c.ep * c.mdp)) * (1 * m)
    BY ONLY <2>2, <2>3
  <2> QED  BY ONLY <1>1, <2>1, <2>2, <2>4
<1>6. World \div c.dcp \in Nat \ {0} /\ World = (World \div c.dcp) * (1 * c.dcp)
  <2> DEFINE q == T \div c.dcp  a == p * q
  <2>1. T = q * c.dcp + (T % c.dcp) /\ q \in Int
    <3>1. T \in Int /\ c.dcp \in Nat \ {0}  BY ONLY <1>1
    <3> QED  BY ONLY <3>1, DivMod DEF q
  <2> HIDE DEF q
  <2>2. q * c.dcp \in Int  BY <1>1, <2>1
  <2>3. T = q * c.dcp  BY ONLY <1>1, <2>1, <2>2
  <2>4. World = a * c.dcp /\ a \in Int  BY ONLY <1>1, <2>1, <2>3
  <2>5. World \div c.dcp = a
    <3> HIDE DEF a
    <3>1. a \in Int /\ c.dcp \in Nat \ {0} /\ 0 \in 0 .. c.dcp - 1  BY <1>1, <2>4
    <3>2. (a * c.dcp) \div c.dcp = a  BY ONLY <3>1, DivSimple
    <3> QED  BY ONLY <2>4, <3>2
  <2> HIDE DEF a
  <2>6. a \in Nat \ {0}
    <3>1. a <= 0 => (0 - a) * c.dcp >= 0  BY <1>1, <2>4
    <3>2. (0 - a) * c.dcp = 0 - a * c.dcp  BY <1>1, <2>4
    <3> QED  BY <1>1, <2>4, <3>1, <3>2
  <2> QED  BY <1>1, <2>4, <2>5, <2>6
<1>7. World = p * (1 * T) /\ World = 1 * (T * p) /\ World = World * (1 * 1)
      /\ World = 1 * (1 * World)
  BY ONLY <1>1
<1>8. SelfPpLists = Canonical(World, 1, 1)
  <2>1. Lists(World, LAMBDA k : Stride(k * 1, 1, 1)) = Canonical(World, 1, 1)
    BY <1>1, PlainLists
  <2>2. \A k \in 1 .. World : Stride((k - 1) * 1, 1, 1) = <<k - 1>>
    <3> SUFFICES ASSUME NEW k \in 1 .. World  PROVE Stride((k - 1) * 1, 1, 1) = <<k - 1>>
      OBVIOUS
    <3>1. (k - 1) * 1 + (1 - 1) * 1 = k - 1  BY <1>1
    <3>2. \A j \in 1 .. 1 : j = 1  OBVIOUS
    <3> QED  BY <3>1, <3>2 DEF Stride
  <2> QED  BY <2>1, <2>2 DEF Lists, SelfPpLists
<1>9. <<Stride(0, World, 1)>> = Canonical(1, World, 1)
  <2>1. Lists(1, LAMBDA k : Stride(k * World, World, 1)) = Canonical(1, World, 1)
    BY <1>1, PlainLists
  <2>2. \A k \in 1 .. 1 : k = 1  OBVIOUS
  <2>3. (1 - 1) * World = 0  BY <1>1
  <2> QED  BY <2>1, <2>2, <2>3 DEF Lists
<1>10. /\ Partition(Canonical(p, T, 1), T, 1)
       /\ Partition(Canonical(World \div c.dcp, c.dcp, 1), c.dcp, 1)
       /\ Partition(Canonical(p * c.dp, c.cp, t), c.cp, t)
       /\ Partition(Canonical(World \div t, t, 1), t, 1)
       /\ Partition(Canonical(p, c.mdp, M), c.mdp, M)
       /\ Partition(Canonical(p * c.mdp, c.ep, m), c.ep, m)
       /\ Partition(Canonical(World \div m, m, 1), m, 1)
       /\ Partition(Canonical(1, p, T), p, T)
       /\ Partition(Canonical(World, 1, 1), 1, 1)
       /\ Partition(Canonical(1, World, 1), World, 1)
  <2>1. Partition(Canonical(p, T, 1), T, 1)  BY ONLY <1>1, <1>7, CanonicalPartition
  <2>2. Partition(Canonical(World \div c.dcp, c.dcp, 1), c.dcp, 1)
    BY ONLY <1>1, <1>6, CanonicalPartition
  <2>3. Partition(Canonical(p * c.dp, c.cp, t), c.cp, t)  BY ONLY <1>4, CanonicalPartition
  <2>4. Partition(Canonical(World \div t, t, 1), t, 1)  BY ONLY <1>4, CanonicalPartition
  <2>5. Partition(Canonical(p, c.mdp, M), c.mdp, M)  BY ONLY <1>1, <1>5, CanonicalPartition
  <2>6. Partition(Canonical(p * c.mdp, c.ep, m), c.ep, m)  BY ONLY <1>5, CanonicalPartition
  <2>7. Partition(Canonical(World \div m, m, 1), m, 1)  BY ONLY <1>5, CanonicalPartition
  <2>8. Partition(Canonical(1, p, T), p, T)  BY ONLY <1>1, <1>7, CanonicalPartition
  <2>9. Partition(Canonical(World, 1, 1), 1, 1)  BY ONLY <1>1, <1>7, CanonicalPartition
  <2>10. Partition(Canonical(1, World, 1), World, 1)  BY ONLY <1>1, <1>7, CanonicalPartition
  <2> QED  BY ONLY <2>1, <2>2, <2>3, <2>4, <2>5, <2>6, <2>7, <2>8, <2>9, <2>10
<1> QED  BY ONLY <1>3, <1>8, <1>9, <1>10 DEF t, m, T, p, M

\* The ranks meant to be in a group with r, digit by digit.
LEMMA MeantClasses ==
  ASSUME NEW c, Layout(c), NEW r \in Ranks
  PROVE  /\ Alike(c, r, {"stage"}) = Class(c.tp, 1, r)
         /\ Alike(c, r, {"i"}) = Class(c.pp, c.tp, r)
         /\ Alike(c, r, {"stage", "dp", "t"}) = Class(c.cp, AttnTp(c), r)
         /\ Alike(c, r, {"stage", "dp", "cp"}) = Class(AttnTp(c), 1, r)
         /\ Alike(c, r, {"stage", "ep", "m"}) = Class(c.mdp, MoeTp(c) * c.ep, r)
         /\ Alike(c, r, {"stage", "mdp", "m"}) = Class(c.ep, MoeTp(c), r)
         /\ Alike(c, r, {"stage", "mdp", "ep"}) = Class(MoeTp(c), 1, r)
<1> DEFINE t == AttnTp(c)  m == MoeTp(c)  T == c.tp  p == c.pp  N == t * c.cp  M == m * c.ep
<1>1. /\ Three(t, c.cp, c.dp, N, T) /\ Three(m, c.ep, c.mdp, M, T)
      /\ p \in Nat \ {0} /\ T \in Nat \ {0} /\ World = p * T /\ World \in Nat \ {0}
  BY Widths
<1>2. N = t * c.cp /\ M = m * c.ep  OBVIOUS
<1>3. \A s : Place(c, s) =
        [stage |-> s \div T, i |-> s % T,
         dp |-> (s % T) \div N, cp |-> ((s % T) \div t) % c.cp, t |-> (s % T) % t,
         mdp |-> (s % T) \div M, ep |-> ((s % T) \div m) % c.ep, m |-> (s % T) % m]
  BY DEF Place
<1> HIDE DEF t, m, T, p, N, M
<1>4. /\ t \in Nat \ {0} /\ m \in Nat \ {0} /\ N \in Nat \ {0} /\ M \in Nat \ {0}
      /\ 1 * T = T /\ 1 * t = t /\ 1 * m = m
      /\ T = M * c.mdp /\ c.cp \in Nat \ {0} /\ c.ep \in Nat \ {0}
  <2>1. /\ t \in Nat \ {0} /\ N \in Nat \ {0} /\ c.cp \in Nat \ {0}
    BY ONLY <1>1, ThreeFacts
  <2>2. /\ m \in Nat \ {0} /\ M \in Nat \ {0} /\ c.ep \in Nat \ {0}
    BY ONLY <1>1, ThreeFacts
  <2>3. T = M * c.mdp  BY ONLY <1>1 DEF Three
  <2>4. 1 * T = T /\ 1 * t = t /\ 1 * m = m  BY ONLY <1>1, <2>1, <2>2
  <2> QED  BY ONLY <2>1, <2>2, <2>3, <2>4
<1>5. ASSUME NEW s \in Ranks
      PROVE  /\ s \div T = r \div T /\ (s % T) \div N = (r % T) \div N <=> s \div N = r \div N
             /\ s \div N = r \div N /\ ((s % T) \div t) % c.cp = ((r % T) \div t) % c.cp
                  <=> s \div t = r \div t
             /\ (s % T) % t = s % t /\ (r % T) % t = r % t
             /\ s \div T = r \div T /\ (s % T) \div M = (r % T) \div M <=> s \div M = r \div M
             /\ s \div M = r \div M /\ ((s % T) \div m) % c.ep = ((r % T) \div m) % c.ep
                  <=> s \div m = r \div m
             /\ ((s % T) \div m) % c.ep = ((r % T) \div m) % c.ep
                  /\ (s % T) % m = (r % T) % m <=> s % M = r % M
             /\ (s % T) % m = s % m /\ (r % T) % m = r % m
             /\ s \div (T * p) = r \div (T * p) /\ s % 1 = r % 1
  <2>1. s \in Int /\ r \in Int  BY <1>1 DEF Ranks
  <2>2. /\ s \div T = r \div T /\ (s % T) \div N = (r % T) \div N <=> s \div N = r \div N
        /\ s \div N = r \div N /\ ((s % T) \div t) % c.cp = ((r % T) \div t) % c.cp
             <=> s \div t = r \div t
        /\ (s % T) % t = s % t /\ (r % T) % t = r % t
    BY ONLY <1>1, <2>1, Agreeing
  <2>3. /\ s \div T = r \div T /\ (s % T) \div M = (r % T) \div M <=> s \div M = r \div M
        /\ s \div M = r \div M /\ ((s % T) \div m) % c.ep = ((r % T) \div m) % c.ep
             <=> s \div m = r \div m
        /\ ((s % T) \div m) % c.ep = ((r % T) \div m) % c.ep
             /\ (s % T) % m = (r % T) % m <=> s % M = r % M
        /\ (s % T) % m = s % m /\ (r % T) % m = r % m
    BY ONLY <1>1, <2>1, Agreeing
  <2>4. \A a \in Ranks : a \div World = 0
    <3> SUFFICES ASSUME NEW a \in Ranks  PROVE a \div World = 0
      OBVIOUS
    <3>1. a \in 0 .. World - 1 /\ World \in Nat \ {0}  BY <1>1 DEF Ranks
    <3> QED  BY ONLY <3>1, DivSmall
  <2>5. T * p = World  BY ONLY <1>1
  <2>6. s % 1 = r % 1
    <3>1. \A a \in Int : a % 1 \in 0 .. 1 - 1  BY DivMod
    <3> QED  BY <2>1, <3>1
  <2> QED  BY ONLY <2>2, <2>3, <2>4, <2>5, <2>6, r \in Ranks, s \in Ranks
<1>6. \A K, s : s \in Alike(c, r, K) <=>
                  s \in Ranks /\ \A k \in K : Place(c, s)[k] = Place(c, r)[k]
  BY DEF Alike
<1>7. \A n, w, s : s \in Class(n, w, r) <=>
                     s \in Ranks /\ s \div (w * n) = r \div (w * n) /\ s % w = r % w
  BY DEF Class, Free
<1>15. \A s :
         /\ Place(c, s)["stage"] = s \div T /\ Place(c, s)["i"] = s % T
         /\ Place(c, s)["dp"] = (s % T) \div N /\ Place(c, s)["cp"] = ((s % T) \div t) % c.cp
         /\ Place(c, s)["t"] = (s % T) % t /\ Place(c, s)["mdp"] = (s % T) \div M
         /\ Place(c, s)["ep"] = ((s % T) \div m) % c.ep /\ Place(c, s)["m"] = (s % T) % m
  BY ONLY <1>3
<1>8. Alike(c, r, {"stage"}) = Class(T, 1, r)
  <2>1. \A s \in Ranks : (\A k \in {"stage"} : Place(c, s)[k] = Place(c, r)[k])
                           <=> s \div T = r \div T
    BY ONLY <1>15, <1>5
  <2>2. \A s : s \in Alike(c, r, {"stage"}) <=> s \in Class(T, 1, r)
    BY ONLY <1>2, <1>4, <1>5, <1>6, <1>7, <2>1
  <2> QED  BY <2>2
<1>9. Alike(c, r, {"i"}) = Class(p, T, r)
  <2>1. \A s \in Ranks : (\A k \in {"i"} : Place(c, s)[k] = Place(c, r)[k])
                           <=> s % T = r % T
    BY ONLY <1>15, <1>5
  <2>2. \A s : s \in Alike(c, r, {"i"}) <=> s \in Class(p, T, r)
    BY ONLY <1>2, <1>4, <1>5, <1>6, <1>7, <2>1
  <2> QED  BY <2>2
<1>10. Alike(c, r, {"stage", "dp", "t"}) = Class(c.cp, t, r)
  <2>1. \A s \in Ranks : (\A k \in {"stage", "dp", "t"} : Place(c, s)[k] = Place(c, r)[k])
                           <=> s \div N = r \div N /\ s % t = r % t
    BY ONLY <1>15, <1>5
  <2>2. \A s : s \in Alike(c, r, {"stage", "dp", "t"}) <=> s \in Class(c.cp, t, r)
    BY ONLY <1>2, <1>4, <1>5, <1>6, <1>7, <2>1
  <2> QED  BY <2>2
<1>11. Alike(c, r, {"stage", "dp", "cp"}) = Class(t, 1, r)
  <2>1. \A s \in Ranks : (\A k \in {"stage", "dp", "cp"} : Place(c, s)[k] = Place(c, r)[k])
                           <=> s \div t = r \div t
    BY ONLY <1>15, <1>5
  <2>2. \A s : s \in Alike(c, r, {"stage", "dp", "cp"}) <=> s \in Class(t, 1, r)
    BY ONLY <1>2, <1>4, <1>5, <1>6, <1>7, <2>1
  <2> QED  BY <2>2
<1>12. Alike(c, r, {"stage", "ep", "m"}) = Class(c.mdp, M, r)
  <2>1. \A s \in Ranks : (\A k \in {"stage", "ep", "m"} : Place(c, s)[k] = Place(c, r)[k])
                           <=> s \div T = r \div T /\ s % M = r % M
    BY ONLY <1>15, <1>5
  <2>2. \A s : s \in Alike(c, r, {"stage", "ep", "m"}) <=> s \in Class(c.mdp, M, r)
    BY ONLY <1>2, <1>4, <1>5, <1>6, <1>7, <2>1
  <2> QED  BY <2>2
<1>13. Alike(c, r, {"stage", "mdp", "m"}) = Class(c.ep, m, r)
  <2>1. \A s \in Ranks : (\A k \in {"stage", "mdp", "m"} : Place(c, s)[k] = Place(c, r)[k])
                           <=> s \div M = r \div M /\ s % m = r % m
    BY ONLY <1>15, <1>5
  <2>2. \A s : s \in Alike(c, r, {"stage", "mdp", "m"}) <=> s \in Class(c.ep, m, r)
    BY ONLY <1>2, <1>4, <1>5, <1>6, <1>7, <2>1
  <2> QED  BY <2>2
<1>14. Alike(c, r, {"stage", "mdp", "ep"}) = Class(m, 1, r)
  <2>1. \A s \in Ranks : (\A k \in {"stage", "mdp", "ep"} : Place(c, s)[k] = Place(c, r)[k])
                           <=> s \div m = r \div m
    BY ONLY <1>15, <1>5
  <2>2. \A s : s \in Alike(c, r, {"stage", "mdp", "ep"}) <=> s \in Class(m, 1, r)
    BY ONLY <1>2, <1>4, <1>5, <1>6, <1>7, <2>1
  <2> QED  BY <2>2
<1> QED  BY ONLY <1>8, <1>9, <1>10, <1>11, <1>12, <1>13, <1>14 DEF t, m, T, p, M

-----------------------------------------------------------------------------
(* The coordinators of a layout.                                           *)

Kinds(c) ==
  {Coordinator("world", <<Stride(0, World, 1)>>, FALSE, FALSE, FALSE),
   Coordinator("tp", TpLists(c), TRUE, TRUE, c.mq),
   Coordinator("pdmux_prefill_tp", TpLists(c), TRUE, TRUE, c.mq),
   Coordinator("dcp", DcpLists(c), TRUE, TRUE, c.mq),
   Coordinator("attn_cp", AttnCpLists(c), TRUE, TRUE, c.mq),
   Coordinator("attn_cp_overlap", AttnCpOverlapLists(c), TRUE, TRUE, FALSE),
   Coordinator("attention_tp", AttnTpLists(c), c.symm, FALSE, c.mq),
   Coordinator("moe_dp", MoeDpLists(c), TRUE, TRUE, FALSE),
   Coordinator("moe_ep", MoeEpLists(c), FALSE, FALSE, FALSE),
   Coordinator("moe_tp", MoeTpLists(c), FALSE, FALSE, FALSE),
   Coordinator("pp", PpLists(c), TRUE, FALSE, FALSE),
   Coordinator("self_pp", SelfPpLists, TRUE, FALSE, FALSE)}

LEMMA ConcatSeq ==
  ASSUME NEW S, NEW a \in Seq(S), NEW b \in Seq(S)
  PROVE  a \o b \in Seq(S)
  OBVIOUS

LEMMA OnlySeq ==
  ASSUME NEW S, NEW x \in S, NEW condition
  PROVE  Only(condition, <<x>>) \in Seq(S)
  BY DEF Only

LEMMA CoordinatorsKinds ==
  ASSUME NEW c
  PROVE  Coordinators(c) \in Seq(Kinds(c))
<1> DEFINE new(name) == name \in {Backing(c)[k] : k \in DOMAIN Backing(c)}
           world == Coordinator("world", <<Stride(0, World, 1)>>, FALSE, FALSE, FALSE)
           tp == Coordinator("tp", TpLists(c), TRUE, TRUE, c.mq)
           pdmux == Coordinator("pdmux_prefill_tp", TpLists(c), TRUE, TRUE, c.mq)
           dcp == Coordinator("dcp", DcpLists(c), TRUE, TRUE, c.mq)
           attn_cp == Coordinator("attn_cp", AttnCpLists(c), TRUE, TRUE, c.mq)
           overlap == Coordinator("attn_cp_overlap", AttnCpOverlapLists(c), TRUE, TRUE, FALSE)
           attn_tp == Coordinator("attention_tp", AttnTpLists(c), c.symm, FALSE, c.mq)
           moe_dp == Coordinator("moe_dp", MoeDpLists(c), TRUE, TRUE, FALSE)
           moe_ep == Coordinator("moe_ep", MoeEpLists(c), FALSE, FALSE, FALSE)
           moe_tp == Coordinator("moe_tp", MoeTpLists(c), FALSE, FALSE, FALSE)
           pp == Coordinator("pp", PpLists(c), TRUE, FALSE, FALSE)
           self_pp == Coordinator("self_pp", SelfPpLists, TRUE, FALSE, FALSE)
           S == {world, tp, pdmux, dcp, attn_cp, overlap, attn_tp, moe_dp, moe_ep, moe_tp,
                 pp, self_pp}
           p1 == c.pdmux  p2 == c.dcp > 1  p3 == new("attn_cp")  p4 == c.overlap /\ c.cp > 1
           p5 == new("attention_tp")  p6 == new("moe_dp")  p7 == new("moe_ep")
           p8 == new("moe_tp")
<1>1. Kinds(c) = S  BY DEF Kinds
<1>2. Coordinators(c) =
        <<world, tp>> \o Only(p1, <<pdmux>>) \o Only(p2, <<dcp>>) \o Only(p3, <<attn_cp>>)
        \o Only(p4, <<overlap>>) \o Only(p5, <<attn_tp>>) \o Only(p6, <<moe_dp>>)
        \o Only(p7, <<moe_ep>>) \o Only(p8, <<moe_tp>>) \o <<pp, self_pp>>
  BY DEF Coordinators
<1>3. /\ world \in S /\ tp \in S /\ pdmux \in S /\ dcp \in S /\ attn_cp \in S /\ overlap \in S
      /\ attn_tp \in S /\ moe_dp \in S /\ moe_ep \in S /\ moe_tp \in S /\ pp \in S
      /\ self_pp \in S
  OBVIOUS
<1> HIDE DEF S, world, tp, pdmux, dcp, attn_cp, overlap, attn_tp, moe_dp, moe_ep, moe_tp, pp,
             self_pp, p1, p2, p3, p4, p5, p6, p7, p8
<1>4. <<world, tp>> \in Seq(S) /\ <<pp, self_pp>> \in Seq(S)  BY <1>3
<1>5. /\ Only(p1, <<pdmux>>) \in Seq(S) /\ Only(p2, <<dcp>>) \in Seq(S)
      /\ Only(p3, <<attn_cp>>) \in Seq(S) /\ Only(p4, <<overlap>>) \in Seq(S)
      /\ Only(p5, <<attn_tp>>) \in Seq(S) /\ Only(p6, <<moe_dp>>) \in Seq(S)
      /\ Only(p7, <<moe_ep>>) \in Seq(S) /\ Only(p8, <<moe_tp>>) \in Seq(S)
  BY ONLY <1>3, OnlySeq
<1> DEFINE s1 == Only(p1, <<pdmux>>)  s2 == Only(p2, <<dcp>>)  s3 == Only(p3, <<attn_cp>>)
           s4 == Only(p4, <<overlap>>)  s5 == Only(p5, <<attn_tp>>)
           s6 == Only(p6, <<moe_dp>>)  s7 == Only(p7, <<moe_ep>>)  s8 == Only(p8, <<moe_tp>>)
           first == <<world, tp>>  last == <<pp, self_pp>>
<1>6. Coordinators(c) = first \o s1 \o s2 \o s3 \o s4 \o s5 \o s6 \o s7 \o s8 \o last
  BY ONLY <1>2
<1>7. /\ first \in Seq(S) /\ last \in Seq(S) /\ s1 \in Seq(S) /\ s2 \in Seq(S)
      /\ s3 \in Seq(S) /\ s4 \in Seq(S) /\ s5 \in Seq(S) /\ s6 \in Seq(S)
      /\ s7 \in Seq(S) /\ s8 \in Seq(S)
  BY ONLY <1>4, <1>5
<1> HIDE DEF s1, s2, s3, s4, s5, s6, s7, s8, first, last
<1>8. first \o s1 \o s2 \o s3 \in Seq(S)  BY ONLY <1>7, ConcatSeq
<1>9. first \o s1 \o s2 \o s3 \o s4 \o s5 \o s6 \in Seq(S)
  <2> DEFINE a == first \o s1 \o s2 \o s3
  <2>1. a \in Seq(S)  BY <1>8
  <2> HIDE DEF a
  <2>2. a \o s4 \o s5 \o s6 \in Seq(S)  BY ONLY <1>7, <2>1, ConcatSeq
  <2> QED  BY <2>2 DEF a
<1>10. first \o s1 \o s2 \o s3 \o s4 \o s5 \o s6 \o s7 \o s8 \o last \in Seq(S)
  <2> DEFINE a == first \o s1 \o s2 \o s3 \o s4 \o s5 \o s6
  <2>1. a \in Seq(S)  BY <1>9
  <2> HIDE DEF a
  <2>2. a \o s7 \o s8 \o last \in Seq(S)  BY ONLY <1>7, <2>1, ConcatSeq
  <2> QED  BY <2>2 DEF a
<1> QED  BY ONLY <1>1, <1>6, <1>10

LEMMA CoordinatorKind ==
  ASSUME NEW c, NEW k \in ToSet(Coordinators(c))
  PROVE  k \in Kinds(c)
  BY CoordinatorsKinds DEF ToSet

\* Each coordinator partitions the ranks, and as every kind of group it serves is meant to.
Serves(c, k) ==
  \E n, w : /\ Partition(k.lists, n, w)
            /\ \A r \in Ranks : \A kind \in DOMAIN Meant(c, r) :
                 NameOf(c, kind) = k.name => Class(n, w, r) = Meant(c, r)[kind]

\* Where two kinds of group have one coordinator, they have the same ranks.
LEMMA SharedWidths ==
  ASSUME NEW c, Layout(c)
  PROVE  /\ c.cp = c.tp => AttnTp(c) = 1
         /\ c.mdp = c.tp => MoeTp(c) * c.ep = 1
         /\ c.ep = c.tp => MoeTp(c) = 1
<1> DEFINE t == AttnTp(c)  m == MoeTp(c)  T == c.tp  N == t * c.cp  M == m * c.ep
<1>1. Three(t, c.cp, c.dp, N, T) /\ Three(m, c.ep, c.mdp, M, T) /\ T \in Nat \ {0}
  BY Widths
<1> HIDE DEF t, m, T, N, M
<1>2. \A a, b \in Nat \ {0} : a * b = b => a = 1
  <2> SUFFICES ASSUME NEW a \in Nat \ {0}, NEW b \in Nat \ {0}, a > 1  PROVE a * b > b
    OBVIOUS
  <2>1. (a - 1) * b >= 1  BY TwoDigits
  <2>2. (a - 1) * b = a * b - b /\ a * b \in Int  OBVIOUS
  <2> QED  BY <2>1, <2>2
<1>3. \A a, b \in Nat \ {0} : a * b \in Nat \ {0}  BY TwoDigits
<1>4. ASSUME NEW x \in Nat \ {0}, NEW k \in Nat \ {0}, NEW d \in Nat \ {0},
             T = (x * k) * d, k = T
      PROVE  x = 1
  <2>1. (x * k) * d = (x * d) * k  BY ONLY x \in Nat \ {0}, k \in Nat \ {0}, d \in Nat \ {0}
  <2>2. x * d \in Nat \ {0}  BY <1>3
  <2>3. x * d = 1  BY ONLY <1>2, <1>4, <2>1, <2>2, k \in Nat \ {0}
  <2>4. x > 1 => x * d > 1
    <3>1. (x - 1) * d >= 0 /\ (x - 1) * d = x * d - d /\ x * d \in Int  OBVIOUS
    <3>2. x > 1 => (x - 1) * d >= 1  BY TwoDigits
    <3> QED  BY <3>1, <3>2
  <2> QED  BY <2>3, <2>4
<1>5. /\ t \in Nat \ {0} /\ c.cp \in Nat \ {0} /\ c.dp \in Nat \ {0}
      /\ T = (t * c.cp) * c.dp
  BY ONLY <1>1 DEF Three
<1>6. /\ m \in Nat \ {0} /\ c.ep \in Nat \ {0} /\ c.mdp \in Nat \ {0} /\ M \in Nat \ {0}
      /\ T = (m * c.ep) * c.mdp /\ T = M * c.mdp /\ M = m * c.ep
  BY ONLY <1>1, <1>3 DEF Three
<1> QED  BY ONLY <1>2, <1>4, <1>5, <1>6 DEF t, m, T, M

LEMMA KindLists ==
  ASSUME NEW c, NEW k \in Kinds(c)
  PROVE  \/ k.name \in {"tp", "pdmux_prefill_tp"} /\ k.lists = TpLists(c)
         \/ k.name = "world" /\ k.lists = <<Stride(0, World, 1)>>
         \/ k.name = "dcp" /\ k.lists = DcpLists(c)
         \/ k.name = "attn_cp" /\ k.lists = AttnCpLists(c)
         \/ k.name = "attn_cp_overlap" /\ k.lists = AttnCpOverlapLists(c)
         \/ k.name = "attention_tp" /\ k.lists = AttnTpLists(c)
         \/ k.name = "moe_dp" /\ k.lists = MoeDpLists(c)
         \/ k.name = "moe_ep" /\ k.lists = MoeEpLists(c)
         \/ k.name = "moe_tp" /\ k.lists = MoeTpLists(c)
         \/ k.name = "pp" /\ k.lists = PpLists(c)
         \/ k.name = "self_pp" /\ k.lists = SelfPpLists
<1> DEFINE Known(name, lists) == k.name = name /\ k.lists = lists
<1>1. k = Coordinator("world", <<Stride(0, World, 1)>>, FALSE, FALSE, FALSE) => Known("world", <<Stride(0, World, 1)>>)
  BY DEF Coordinator
<1>2. k = Coordinator("tp", TpLists(c), TRUE, TRUE, c.mq) => Known("tp", TpLists(c))
  BY DEF Coordinator
<1>3. k = Coordinator("pdmux_prefill_tp", TpLists(c), TRUE, TRUE, c.mq) => Known("pdmux_prefill_tp", TpLists(c))
  BY DEF Coordinator
<1>4. k = Coordinator("dcp", DcpLists(c), TRUE, TRUE, c.mq) => Known("dcp", DcpLists(c))
  BY DEF Coordinator
<1>5. k = Coordinator("attn_cp", AttnCpLists(c), TRUE, TRUE, c.mq) => Known("attn_cp", AttnCpLists(c))
  BY DEF Coordinator
<1>6. k = Coordinator("attn_cp_overlap", AttnCpOverlapLists(c), TRUE, TRUE, FALSE) => Known("attn_cp_overlap", AttnCpOverlapLists(c))
  BY DEF Coordinator
<1>7. k = Coordinator("attention_tp", AttnTpLists(c), c.symm, FALSE, c.mq) => Known("attention_tp", AttnTpLists(c))
  BY DEF Coordinator
<1>8. k = Coordinator("moe_dp", MoeDpLists(c), TRUE, TRUE, FALSE) => Known("moe_dp", MoeDpLists(c))
  BY DEF Coordinator
<1>9. k = Coordinator("moe_ep", MoeEpLists(c), FALSE, FALSE, FALSE) => Known("moe_ep", MoeEpLists(c))
  BY DEF Coordinator
<1>10. k = Coordinator("moe_tp", MoeTpLists(c), FALSE, FALSE, FALSE) => Known("moe_tp", MoeTpLists(c))
  BY DEF Coordinator
<1>11. k = Coordinator("pp", PpLists(c), TRUE, FALSE, FALSE) => Known("pp", PpLists(c))
  BY DEF Coordinator
<1>12. k = Coordinator("self_pp", SelfPpLists, TRUE, FALSE, FALSE) => Known("self_pp", SelfPpLists)
  BY DEF Coordinator
<1> QED  BY <1>1, <1>2, <1>3, <1>4, <1>5, <1>6, <1>7, <1>8, <1>9, <1>10, <1>11, <1>12 DEF Kinds

LEMMA CoordinatorServes ==
  ASSUME NEW c, Layout(c), NEW k \in Kinds(c)
  PROVE  Serves(c, k)
<1> DEFINE t == AttnTp(c)  m == MoeTp(c)  T == c.tp  M == m * c.ep
<1>1. \A r \in Ranks : Meant(c, r) =
        [tp |-> Class(T, 1, r), pp |-> Class(c.pp, T, r),
         attn_cp |-> Class(c.cp, t, r), attn_cp_overlap |-> Class(c.cp, t, r),
         attn_tp |-> Class(t, 1, r),
         moe_dp |-> IF c.cp > c.mdp THEN Class(c.cp, t, r) ELSE Class(c.mdp, M, r),
         moe_ep |-> Class(c.ep, m, r), moe_tp |-> Class(m, 1, r)]
  BY MeantClasses DEF Meant
<1>2. /\ Partition(TpLists(c), T, 1) /\ Partition(DcpLists(c), c.dcp, 1)
      /\ Partition(AttnCpLists(c), c.cp, t) /\ Partition(AttnCpOverlapLists(c), c.cp, t)
      /\ Partition(AttnTpLists(c), t, 1) /\ Partition(MoeDpLists(c), c.mdp, M)
      /\ Partition(MoeEpLists(c), c.ep, m) /\ Partition(MoeTpLists(c), m, 1)
      /\ Partition(PpLists(c), c.pp, T) /\ Partition(SelfPpLists, 1, 1)
      /\ Partition(<<Stride(0, World, 1)>>, World, 1)
  BY Partitions
<1>3. (c.cp = T => t = 1) /\ (c.mdp = T => M = 1) /\ (c.ep = T => m = 1)
  BY SharedWidths
<1> DEFINE cp == IF c.cp = T THEN "tp" ELSE "attn_cp"
<1>4. /\ NameOf(c, "tp") = "tp" /\ NameOf(c, "pp") = "pp"
      /\ NameOf(c, "attn_cp") = cp /\ NameOf(c, "attn_cp_overlap") = "attn_cp_overlap"
      /\ NameOf(c, "attn_tp") = IF t = T THEN "tp" ELSE "attention_tp"
      /\ NameOf(c, "moe_dp") = IF c.cp > c.mdp THEN cp
                               ELSE IF c.mdp = T THEN "tp" ELSE "moe_dp"
      /\ NameOf(c, "moe_ep") = IF c.ep = T THEN "tp" ELSE "moe_ep"
      /\ NameOf(c, "moe_tp") = IF m = T THEN "tp" ELSE "moe_tp"
  BY DEF NameOf, Backing, AttnCp
<1>5. \A r \in Ranks : DOMAIN Meant(c, r) =
        {"tp", "pp", "attn_cp", "attn_cp_overlap", "attn_tp", "moe_dp", "moe_ep", "moe_tp"}
  BY ONLY <1>1
<1>6. \A r \in Ranks :
        /\ Meant(c, r)["tp"] = Class(T, 1, r) /\ Meant(c, r)["pp"] = Class(c.pp, T, r)
        /\ Meant(c, r)["attn_cp"] = Class(c.cp, t, r)
        /\ Meant(c, r)["attn_cp_overlap"] = Class(c.cp, t, r)
        /\ Meant(c, r)["attn_tp"] = Class(t, 1, r)
        /\ Meant(c, r)["moe_dp"]
             = IF c.cp > c.mdp THEN Class(c.cp, t, r) ELSE Class(c.mdp, M, r)
        /\ Meant(c, r)["moe_ep"] = Class(c.ep, m, r)
        /\ Meant(c, r)["moe_tp"] = Class(m, 1, r)
  BY ONLY <1>1
<1>8. \/ k.name \in {"tp", "pdmux_prefill_tp"} /\ k.lists = TpLists(c)
      \/ k.name = "world" /\ k.lists = <<Stride(0, World, 1)>>
      \/ k.name = "dcp" /\ k.lists = DcpLists(c)
      \/ k.name = "attn_cp" /\ k.lists = AttnCpLists(c)
      \/ k.name = "attn_cp_overlap" /\ k.lists = AttnCpOverlapLists(c)
      \/ k.name = "attention_tp" /\ k.lists = AttnTpLists(c)
      \/ k.name = "moe_dp" /\ k.lists = MoeDpLists(c)
      \/ k.name = "moe_ep" /\ k.lists = MoeEpLists(c)
      \/ k.name = "moe_tp" /\ k.lists = MoeTpLists(c)
      \/ k.name = "pp" /\ k.lists = PpLists(c)
      \/ k.name = "self_pp" /\ k.lists = SelfPpLists
  BY KindLists
<1> HIDE DEF t, m, T, M
<1>9. ASSUME NEW n, NEW w, Partition(k.lists, n, w),
             \A r \in Ranks : \A kind \in DOMAIN Meant(c, r) :
               NameOf(c, kind) = k.name => Class(n, w, r) = Meant(c, r)[kind]
      PROVE  Serves(c, k)
  BY ONLY <1>9 DEF Serves
<1>10. CASE k.name \in {"tp", "pdmux_prefill_tp"} /\ k.lists = TpLists(c)
  <2>1. \A r \in Ranks : \A kind \in DOMAIN Meant(c, r) :
          NameOf(c, kind) = k.name => Class(T, 1, r) = Meant(c, r)[kind]
    BY ONLY <1>3, <1>4, <1>5, <1>6, <1>10
  <2> QED  BY ONLY <1>2, <1>9, <1>10, <2>1
<1>11. CASE k.name \in {"world", "dcp", "self_pp"}
  <2>1. \A r \in Ranks : \A kind \in DOMAIN Meant(c, r) : NameOf(c, kind) # k.name
    BY ONLY <1>4, <1>5, <1>11
  <2> QED  BY ONLY <1>2, <1>8, <1>9, <1>11, <2>1
<1>12. CASE k.name \in {"attn_cp", "attn_cp_overlap"}
  <2>1. \A r \in Ranks : \A kind \in DOMAIN Meant(c, r) :
          NameOf(c, kind) = k.name => Class(c.cp, t, r) = Meant(c, r)[kind]
    BY ONLY <1>4, <1>5, <1>6, <1>12
  <2>2. Partition(k.lists, c.cp, t)  BY ONLY <1>2, <1>8, <1>12
  <2> QED  BY ONLY <2>1, <2>2 DEF Serves
<1>13. CASE k.name = "attention_tp" /\ k.lists = AttnTpLists(c)
  <2>1. \A r \in Ranks : \A kind \in DOMAIN Meant(c, r) :
          NameOf(c, kind) = k.name => Class(t, 1, r) = Meant(c, r)[kind]
    BY ONLY <1>4, <1>5, <1>6, <1>13
  <2>2. Partition(k.lists, t, 1)  BY ONLY <1>2, <1>13
  <2> QED  BY ONLY <2>1, <2>2 DEF Serves
<1>14. CASE k.name = "moe_dp" /\ k.lists = MoeDpLists(c)
  <2>1. \A r \in Ranks : \A kind \in DOMAIN Meant(c, r) :
          NameOf(c, kind) = k.name => Class(c.mdp, M, r) = Meant(c, r)[kind]
    BY ONLY <1>4, <1>5, <1>6, <1>14
  <2>2. Partition(k.lists, c.mdp, M)  BY ONLY <1>2, <1>14
  <2> QED  BY ONLY <2>1, <2>2 DEF Serves
<1>15. CASE k.name = "moe_ep" /\ k.lists = MoeEpLists(c)
  <2>1. \A r \in Ranks : \A kind \in DOMAIN Meant(c, r) :
          NameOf(c, kind) = k.name => Class(c.ep, m, r) = Meant(c, r)[kind]
    BY ONLY <1>4, <1>5, <1>6, <1>15
  <2>2. Partition(k.lists, c.ep, m)  BY ONLY <1>2, <1>15
  <2> QED  BY ONLY <2>1, <2>2 DEF Serves
<1>16. CASE k.name = "moe_tp" /\ k.lists = MoeTpLists(c)
  <2>1. \A r \in Ranks : \A kind \in DOMAIN Meant(c, r) :
          NameOf(c, kind) = k.name => Class(m, 1, r) = Meant(c, r)[kind]
    BY ONLY <1>4, <1>5, <1>6, <1>16
  <2>2. Partition(k.lists, m, 1)  BY ONLY <1>2, <1>16
  <2> QED  BY ONLY <2>1, <2>2 DEF Serves
<1>17. CASE k.name = "pp" /\ k.lists = PpLists(c)
  <2>1. \A r \in Ranks : \A kind \in DOMAIN Meant(c, r) :
          NameOf(c, kind) = k.name => Class(c.pp, T, r) = Meant(c, r)[kind]
    BY ONLY <1>4, <1>5, <1>6, <1>17
  <2>2. Partition(k.lists, c.pp, T)  BY ONLY <1>2, <1>17
  <2> QED  BY ONLY <2>1, <2>2 DEF Serves
<1> QED  BY ONLY <1>8, <1>10, <1>11, <1>12, <1>13, <1>14, <1>15, <1>16, <1>17

(***************************************************************************)
(* In every layout each rank is in exactly one list of each coordinator,   *)
(* and that list has the ranks that the kinds of group it serves are meant *)
(* to have: those that agree with the rank on every coordinate but the     *)
(* group's own (the loops over ranks of initialize_model_parallel, and its *)
(* choice of coordinators to use twice).                                   *)
(***************************************************************************)
THEOREM GroupsAsMeant ==
  ASSUME NEW c, Layout(c), NEW k \in ToSet(Coordinators(c)), NEW r \in Ranks
  PROVE  \E mine \in ToSet(k.lists) :
           /\ \A list \in ToSet(k.lists) : r \in ToSet(list) <=> list = mine
           /\ \A kind \in DOMAIN Meant(c, r) :
                NameOf(c, kind) = k.name => ToSet(mine) = Meant(c, r)[kind]
<1>1. PICK n, w : /\ Partition(k.lists, n, w)
                  /\ \A kind \in DOMAIN Meant(c, r) :
                       NameOf(c, kind) = k.name => Class(n, w, r) = Meant(c, r)[kind]
  BY CoordinatorKind, CoordinatorServes DEF Serves
<1>2. PICK j \in DOMAIN k.lists : r \in ToSet(k.lists[j])  BY <1>1 DEF Partition
<1>3. ToSet(k.lists[j]) = Class(n, w, r)  BY <1>1, <1>2 DEF Partition
<1>4. ASSUME NEW list \in ToSet(k.lists), r \in ToSet(list)  PROVE list = k.lists[j]
  <2>1. PICK i \in DOMAIN k.lists : list = k.lists[i]  BY DEF ToSet
  <2>2. i = j  BY <1>1, <1>2, <1>4, <2>1 DEF Partition
  <2> QED  BY <2>1, <2>2
<1>5. k.lists[j] \in ToSet(k.lists)  BY <1>2 DEF ToSet
<1> WITNESS k.lists[j] \in ToSet(k.lists)
<1> QED  BY <1>1, <1>2, <1>3, <1>4

(***************************************************************************)
(* The second communicator over the ranks of context parallelism, laid out *)
(* by a loop of its own, has the lists of the first in every layout:       *)
(* initialize_model_parallel asserts that it does.                         *)
(***************************************************************************)
THEOREM OverlapAsserted ==
  ASSUME NEW c, Layout(c)
  PROVE  AttnCpOverlapLists(c) = AttnCpLists(c)
  BY ListsCanonical

-----------------------------------------------------------------------------
(* The programs of the ranks.                                              *)

\* A set of numbers has a least one.
LEMMA Least ==
  ASSUME NEW S \in SUBSET Nat, S # {}
  PROVE  \E x \in S : \A y \in S : x <= y
<1>1. PICK x \in S : \A y \in S : ~(<<y, x>> \in OpToRel(<, Nat))
  BY NatLessThanWellFounded, WFMin
<1>2. \A y \in S : ~(y < x)  BY <1>1 DEF OpToRel
<1> QED  BY <1>2

\* The equation of FlattenSeq, as far as n.
Flattens(f, seqs, n) ==
  f = [i \in 1 .. n |-> IF i = 1 THEN seqs[i] ELSE f[i - 1] \o seqs[i]]

LEMMA FlattenExists ==
  ASSUME NEW A, NEW seqs \in Seq(Seq(A)), NEW n \in Nat
  PROVE  \E f : Flattens(f, seqs, n)
<1> DEFINE T == {i \in Nat : ~\E f : Flattens(f, seqs, i)}
<1>1. SUFFICES ASSUME T # {}  PROVE FALSE  OBVIOUS
<1>2. PICK i \in T : \A j \in T : i <= j
  <2>1. T \in SUBSET Nat  OBVIOUS
  <2> HIDE DEF T
  <2> QED  BY <1>1, <2>1, Least
<1>3. i # 0
  <2>1. Flattens([j \in 1 .. 0 |-> j], seqs, 0)  BY DEF Flattens
  <2> QED  BY <2>1
<1>4. i - 1 \in Nat /\ i - 1 \notin T  BY <1>2, <1>3
<1>5. PICK f : Flattens(f, seqs, i - 1)  BY <1>4
<1> DEFINE g == [j \in 1 .. i |-> IF j = 1 THEN seqs[j] ELSE f[j - 1] \o seqs[j]]
<1>6. \A j \in 1 .. i - 1 : g[j] = f[j]
  <2>1. \A j \in 1 .. i - 1 : f[j] = IF j = 1 THEN seqs[j] ELSE f[j - 1] \o seqs[j]
    BY <1>5 DEF Flattens
  <2> QED  BY <1>4, <2>1
<1>7. \A j \in 1 .. i : j # 1 => j - 1 \in 1 .. i - 1  BY <1>4
<1>8. \A j \in 1 .. i : j # 1 => f[j - 1] = g[j - 1]  BY <1>6, <1>7
<1>9. g = [j \in 1 .. i |-> IF j = 1 THEN seqs[j] ELSE g[j - 1] \o seqs[j]]
  <2> DEFINE h == [j \in 1 .. i |-> IF j = 1 THEN seqs[j] ELSE g[j - 1] \o seqs[j]]
  <2>1. \A j \in 1 .. i : g[j] = h[j]
    <3>1. \A j \in 1 .. i : g[j] = IF j = 1 THEN seqs[j] ELSE f[j - 1] \o seqs[j]
      OBVIOUS
    <3>2. \A j \in 1 .. i : h[j] = IF j = 1 THEN seqs[j] ELSE g[j - 1] \o seqs[j]
      OBVIOUS
    <3> HIDE DEF g, h, T
    <3> QED  BY <1>8, <3>1, <3>2
  <2>2. g = [j \in 1 .. i |-> g[j]] /\ h = [j \in 1 .. i |-> h[j]]  OBVIOUS
  <2> HIDE DEF g, h, T
  <2>3. g = h  BY <2>1, <2>2
  <2> QED  BY <2>3 DEF h
<1>10. Flattens(g, seqs, i)  BY ONLY <1>9 DEF Flattens
<1> HIDE DEF g
<1> QED  BY <1>10

\* The sequences of which FlattenSeq's is the last.
LEMMA FlattenUnfolds ==
  ASSUME NEW A, NEW seqs \in Seq(Seq(A)), seqs # << >>
  PROVE  \E f : /\ FlattenSeq(seqs) = f[Len(seqs)]
                /\ \A i \in 1 .. Len(seqs) :
                     /\ f[i] \in Seq(A)
                     /\ f[i] = IF i = 1 THEN seqs[i] ELSE f[i - 1] \o seqs[i]
<1> DEFINE n == Len(seqs)  f == CHOOSE g : Flattens(g, seqs, n)
           T == {i \in 1 .. n : f[i] \notin Seq(A)}
<1>1. n \in Nat \ {0}  OBVIOUS
<1>2. FlattenSeq(seqs) = f[n]  BY <1>1 DEF FlattenSeq, Flattens
<1>3. Flattens(f, seqs, n)  BY <1>1, FlattenExists
<1> HIDE DEF f, n
<1>4. \A i \in 1 .. n : f[i] = IF i = 1 THEN seqs[i] ELSE f[i - 1] \o seqs[i]
  BY <1>3 DEF Flattens
<1>5. T = {}
  <2>1. SUFFICES ASSUME T # {}  PROVE FALSE  OBVIOUS
  <2>2. PICK i \in T : \A j \in T : i <= j
    <3>1. T \in SUBSET Nat  BY <1>1
    <3> HIDE DEF T
    <3> QED  BY <2>1, <3>1, Least
  <2>3. i \in 1 .. n /\ seqs[i] \in Seq(A)  BY DEF n
  <2>4. i # 1  BY <1>4, <2>2, <2>3
  <2>5. i - 1 \in 1 .. n /\ i - 1 \notin T  BY <1>1, <2>2, <2>3, <2>4
  <2>6. f[i - 1] \in Seq(A)  BY <2>5
  <2>7. f[i] = f[i - 1] \o seqs[i]  BY <1>4, <2>3, <2>4
  <2>8. f[i] \in Seq(A)  BY <2>3, <2>6, <2>7
  <2> QED  BY <2>2, <2>8
<1>6. \A i \in 1 .. n : f[i] \in Seq(A)  BY <1>5
<1> HIDE DEF T
<1> QED  BY <1>2, <1>4, <1>6 DEF n

LEMMA FlattenSeqIn ==
  ASSUME NEW A, NEW seqs \in Seq(Seq(A))
  PROVE  FlattenSeq(seqs) \in Seq(A)
<1>1. CASE seqs = << >>  BY <1>1 DEF FlattenSeq
<1>2. CASE seqs # << >>
  <2>1. Len(seqs) \in 1 .. Len(seqs)  BY <1>2
  <2> QED  BY <1>2, <2>1, FlattenUnfolds
<1> QED  BY <1>1, <1>2

LEMMA ConcatHas ==
  ASSUME NEW A, NEW a \in Seq(A), NEW b \in Seq(A)
  PROVE  ToSet(a \o b) = ToSet(a) \cup ToSet(b)
<1>1. \A i \in DOMAIN a : i \in DOMAIN (a \o b) /\ (a \o b)[i] = a[i]  OBVIOUS
<1>2. \A i \in DOMAIN b : Len(a) + i \in DOMAIN (a \o b) /\ (a \o b)[Len(a) + i] = b[i]
  OBVIOUS
<1>3. \A i \in DOMAIN (a \o b) :
        \/ i \in DOMAIN a /\ (a \o b)[i] = a[i]
        \/ i - Len(a) \in DOMAIN b /\ (a \o b)[i] = b[i - Len(a)]
  OBVIOUS
<1> DEFINE c == a \o b  n == Len(a)
<1>4. c = a \o b /\ n = Len(a)  OBVIOUS
<1> HIDE DEF c, n
<1>5. \A x : x \in ToSet(c) => x \in ToSet(a) \/ x \in ToSet(b)
  BY <1>3, <1>4, Zenon DEF ToSet
<1>6. \A x : x \in ToSet(a) => x \in ToSet(c)  BY <1>1, <1>4, Zenon DEF ToSet
<1>7. \A x : x \in ToSet(b) => x \in ToSet(c)  BY <1>2, <1>4, Zenon DEF ToSet
<1>8. ToSet(c) = ToSet(a) \cup ToSet(b)  BY ONLY <1>5, <1>6, <1>7
<1> QED  BY <1>4, <1>8

LEMMA FlattenSeqHas ==
  ASSUME NEW A, NEW seqs \in Seq(Seq(A)), NEW i \in DOMAIN seqs, NEW x \in ToSet(seqs[i])
  PROVE  x \in ToSet(FlattenSeq(seqs))
<1> DEFINE n == Len(seqs)
<1>1. n \in Nat \ {0} /\ i \in 1 .. n /\ seqs # << >>  OBVIOUS
<1>2. PICK f : /\ FlattenSeq(seqs) = f[n]
               /\ \A j \in 1 .. n : /\ f[j] \in Seq(A)
                                    /\ f[j] = IF j = 1 THEN seqs[j] ELSE f[j - 1] \o seqs[j]
  BY <1>1, FlattenUnfolds
<1> DEFINE T == {j \in 1 .. n : i <= j /\ x \notin ToSet(f[j])}
<1>3. T = {}
  <2>1. SUFFICES ASSUME T # {}  PROVE FALSE  OBVIOUS
  <2>2. PICK j \in T : \A m \in T : j <= m
    <3>1. T \in SUBSET Nat  BY <1>1
    <3> HIDE DEF T
    <3> QED  BY <2>1, <3>1, Least
  <2>3. j \in 1 .. n /\ i <= j /\ x \notin ToSet(f[j]) /\ seqs[j] \in Seq(A)  OBVIOUS
  <2>4. CASE j = 1
    <3>1. i = 1 /\ f[j] = seqs[i]  BY <1>1, <1>2, <2>3, <2>4
    <3> QED  BY <2>3, <3>1
  <2>5. CASE j # 1
    <3>1. j - 1 \in 1 .. n /\ j - 1 \notin T  BY <1>1, <2>2, <2>3, <2>5
    <3> HIDE DEF T, n
    <3>2. f[j] = f[j - 1] \o seqs[j] /\ f[j - 1] \in Seq(A)  BY <1>2, <2>3, <2>5, <3>1
    <3>3. ToSet(f[j]) = ToSet(f[j - 1]) \cup ToSet(seqs[j])  BY <2>3, <3>2, ConcatHas
    <3>4. i = j  BY <1>1, <2>3, <3>1, <3>3 DEF T
    <3> QED  BY <2>3, <3>3, <3>4
  <2> QED  BY <2>4, <2>5
<1>4. n \in 1 .. n /\ i <= n  BY <1>1
<1>5. ~(x \notin ToSet(f[n]))
  <2>1. n \notin T  BY <1>3
  <2> HIDE DEF n
  <2> QED  BY <1>4, <2>1
<1> QED  BY <1>2, <1>5

ServeTasks == {"embed", "recv", "unpack", "attend", "gatherv", "place", "zero_scatter", "gather",
               "shared", "cp_gather", "split", "experts", "cp_reduce_scatter", "combine",
               "add_shared", "gather_split", "cp_output", "send", "release"}
Names == {"world", "tp", "pdmux_prefill_tp", "dcp", "attn_cp", "attn_cp_overlap",
          "attention_tp", "moe_dp", "moe_ep", "moe_tp", "pp", "self_pp"}

\* A list of ranks for which the layout has a coordinator of that name.
Listed(c, name, list) ==
  \E k \in ToSet(Coordinators(c)) : k.name = name /\ list \in ToSet(k.lists)

\* The steps of setting up, of which those that form groups form groups of the layout, and
\* those of serving.
Building(c) ==
  {s \in [do : SetUpTasks, on : Names, arg : Seq(Int)] :
     s.do = "new_group" => Listed(c, s.on, s.arg)}
Serving == [do : ServeTasks, on : {"x", "ids"}, arg : Seq(Int)]

\* A program: steps of setting up before steps of serving.
Programs(c) ==
  {q \in Seq(Building(c) \cup Serving) :
     \E n \in Nat : \A i \in DOMAIN q : IF i <= n THEN q[i] \in Building(c) ELSE q[i] \in Serving}

LEMMA OnlyIn ==
  ASSUME NEW S, NEW s \in Seq(S), NEW condition
  PROVE  Only(condition, s) \in Seq(S)
  BY DEF Only

LEMMA BuildingIn ==
  ASSUME NEW c, NEW do \in SetUpTasks, NEW on \in Names, NEW arg \in Seq(Int),
         do = "new_group" => Listed(c, on, arg)
  PROVE  Step(do, on, arg) \in Building(c) /\ <<Step(do, on, arg)>> \in Seq(Building(c))
<1>1. Step(do, on, arg) \in [do : SetUpTasks, on : Names, arg : Seq(Int)]
  BY DEF Step
<1>2. Step(do, on, arg).do = do /\ Step(do, on, arg).on = on /\ Step(do, on, arg).arg = arg
  BY DEF Step
<1> HIDE DEF SetUpTasks, Names
<1>3. Step(do, on, arg) \in Building(c)  BY <1>1, <1>2 DEF Building
<1> QED  BY <1>3

LEMMA ServingIn ==
  ASSUME NEW do \in ServeTasks, NEW on \in {"x", "ids"}, NEW arg \in Seq(Int)
  PROVE  Step(do, on, arg) \in Serving /\ <<Step(do, on, arg)>> \in Seq(Serving)
<1>1. Step(do, on, arg) \in Serving  BY DEF Step, Serving
<1> QED  BY <1>1

LEMMA CoordinatorName ==
  ASSUME NEW c, NEW k \in ToSet(Coordinators(c))
  PROVE  k.name \in Names
<1>1. k \in Kinds(c)  BY CoordinatorKind
<1> QED  BY <1>1, KindLists DEF Names

\* A step by which rank r forms its group of a coordinator.
Forms(s, name, r) == s.do = "new_group" /\ s.on = name /\ r \in ToSet(s.arg)

\* The communicator in which ranks meet in a step of setting up, and the call they wait in.
WorldGroup == <<"world", Stride(0, World, 1)>>
Meets(s) == IF s.do = "new_group" THEN WorldGroup
            ELSE <<IF s.do = "roce_exchange" THEN "tp" ELSE s.on, s.arg>>
CallOf(s) == Call(s.do, IF s.do = "roce_exchange" THEN "tp" ELSE s.on, Meets(s)[1], Meets(s)[2],
                  "cpu", IF s.do = "roce_exchange" THEN << >> ELSE s.arg)

\* The steps of building that meet in one communicator, and those that a rank may take.
On(g) == {s \in Building(conf) : Meets(s) = g}
Mine(r) == {s \in Building(conf) : s.do # "new_group" => r \in ToSet(s.arg)}
Ours(k, list) == {s \in Building(conf) : /\ s.do # "new_group" /\ s.arg = list
                                         /\ Meets(s) = <<k.name, list>>}

LEMMA CommunicatorsOurs ==
  ASSUME NEW k, NEW list \in Seq(Int), k.name \in Names
  PROVE  Communicators(k, list) \in Seq(Ours(k, list))
<1> DEFINE S == Ours(k, list)
<1>1. \A do \in SetUpTasks \ {"new_group"} :
        (do = "roce_exchange" => k.name = "tp") =>
          Step(do, k.name, list) \in S /\ <<Step(do, k.name, list)>> \in Seq(S)
  <2> SUFFICES ASSUME NEW do \in SetUpTasks \ {"new_group"},
                      do = "roce_exchange" => k.name = "tp"
               PROVE  Step(do, k.name, list) \in S
    OBVIOUS
  <2>1. Step(do, k.name, list) \in Building(conf)  BY BuildingIn
  <2>2. /\ Step(do, k.name, list).do = do /\ Step(do, k.name, list).arg = list
        /\ Step(do, k.name, list).on = k.name
    BY DEF Step
  <2> QED  BY <2>1, <2>2 DEF Ours, Meets
<1>2. {"unique_id", "warm_up", "roce_exchange", "handles", "queue"} \subseteq SetUpTasks \ {"new_group"}
  BY DEF SetUpTasks
<1> DEFINE a == <<Step("unique_id", k.name, list), Step("warm_up", k.name, list)>>
           b == Only(HasRoce(conf, k.name), <<Step("roce_exchange", k.name, list)>>)
           d == Only(k.pynccl, a \o b)
           p == conf.accel \notin {"none", "flashinfer"} /\ Has(conf, k.name, conf.accel)
           e == Only(p, <<Step("handles", k.name, list)>>)
           f == Only(k.mq, <<Step("queue", k.name, list)>>)
<1>3. Communicators(k, list) = Only(Len(list) > 1, d \o e \o f)  BY DEF Communicators
<1> HIDE DEF S
<1>4. a \in Seq(S)
  <2>1. Step("unique_id", k.name, list) \in S /\ Step("warm_up", k.name, list) \in S
    BY <1>1, <1>2
  <2> QED  BY <2>1
<1>5. b \in Seq(S)
  <2>1. HasRoce(conf, k.name) => k.name = "tp"  BY DEF HasRoce
  <2>2. HasRoce(conf, k.name) => <<Step("roce_exchange", k.name, list)>> \in Seq(S)
    BY <1>1, <1>2, <2>1
  <2>3. << >> \in Seq(S)  OBVIOUS
  <2> QED  BY <2>2, <2>3 DEF Only
<1>6. e \in Seq(S) /\ f \in Seq(S)
  <2>1. <<Step("handles", k.name, list)>> \in Seq(S) /\ <<Step("queue", k.name, list)>> \in Seq(S)
    BY <1>1, <1>2
  <2> HIDE DEF p
  <2> QED  BY <2>1, OnlyIn
<1> HIDE DEF a, b, e, f
<1>7. d \in Seq(S)  BY <1>4, <1>5, ConcatSeq, OnlyIn
<1> HIDE DEF d
<1>8. d \o e \o f \in Seq(S)  BY ONLY <1>6, <1>7, ConcatSeq
<1> QED  BY <1>3, <1>8, OnlyIn DEF S

\* The groups of a coordinator, in the order in which every rank creates them.
News(k) == [i \in DOMAIN k.lists |-> Step("new_group", k.name, k.lists[i])]

LEMMA CoordinatorLists ==
  ASSUME conf \in Layouts, NEW k \in ToSet(Coordinators(conf)), NEW r \in Ranks
  PROVE  /\ k.lists \in Seq(Seq(Int)) /\ k.name \in Names
         /\ MyList(k, r) \in ToSet(k.lists) /\ r \in ToSet(MyList(k, r))
         /\ MyList(k, r) \in Seq(Int)
         /\ \A list \in ToSet(k.lists) : r \in ToSet(list) => list = MyList(k, r)
         /\ News(k) \in Seq(On(WorldGroup)) /\ News(k) \in Seq(Mine(r))
<1>1. Layout(conf)  BY CollectivesAssumption
<1>2. k.lists \in Seq(Seq(Int))
  BY <1>1, CoordinatorKind, CoordinatorServes DEF Serves, Partition
<1>3. k.name \in Names  BY CoordinatorName
<1>4. PICK mine \in ToSet(k.lists) :
        \A list \in ToSet(k.lists) : r \in ToSet(list) <=> list = mine
  BY <1>1, GroupsAsMeant
<1>5. MyList(k, r) = mine  BY <1>4 DEF MyList
<1>6. mine \in Seq(Int)  BY <1>2 DEF ToSet
<1>7. News(k) \in Seq(On(WorldGroup)) /\ News(k) \in Seq(Mine(r))
  <2>1. ASSUME NEW i \in DOMAIN k.lists
        PROVE  /\ Step("new_group", k.name, k.lists[i]) \in On(WorldGroup)
               /\ Step("new_group", k.name, k.lists[i]) \in Mine(r)
    <3>1. k.lists[i] \in Seq(Int) /\ k.lists[i] \in ToSet(k.lists)  BY <1>2 DEF ToSet
    <3>2. Listed(conf, k.name, k.lists[i])  BY <3>1 DEF Listed
    <3>3. "new_group" \in SetUpTasks  BY DEF SetUpTasks
    <3>4. Step("new_group", k.name, k.lists[i]) \in Building(conf)
      BY <1>3, <3>1, <3>2, <3>3, BuildingIn
    <3>5. Step("new_group", k.name, k.lists[i]).do = "new_group"  BY DEF Step
    <3> QED  BY <3>4, <3>5 DEF On, Mine, Meets
  <2>2. DOMAIN k.lists = 1 .. Len(k.lists) /\ Len(k.lists) \in Nat  BY <1>2
  <2> DEFINE A == On(WorldGroup)  B == Mine(r)  t(i) == Step("new_group", k.name, k.lists[i])
  <2>3. \A i \in DOMAIN k.lists : t(i) \in A /\ t(i) \in B  BY <2>1
  <2>4. News(k) = [i \in 1 .. Len(k.lists) |-> t(i)]  BY <2>2 DEF News
  <2> HIDE DEF A, B, t
  <2>5. News(k) \in Seq(A) /\ News(k) \in Seq(B)  BY <2>2, <2>3, <2>4
  <2> QED  BY <2>5 DEF A, B
<1> QED  BY <1>2, <1>3, <1>4, <1>5, <1>6, <1>7

LEMMA SetupBuilds ==
  ASSUME conf \in Layouts, NEW r \in Ranks
  PROVE  /\ Setup(r) \in Seq(Mine(r)) /\ Setup(r) \in Seq(Building(conf))
         /\ \A k \in ToSet(Coordinators(conf)) : \E s \in ToSet(Setup(r)) : Forms(s, k.name, r)
<1> DEFINE S == Mine(r)  all == Coordinators(conf)
<1>2. ASSUME NEW k \in ToSet(all)
      PROVE  /\ SetupOf(k, r) \in Seq(S)
             /\ \E s \in ToSet(SetupOf(k, r)) : Forms(s, k.name, r)
  <2> DEFINE mine == MyList(k, r)  g == News(k)  h == Communicators(k, mine)
  <2>1. /\ mine \in ToSet(k.lists) /\ r \in ToSet(mine) /\ mine \in Seq(Int)
        /\ k.name \in Names /\ g \in Seq(S)
    BY CoordinatorLists
  <2>2. h \in Seq(S)
    <3>1. h \in Seq(Ours(k, mine))  BY <2>1, CommunicatorsOurs
    <3>2. Ours(k, mine) \subseteq S  BY <2>1 DEF Ours, Mine
    <3> HIDE DEF h, S
    <3> QED  BY <3>1, <3>2
  <2>3. SetupOf(k, r) = g \o h  BY DEF SetupOf, News
  <2>4. PICK i \in DOMAIN k.lists : k.lists[i] = mine  BY <2>1 DEF ToSet
  <2>5. g[i] \in ToSet(g) /\ g[i] = Step("new_group", k.name, mine)
    BY <2>4 DEF News, ToSet
  <2> HIDE DEF S, g, h, mine
  <2>6. Forms(g[i], k.name, r)  BY <2>1, <2>5 DEF Forms, Step
  <2>7. ToSet(g \o h) = ToSet(g) \cup ToSet(h)  BY <2>1, <2>2, ConcatHas
  <2>8. g \o h \in Seq(S)  BY <2>1, <2>2, ConcatSeq
  <2> QED  BY <2>3, <2>5, <2>6, <2>7, <2>8
<1>3. [i \in DOMAIN all |-> SetupOf(all[i], r)] \in Seq(Seq(S))
  <2>1. all \in Seq(Kinds(conf))  BY CoordinatorsKinds
  <2>2. DOMAIN all = 1 .. Len(all) /\ Len(all) \in Nat  BY <2>1
  <2>3. \A i \in DOMAIN all : all[i] \in ToSet(all)  BY DEF ToSet
  <2> HIDE DEF S, all
  <2>4. \A i \in DOMAIN all : SetupOf(all[i], r) \in Seq(S)  BY <1>2, <2>3
  <2> QED  BY <2>2, <2>4
<1>4. Setup(r) = FlattenSeq([i \in DOMAIN all |-> SetupOf(all[i], r)])  BY DEF Setup
<1> DEFINE seqs == [i \in DOMAIN all |-> SetupOf(all[i], r)]
<1>5. ASSUME NEW k \in ToSet(all)  PROVE \E s \in ToSet(Setup(r)) : Forms(s, k.name, r)
  <2>1. PICK i \in DOMAIN all : k = all[i]  BY DEF ToSet
  <2>2. PICK s \in ToSet(SetupOf(k, r)) : Forms(s, k.name, r)  BY <1>2
  <2>3. i \in DOMAIN seqs /\ s \in ToSet(seqs[i])  BY <2>1, <2>2
  <2> HIDE DEF S, all, seqs
  <2>4. s \in ToSet(FlattenSeq(seqs))  BY <1>3, <2>3, FlattenSeqHas DEF seqs
  <2> QED  BY <1>4, <2>2, <2>4 DEF seqs
<1>6. S \subseteq Building(conf)  BY DEF Mine
<1> HIDE DEF S, all
<1>7. Setup(r) \in Seq(S)  BY <1>3, <1>4, FlattenSeqIn
<1>8. Setup(r) \in Seq(Building(conf))  BY <1>6, <1>7
<1> QED  BY <1>5, <1>7, <1>8 DEF S, all

LEMMA ForwardServes ==
  ASSUME NEW r \in Ranks, NEW p \in Int
  PROVE  Forward(r, p) \in Seq(Serving)
<1> DEFINE S == Serving
<1>1. \A do \in ServeTasks, on \in {"x", "ids"}, arg \in {<<p>>, << >>} :
        Step(do, on, arg) \in S /\ <<Step(do, on, arg)>> \in Seq(S)
  <2> SUFFICES ASSUME NEW do \in ServeTasks, NEW on \in {"x", "ids"},
                      NEW arg \in {<<p>>, << >>}
               PROVE  Step(do, on, arg) \in S /\ <<Step(do, on, arg)>> \in Seq(S)
    OBVIOUS
  <2>1. <<p>> \in Seq(Int) /\ << >> \in Seq(Int)  OBVIOUS
  <2>2. arg \in Seq(Int)  BY <2>1
  <2> QED  BY <2>2, ServingIn
<1>2. {"embed", "recv", "unpack", "attend", "gatherv", "place", "zero_scatter", "gather",
       "shared", "cp_gather", "split", "experts", "cp_reduce_scatter", "combine", "add_shared",
       "gather_split", "cp_output", "send", "release"} \subseteq ServeTasks
  BY DEF ServeTasks
<1> HIDE DEF S
<1>3. \A on \in {"x", "ids"} : DpGather(on) \in Seq(S)
  <2> SUFFICES ASSUME NEW on \in {"x", "ids"}  PROVE DpGather(on) \in Seq(S)
    OBVIOUS
  <2>1. /\ <<Step("gatherv", on, << >>)>> \in Seq(S) /\ <<Step("place", on, << >>)>> \in Seq(S)
        /\ <<Step("zero_scatter", on, << >>)>> \in Seq(S)
        /\ <<Step("gather", on, << >>)>> \in Seq(S)
    BY <1>1, <1>2
  <2>2. Only(AttnTp(conf) > 1, <<Step("zero_scatter", on, << >>)>>) \in Seq(S)
    BY <2>1, OnlyIn
  <2>3. Only(AttnTp(conf) > 1, <<Step("zero_scatter", on, << >>)>>)
          \o <<Step("gather", on, << >>)>> \in Seq(S)
    BY ONLY <2>1, <2>2, ConcatSeq
  <2> QED  BY <2>1, <2>3 DEF DpGather
<1> DEFINE One(do) == <<Step(do, "x", << >>)>>
           Of(do, on) == <<Step(do, on, <<p>>)>>
<1>4. \A do \in ServeTasks : One(do) \in Seq(S)  BY <1>1
<1>5. \A do \in ServeTasks : Of(do, "x") \in Seq(S) /\ Of(do, "ids") \in Seq(S)
  BY <1>1
<1> DEFINE a == IF FirstStage(r) THEN Of("embed", "x")
                ELSE <<Step("recv", "x", <<p>>), Step("unpack", "x", <<p>>)>>
           b == One("attend")
           c1 == DpGather("ids") \o One("shared") \o DpGather("x")
           c == Only(MoeGather, c1)
           d == Only(UseCp /\ ~conf.a2a, One("cp_gather"))
           e == Only(AttnScatter, One("split"))
           f == One("experts")
           g == Only(UseCp /\ ~conf.a2a, One("cp_reduce_scatter"))
           h1 == <<Step("combine", "x", << >>), Step("add_shared", "x", << >>)>>
           h == Only(MoeGather, h1)
           i == Only(AttnScatter, One("gather_split"))
           j == Only(LastStage(r) /\ UseCp, One("cp_output"))
           k == Only(~LastStage(r), Of("send", "x"))
           l == Only(LastStage(r), Of("release", "x"))
           m == Only(LastStage(r) /\ conf.pp > 1, Of("send", "ids"))
<1>6. Forward(r, p) = a \o b \o c \o d \o e \o f \o g \o h \o i \o j \o k \o l \o m
  BY DEF Forward
<1>7. a \in Seq(S)
  <2>1. Step("recv", "x", <<p>>) \in S /\ Step("unpack", "x", <<p>>) \in S
    BY <1>1, <1>2
  <2>2. <<Step("recv", "x", <<p>>), Step("unpack", "x", <<p>>)>> \in Seq(S)  BY <2>1
  <2>3. Of("embed", "x") \in Seq(S)  BY <1>2, <1>5
  <2> QED  BY <2>2, <2>3
<1>8. h1 \in Seq(S)
  <2>1. Step("combine", "x", << >>) \in S /\ Step("add_shared", "x", << >>) \in S
    BY <1>1, <1>2
  <2> QED  BY <2>1
<1>9. h \in Seq(S)  BY <1>8, OnlyIn
<1>10. One("shared") \in Seq(S) /\ b \in Seq(S) /\ f \in Seq(S)  BY <1>2, <1>4
<1> HIDE DEF One, Of
<1>11. c1 \in Seq(S)  BY ONLY <1>3, <1>10, ConcatSeq
<1> HIDE DEF c1
<1>12. c \in Seq(S)  BY <1>11, OnlyIn
<1>13. /\ d \in Seq(S) /\ e \in Seq(S) /\ g \in Seq(S) /\ i \in Seq(S) /\ j \in Seq(S)
  BY ONLY <1>2, <1>4, OnlyIn
<1>14. k \in Seq(S) /\ l \in Seq(S) /\ m \in Seq(S)  BY ONLY <1>2, <1>5, OnlyIn
<1> HIDE DEF a, b, c, d, e, f, g, h, i, j, k, l, m
<1>15. a \o b \o c \o d \in Seq(S)  BY ONLY <1>7, <1>10, <1>12, <1>13, ConcatSeq
<1>16. a \o b \o c \o d \o e \o f \o g \in Seq(S)
  <2> DEFINE q == a \o b \o c \o d
  <2>1. q \in Seq(S)  BY <1>15
  <2> HIDE DEF q
  <2>2. q \o e \o f \o g \in Seq(S)  BY ONLY <1>10, <1>13, <2>1, ConcatSeq
  <2> QED  BY <2>2 DEF q
<1>17. a \o b \o c \o d \o e \o f \o g \o h \o i \o j \in Seq(S)
  <2> DEFINE q == a \o b \o c \o d \o e \o f \o g
  <2>1. q \in Seq(S)  BY <1>16
  <2> HIDE DEF q
  <2>2. q \o h \o i \o j \in Seq(S)  BY ONLY <1>9, <1>13, <2>1, ConcatSeq
  <2> QED  BY <2>2 DEF q
<1>18. a \o b \o c \o d \o e \o f \o g \o h \o i \o j \o k \o l \o m \in Seq(S)
  <2> DEFINE q == a \o b \o c \o d \o e \o f \o g \o h \o i \o j
  <2>1. q \in Seq(S)  BY <1>17
  <2> HIDE DEF q
  <2>2. q \o k \o l \o m \in Seq(S)  BY ONLY <1>14, <2>1, ConcatSeq
  <2> QED  BY <2>2 DEF q
<1> QED  BY <1>6, <1>18 DEF S

\* What a rank does once its groups are set up.
Served(r) ==
  LET back == Only(FirstStage(r) /\ conf.pp > 1,
                   <<Step("recv", "ids", <<0>>), Step("unpack", "ids", <<0>>)>>)
      passes == [p \in 1 .. conf.passes |-> Forward(r, p) \o Only(~conf.async, back)]
  IN FlattenSeq(passes) \o Only(conf.async, FlattenSeq([p \in 1 .. conf.passes |-> back]))

LEMMA ProgramRightful ==
  ASSUME conf \in Layouts, NEW r \in Ranks
  PROVE  /\ Program(r) \in Programs(conf)
         /\ \A k \in ToSet(Coordinators(conf)) : \E s \in ToSet(Program(r)) : Forms(s, k.name, r)
         /\ Served(r) \in Seq(Serving) /\ Program(r) = Setup(r) \o Served(r)
<1> DEFINE S == Serving  B == Building(conf)  n == conf.passes
           one == <<Step("recv", "ids", <<0>>), Step("unpack", "ids", <<0>>)>>
           back == Only(FirstStage(r) /\ conf.pp > 1, one)
           passes == [p \in 1 .. n |-> Forward(r, p) \o Only(~conf.async, back)]
           backs == [p \in 1 .. n |-> back]
           last == Only(conf.async, FlattenSeq(backs))
<1>1. n \in Nat  BY CollectivesAssumption
<1>2. one \in Seq(S)
  <2>1. Step("recv", "ids", <<0>>) \in S /\ Step("unpack", "ids", <<0>>) \in S
    <3>1. "recv" \in ServeTasks /\ "unpack" \in ServeTasks /\ <<0>> \in Seq(Int)
      BY DEF ServeTasks
    <3> QED  BY <3>1, ServingIn
  <2> HIDE DEF S
  <2> QED  BY <2>1
<1>3. \A p \in 1 .. n : Forward(r, p) \in Seq(S)  BY <1>1, ForwardServes
<1>4. /\ Setup(r) \in Seq(B)
      /\ \A k \in ToSet(Coordinators(conf)) : \E s \in ToSet(Setup(r)) : Forms(s, k.name, r)
  BY SetupBuilds
<1>5. /\ Program(r) = Setup(r) \o FlattenSeq(passes) \o last
      /\ Served(r) = FlattenSeq(passes) \o last
  BY DEF Program, Served
<1> HIDE DEF S, B, n, one
<1>6. back \in Seq(S)  BY <1>2, OnlyIn
<1> HIDE DEF back
<1>7. Only(~conf.async, back) \in Seq(S)  BY <1>6, OnlyIn
<1>8. passes \in Seq(Seq(S)) /\ backs \in Seq(Seq(S))
  <2>1. \A p \in 1 .. n : Forward(r, p) \o Only(~conf.async, back) \in Seq(S)
    BY <1>3, <1>7, ConcatSeq
  <2> QED  BY <1>1, <1>6, <2>1
<1> HIDE DEF passes, backs
<1>9. FlattenSeq(passes) \in Seq(S) /\ FlattenSeq(backs) \in Seq(S)  BY <1>8, FlattenSeqIn
<1>10. last \in Seq(S)  BY <1>9, OnlyIn
<1> DEFINE a == Setup(r)  b == FlattenSeq(passes)
<1> HIDE DEF last, a, b
<1>11. a \in Seq(B) /\ b \in Seq(S)  BY <1>4, <1>9 DEF a, b
<1>12. Program(r) = a \o (b \o last) /\ b \o last \in Seq(S) /\ Served(r) = b \o last
  BY <1>5, <1>10, <1>11 DEF a, b
<1> DEFINE q == b \o last
<1> HIDE DEF q
<1>13. q \in Seq(S) /\ Program(r) = a \o q /\ Served(r) = q  BY <1>12 DEF q
<1>14. a \in Seq(B \cup S) /\ q \in Seq(B \cup S)  BY <1>11, <1>13
<1>15. a \o q \in Seq(B \cup S)  BY <1>14, ConcatSeq
<1>16. /\ Len(a) \in Nat
       /\ \A i \in DOMAIN (a \o q) :
            IF i <= Len(a) THEN (a \o q)[i] \in B ELSE (a \o q)[i] \in S
  BY <1>11, <1>13
<1>17. Program(r) \in Programs(conf)  BY <1>13, <1>15, <1>16 DEF Programs, B, S
<1>18. ToSet(Program(r)) = ToSet(a) \cup ToSet(q)  BY <1>13, <1>14, ConcatHas
<1>19. Served(r) \in Seq(Serving) /\ Program(r) = Setup(r) \o Served(r)  BY <1>13 DEF S, a
<1> QED  BY <1>4, <1>17, <1>18, <1>19 DEF a

-----------------------------------------------------------------------------
(* The groups that ranks form.                                             *)

\* What a rank is to do, waits in and has formed are groups that the layout lists.
Rightly ==
  /\ conf \in Layouts
  /\ todo \in [Ranks -> Programs(conf)]
  /\ DOMAIN waits = Ranks
  /\ \A r \in Ranks : waits[r].do = "new_group" => Listed(conf, waits[r].on, waits[r].arg)
  /\ DOMAIN group = Ranks
  /\ \A r \in Ranks : \A name \in DOMAIN group[r] :
       Listed(conf, name, group[r][name]) /\ r \in ToSet(group[r][name])

\* A rank has formed its group of each coordinator, waits for it, or is still to form it.
Pending ==
  \A r \in Ranks : \A k \in ToSet(Coordinators(conf)) :
    \/ k.name \in DOMAIN group[r]
    \/ Forms(waits[r], k.name, r)
    \/ \E s \in ToSet(todo[r]) : Forms(s, k.name, r)

IInv == Rightly /\ Pending

LEMMA IInvInit == Init => IInv
<1> SUFFICES ASSUME Init  PROVE IInv
  OBVIOUS
<1>1. conf \in Layouts /\ todo = [r \in Ranks |-> Program(r)]  BY DEF Init
<1>2. todo \in [Ranks -> Programs(conf)]  BY <1>1, ProgramRightful
<1>3. DOMAIN waits = Ranks /\ \A r \in Ranks : waits[r].do = "idle"
  BY DEF Init, Idle, Step
<1>4. DOMAIN group = Ranks /\ \A r \in Ranks : DOMAIN group[r] = {}
  BY DEF Init
<1>5. Rightly  BY <1>1, <1>2, <1>3, <1>4 DEF Rightly
<1>6. Pending  BY <1>1, ProgramRightful DEF Pending
<1> QED  BY <1>5, <1>6 DEF IInv

\* A step of one rank's program: it forms a group if its program says so.
Proceeds(r) ==
  /\ conf' = conf /\ group' = group /\ waits[r] = Idle
  /\ todo[r] # << >> /\ todo' = [todo EXCEPT ![r] = Tail(@)]
  /\ \/ waits' = waits /\ Current(r).do # "new_group"
     \/ \E call : /\ waits' = [waits EXCEPT ![r] = call]
                  /\ call.do = "new_group" <=> Current(r).do = "new_group"
                  /\ call.do = "new_group" => call.on = Current(r).on /\ call.arg = Current(r).arg

LEMMA ProgramTail ==
  ASSUME NEW c, NEW q \in Programs(c), q # << >>
  PROVE  /\ Tail(q) \in Programs(c)
         /\ Head(q) \in Building(c) \cup Serving
         /\ Head(q) \in Serving => q \in Seq(Serving)
         /\ ToSet(q) = {Head(q)} \cup ToSet(Tail(q))
<1> DEFINE S == Building(c) \cup Serving
<1>1. q \in Seq(S) /\ Head(q) = q[1] /\ q[1] \in S /\ Tail(q) \in Seq(S)
  BY DEF Programs
<1>2. PICK n \in Nat : \A i \in DOMAIN q :
        IF i <= n THEN q[i] \in Building(c) ELSE q[i] \in Serving
  BY DEF Programs
<1>3. /\ DOMAIN Tail(q) = 1 .. Len(q) - 1 /\ DOMAIN q = 1 .. Len(q) /\ Len(q) \in Nat \ {0}
      /\ \A i \in 1 .. Len(q) - 1 : Tail(q)[i] = q[i + 1]
  BY <1>1
<1>4. Tail(q) \in Programs(c)
  <2> DEFINE m == IF n = 0 THEN 0 ELSE n - 1
  <2>1. m \in Nat  OBVIOUS
  <2>2. \A i \in DOMAIN Tail(q) :
          IF i <= m THEN Tail(q)[i] \in Building(c) ELSE Tail(q)[i] \in Serving
    <3> SUFFICES ASSUME NEW i \in DOMAIN Tail(q)
                 PROVE  IF i <= m THEN Tail(q)[i] \in Building(c) ELSE Tail(q)[i] \in Serving
      OBVIOUS
    <3>1. i + 1 \in DOMAIN q /\ Tail(q)[i] = q[i + 1] /\ i \in Nat \ {0}  BY <1>3
    <3>2. i <= m <=> i + 1 <= n  BY <3>1
    <3> QED  BY <1>2, <3>1, <3>2
  <2> HIDE DEF m
  <2> QED  BY <1>1, <2>1, <2>2 DEF Programs
<1>5. ASSUME Head(q) \in Serving  PROVE q \in Seq(Serving)
  <2>1. q[1] \notin Building(c)
    <3>1. \A s \in Building(c) : s.do \in SetUpTasks  BY DEF Building
    <3>2. \A s \in Serving : s.do \in ServeTasks  BY DEF Serving
    <3>3. SetUpTasks \cap ServeTasks = {}  BY DEF SetUpTasks, ServeTasks
    <3> QED  BY <1>1, <1>5, <3>1, <3>2, <3>3
  <2>2. n = 0
    <3>1. 1 \in DOMAIN q  BY <1>3
    <3> QED  BY <1>2, <2>1, <3>1
  <2>3. \A i \in DOMAIN q : q[i] \in Serving  BY <1>2, <1>3, <2>2
  <2> QED  BY <1>1, <1>3, <2>3
<1>6. ToSet(q) = {Head(q)} \cup ToSet(Tail(q))
  <2>1. \A i \in DOMAIN q : i = 1 \/ (i - 1 \in DOMAIN Tail(q) /\ q[i] = Tail(q)[i - 1])
    BY <1>3
  <2>2. \A i \in DOMAIN Tail(q) : i + 1 \in DOMAIN q /\ Tail(q)[i] = q[i + 1]  BY <1>3
  <2>3. 1 \in DOMAIN q /\ q[1] = Head(q)  BY <1>1, <1>3
  <2> DEFINE t == Tail(q)  h == Head(q)
  <2>4. /\ \A i \in DOMAIN q : i = 1 \/ (i - 1 \in DOMAIN t /\ q[i] = t[i - 1])
        /\ \A i \in DOMAIN t : i + 1 \in DOMAIN q /\ t[i] = q[i + 1]
        /\ 1 \in DOMAIN q /\ q[1] = h
    BY <2>1, <2>2, <2>3
  <2> HIDE DEF t, h
  <2>5. \A x : x \in ToSet(q) => x = h \/ x \in ToSet(t)
    <3> SUFFICES ASSUME NEW x \in ToSet(q)  PROVE x = h \/ x \in ToSet(t)  OBVIOUS
    <3>1. PICK i \in DOMAIN q : x = q[i]  BY DEF ToSet
    <3>2. CASE i = 1  BY <2>4, <3>1, <3>2
    <3>3. CASE i - 1 \in DOMAIN t /\ q[i] = t[i - 1]
      <4>1. PICK j \in DOMAIN t : x = t[j]  BY <3>1, <3>3
      <4> QED  BY <4>1 DEF ToSet
    <3> QED  BY <2>4, <3>1, <3>2, <3>3
  <2>6. \A x : x \in ToSet(t) => x \in ToSet(q)
    <3> SUFFICES ASSUME NEW x \in ToSet(t)  PROVE x \in ToSet(q)  OBVIOUS
    <3>1. PICK i \in DOMAIN t : x = t[i]  BY DEF ToSet
    <3>2. PICK j \in DOMAIN q : x = q[j]  BY <2>4, <3>1
    <3> QED  BY <3>2 DEF ToSet
  <2>7. h \in ToSet(q)  BY <2>4, Zenon DEF ToSet
  <2>8. ToSet(q) = {h} \cup ToSet(t)  BY ONLY <2>5, <2>6, <2>7
  <2> QED  BY <2>8 DEF t, h
<1> QED  BY <1>1, <1>4, <1>5, <1>6

LEMMA ProceedsIInv ==
  ASSUME IInv, NEW r \in Ranks, Proceeds(r)
  PROVE  IInv'
<1>1. conf' = conf /\ group' = group /\ DOMAIN waits = Ranks /\ DOMAIN waits' = Ranks
  BY DEF IInv, Rightly, Proceeds
<1>2. /\ todo[r] \in Programs(conf) /\ todo[r] # << >> /\ Current(r) = Head(todo[r])
      /\ todo' = [todo EXCEPT ![r] = Tail(@)]
  BY DEF IInv, Rightly, Proceeds, Current
<1>3. /\ Tail(todo[r]) \in Programs(conf) /\ Current(r) \in Building(conf) \cup Serving
      /\ ToSet(todo[r]) = {Current(r)} \cup ToSet(Tail(todo[r]))
  BY <1>2, ProgramTail
<1>4. todo' \in [Ranks -> Programs(conf)]  BY <1>2, <1>3 DEF IInv, Rightly
<1>5. Current(r).do = "new_group" => Listed(conf, Current(r).on, Current(r).arg)
  <2>1. \A s \in Serving : s.do # "new_group"  BY DEF Serving, ServeTasks
  <2>2. \A s \in Building(conf) : s.do = "new_group" => Listed(conf, s.on, s.arg)
    BY DEF Building
  <2> QED  BY <1>3, <2>1, <2>2
<1>6. \A q \in Ranks \ {r} : waits'[q] = waits[q] /\ todo'[q] = todo[q]
  BY <1>1, <1>4, <1>2 DEF IInv, Rightly, Proceeds
<1>7. /\ todo'[r] = Tail(todo[r])
      /\ waits'[r].do = "new_group" <=> Current(r).do = "new_group"
      /\ waits'[r].do = "new_group" =>
           waits'[r].on = Current(r).on /\ waits'[r].arg = Current(r).arg
  <2>1. Idle.do # "new_group"  BY DEF Idle, Step
  <2>2. todo'[r] = Tail(todo[r])  BY <1>2 DEF IInv, Rightly
  <2> QED  BY <1>1, <2>1, <2>2 DEF Proceeds
<1>8. Rightly'
  <2>1. \A q \in Ranks : waits'[q].do = "new_group" => Listed(conf, waits'[q].on, waits'[q].arg)
    BY <1>5, <1>6, <1>7 DEF IInv, Rightly
  <2> QED  BY <1>1, <1>4, <2>1 DEF IInv, Rightly
<1>9. Pending'
  <2> SUFFICES ASSUME NEW q \in Ranks, NEW k \in ToSet(Coordinators(conf))
               PROVE  \/ k.name \in DOMAIN group[q]
                      \/ Forms(waits'[q], k.name, q)
                      \/ \E s \in ToSet(todo'[q]) : Forms(s, k.name, q)
    BY <1>1 DEF Pending
  <2>1. CASE q # r  BY <1>6, <2>1 DEF IInv, Pending
  <2>2. CASE q = r
    <3>1. \/ k.name \in DOMAIN group[r] \/ Forms(waits[r], k.name, r)
          \/ Forms(Current(r), k.name, r)
          \/ \E s \in ToSet(Tail(todo[r])) : Forms(s, k.name, r)
      BY <1>3 DEF IInv, Pending
    <3>2. ~Forms(waits[r], k.name, r)
      <4>1. Idle.do # "new_group"  BY DEF Idle, Step
      <4>2. waits[r] = Idle  BY DEF Proceeds
      <4> QED  BY <4>1, <4>2 DEF Forms
    <3>3. Forms(Current(r), k.name, r) => Forms(waits'[r], k.name, r)  BY <1>7 DEF Forms
    <3> QED  BY <1>7, <2>2, <3>1, <3>2, <3>3
  <2> QED  BY <2>1, <2>2
<1> QED  BY <1>8, <1>9 DEF IInv

\* The steps of a rank: of setting up, and of serving.
Advances(r) ==
  /\ conf' = conf /\ group' = group /\ waits[r] = Idle /\ r \notin raised
  /\ todo[r] # << >> /\ todo' = [todo EXCEPT ![r] = Tail(@)]

Builds(r) ==
  /\ Advances(r) /\ Current(r).do \in SetUpTasks
  /\ \/ waits' = [waits EXCEPT ![r] = CallOf(Current(r))] /\ raised' = raised
     \/ waits' = waits /\ raised' = raised \cup {r} /\ Current(r).do # "new_group"

OfKind(r, call) ==
  \/ call = Idle
  \/ /\ call.do \notin SetUpTasks
     /\ \E kind \in DOMAIN Backing(conf) : call.list = group[r][Backing(conf)[kind]]

Works(r) ==
  /\ Advances(r) /\ Current(r).do \in ServeTasks
  /\ \/ waits' = waits /\ raised' \in {raised, raised \cup {r}}
     \/ \E call : OfKind(r, call) /\ waits' = [waits EXCEPT ![r] = call] /\ raised' = raised

LEMMA CallFields ==
  ASSUME NEW do, NEW on, NEW name, NEW list, NEW route, NEW sizes
  PROVE  /\ Call(do, on, name, list, route, sizes).do = do
         /\ Call(do, on, name, list, route, sizes).on = on
         /\ Call(do, on, name, list, route, sizes).name = name
         /\ Call(do, on, name, list, route, sizes).list = list
         /\ Call(do, on, name, list, route, sizes).arg = sizes
  BY DEF Call

LEMMA CallsOfKind ==
  ASSUME NEW r, NEW kind \in {"tp", "attn_cp", "attn_tp", "moe_ep"}, NEW on, NEW size,
         NEW do \in {"all_gather", "reduce_scatter", "a2a"}
  PROVE  /\ OfKind(r, AllReduce(r, kind, on, size))
         /\ OfKind(r, Tensor(r, do, on, kind, size))
         /\ OfKind(r, TensorV(r, do, on, kind, size))
         /\ \A route : OfKind(r, Call(do, on, Backing(conf)[kind], Kind(r, kind), route, size))
<1> DEFINE name == Backing(conf)[kind]  list == group[r][name]
<1>1. kind \in DOMAIN Backing(conf)  BY DEF Backing
<1>2. "all_reduce" \notin SetUpTasks /\ do \notin SetUpTasks  BY DEF SetUpTasks
<1>3. \A task \in {"all_reduce", do} : \A route, sizes :
        OfKind(r, Call(task, on, name, list, route, sizes))
  <2> SUFFICES ASSUME NEW task \in {"all_reduce", do}, NEW route, NEW sizes
               PROVE  OfKind(r, Call(task, on, name, list, route, sizes))
    OBVIOUS
  <2> DEFINE call == Call(task, on, name, list, route, sizes)
  <2>1. call.do = task /\ call.list = list  BY CallFields
  <2> HIDE DEF call
  <2>2. OfKind(r, call)  BY <1>1, <1>2, <2>1 DEF OfKind
  <2> QED  BY <2>2 DEF call
<1>4. /\ \/ AllReduce(r, kind, on, size) = Idle
         \/ \E route : AllReduce(r, kind, on, size)
                         = Call("all_reduce", on, name, list, route, <<size>>)
      /\ \E route : Tensor(r, do, on, kind, size) = Call(do, on, name, list, route, size)
      /\ TensorV(r, do, on, kind, size) = Call(do, on, name, list, "nccl", size)
      /\ Kind(r, kind) = list
  BY DEF AllReduce, Tensor, TensorV, Kind
<1>5. OfKind(r, Idle)  BY DEF OfKind
<1> HIDE DEF name, list
<1> QED  BY <1>3, <1>4, <1>5 DEF name

LEMMA Entering ==
  ASSUME NEW r \in Ranks, NEW do \in ServeTasks, Do(r, do), UNCHANGED <<conf, group>>,
         NEW call, OfKind(r, call),
         \/ waits' = waits /\ raised' \in {raised, raised \cup {r}}
         \/ waits' = [waits EXCEPT ![r] = call] /\ raised' = raised
  PROVE  Works(r)
<1>1. Advances(r) /\ Current(r).do \in ServeTasks  BY DEF Do, Current, Advances
<1> QED  BY <1>1 DEF Works

LEMMA SetUpBuilds ==
  ASSUME NEW r \in Ranks, SetUp(r) \/ SetUpRoce(r)
  PROVE  Builds(r)
<1> DEFINE s == Current(r)
<1>1. CASE SetUp(r)
  <2>1. PICK do \in {"new_group", "unique_id", "warm_up", "handles", "queue"} :
          /\ Do(r, do) /\ UNCHANGED <<conf, group, raised>>
          /\ waits' = [waits EXCEPT ![r] =
               Call(do, s.on, IF do = "new_group" THEN "world" ELSE s.on,
                    IF do = "new_group" THEN Stride(0, World, 1) ELSE s.arg, "cpu", s.arg)]
    BY <1>1 DEF SetUp, health
  <2>2. s.do = do /\ do \in SetUpTasks /\ do # "roce_exchange"
    BY <2>1 DEF Do, Current, SetUpTasks
  <2>3. waits' = [waits EXCEPT ![r] = CallOf(s)]
    BY <2>1, <2>2 DEF CallOf, Meets, WorldGroup
  <2>4. Advances(r)  BY <2>1 DEF Do, Advances
  <2> HIDE DEF s
  <2> QED  BY <2>1, <2>2, <2>3, <2>4 DEF Builds, s
<1>2. CASE SetUpRoce(r)
  <2>1. /\ Do(r, "roce_exchange") /\ UNCHANGED <<conf, group>>
        /\ \/ raised' = raised \cup {r} /\ waits' = waits
           \/ /\ waits' = [waits EXCEPT ![r] = Call("roce_exchange", "tp", "tp", s.arg, "cpu", << >>)]
              /\ raised' = raised
    BY <1>2 DEF SetUpRoce
  <2>2. s.do = "roce_exchange" /\ "roce_exchange" \in SetUpTasks  BY <2>1 DEF Do, Current, SetUpTasks
  <2>3. CallOf(s) = Call("roce_exchange", "tp", "tp", s.arg, "cpu", << >>)
    BY <2>2 DEF CallOf, Meets
  <2>4. Advances(r)  BY <2>1 DEF Do, Advances
  <2> HIDE DEF s
  <2> QED  BY <2>1, <2>2, <2>3, <2>4 DEF Builds, s
<1> QED  BY <1>1, <1>2

RankServes(r) ==
  \/ Embed(r) \/ Attend(r) \/ KeepShared(r) \/ PlaceRows(r) \/ ZeroScatter(r) \/ Gather(r)
  \/ SplitRows(r) \/ Experts(r) \/ Combine(r) \/ AddShared(r) \/ GatherSplit(r) \/ Release(r)
  \/ Send(r) \/ Recv(r) \/ Unpack(r)

LEMMA ServingWorks ==
  ASSUME NEW r \in Ranks, RankServes(r)
  PROVE  Works(r)
<1>0. OfKind(r, Idle)  BY DEF OfKind
<1>1. CASE Embed(r)
  <2>1. Do(r, "embed") /\ UNCHANGED <<conf, group, waits, raised>>  BY <1>1 DEF Embed, health
  <2>2. "embed" \in ServeTasks  BY DEF ServeTasks
  <2> QED  BY <1>0, <2>1, <2>2, Entering
<1>2. CASE Attend(r)
  <2>1. PICK kind \in {"tp", "attn_tp"} : \E size :
          /\ Do(r, "attend") /\ UNCHANGED <<conf, group>>
          /\ \/ waits' = waits /\ raised' = raised \cup {r}
             \/ waits' = [waits EXCEPT ![r] = AllReduce(r, kind, "x", size)] /\ raised' = raised
    BY <1>2 DEF Attend, EnterReduce, Enter
  <2>2. "attend" \in ServeTasks  BY DEF ServeTasks
  <2>3. \A size : OfKind(r, AllReduce(r, kind, "x", size))  BY CallsOfKind
  <2> QED  BY <2>1, <2>2, <2>3, Entering
<1>3. CASE KeepShared(r)
  <2>1. Do(r, "shared") /\ UNCHANGED <<conf, group, waits, raised>>
    BY <1>3 DEF KeepShared, health
  <2>2. "shared" \in ServeTasks  BY DEF ServeTasks
  <2> QED  BY <1>0, <2>1, <2>2, Entering
<1>4. CASE PlaceRows(r)
  <2>1. PICK on, size :
          /\ Do(r, "place") /\ UNCHANGED <<conf, group>>
          /\ \/ waits' = waits /\ raised' = raised \cup {r}
             \/ waits' = [waits EXCEPT ![r] = AllReduce(r, "tp", on, size)] /\ raised' = raised
    BY <1>4 DEF PlaceRows, EnterReduce, Enter
  <2>2. "place" \in ServeTasks  BY DEF ServeTasks
  <2>3. OfKind(r, AllReduce(r, "tp", on, size))  BY CallsOfKind
  <2> QED  BY <2>1, <2>2, <2>3, Entering
<1>5. CASE ZeroScatter(r)
  <2>1. PICK on, sizes :
          /\ Do(r, "zero_scatter") /\ UNCHANGED <<conf, group, raised>>
          /\ waits' = [waits EXCEPT ![r] = Tensor(r, "reduce_scatter", on, "attn_tp", sizes)]
    BY <1>5 DEF ZeroScatter, Enter, health
  <2>2. "zero_scatter" \in ServeTasks  BY DEF ServeTasks
  <2>3. OfKind(r, Tensor(r, "reduce_scatter", on, "attn_tp", sizes))  BY CallsOfKind
  <2> QED  BY <2>1, <2>2, <2>3, Entering
<1>6. CASE Gather(r)
  <2>1. PICK do \in {"gather", "gatherv", "cp_gather", "cp_output"}, kind \in {"tp", "attn_cp"} :
        \E on, sizes :
          /\ Do(r, do) /\ UNCHANGED <<conf, group, raised>>
          /\ \/ waits' = [waits EXCEPT ![r] = Tensor(r, "all_gather", on, kind, sizes)]
             \/ waits' = [waits EXCEPT ![r] = TensorV(r, "all_gather", on, kind, sizes)]
    BY <1>6 DEF Gather, Enter, health
  <2>2. {"gather", "gatherv", "cp_gather", "cp_output"} \subseteq ServeTasks  BY DEF ServeTasks
  <2>3. \A on, sizes : /\ OfKind(r, Tensor(r, "all_gather", on, kind, sizes))
                       /\ OfKind(r, TensorV(r, "all_gather", on, kind, sizes))
    BY CallsOfKind
  <2> QED  BY <2>1, <2>2, <2>3, Entering
<1>7. CASE SplitRows(r)
  <2>1. Do(r, "split") /\ UNCHANGED <<conf, group, waits, raised>>
    BY <1>7 DEF SplitRows, health
  <2>2. "split" \in ServeTasks  BY DEF ServeTasks
  <2> QED  BY <1>0, <2>1, <2>2, Entering
<1>8. CASE Experts(r)
  <2>1. PICK call :
          /\ Do(r, "experts") /\ UNCHANGED <<conf, group>> /\ OfKind(r, call)
          /\ \/ waits' = waits /\ raised' = raised \cup {r}
             \/ waits' = [waits EXCEPT ![r] = call] /\ raised' = raised
    <3>1. PICK size :
            /\ Do(r, "experts") /\ UNCHANGED <<conf, group>>
            /\ \/ waits' = waits /\ raised' = raised \cup {r}
               \/ waits' = [waits EXCEPT ![r] = Idle] /\ raised' = raised
               \/ /\ waits' = [waits EXCEPT ![r] = AllReduce(r, "tp", "x", size)]
                  /\ raised' = raised
               \/ /\ waits' = [waits EXCEPT ![r] = Tensor(r, "a2a", "x", "moe_ep", << >>)]
                  /\ raised' = raised
      BY <1>8 DEF Experts, EnterReduce, Enter
    <3>2. /\ OfKind(r, AllReduce(r, "tp", "x", size))
          /\ OfKind(r, Tensor(r, "a2a", "x", "moe_ep", << >>))
      BY CallsOfKind
    <3> QED  BY <1>0, <3>1, <3>2
  <2>2. "experts" \in ServeTasks  BY DEF ServeTasks
  <2> QED  BY <2>1, <2>2, Entering
<1>9. CASE Combine(r)
  <2>1. PICK do \in {"cp_reduce_scatter", "combine"}, kind \in {"tp", "attn_cp"} : \E sizes :
          /\ Do(r, do) /\ UNCHANGED <<conf, group, raised>>
          /\ \/ waits' = [waits EXCEPT ![r] = Idle]
             \/ waits' = [waits EXCEPT ![r] = Tensor(r, "reduce_scatter", "x", kind, sizes)]
             \/ waits' = [waits EXCEPT ![r] = TensorV(r, "reduce_scatter", "x", kind, sizes)]
    BY <1>9 DEF Combine, Enter, health
  <2>2. {"cp_reduce_scatter", "combine"} \subseteq ServeTasks  BY DEF ServeTasks
  <2>3. \A sizes : /\ OfKind(r, Tensor(r, "reduce_scatter", "x", kind, sizes))
                   /\ OfKind(r, TensorV(r, "reduce_scatter", "x", kind, sizes))
    BY CallsOfKind
  <2> QED  BY <1>0, <2>1, <2>2, <2>3, Entering
<1>10. CASE AddShared(r)
  <2>1. /\ Do(r, "add_shared") /\ UNCHANGED <<conf, group, raised>>
        /\ waits' = [waits EXCEPT ![r] = Idle]
    BY <1>10 DEF AddShared, Enter, health
  <2>2. "add_shared" \in ServeTasks  BY DEF ServeTasks
  <2> QED  BY <1>0, <2>1, <2>2, Entering
<1>11. CASE GatherSplit(r)
  <2>1. PICK sizes :
          /\ Do(r, "gather_split") /\ UNCHANGED <<conf, group, raised>>
          /\ waits' = [waits EXCEPT ![r] =
               Call("all_gather", "x", Backing(conf)["attn_tp"], Kind(r, "attn_tp"), "device", sizes)]
    BY <1>11 DEF GatherSplit, Enter, health
  <2>2. "gather_split" \in ServeTasks  BY DEF ServeTasks
  <2>3. OfKind(r, Call("all_gather", "x", Backing(conf)["attn_tp"], Kind(r, "attn_tp"), "device", sizes))
    BY CallsOfKind
  <2> QED  BY <2>1, <2>2, <2>3, Entering
<1>12. CASE Release(r)
  <2>1. /\ Do(r, "release") /\ UNCHANGED <<conf, group, waits>>
        /\ raised' \in {raised, raised \cup {r}}
    BY <1>12 DEF Release
  <2>2. "release" \in ServeTasks  BY DEF ServeTasks
  <2> QED  BY <1>0, <2>1, <2>2, Entering
<1>13. CASE Send(r)
  <2>1. Do(r, "send") /\ UNCHANGED <<conf, group, waits, raised>>  BY <1>13 DEF Send, health
  <2>2. "send" \in ServeTasks  BY DEF ServeTasks
  <2> QED  BY <1>0, <2>1, <2>2, Entering
<1>14. CASE Recv(r)
  <2>1. PICK on, sizes :
          /\ Do(r, "recv") /\ UNCHANGED <<conf, group, raised>>
          /\ \/ waits' = [waits EXCEPT ![r] = Idle]
             \/ waits' = [waits EXCEPT ![r] = Tensor(r, "all_gather", on, "attn_tp", sizes)]
    BY <1>14 DEF Recv, Enter, health
  <2>2. "recv" \in ServeTasks  BY DEF ServeTasks
  <2>3. OfKind(r, Tensor(r, "all_gather", on, "attn_tp", sizes))  BY CallsOfKind
  <2> QED  BY <1>0, <2>1, <2>2, <2>3, Entering
<1>15. CASE Unpack(r)
  <2>1. Do(r, "unpack") /\ UNCHANGED <<conf, group, waits, raised>>  BY <1>15 DEF Unpack, health
  <2>2. "unpack" \in ServeTasks  BY DEF ServeTasks
  <2> QED  BY <1>0, <2>1, <2>2, Entering
<1> QED  BY <1>1, <1>2, <1>3, <1>4, <1>5, <1>6, <1>7, <1>8, <1>9, <1>10, <1>11, <1>12, <1>13,
            <1>14, <1>15 DEF RankServes

LEMMA MovesProceed ==
  ASSUME NEW r \in Ranks, Builds(r) \/ Works(r)
  PROVE  Proceeds(r)
<1>1. CASE Builds(r)
  <2> DEFINE s == Current(r)  call == CallOf(s)
  <2>1. /\ call.do = s.do
        /\ s.do = "new_group" => call.on = s.on /\ call.arg = s.arg
    BY CallFields DEF CallOf
  <2>2. \/ waits' = [waits EXCEPT ![r] = call]
        \/ waits' = waits /\ s.do # "new_group"
    BY <1>1 DEF Builds
  <2> HIDE DEF call
  <2> QED  BY <1>1, <2>1, <2>2 DEF Builds, Advances, Proceeds
<1>2. CASE Works(r)
  <2>1. Current(r).do # "new_group"  BY <1>2 DEF Works, ServeTasks
  <2>2. \A call : OfKind(r, call) => call.do # "new_group"
    <3>1. Idle.do # "new_group" /\ "new_group" \in SetUpTasks  BY DEF Idle, Step, SetUpTasks
    <3> QED  BY <3>1 DEF OfKind
  <2> QED  BY <1>2, <2>1, <2>2 DEF Works, Advances, Proceeds
<1> QED  BY <1>1, <1>2

LEMMA CallIInv ==
  ASSUME IInv, NEW q \in Ranks, NEW call, call = waits[q],
         \/ FormGroup(call) \/ Handshake(call) \/ AllReduced(call) \/ Gathered(call)
         \/ Scattered(call) \/ Dispatched(call)
  PROVE  IInv'
<1>1. conf' = conf /\ todo' = todo /\ Leave(call)
  BY DEF FormGroup, Handshake, AllReduced, Gathered, Scattered, Dispatched
<1>2. \/ group' = group
      \/ FormGroup(call)
  BY DEF Handshake, AllReduced, Gathered, Scattered, Dispatched
<1>3. DOMAIN waits' = Ranks /\ \A r \in Ranks : waits'[r] = waits[r] \/ waits'[r] = Idle
  BY <1>1 DEF Leave
<1>4. \A r \in Ranks : waits'[r].do = "new_group" => Listed(conf, waits'[r].on, waits'[r].arg)
  <2> SUFFICES ASSUME NEW r \in Ranks, waits'[r].do = "new_group"
               PROVE  Listed(conf, waits'[r].on, waits'[r].arg)
    OBVIOUS
  <2>1. Idle.do # "new_group"  BY DEF Idle, Step
  <2>2. waits'[r] = waits[r]  BY <1>3, <2>1
  <2> QED  BY <2>2 DEF IInv, Rightly
<1>5. /\ DOMAIN group' = Ranks
      /\ \A r \in Ranks : \A name \in DOMAIN group'[r] :
           Listed(conf, name, group'[r][name]) /\ r \in ToSet(group'[r][name])
  <2>1. CASE group' = group  BY <2>1 DEF IInv, Rightly
  <2>2. CASE FormGroup(call)
    <3>1. call.do = "new_group"
      BY <2>2 DEF FormGroup, Met
    <3>2. Listed(conf, call.on, call.arg)  BY <3>1 DEF IInv, Rightly
    <3>3. group' = [r \in Ranks |-> IF r \in ToSet(call.arg)
                                    THEN Keeping(group[r], call.on, call.arg) ELSE group[r]]
      BY <2>2 DEF FormGroup
    <3>4. ASSUME NEW r \in Ranks, NEW name \in DOMAIN group'[r]
          PROVE  \/ name \in DOMAIN group[r] /\ group'[r][name] = group[r][name]
                 \/ name = call.on /\ group'[r][name] = call.arg /\ r \in ToSet(call.arg)
      <4>1. CASE r \notin ToSet(call.arg)  BY <3>3, <4>1
      <4>2. CASE r \in ToSet(call.arg)
        <5>1. group'[r] = Keeping(group[r], call.on, call.arg)  BY <3>3, <4>2
        <5> QED  BY <4>2, <5>1 DEF Keeping
      <4> QED  BY <4>1, <4>2
    <3> QED  BY <3>2, <3>3, <3>4 DEF IInv, Rightly
  <2> QED  BY <1>2, <2>1, <2>2
<1>6. Rightly'  BY <1>1, <1>3, <1>4, <1>5 DEF IInv, Rightly
<1>7. \A r \in Ranks : waits'[r] = waits[r] \/ (waits'[r] = Idle /\ waits[r] = call)
  BY <1>1 DEF Leave, FormGroup, Handshake, AllReduced, Gathered, Scattered, Dispatched, Met
<1>8. Pending'
  <2> SUFFICES ASSUME NEW r \in Ranks, NEW k \in ToSet(Coordinators(conf))
               PROVE  \/ k.name \in DOMAIN group'[r]
                      \/ Forms(waits'[r], k.name, r)
                      \/ \E s \in ToSet(todo[r]) : Forms(s, k.name, r)
    BY <1>1 DEF Pending
  <2>1. \/ k.name \in DOMAIN group[r] \/ Forms(waits[r], k.name, r)
        \/ \E s \in ToSet(todo[r]) : Forms(s, k.name, r)
    BY DEF IInv, Pending
  <2>2. k.name \in DOMAIN group[r] => k.name \in DOMAIN group'[r]
    <3>1. CASE group' = group  BY <3>1
    <3>2. CASE FormGroup(call)
      <4>1. group'[r] \in {group[r], Keeping(group[r], call.on, call.arg)}
        BY <3>2 DEF FormGroup
      <4> QED  BY <4>1 DEF Keeping
    <3> QED  BY <1>2, <3>1, <3>2
  <2>3. ASSUME Forms(waits[r], k.name, r), waits'[r] # waits[r]
        PROVE  k.name \in DOMAIN group'[r]
    <3>1. waits[r] = call /\ call.do = "new_group"  BY <1>7, <2>3 DEF Forms
    <3>2. FormGroup(call)
      BY <3>1 DEF Handshake, AllReduced, Gathered, Scattered, Dispatched, Met
    <3>3. call.on = k.name /\ r \in ToSet(call.arg)  BY <2>3, <3>1 DEF Forms
    <3>4. group'[r] = Keeping(group[r], call.on, call.arg)  BY <3>2, <3>3 DEF FormGroup
    <3> QED  BY <3>3, <3>4 DEF Keeping
  <2> QED  BY <2>1, <2>2, <2>3
<1> QED  BY <1>6, <1>8 DEF IInv

\* Every step is one of these.
LEMMA NextMoves ==
  ASSUME [Next]_vars
  PROVE  \/ \E r \in Ranks : Builds(r) \/ Works(r)
         \/ \E q \in Ranks :
              /\ waits[q] # Idle
              /\ \/ FormGroup(waits[q]) \/ Handshake(waits[q]) \/ AllReduced(waits[q])
                 \/ Gathered(waits[q]) \/ Scattered(waits[q]) \/ Dispatched(waits[q])
         \/ UNCHANGED vars
<1>1. ASSUME NEW r \in Ranks,
             SetUp(r) \/ SetUpRoce(r) \/ RankServes(r)
      PROVE  Builds(r) \/ Works(r)
  BY <1>1, SetUpBuilds, ServingWorks
<1> QED  BY <1>1 DEF Next, Stopped, RankServes

LEMMA IInvNext == IInv /\ [Next]_vars => IInv'
<1> SUFFICES ASSUME IInv, [Next]_vars  PROVE IInv'
  OBVIOUS
<1>1. ASSUME NEW r \in Ranks, Builds(r) \/ Works(r)  PROVE IInv'
  BY <1>1, MovesProceed, ProceedsIInv
<1>2. ASSUME NEW q \in Ranks,
         \/ FormGroup(waits[q]) \/ Handshake(waits[q]) \/ AllReduced(waits[q])
         \/ Gathered(waits[q]) \/ Scattered(waits[q]) \/ Dispatched(waits[q])
      PROVE  IInv'
  BY <1>2, CallIInv
<1>3. CASE UNCHANGED vars  BY <1>3 DEF vars, IInv, Rightly, Pending
<1>4. CASE Stopped  BY <1>3, <1>4 DEF Stopped
<1> QED  BY <1>1, <1>2, <1>3, <1>4, NextMoves

\* A rank that has only to serve has a group of every coordinator.
LEMMA ServingFormed ==
  ASSUME IInv, NEW r \in Ranks, waits[r] = Idle, todo[r] # << >>, Head(todo[r]) \in Serving,
         NEW k \in ToSet(Coordinators(conf))
  PROVE  k.name \in DOMAIN group[r]
<1>1. todo[r] \in Seq(Serving)  BY ProgramTail DEF IInv, Rightly
<1>2. \A s \in ToSet(todo[r]) : ~Forms(s, k.name, r)
  <2>1. \A s \in Serving : s.do # "new_group"  BY DEF Serving, ServeTasks
  <2>2. \A s \in ToSet(todo[r]) : s \in Serving  BY <1>1 DEF ToSet
  <2> QED  BY <2>1, <2>2 DEF Forms
<1>3. ~Forms(waits[r], k.name, r)
  <2>1. Idle.do # "new_group"  BY DEF Idle, Step
  <2> QED  BY <2>1 DEF Forms
<1> QED  BY <1>2, <1>3 DEF IInv, Pending

\* A rank that is about to serve has formed every group, with the ranks that are meant.
LEMMA ReadyIsFormed ==
  ASSUME IInv, NEW r \in Ranks, ReadyToServe(r)
  PROVE  Formed(r)
<1>1. ASSUME NEW k \in ToSet(Coordinators(conf))  PROVE k.name \in DOMAIN group[r]
  <2>1. /\ waits[r] = Idle /\ todo[r] # << >> /\ Head(todo[r]).do \in {"embed", "recv"}
        /\ todo[r] \in Programs(conf)
    BY DEF ReadyToServe, Current, IInv, Rightly
  <2>2. Head(todo[r]) \in Serving
    <3>1. Head(todo[r]) \in Building(conf) \cup Serving  BY <2>1, ProgramTail
    <3>2. \A s \in Building(conf) : s.do \in SetUpTasks  BY DEF Building
    <3>3. "embed" \notin SetUpTasks /\ "recv" \notin SetUpTasks  BY DEF SetUpTasks
    <3> QED  BY <2>1, <3>1, <3>2, <3>3
  <2> QED  BY <2>1, <2>2, ServingFormed
<1>2. ASSUME NEW kind \in DOMAIN Meant(conf, r), NameOf(conf, kind) \in DOMAIN group[r]
      PROVE  ToSet(group[r][NameOf(conf, kind)]) = Meant(conf, r)[kind]
  <2> DEFINE name == NameOf(conf, kind)  list == group[r][name]
  <2>1. Listed(conf, name, list) /\ r \in ToSet(list)  BY <1>2 DEF IInv, Rightly
  <2> HIDE DEF list, name
  <2>2. PICK k \in ToSet(Coordinators(conf)) : k.name = name /\ list \in ToSet(k.lists)
    BY <2>1 DEF Listed
  <2>3. Layout(conf)  BY CollectivesAssumption DEF IInv, Rightly
  <2>4. PICK mine \in ToSet(k.lists) :
          /\ \A other \in ToSet(k.lists) : r \in ToSet(other) <=> other = mine
          /\ \A sort \in DOMAIN Meant(conf, r) :
               NameOf(conf, sort) = k.name => ToSet(mine) = Meant(conf, r)[sort]
    BY <2>2, <2>3, GroupsAsMeant
  <2>5. list = mine  BY <2>1, <2>2, <2>4
  <2>6. ToSet(mine) = Meant(conf, r)[kind]  BY <2>2, <2>4 DEF name
  <2> QED  BY <2>5, <2>6 DEF list, name
<1> QED  BY <1>1, <1>2 DEF Formed

-----------------------------------------------------------------------------
(* Ranks meet in the same order.                                           *)

\* x is what is left of q when only the steps in S are kept.
Selects(q, S, x) ==
  \E e \in [DOMAIN x -> DOMAIN q] :
    /\ \A i, j \in DOMAIN x : i < j => e[i] < e[j]
    /\ \A i \in DOMAIN x : x[i] = q[e[i]] /\ x[i] \in S
    /\ \A p \in DOMAIN q : q[p] \in S => \E i \in DOMAIN x : e[i] = p

LEMMA SelectsAll ==
  ASSUME NEW S, NEW q \in Seq(S)
  PROVE  Selects(q, S, q)
<1> DEFINE e == [i \in DOMAIN q |-> i]
<1>1. e \in [DOMAIN q -> DOMAIN q] /\ \A i \in DOMAIN q : e[i] = i  OBVIOUS
<1>2. \A i \in DOMAIN q : q[i] \in S  OBVIOUS
<1> HIDE DEF e
<1> QED  BY <1>1, <1>2 DEF Selects

LEMMA SelectsNone ==
  ASSUME NEW A, NEW q \in Seq(A), NEW S, A \cap S = {}
  PROVE  Selects(q, S, << >>)
<1> DEFINE e == [i \in {} |-> i]
<1>1. DOMAIN << >> = {} /\ e \in [DOMAIN << >> -> DOMAIN q]  OBVIOUS
<1>2. \A i \in DOMAIN q : q[i] \notin S
  <2>1. \A i \in DOMAIN q : q[i] \in A  OBVIOUS
  <2> QED  BY <2>1
<1> HIDE DEF e
<1> QED  BY <1>1, <1>2 DEF Selects

LEMMA SelectsConcat ==
  ASSUME NEW A, NEW S, NEW a \in Seq(A), NEW b \in Seq(A), NEW x \in Seq(A), NEW y \in Seq(A),
         Selects(a, S, x), Selects(b, S, y)
  PROVE  Selects(a \o b, S, x \o y)
<1>1. PICK e \in [DOMAIN x -> DOMAIN a] :
        /\ \A i, j \in DOMAIN x : i < j => e[i] < e[j]
        /\ \A i \in DOMAIN x : x[i] = a[e[i]] /\ x[i] \in S
        /\ \A p \in DOMAIN a : a[p] \in S => \E i \in DOMAIN x : e[i] = p
  BY DEF Selects
<1>2. PICK f \in [DOMAIN y -> DOMAIN b] :
        /\ \A i, j \in DOMAIN y : i < j => f[i] < f[j]
        /\ \A i \in DOMAIN y : y[i] = b[f[i]] /\ y[i] \in S
        /\ \A p \in DOMAIN b : b[p] \in S => \E i \in DOMAIN y : f[i] = p
  BY DEF Selects
<1> DEFINE n == Len(a)  m == Len(x)  q == a \o b  z == x \o y
           h == [i \in DOMAIN z |-> IF i <= m THEN e[i] ELSE n + f[i - m]]
<1>3. /\ n \in Nat /\ m \in Nat /\ DOMAIN a = 1 .. n /\ DOMAIN x = 1 .. m
      /\ DOMAIN b = 1 .. Len(b) /\ DOMAIN y = 1 .. Len(y) /\ Len(b) \in Nat /\ Len(y) \in Nat
      /\ DOMAIN q = 1 .. n + Len(b) /\ DOMAIN z = 1 .. m + Len(y)
  OBVIOUS
<1>4. /\ \A i \in 1 .. n : q[i] = a[i]
      /\ \A i \in 1 .. Len(b) : q[n + i] = b[i]
      /\ \A i \in 1 .. m : z[i] = x[i]
      /\ \A i \in 1 .. Len(y) : z[m + i] = y[i]
  OBVIOUS
<1> HIDE DEF n, m, q, z
<1>5. /\ \A i \in 1 .. m : i \in DOMAIN z /\ h[i] = e[i] /\ e[i] \in 1 .. n
      /\ \A i \in 1 .. Len(y) : m + i \in DOMAIN z /\ h[m + i] = n + f[i] /\ f[i] \in 1 .. Len(b)
  <2>1. \A i \in 1 .. m : i \in DOMAIN z /\ i <= m /\ e[i] \in 1 .. n  BY <1>3
  <2>2. \A i \in 1 .. Len(y) : /\ m + i \in DOMAIN z /\ ~(m + i <= m) /\ (m + i) - m = i
                              /\ f[i] \in 1 .. Len(b)
    <3> SUFFICES ASSUME NEW i \in 1 .. Len(y)
                 PROVE  /\ m + i \in DOMAIN z /\ ~(m + i <= m) /\ (m + i) - m = i
                        /\ f[i] \in 1 .. Len(b)
      OBVIOUS
    <3>1. i \in DOMAIN y /\ i \in Nat \ {0} /\ i <= Len(y)  BY <1>3
    <3>2. f[i] \in DOMAIN b  BY <3>1
    <3> QED  BY <1>3, <3>1, <3>2
  <2>3. \A i \in DOMAIN z : h[i] = IF i <= m THEN e[i] ELSE n + f[i - m]  OBVIOUS
  <2> HIDE DEF h
  <2>4. \A i \in 1 .. m : h[i] = e[i]  BY <2>1, <2>3
  <2>5. \A i \in 1 .. Len(y) : h[m + i] = n + f[i]  BY <2>2, <2>3
  <2> QED  BY <2>1, <2>2, <2>4, <2>5
<1>6. \A i \in DOMAIN z : \/ i \in 1 .. m
                          \/ i - m \in 1 .. Len(y) /\ m + (i - m) = i
  BY <1>3
<1> HIDE DEF h
<1>7. \A i \in DOMAIN z : h[i] \in DOMAIN q /\ z[i] = q[h[i]] /\ z[i] \in S
  <2> SUFFICES ASSUME NEW i \in DOMAIN z
               PROVE  h[i] \in DOMAIN q /\ z[i] = q[h[i]] /\ z[i] \in S
    OBVIOUS
  <2>1. CASE i \in 1 .. m  BY <1>1, <1>3, <1>4, <1>5, <2>1
  <2>2. CASE i - m \in 1 .. Len(y) /\ m + (i - m) = i
    <3> DEFINE k == i - m
    <3>1. k \in 1 .. Len(y) /\ m + k = i  BY <2>2
    <3> HIDE DEF k
    <3>2. h[i] = n + f[k] /\ f[k] \in 1 .. Len(b) /\ z[i] = y[k] /\ y[k] = b[f[k]] /\ y[k] \in S
      BY <1>2, <1>3, <1>4, <1>5, <3>1
    <3>3. q[n + f[k]] = b[f[k]]  BY <1>4, <3>2
    <3> QED  BY <1>3, <3>2, <3>3
  <2> QED  BY <1>6, <2>1, <2>2
<1>8. \A i, j \in DOMAIN z : i < j => h[i] < h[j]
  <2> SUFFICES ASSUME NEW i \in DOMAIN z, NEW j \in DOMAIN z, i < j  PROVE h[i] < h[j]
    OBVIOUS
  <2>1. CASE i \in 1 .. m /\ j \in 1 .. m  BY <1>1, <1>3, <1>5, <2>1
  <2>2. CASE i \in 1 .. m /\ j - m \in 1 .. Len(y) /\ m + (j - m) = j
    <3> DEFINE k == j - m
    <3>1. k \in 1 .. Len(y) /\ m + k = j  BY <2>2
    <3> HIDE DEF k
    <3> QED  BY <1>3, <1>5, <2>2, <3>1
  <2>3. CASE i - m \in 1 .. Len(y) /\ m + (i - m) = i /\ j - m \in 1 .. Len(y) /\ m + (j - m) = j
    <3> DEFINE k == j - m  l == i - m
    <3>1. k \in 1 .. Len(y) /\ m + k = j /\ l \in 1 .. Len(y) /\ m + l = i /\ l < k
      BY <1>3, <2>3
    <3> HIDE DEF k, l
    <3>2. f[l] < f[k]  BY <1>2, <1>3, <3>1
    <3> QED  BY <1>3, <1>5, <3>1, <3>2
  <2>4. i \in Int /\ j \in Int /\ (j \in 1 .. m => i \in 1 .. m)  BY <1>3
  <2> QED  BY <1>6, <2>1, <2>2, <2>3, <2>4
<1>9. \A p \in DOMAIN q : q[p] \in S => \E i \in DOMAIN z : h[i] = p
  <2> SUFFICES ASSUME NEW p \in DOMAIN q, q[p] \in S  PROVE \E i \in DOMAIN z : h[i] = p
    OBVIOUS
  <2>1. CASE p \in 1 .. n
    <3>1. PICK i \in 1 .. m : e[i] = p  BY <1>1, <1>3, <1>4, <2>1
    <3> QED  BY <1>5, <3>1
  <2>2. CASE p \notin 1 .. n
    <3> DEFINE k == p - n
    <3>1. k \in 1 .. Len(b) /\ n + k = p  BY <1>3, <2>2
    <3> HIDE DEF k
    <3>2. PICK i \in 1 .. Len(y) : f[i] = k  BY <1>2, <1>3, <1>4, <3>1
    <3> QED  BY <1>5, <3>1, <3>2
  <2> QED  BY <2>1, <2>2
<1>10. h \in [DOMAIN z -> DOMAIN q]
  <2>1. h = [i \in DOMAIN z |-> h[i]]  BY DEF h
  <2> QED  BY <1>7, <2>1
<1>11. Selects(q, S, z)  BY <1>7, <1>8, <1>9, <1>10 DEF Selects
<1> QED  BY <1>11 DEF q, z

\* Of a step taken, what is left is shorter if the step was one of S.
LEMMA SelectsTail ==
  ASSUME NEW A, NEW S, NEW q \in Seq(A), q # << >>, NEW x \in Seq(A), Selects(q, S, x)
  PROVE  /\ Head(q) \in S => x # << >> /\ Head(x) = Head(q) /\ Selects(Tail(q), S, Tail(x))
         /\ Head(q) \notin S => Selects(Tail(q), S, x)
<1>1. PICK e \in [DOMAIN x -> DOMAIN q] :
        /\ \A i, j \in DOMAIN x : i < j => e[i] < e[j]
        /\ \A i \in DOMAIN x : x[i] = q[e[i]] /\ x[i] \in S
        /\ \A p \in DOMAIN q : q[p] \in S => \E i \in DOMAIN x : e[i] = p
  BY DEF Selects
<1> DEFINE n == Len(q)  m == Len(x)  t == Tail(q)
<1>2. /\ n \in Nat \ {0} /\ m \in Nat /\ DOMAIN q = 1 .. n /\ DOMAIN x = 1 .. m
      /\ DOMAIN t = 1 .. n - 1 /\ (\A i \in 1 .. n - 1 : t[i] = q[i + 1]) /\ Head(q) = q[1]
      /\ t \in Seq(A)
  OBVIOUS
<1> HIDE DEF n, m, t
<1>3. ASSUME q[1] \in S
      PROVE  x # << >> /\ Head(x) = Head(q) /\ Selects(t, S, Tail(x))
  <2>1. PICK k \in DOMAIN x : e[k] = 1
    <3>1. 1 \in DOMAIN q  BY <1>2
    <3> QED  BY <1>1, <1>3, <3>1
  <2>2. 1 \in DOMAIN x /\ m \in Nat \ {0}  BY <1>2, <2>1
  <2>3. k = 1
    <3>1. ~(1 < k)
      <4>1. e[1] \in 1 .. n  BY <1>2, <2>2
      <4> QED  BY <1>1, <2>1, <2>2, <4>1
    <3> QED  BY <1>2, <2>1, <3>1
  <2> DEFINE y == Tail(x)
  <2>4. /\ x # << >> /\ Head(x) = x[1] /\ DOMAIN y = 1 .. m - 1
        /\ \A i \in 1 .. m - 1 : y[i] = x[i + 1]
    BY <2>2 DEF m
  <2> DEFINE f == [i \in DOMAIN y |-> e[i + 1] - 1]
  <2> HIDE DEF y
  <2>5. \A i \in DOMAIN y : /\ i + 1 \in DOMAIN x /\ i \in Int /\ e[i + 1] \in 2 .. n
                            /\ f[i] = e[i + 1] - 1
    <3> SUFFICES ASSUME NEW i \in DOMAIN y
                 PROVE  i + 1 \in DOMAIN x /\ i \in Int /\ e[i + 1] \in 2 .. n
      OBVIOUS
    <3>1. i \in Int /\ i + 1 \in DOMAIN x /\ 1 < i + 1  BY <1>2, <2>2, <2>4
    <3>2. e[1] < e[i + 1] /\ e[i + 1] \in 1 .. n  BY <1>1, <1>2, <2>2, <3>1
    <3> QED  BY <1>2, <2>1, <2>3, <3>1, <3>2
  <2>6. f = [i \in DOMAIN y |-> f[i]]  OBVIOUS
  <2> HIDE DEF f
  <2>7. \A i \in DOMAIN y : f[i] \in DOMAIN t /\ y[i] = t[f[i]] /\ y[i] \in S
    <3> SUFFICES ASSUME NEW i \in DOMAIN y
                 PROVE  f[i] \in DOMAIN t /\ y[i] = t[f[i]] /\ y[i] \in S
      OBVIOUS
    <3> DEFINE v == e[i + 1]
    <3>1. v \in 2 .. n /\ f[i] = v - 1  BY <2>5
    <3> HIDE DEF v
    <3>3. f[i] \in 1 .. n - 1 /\ f[i] + 1 = v  BY <1>2, <3>1
    <3>2. y[i] = x[i + 1] /\ x[i + 1] = q[v] /\ x[i + 1] \in S  BY <1>1, <2>4, <2>5 DEF v
    <3> QED  BY <1>2, <3>2, <3>3
  <2>8. \A i, j \in DOMAIN y : i < j => f[i] < f[j]
    <3> SUFFICES ASSUME NEW i \in DOMAIN y, NEW j \in DOMAIN y, i < j  PROVE f[i] < f[j]
      OBVIOUS
    <3>1. e[i + 1] < e[j + 1]  BY <1>1, <2>5
    <3> QED  BY <2>5, <3>1
  <2>9. \A p \in DOMAIN t : t[p] \in S => \E i \in DOMAIN y : f[i] = p
    <3> SUFFICES ASSUME NEW p \in DOMAIN t, t[p] \in S  PROVE \E i \in DOMAIN y : f[i] = p
      OBVIOUS
    <3>1. p + 1 \in DOMAIN q /\ q[p + 1] \in S /\ p \in Nat \ {0}  BY <1>2
    <3>2. PICK j \in DOMAIN x : e[j] = p + 1  BY <1>1, <3>1
    <3>3. j # 1  BY <2>1, <2>3, <3>1, <3>2
    <3> DEFINE i == j - 1
    <3>4. i \in DOMAIN y /\ i + 1 = j  BY <1>2, <2>4, <3>2, <3>3
    <3> HIDE DEF i
    <3>5. f[i] = p  BY <2>5, <3>1, <3>2, <3>4
    <3> QED  BY <3>4, <3>5
  <2>10. f \in [DOMAIN y -> DOMAIN t]  BY <2>6, <2>7
  <2>11. Selects(t, S, y)  BY <2>7, <2>8, <2>9, <2>10 DEF Selects
  <2>12. x[1] = q[1]  BY <1>1, <2>1, <2>2, <2>3
  <2> QED  BY <1>2, <2>4, <2>11, <2>12 DEF y
<1>4. ASSUME q[1] \notin S
      PROVE  Selects(t, S, x)
  <2> DEFINE f == [i \in DOMAIN x |-> e[i] - 1]
  <2>1. \A i \in DOMAIN x : e[i] \in 2 .. n /\ f[i] = e[i] - 1 /\ f[i] + 1 = e[i]
    <3> SUFFICES ASSUME NEW i \in DOMAIN x  PROVE e[i] \in 2 .. n  OBVIOUS
    <3>1. e[i] \in 1 .. n /\ e[i] # 1  BY <1>1, <1>2, <1>4
    <3> QED  BY <1>2, <3>1
  <2>2. f = [i \in DOMAIN x |-> f[i]]  OBVIOUS
  <2> HIDE DEF f
  <2>3. \A i \in DOMAIN x : f[i] \in DOMAIN t /\ x[i] = t[f[i]] /\ x[i] \in S
    <3> SUFFICES ASSUME NEW i \in DOMAIN x
                 PROVE  f[i] \in DOMAIN t /\ x[i] = t[f[i]] /\ x[i] \in S
      OBVIOUS
    <3>1. f[i] \in 1 .. n - 1 /\ f[i] + 1 = e[i]  BY <1>2, <2>1
    <3> QED  BY <1>1, <1>2, <3>1
  <2>4. \A i, j \in DOMAIN x : i < j => f[i] < f[j]  BY <1>1, <2>1
  <2>5. \A p \in DOMAIN t : t[p] \in S => \E i \in DOMAIN x : f[i] = p
    <3> SUFFICES ASSUME NEW p \in DOMAIN t, t[p] \in S  PROVE \E i \in DOMAIN x : f[i] = p
      OBVIOUS
    <3>1. p + 1 \in DOMAIN q /\ q[p + 1] \in S /\ p \in Nat \ {0}  BY <1>2
    <3>2. PICK i \in DOMAIN x : e[i] = p + 1  BY <1>1, <3>1
    <3>3. f[i] = p  BY <2>1, <3>1, <3>2
    <3> QED  BY <3>3
  <2>6. f \in [DOMAIN x -> DOMAIN t]  BY <2>2, <2>3
  <2> QED  BY <2>3, <2>4, <2>5, <2>6 DEF Selects
<1> QED  BY <1>2, <1>3, <1>4 DEF t

\* The selections of parts make up that of the whole.
LEMMA SelectsFlatten ==
  ASSUME NEW A, NEW S, NEW seqs \in Seq(Seq(A)), NEW parts \in Seq(Seq(A)),
         Len(parts) = Len(seqs), \A i \in DOMAIN seqs : Selects(seqs[i], S, parts[i])
  PROVE  Selects(FlattenSeq(seqs), S, FlattenSeq(parts))
<1>1. CASE seqs = << >>
  <2>1. parts = << >>  BY <1>1
  <2>2. FlattenSeq(seqs) = << >> /\ FlattenSeq(parts) = << >>  BY <1>1, <2>1 DEF FlattenSeq
  <2>3. Selects(<< >>, S, << >>)
    <3>1. << >> \in Seq(S)  OBVIOUS
    <3> QED  BY <3>1, SelectsAll
  <2> QED  BY <2>2, <2>3
<1>2. CASE seqs # << >>
  <2> DEFINE n == Len(seqs)
  <2>1. n \in Nat \ {0} /\ parts # << >> /\ DOMAIN seqs = 1 .. n  BY <1>2
  <2>2. PICK f : /\ FlattenSeq(seqs) = f[n]
                 /\ \A i \in 1 .. n : /\ f[i] \in Seq(A)
                                      /\ f[i] = IF i = 1 THEN seqs[i] ELSE f[i - 1] \o seqs[i]
    BY ONLY <1>2, seqs \in Seq(Seq(A)), FlattenUnfolds
  <2>3. PICK h : /\ FlattenSeq(parts) = h[n]
                 /\ \A i \in 1 .. n : /\ h[i] \in Seq(A)
                                      /\ h[i] = IF i = 1 THEN parts[i] ELSE h[i - 1] \o parts[i]
    <3>1. \E h : /\ FlattenSeq(parts) = h[Len(parts)]
                 /\ \A i \in 1 .. Len(parts) :
                      /\ h[i] \in Seq(A)
                      /\ h[i] = IF i = 1 THEN parts[i] ELSE h[i - 1] \o parts[i]
      BY ONLY <2>1, parts \in Seq(Seq(A)), FlattenUnfolds
    <3>2. n = Len(parts)  OBVIOUS
    <3> HIDE DEF n
    <3> QED  BY ONLY <3>1, <3>2
  <2>4. \A i \in 1 .. n : seqs[i] \in Seq(A) /\ parts[i] \in Seq(A)  OBVIOUS
  <2> DEFINE T == {i \in 1 .. n : ~Selects(f[i], S, h[i])}
  <2>5. T = {}
    <3>1. SUFFICES ASSUME T # {}  PROVE FALSE  OBVIOUS
    <3>2. PICK i \in T : \A j \in T : i <= j
      <4>1. T \in SUBSET Nat  BY <2>1
      <4> HIDE DEF T
      <4> QED  BY <3>1, <4>1, Least
    <3>3. i \in 1 .. n /\ ~Selects(f[i], S, h[i])  OBVIOUS
    <3>4. CASE i = 1
      <4>1. f[i] = seqs[i] /\ h[i] = parts[i]  BY <2>2, <2>3, <3>3, <3>4
      <4> QED  BY <2>1, <3>3, <4>1
    <3>5. CASE i # 1
      <4>1. i - 1 \in 1 .. n /\ i - 1 \notin T
        <5>1. i - 1 \in 1 .. n /\ i \in Int  BY <2>1, <3>3, <3>5
        <5> HIDE DEF T
        <5> QED  BY <3>2, <5>1
      <4>2. Selects(f[i - 1], S, h[i - 1])  BY <4>1
      <4> HIDE DEF T, n
      <4>3. f[i - 1] \in Seq(A) /\ h[i - 1] \in Seq(A) /\ seqs[i] \in Seq(A) /\ parts[i] \in Seq(A)
        BY <2>2, <2>3, <2>4, <3>3, <4>1
      <4>4. f[i] = f[i - 1] \o seqs[i] /\ h[i] = h[i - 1] \o parts[i]
        BY <2>2, <2>3, <3>3, <3>5
      <4>5. Selects(seqs[i], S, parts[i])  BY <2>1, <3>3
      <4>6. Selects(f[i - 1] \o seqs[i], S, h[i - 1] \o parts[i])
        BY ONLY <4>2, <4>3, <4>5, SelectsConcat
      <4> QED  BY <3>3, <4>4, <4>6
    <3> QED  BY <3>4, <3>5
  <2>6. n \in 1 .. n  BY <2>1
  <2>7. Selects(f[n], S, h[n])
    <3>1. n \notin T  BY <2>5
    <3> HIDE DEF n
    <3> QED  BY <2>6, <3>1
  <2> QED  BY <2>2, <2>3, <2>7
<1> QED  BY <1>1, <1>2

\* The steps of setting up and of serving.
Steps == Building(conf) \cup Serving

\* What a coordinator has its ranks do in the communicator g, name and ranks.
Part(k, g) ==
  (IF g = WorldGroup THEN News(k) ELSE << >>)
  \o (IF k.name = g[1] /\ g[2] \in ToSet(k.lists) THEN Communicators(k, g[2]) ELSE << >>)

LEMMA ServesNowhere ==
  ASSUME NEW g
  PROVE  Serving \cap On(g) = {}
<1>1. \A s \in Building(conf) : s.do \in SetUpTasks  BY DEF Building
<1>2. \A s \in Serving : s.do \in ServeTasks  BY DEF Serving
<1>3. SetUpTasks \cap ServeTasks = {}  BY DEF SetUpTasks, ServeTasks
<1> QED  BY <1>1, <1>2, <1>3 DEF On

LEMMA SetupOfSelects ==
  ASSUME conf \in Layouts, NEW k \in ToSet(Coordinators(conf)), NEW name, NEW list \in Seq(Int),
         NEW r \in Ranks, r \in ToSet(list)
  PROVE  /\ SetupOf(k, r) \in Seq(Steps) /\ Part(k, <<name, list>>) \in Seq(Steps)
         /\ Selects(SetupOf(k, r), On(<<name, list>>), Part(k, <<name, list>>))
<1> DEFINE g == <<name, list>>  mine == MyList(k, r)  S == On(g)  A == Steps
           n == News(k)  c == Communicators(k, mine)
           x == IF g = WorldGroup THEN n ELSE << >>
           y == IF k.name = g[1] /\ g[2] \in ToSet(k.lists) THEN Communicators(k, g[2]) ELSE << >>
<1>1. /\ k.name \in Names /\ mine \in ToSet(k.lists) /\ r \in ToSet(mine) /\ mine \in Seq(Int)
      /\ \A other \in ToSet(k.lists) : r \in ToSet(other) => other = mine
      /\ n \in Seq(On(WorldGroup))
  BY CoordinatorLists
<1>2. c \in Seq(Ours(k, mine))  BY <1>1, CommunicatorsOurs
<1>3. On(WorldGroup) \subseteq A /\ Ours(k, mine) \subseteq A  BY DEF On, Ours, Steps
<1>4. SetupOf(k, r) = n \o c /\ Part(k, g) = x \o y  BY DEF SetupOf, News, Part
<1>5. g[1] = name /\ g[2] = list  OBVIOUS
<1>6. y = IF g = <<k.name, mine>> THEN c ELSE << >>
  <2>1. CASE g = <<k.name, mine>>  BY <1>1, <1>5, <2>1
  <2>2. CASE g # <<k.name, mine>>
    <3>1. ~(k.name = g[1] /\ g[2] \in ToSet(k.lists))  BY <1>1, <1>5, <2>2
    <3> QED  BY <2>2, <3>1
  <2> QED  BY <2>1, <2>2
<1> HIDE DEF g, n, c, A, y, mine
<1>7. n \in Seq(A) /\ c \in Seq(A)  BY <1>1, <1>2, <1>3
<1>8. x \in Seq(A) /\ y \in Seq(A)  BY <1>6, <1>7
<1>9. Selects(n, S, x)
  <2>1. CASE g = WorldGroup  BY <1>1, <2>1, SelectsAll
  <2>2. CASE g # WorldGroup
    <3>1. On(WorldGroup) \cap On(g) = {}  BY <2>2 DEF On
    <3> QED  BY <1>1, <2>2, <3>1, SelectsNone
  <2> QED  BY <2>1, <2>2
<1>10. Selects(c, S, y)
  <2>1. CASE g = <<k.name, mine>>
    <3>1. Ours(k, mine) \subseteq S  BY <2>1 DEF Ours, On
    <3>2. c \in Seq(S)  BY <1>2, <3>1
    <3> QED  BY <1>6, <2>1, <3>2, SelectsAll
  <2>2. CASE g # <<k.name, mine>>
    <3>1. Ours(k, mine) \cap S = {}  BY <2>2 DEF Ours, On
    <3> QED  BY <1>2, <1>6, <2>2, <3>1, SelectsNone
  <2> QED  BY <2>1, <2>2
<1> HIDE DEF x, S
<1>11. Selects(n \o c, S, x \o y)  BY ONLY <1>7, <1>8, <1>9, <1>10, SelectsConcat
<1>12. n \o c \in Seq(A) /\ x \o y \in Seq(A)  BY <1>7, <1>8, ConcatSeq
<1> QED  BY <1>4, <1>11, <1>12 DEF g, A, S

\* All ranks of a communicator have the same to do in it.
LEMMA ProgramSelects ==
  ASSUME conf \in Layouts, NEW name, NEW list \in Seq(Int)
  PROVE  \E x \in Seq(Steps) :
           \A r \in Ranks : r \in ToSet(list) => Selects(Program(r), On(<<name, list>>), x)
<1> DEFINE g == <<name, list>>  S == On(g)  A == Steps  all == Coordinators(conf)
           parts == [i \in DOMAIN all |-> Part(all[i], g)]  x == FlattenSeq(parts)
<1>1. CASE \A r \in Ranks : r \notin ToSet(list)
  <2>1. << >> \in Seq(Steps)  OBVIOUS
  <2> QED  BY <1>1, <2>1
<1>2. CASE \E r \in Ranks : r \in ToSet(list)
  <2>0. /\ DOMAIN all = 1 .. Len(all) /\ Len(all) \in Nat
        /\ \A i \in DOMAIN all : all[i] \in ToSet(all)
    <3>1. all \in Seq(Kinds(conf))  BY CoordinatorsKinds
    <3> HIDE DEF all
    <3> QED  BY <3>1 DEF ToSet
  <2>1. \A r \in Ranks : r \in ToSet(list) => \A k \in ToSet(all) :
          /\ SetupOf(k, r) \in Seq(A) /\ Part(k, g) \in Seq(A)
          /\ Selects(SetupOf(k, r), S, Part(k, g))
    BY SetupOfSelects
  <2> HIDE DEF g, S, A, all
  <2>2. parts \in Seq(Seq(A)) /\ Len(parts) = Len(all)  BY <1>2, <2>0, <2>1
  <2> HIDE DEF parts
  <2>3. x \in Seq(A)  BY <2>2, FlattenSeqIn
  <2>4. ASSUME NEW r \in Ranks, r \in ToSet(list)
        PROVE  Selects(Program(r), S, x)
    <3> DEFINE seqs == [i \in DOMAIN all |-> SetupOf(all[i], r)]  a == FlattenSeq(seqs)
    <3>1. seqs \in Seq(Seq(A)) /\ Len(parts) = Len(seqs) /\ DOMAIN seqs = DOMAIN all
      BY <2>0, <2>1, <2>2, <2>4
    <3>2. \A i \in DOMAIN seqs : Selects(seqs[i], S, parts[i])
      BY <2>0, <2>1, <2>4 DEF parts
    <3>3. Setup(r) = a  BY DEF Setup, all
    <3>4. PICK q \in Seq(Serving) : Program(r) = Setup(r) \o q  BY ProgramRightful
    <3>5. Serving \cap S = {}  BY ServesNowhere DEF S
    <3>6. q \in Seq(A)
      <4>1. Serving \subseteq A  BY DEF A, Steps
      <4> QED  BY <4>1
    <3>7. Selects(q, S, << >>)  BY <3>5, SelectsNone
    <3> HIDE DEF seqs, a
    <3>8. Selects(FlattenSeq(seqs), S, FlattenSeq(parts))
      BY ONLY <2>2, <3>1, <3>2, SelectsFlatten
    <3>9. a \in Seq(A)
      <4>1. FlattenSeq(seqs) \in Seq(A)  BY <3>1, FlattenSeqIn
      <4> QED  BY <4>1 DEF a
    <3> DEFINE none == << >>
    <3>10. none \in Seq(A) /\ x \o none = x
      <4> HIDE DEF x
      <4> QED  BY <2>3
    <3>11. Selects(a, S, x)  BY <3>8 DEF a
    <3> HIDE DEF x
    <3>12. Selects(a \o q, S, x \o none)
      <4>1. Selects(q, S, none)  BY <3>7
      <4> HIDE DEF none
      <4> QED  BY ONLY <2>3, <3>6, <3>9, <3>10, <3>11, <4>1, SelectsConcat
    <3> QED  BY <3>3, <3>4, <3>10, <3>12
  <2> QED  BY <2>3, <2>4 DEF A, S, g
<1> QED  BY <1>1, <1>2

LEMMA FourHave ==
  ASSUME NEW S, NEW p \in Seq(S), NEW q \in Seq(S), NEW r \in Seq(S), NEW s \in Seq(S)
  PROVE  /\ p \o q \o r \o s \in Seq(S)
         /\ ToSet(p \o q \o r \o s) = ToSet(p) \cup ToSet(q) \cup ToSet(r) \cup ToSet(s)
<1>1. p \o q \in Seq(S) /\ ToSet(p \o q) = ToSet(p) \cup ToSet(q)  BY ConcatSeq, ConcatHas
<1> DEFINE u == p \o q
<1> HIDE DEF u
<1>2. u \in Seq(S)  BY <1>1 DEF u
<1>3. u \o r \in Seq(S) /\ ToSet(u \o r) = ToSet(u) \cup ToSet(r)
  BY ONLY <1>2, r \in Seq(S), ConcatSeq, ConcatHas
<1> DEFINE v == u \o r
<1> HIDE DEF v
<1>4. v \in Seq(S)  BY <1>3 DEF v
<1>5. v \o s \in Seq(S) /\ ToSet(v \o s) = ToSet(v) \cup ToSet(s)
  BY ONLY <1>4, s \in Seq(S), ConcatSeq, ConcatHas
<1>6. ToSet(v \o s) = ToSet(p) \cup ToSet(q) \cup ToSet(r) \cup ToSet(s)
  BY ONLY <1>1, <1>3, <1>5 DEF u, v
<1> QED  BY ONLY <1>5, <1>6 DEF u, v

\* Every kind of group has a coordinator.
LEMMA KindsBacked ==
  ASSUME NEW c, NEW kind \in DOMAIN Backing(c)
  PROVE  \E k \in ToSet(Coordinators(c)) : k.name = Backing(c)[kind]
<1> DEFINE new(name) == name \in {Backing(c)[k] : k \in DOMAIN Backing(c)}
           world == Coordinator("world", <<Stride(0, World, 1)>>, FALSE, FALSE, FALSE)
           tp == Coordinator("tp", TpLists(c), TRUE, TRUE, c.mq)
           attn_cp == Coordinator("attn_cp", AttnCpLists(c), TRUE, TRUE, c.mq)
           attn_tp == Coordinator("attention_tp", AttnTpLists(c), c.symm, FALSE, c.mq)
           moe_dp == Coordinator("moe_dp", MoeDpLists(c), TRUE, TRUE, FALSE)
           moe_ep == Coordinator("moe_ep", MoeEpLists(c), FALSE, FALSE, FALSE)
           moe_tp == Coordinator("moe_tp", MoeTpLists(c), FALSE, FALSE, FALSE)
           pp == Coordinator("pp", PpLists(c), TRUE, FALSE, FALSE)
           self_pp == Coordinator("self_pp", SelfPpLists, TRUE, FALSE, FALSE)
           pdmux == Coordinator("pdmux_prefill_tp", TpLists(c), TRUE, TRUE, c.mq)
           dcp == Coordinator("dcp", DcpLists(c), TRUE, TRUE, c.mq)
           overlap == Coordinator("attn_cp_overlap", AttnCpOverlapLists(c), TRUE, TRUE, FALSE)
           s1 == Only(c.pdmux, <<pdmux>>)  s2 == Only(c.dcp > 1, <<dcp>>)
           s3 == Only(new("attn_cp"), <<attn_cp>>)
           s4 == Only(c.overlap /\ c.cp > 1, <<overlap>>)
           s5 == Only(new("attention_tp"), <<attn_tp>>)  s6 == Only(new("moe_dp"), <<moe_dp>>)
           s7 == Only(new("moe_ep"), <<moe_ep>>)  s8 == Only(new("moe_tp"), <<moe_tp>>)
           first == <<world, tp>>  last == <<pp, self_pp>>
           S == {world, tp, pdmux, dcp, attn_cp, overlap, attn_tp, moe_dp, moe_ep, moe_tp,
                 pp, self_pp}
           name == Backing(c)[kind]
<1>1. Coordinators(c) = first \o s1 \o s2 \o s3 \o s4 \o s5 \o s6 \o s7 \o s8 \o last
  BY DEF Coordinators
<1>2. /\ tp.name = "tp" /\ attn_cp.name = "attn_cp" /\ attn_tp.name = "attention_tp"
      /\ moe_dp.name = "moe_dp" /\ moe_ep.name = "moe_ep" /\ moe_tp.name = "moe_tp"
      /\ pp.name = "pp"
  BY DEF Coordinator
<1>3. /\ name \in {"tp", "attn_cp", "pp", "attention_tp", "moe_dp", "moe_ep", "moe_tp"}
  BY DEF Backing, AttnCp
<1>4. new(name)  OBVIOUS
<1>5. /\ world \in S /\ tp \in S /\ pdmux \in S /\ dcp \in S /\ attn_cp \in S /\ overlap \in S
      /\ attn_tp \in S /\ moe_dp \in S /\ moe_ep \in S /\ moe_tp \in S /\ pp \in S
      /\ self_pp \in S
  OBVIOUS
<1> HIDE DEF S, world, tp, pdmux, dcp, attn_cp, overlap, attn_tp, moe_dp, moe_ep, moe_tp, pp,
             self_pp, new, name
<1>6. /\ first \in Seq(S) /\ last \in Seq(S)
      /\ tp \in ToSet(first) /\ pp \in ToSet(last)
  <2>1. first \in Seq(S) /\ last \in Seq(S)  BY <1>5
  <2>2. 2 \in DOMAIN first /\ first[2] = tp /\ 1 \in DOMAIN last /\ last[1] = pp  OBVIOUS
  <2> HIDE DEF first, last
  <2> QED  BY <2>1, <2>2, Zenon DEF ToSet
<1>7. /\ s1 \in Seq(S) /\ s2 \in Seq(S) /\ s3 \in Seq(S) /\ s4 \in Seq(S) /\ s5 \in Seq(S)
      /\ s6 \in Seq(S) /\ s7 \in Seq(S) /\ s8 \in Seq(S)
  BY ONLY <1>5, OnlySeq
<1>8. \A x : x \in ToSet(Only(TRUE, <<x>>))
  <2> SUFFICES ASSUME NEW x  PROVE x \in ToSet(Only(TRUE, <<x>>))  OBVIOUS
  <2> DEFINE y == <<x>>
  <2>1. Only(TRUE, y) = y  BY DEF Only
  <2>2. 1 \in DOMAIN y /\ y[1] = x  OBVIOUS
  <2> HIDE DEF y
  <2>3. x \in ToSet(y)  BY <2>2, Zenon DEF ToSet
  <2>4. x \in ToSet(Only(TRUE, y))  BY <2>1, <2>3
  <2> QED  BY <2>4 DEF y
<1>9. /\ new("attn_cp") => attn_cp \in ToSet(s3)
      /\ new("attention_tp") => attn_tp \in ToSet(s5)
      /\ new("moe_dp") => moe_dp \in ToSet(s6)
      /\ new("moe_ep") => moe_ep \in ToSet(s7)
      /\ new("moe_tp") => moe_tp \in ToSet(s8)
  <2>1. \A p, x : p => Only(p, <<x>>) = Only(TRUE, <<x>>)  BY DEF Only
  <2> QED  BY <1>8, <2>1
<1> HIDE DEF s1, s2, s3, s4, s5, s6, s7, s8, first, last
<1> DEFINE u == first \o s1 \o s2 \o s3
<1>10. u \in Seq(S) /\ ToSet(u) = ToSet(first) \cup ToSet(s1) \cup ToSet(s2) \cup ToSet(s3)
  <2>1. first \in Seq(S)  BY <1>6
  <2> QED  BY ONLY <1>7, <2>1, FourHave
<1> HIDE DEF u
<1> DEFINE v == u \o s4 \o s5 \o s6
<1>11. v \in Seq(S) /\ ToSet(v) = ToSet(u) \cup ToSet(s4) \cup ToSet(s5) \cup ToSet(s6)
  BY ONLY <1>7, <1>10, FourHave
<1> HIDE DEF v
<1>12. ToSet(Coordinators(c)) = ToSet(v) \cup ToSet(s7) \cup ToSet(s8) \cup ToSet(last)
  <2>1. last \in Seq(S)  BY <1>6
  <2>2. ToSet(v \o s7 \o s8 \o last) = ToSet(v) \cup ToSet(s7) \cup ToSet(s8) \cup ToSet(last)
    BY ONLY <1>7, <1>11, <2>1, FourHave
  <2> QED  BY ONLY <1>1, <2>2 DEF u, v
<1>13. \E k \in ToSet(Coordinators(c)) : k.name = name
  BY ONLY <1>2, <1>3, <1>4, <1>6, <1>9, <1>10, <1>11, <1>12
<1> QED  BY <1>13 DEF name

-----------------------------------------------------------------------------
(* The groups agreed on.                                                   *)

\* A wait in the communicator g, to set it up.
At(wait, g) == wait.do \in SetUpTasks /\ <<wait.name, wait.list>> = g

\* A rank that waits so and has still to take the steps in rest, of which those in S meet
\* in g: it is at the first step of x or before it.
Ahead(wait, rest, S, g, x) ==
  IF At(wait, g)
  THEN x # << >> /\ wait = CallOf(Head(x)) /\ Selects(rest, S, Tail(x))
  ELSE Selects(rest, S, x)

\* There is one sequence of steps for each communicator, the same for all its ranks.
Agreed ==
  \A name \in Names, list \in Seq(Int) : \E x \in Seq(Steps) :
    \A r \in Ranks : r \notin raised /\ r \in ToSet(list) =>
      Ahead(waits[r], todo[r], On(<<name, list>>), <<name, list>>, x)

\* A rank sets up its own groups before it serves, and waits in groups that it is in.
Within ==
  \A r \in Ranks :
    /\ todo[r] \in Seq(Mine(r) \cup Serving)
    /\ waits[r].do \in SetUpTasks => waits[r].name \in Names /\ waits[r].list \in Seq(Int)
    /\ waits[r] # Idle => r \in ToSet(waits[r].list) /\ r \notin raised
    /\ waits[r] = Idle \/ waits[r].do \in SetUpTasks \/ todo[r] \in Seq(Serving)

LEMMA IdleServes == Idle.do \notin SetUpTasks
  BY DEF Idle, Step, SetUpTasks

\* What only serves has nothing to do in a communicator's set-up.
LEMMA ServesNone ==
  ASSUME NEW q \in Seq(Serving), NEW g, NEW x \in Seq(Steps), Selects(q, On(g), x)
  PROVE  x = << >>
<1>1. PICK e \in [DOMAIN x -> DOMAIN q] :
        \A i \in DOMAIN x : x[i] = q[e[i]] /\ x[i] \in On(g)
  BY DEF Selects
<1>2. SUFFICES ASSUME x # << >>  PROVE FALSE  OBVIOUS
<1>3. 1 \in DOMAIN x  BY <1>2
<1>4. e[1] \in DOMAIN q /\ q[e[1]] \in On(g)  BY <1>1, <1>3
<1>5. q[e[1]] \in Serving  BY <1>4
<1> QED  BY <1>4, <1>5, ServesNowhere

LEMMA AgreedInit == Init => Within /\ Agreed
<1> SUFFICES ASSUME Init  PROVE Within /\ Agreed
  OBVIOUS
<1>1. /\ conf \in Layouts /\ todo = [r \in Ranks |-> Program(r)]
      /\ \A r \in Ranks : waits[r] = Idle
  BY DEF Init
<1>2. Within
  <2>1. ASSUME NEW r \in Ranks  PROVE todo[r] \in Seq(Mine(r) \cup Serving)
    <3>1. PICK q \in Seq(Serving) : Program(r) = Setup(r) \o q  BY <1>1, ProgramRightful
    <3>2. Setup(r) \in Seq(Mine(r))  BY <1>1, SetupBuilds
    <3> DEFINE a == Setup(r)  A == Mine(r) \cup Serving
    <3> HIDE DEF a
    <3>3. a \in Seq(A) /\ q \in Seq(A)  BY <3>2 DEF a
    <3> HIDE DEF A
    <3>4. a \o q \in Seq(A)  BY ONLY <3>3, ConcatSeq
    <3> QED  BY <1>1, <3>1, <3>4 DEF a, A
  <2> QED  BY <1>1, <2>1, IdleServes DEF Within
<1>3. Agreed
  <2> SUFFICES ASSUME NEW name \in Names, NEW list \in Seq(Int)
               PROVE  \E x \in Seq(Steps) :
                        \A r \in Ranks : r \notin raised /\ r \in ToSet(list) =>
                          Ahead(waits[r], todo[r], On(<<name, list>>), <<name, list>>, x)
    BY DEF Agreed
  <2>1. PICK x \in Seq(Steps) :
          \A r \in Ranks : r \in ToSet(list) => Selects(Program(r), On(<<name, list>>), x)
    BY <1>1, ProgramSelects
  <2>2. \A r \in Ranks : ~At(waits[r], <<name, list>>)  BY <1>1, IdleServes DEF At
  <2>3. \A r \in Ranks : r \in ToSet(list) =>
          Ahead(waits[r], todo[r], On(<<name, list>>), <<name, list>>, x)
    BY <1>1, <2>1, <2>2 DEF Ahead
  <2> QED  BY <2>3
<1> QED  BY <1>2, <1>3

\* What a rank takes of its program, and what the others keep.
LEMMA AdvancesTakes ==
  ASSUME IInv, NEW r \in Ranks, Builds(r) \/ Works(r)
  PROVE  /\ todo'[r] = Tail(todo[r]) /\ todo[r] # << >> /\ Current(r) = Head(todo[r])
         /\ todo[r] \in Seq(Steps)
         /\ waits[r] = Idle /\ r \notin raised /\ raised' \in {raised, raised \cup {r}}
         /\ \A q \in Ranks \ {r} : todo'[q] = todo[q] /\ waits'[q] = waits[q]
         /\ conf' = conf
         /\ \A call : waits' = [waits EXCEPT ![r] = call] => waits'[r] = call
<1>1. Advances(r) /\ raised' \in {raised, raised \cup {r}}  BY DEF Builds, Works
<1>2. todo \in [Ranks -> Programs(conf)] /\ DOMAIN waits = Ranks  BY DEF IInv, Rightly
<1>3. todo[r] \in Seq(Steps)  BY <1>2 DEF Programs, Steps
<1>4. \A q \in Ranks \ {r} : todo'[q] = todo[q]  BY <1>1, <1>2 DEF Advances
<1>5. \A q \in Ranks \ {r} : waits'[q] = waits[q]
  <2>1. \/ waits' = waits
        \/ \E call : waits' = [waits EXCEPT ![r] = call]
    BY DEF Builds, Works
  <2> QED  BY <1>2, <2>1
<1>6. todo'[r] = Tail(todo[r])  BY <1>1, <1>2 DEF Advances
<1> QED  BY <1>1, <1>2, <1>3, <1>4, <1>5, <1>6 DEF Advances, Current

LEMMA WorldAll ==
  ASSUME NEW r \in Ranks
  PROVE  Stride(0, World, 1) \in Seq(Int) /\ r \in ToSet(Stride(0, World, 1))
<1>1. World \in Nat /\ 0 \in Int /\ 1 \in Int  BY CollectivesAssumption
<1>2. ToSet(Stride(0, World, 1)) = Strided(World, 1, 0)  BY <1>1, StrideSet
<1>3. r \in Strided(World, 1, 0)  BY <1>1 DEF Strided, Ranks
<1>4. Stride(0, World, 1) \in Seq(Int)  BY <1>1 DEF Stride
<1> QED  BY <1>2, <1>3, <1>4

LEMMA WithinAdvances ==
  ASSUME IInv, Within, NEW r \in Ranks, Builds(r) \/ Works(r)
  PROVE  Within'
<1> DEFINE A == Mine(r) \cup Serving
<1>1. /\ todo'[r] = Tail(todo[r]) /\ todo[r] # << >> /\ Current(r) = Head(todo[r])
      /\ todo[r] \in Seq(Steps)
      /\ waits[r] = Idle /\ r \notin raised /\ raised' \in {raised, raised \cup {r}}
      /\ \A q \in Ranks \ {r} : todo'[q] = todo[q] /\ waits'[q] = waits[q]
      /\ conf' = conf
      /\ \A call : waits' = [waits EXCEPT ![r] = call] => waits'[r] = call
  BY AdvancesTakes
<1>2. todo[r] \in Seq(A)  BY DEF Within
<1>3. Tail(todo[r]) \in Seq(A) /\ Head(todo[r]) \in A
  <2> HIDE DEF A
  <2> QED  BY <1>1, <1>2
<1>4. /\ Head(todo[r]) \in Serving => Tail(todo[r]) \in Seq(Serving)
      /\ Head(todo[r]).do \in ServeTasks => Head(todo[r]) \in Serving
      /\ Head(todo[r]).do \in SetUpTasks => Head(todo[r]) \in Mine(r)
  <2>1. \A s \in Mine(r) : s.do \in SetUpTasks  BY DEF Mine, Building
  <2>2. \A s \in Serving : s.do \in ServeTasks  BY DEF Serving
  <2>3. SetUpTasks \cap ServeTasks = {}  BY DEF SetUpTasks, ServeTasks
  <2>4. Head(todo[r]) \in Serving => todo[r] \in Seq(Serving)
    BY <1>1, ProgramTail DEF IInv, Rightly
  <2>5. todo[r] \in Seq(Serving) => Tail(todo[r]) \in Seq(Serving)  BY <1>1
  <2> QED  BY <1>3, <2>1, <2>2, <2>3, <2>4, <2>5
<1>5. /\ waits'[r].do \in SetUpTasks => waits'[r].name \in Names /\ waits'[r].list \in Seq(Int)
      /\ waits'[r] # Idle => r \in ToSet(waits'[r].list) /\ r \notin raised'
      /\ waits'[r] = Idle \/ waits'[r].do \in SetUpTasks \/ Tail(todo[r]) \in Seq(Serving)
  <2>1. CASE waits' = waits  BY <1>1, <2>1, IdleServes
  <2>2. CASE Builds(r) /\ waits' # waits
    <3> DEFINE s == Head(todo[r])  call == CallOf(s)
    <3>1. s.do \in SetUpTasks /\ s \in Mine(r)  BY <1>1, <1>4, <2>2 DEF Builds
    <3>2. /\ s.on \in Names /\ s.arg \in Seq(Int)
          /\ s.do # "new_group" => r \in ToSet(s.arg)
      BY <3>1 DEF Mine, Building
    <3>3. call.do = s.do /\ call.name = Meets(s)[1] /\ call.list = Meets(s)[2]
      BY CallFields DEF CallOf
    <3>4. waits'[r] = call /\ raised' = raised  BY <1>1, <2>2 DEF Builds
    <3>5. Meets(s)[1] \in Names /\ Meets(s)[2] \in Seq(Int) /\ r \in ToSet(Meets(s)[2])
      <4>1. "world" \in Names /\ "tp" \in Names  BY DEF Names
      <4> HIDE DEF s
      <4>2. CASE s.do = "new_group"  BY <4>1, <4>2, WorldAll DEF Meets, WorldGroup
      <4>3. CASE s.do # "new_group"  BY <3>2, <4>1, <4>3 DEF Meets
      <4> QED  BY <4>2, <4>3
    <3> HIDE DEF s, call
    <3> QED  BY <1>1, <3>1, <3>3, <3>4, <3>5
  <2>3. CASE Works(r) /\ waits' # waits
    <3>1. PICK call : OfKind(r, call) /\ waits' = [waits EXCEPT ![r] = call] /\ raised' = raised
      BY <2>3 DEF Works
    <3>2. waits'[r] = call  BY <1>1, <3>1
    <3>3. Head(todo[r]) \in Serving  BY <1>1, <1>4, <2>3 DEF Works
    <3>4. CASE call = Idle  BY <3>2, <3>4, IdleServes
    <3>5. CASE call # Idle
      <4>1. PICK kind \in DOMAIN Backing(conf) :
              call.do \notin SetUpTasks /\ call.list = group[r][Backing(conf)[kind]]
        BY <3>1, <3>5 DEF OfKind
      <4>2. PICK k \in ToSet(Coordinators(conf)) : k.name = Backing(conf)[kind]
        BY KindsBacked
      <4>3. k.name \in DOMAIN group[r]  BY <1>1, <3>3, ServingFormed
      <4>4. r \in ToSet(call.list)  BY <4>1, <4>2, <4>3 DEF IInv, Rightly
      <4> QED  BY <1>1, <1>4, <3>1, <3>2, <3>3, <4>1, <4>4
    <3> QED  BY <3>4, <3>5
  <2> QED  BY <2>1, <2>2, <2>3
<1>6. \A q \in Ranks : Mine(q)' = Mine(q)  BY <1>1 DEF Mine, Building, Listed
<1>7. ASSUME NEW q \in Ranks
      PROVE  /\ todo'[q] \in Seq(Mine(q) \cup Serving)
             /\ waits'[q].do \in SetUpTasks => waits'[q].name \in Names /\ waits'[q].list \in Seq(Int)
             /\ waits'[q] # Idle => q \in ToSet(waits'[q].list) /\ q \notin raised'
             /\ waits'[q] = Idle \/ waits'[q].do \in SetUpTasks \/ todo'[q] \in Seq(Serving)
  <2>1. CASE q = r  BY <1>1, <1>3, <1>5, <2>1
  <2>2. CASE q # r  BY <1>1, <2>2 DEF Within
  <2> QED  BY <2>1, <2>2
<1> QED  BY <1>6, <1>7 DEF Within

LEMMA AgreedAdvances ==
  ASSUME IInv, Within, Agreed, NEW r \in Ranks, Builds(r) \/ Works(r)
  PROVE  Agreed'
<1>1. /\ todo'[r] = Tail(todo[r]) /\ todo[r] # << >> /\ Current(r) = Head(todo[r])
      /\ todo[r] \in Seq(Steps)
      /\ waits[r] = Idle /\ r \notin raised /\ raised' \in {raised, raised \cup {r}}
      /\ \A q \in Ranks \ {r} : todo'[q] = todo[q] /\ waits'[q] = waits[q]
      /\ conf' = conf
      /\ \A call : waits' = [waits EXCEPT ![r] = call] => waits'[r] = call
  BY AdvancesTakes
<1>2. SUFFICES ASSUME NEW name \in Names, NEW list \in Seq(Int)
               PROVE  \E x \in Seq(Steps) :
                        \A q \in Ranks : q \notin raised' /\ q \in ToSet(list) =>
                          Ahead(waits'[q], todo'[q], On(<<name, list>>), <<name, list>>, x)
  <2>1. \A g : On(g)' = On(g)  BY <1>1 DEF On, Building, Listed
  <2>2. Steps' = Steps  BY <1>1 DEF Steps, Building, Listed
  <2> QED  BY <2>1, <2>2 DEF Agreed
<1> DEFINE g == <<name, list>>  S == On(g)  s == Head(todo[r])
<1>3. PICK x \in Seq(Steps) :
        \A q \in Ranks : q \notin raised /\ q \in ToSet(list) =>
          Ahead(waits[q], todo[q], S, g, x)
  BY DEF Agreed
<1> HIDE DEF g
<1>4. ASSUME r \in ToSet(list), r \notin raised'
      PROVE  Ahead(waits'[r], todo'[r], S, g, x)
  <2>1. ~At(waits[r], g)  BY <1>1, IdleServes DEF At
  <2>2. Selects(todo[r], S, x)  BY <1>1, <1>3, <1>4, <2>1 DEF Ahead
  <2>3. /\ s \in S => x # << >> /\ Head(x) = s /\ Selects(Tail(todo[r]), S, Tail(x))
        /\ s \notin S => Selects(Tail(todo[r]), S, x)
    BY <1>1, <2>2, SelectsTail
  <2>4. s \in S <=> s \in Building(conf) /\ Meets(s) = g  BY DEF On
  <2>5. CASE Builds(r)
    <3>1. s.do \in SetUpTasks  BY <1>1, <2>5 DEF Builds
    <3>2. s \in Building(conf)
      <4>1. s \in Building(conf) \cup Serving  BY <1>1, ProgramTail DEF IInv, Rightly
      <4>2. \A t \in Serving : t.do \in ServeTasks  BY DEF Serving
      <4>3. SetUpTasks \cap ServeTasks = {}  BY DEF SetUpTasks, ServeTasks
      <4> QED  BY <3>1, <4>1, <4>2, <4>3
    <3>3. waits'[r] = CallOf(s)  BY <1>1, <1>4, <2>5 DEF Builds
    <3>4. At(waits'[r], g) <=> Meets(s) = g
      <4>1. CallOf(s).do = s.do /\ <<CallOf(s).name, CallOf(s).list>> = Meets(s)
        BY CallFields DEF CallOf, Meets, WorldGroup
      <4> HIDE DEF s
      <4> QED  BY <3>1, <3>3, <4>1 DEF At
    <3> QED  BY <1>1, <2>3, <2>4, <3>2, <3>3, <3>4 DEF Ahead
  <2>6. CASE Works(r)
    <3>1. s.do \in ServeTasks  BY <1>1, <2>6 DEF Works
    <3>2. s \notin S
      <4>1. \A t \in Building(conf) : t.do \in SetUpTasks  BY DEF Building
      <4>2. SetUpTasks \cap ServeTasks = {}  BY DEF SetUpTasks, ServeTasks
      <4> QED  BY <2>4, <3>1, <4>1, <4>2
    <3>3. waits'[r].do \notin SetUpTasks
      <4>1. CASE waits' = waits  BY <1>1, <4>1, IdleServes
      <4>2. CASE waits' # waits  BY <1>1, <2>6, <4>2, IdleServes DEF Works, OfKind
      <4> QED  BY <4>1, <4>2
    <3>4. ~At(waits'[r], g)  BY <3>3 DEF At
    <3> QED  BY <1>1, <2>3, <3>2, <3>4 DEF Ahead
  <2> QED  BY <2>5, <2>6
<1>5. \A q \in Ranks : q \notin raised' /\ q \in ToSet(list) => Ahead(waits'[q], todo'[q], S, g, x)
  BY <1>1, <1>3, <1>4
<1> QED  BY <1>5 DEF g

\* The ranks of a communicator leave the same call: what is left is the rest of x.
LEMMA AgreedMeets ==
  ASSUME IInv, Within, Agreed, NEW m \in Ranks, NEW call, call = waits[m], call # Idle,
         \/ FormGroup(call) \/ Handshake(call) \/ AllReduced(call) \/ Gathered(call)
         \/ Scattered(call) \/ Dispatched(call)
  PROVE  Within' /\ Agreed'
<1>1. /\ conf' = conf /\ todo' = todo /\ raised' = raised
      /\ waits' = [r \in Ranks |-> IF r \in ToSet(call.list) THEN Idle ELSE waits[r]]
      /\ \A r \in ToSet(call.list) : r \notin raised /\ waits[r] = call
  BY DEF FormGroup, Handshake, AllReduced, Gathered, Scattered, Dispatched, Met, Leave, health
<1>2. Within'
  <2>1. \A r \in Ranks : Mine(r)' = Mine(r)  BY <1>1 DEF Mine, Building, Listed
  <2>2. \A r \in Ranks : waits'[r] = Idle \/ waits'[r] = waits[r]  BY <1>1
  <2>3. ASSUME NEW r \in Ranks
        PROVE  /\ todo[r] \in Seq(Mine(r) \cup Serving)
               /\ waits'[r].do \in SetUpTasks =>
                    waits'[r].name \in Names /\ waits'[r].list \in Seq(Int)
               /\ waits'[r] # Idle => r \in ToSet(waits'[r].list) /\ r \notin raised
               /\ waits'[r] = Idle \/ waits'[r].do \in SetUpTasks \/ todo[r] \in Seq(Serving)
    <3>1. CASE waits'[r] = Idle  BY <3>1, IdleServes DEF Within
    <3>2. CASE waits'[r] = waits[r]  BY <3>2 DEF Within
    <3> QED  BY <2>2, <3>1, <3>2
  <2> QED  BY <1>1, <2>1, <2>3 DEF Within
<1>3. Agreed'
  <2>1. SUFFICES ASSUME NEW name \in Names, NEW list \in Seq(Int)
                 PROVE  \E x \in Seq(Steps) :
                          \A r \in Ranks : r \notin raised /\ r \in ToSet(list) =>
                            Ahead(waits'[r], todo[r], On(<<name, list>>), <<name, list>>, x)
    <3>1. \A g : On(g)' = On(g)  BY <1>1 DEF On, Building, Listed
    <3>2. Steps' = Steps  BY <1>1 DEF Steps, Building, Listed
    <3> QED  BY <1>1, <3>1, <3>2 DEF Agreed
  <2> DEFINE g == <<name, list>>  S == On(g)
  <2>2. PICK x \in Seq(Steps) :
          \A r \in Ranks : r \notin raised /\ r \in ToSet(list) =>
            Ahead(waits[r], todo[r], S, g, x)
    BY DEF Agreed
  <2>3. m \in ToSet(call.list) /\ m \notin raised  BY DEF Within
  <2>4. CASE At(call, g)
    <3>1. call.list = list  BY <2>4 DEF At
    <3> HIDE DEF g, S
    <3>2. x # << >>
      <4>1. Ahead(call, todo[m], S, g, x)  BY <2>2, <2>3, <3>1
      <4> QED  BY <2>4, <4>1 DEF Ahead
    <3>3. Tail(x) \in Seq(Steps)  BY <3>2
    <3>4. ASSUME NEW r \in Ranks, r \notin raised, r \in ToSet(list)
          PROVE  Ahead(waits'[r], todo[r], S, g, Tail(x))
      <4>1. waits[r] = call /\ waits'[r] = Idle  BY <1>1, <3>1, <3>4
      <4>2. Selects(todo[r], S, Tail(x))  BY <2>2, <2>4, <3>4, <4>1 DEF Ahead
      <4>3. ~At(waits'[r], g)  BY <4>1, IdleServes DEF At
      <4> QED  BY <4>2, <4>3 DEF Ahead
    <3> QED  BY <3>3, <3>4 DEF g, S
  <2>5. CASE ~At(call, g)
    <3> HIDE DEF g, S
    <3>1. ASSUME NEW r \in Ranks, r \notin raised, r \in ToSet(list)
          PROVE  Ahead(waits'[r], todo[r], S, g, x)
      <4>1. CASE r \in ToSet(call.list)
        <5>1. waits[r] = call /\ waits'[r] = Idle  BY <1>1, <4>1
        <5>2. Selects(todo[r], S, x)  BY <2>2, <2>5, <3>1, <5>1 DEF Ahead
        <5>3. ~At(waits'[r], g)  BY <5>1, IdleServes DEF At
        <5> QED  BY <5>2, <5>3 DEF Ahead
      <4>2. CASE r \notin ToSet(call.list)
        <5>1. waits'[r] = waits[r]  BY <1>1, <4>2
        <5> QED  BY <2>2, <3>1, <5>1
      <4> QED  BY <4>1, <4>2
    <3> QED  BY <3>1 DEF g, S
  <2> QED  BY <2>4, <2>5
<1> QED  BY <1>2, <1>3

LEMMA AgreedNext == IInv /\ Within /\ Agreed /\ [Next]_vars => Within' /\ Agreed'
<1> SUFFICES ASSUME IInv, Within, Agreed, [Next]_vars  PROVE Within' /\ Agreed'
  OBVIOUS
<1>1. ASSUME NEW r \in Ranks, Builds(r) \/ Works(r)  PROVE Within' /\ Agreed'
  BY <1>1, WithinAdvances, AgreedAdvances
<1>2. ASSUME NEW q \in Ranks, waits[q] # Idle,
         \/ FormGroup(waits[q]) \/ Handshake(waits[q]) \/ AllReduced(waits[q])
         \/ Gathered(waits[q]) \/ Scattered(waits[q]) \/ Dispatched(waits[q])
      PROVE  Within' /\ Agreed'
  BY <1>2, AgreedMeets
<1>3. CASE UNCHANGED vars
  <2>1. conf' = conf /\ todo' = todo /\ waits' = waits /\ raised' = raised  BY <1>3 DEF vars
  <2>2. \A r \in Ranks : Mine(r)' = Mine(r)  BY <2>1 DEF Mine, Building, Listed
  <2>3. \A g : On(g)' = On(g)  BY <2>1 DEF On, Building, Listed
  <2>4. Steps' = Steps  BY <2>1 DEF Steps, Building, Listed
  <2> QED  BY <2>1, <2>2, <2>3, <2>4 DEF Within, Agreed
<1> QED  BY <1>1, <1>2, <1>3, NextMoves

(* How many rows sequences have.                                           *)

\* A sequence of n rows, whatever they are.
HasRows(q, n) == n \in Nat /\ q = [k \in 1 .. n |-> q[k]]

LEMMA RowsLen ==
  ASSUME NEW q, NEW n, HasRows(q, n)
  PROVE  /\ Len(q) = n /\ DOMAIN q = 1 .. n /\ n \in Nat
         /\ \A S : (\A k \in 1 .. n : q[k] \in S) => q \in Seq(S)
<1>1. n \in Nat /\ q = [k \in 1 .. n |-> q[k]]  BY DEF HasRows
<1>2. ASSUME NEW S, \A k \in 1 .. n : q[k] \in S
      PROVE  q \in [1 .. n -> S]
  BY <1>1, <1>2
<1>3. q \in [1 .. n -> {q[k] : k \in 1 .. n}]  BY <1>1
<1>4. DOMAIN q = 1 .. n  BY <1>3
<1>5. q \in Seq({q[k] : k \in 1 .. n})  BY <1>1, <1>3
<1>6. Len(q) = n  BY <1>1, <1>4, <1>5
<1>7. \A S : (\A k \in 1 .. n : q[k] \in S) => q \in Seq(S)  BY <1>1, <1>2
<1> QED  BY <1>1, <1>4, <1>6, <1>7

LEMMA SeqRows ==
  ASSUME NEW A, NEW q \in Seq(A)
  PROVE  HasRows(q, Len(q))
<1>1. Len(q) \in Nat /\ q \in [1 .. Len(q) -> A]  OBVIOUS
<1> QED  BY <1>1 DEF HasRows

\* Pieces, the first i of them of P[i] rows, make up one sequence.
LEMMA FlattenRows ==
  ASSUME NEW m \in Nat, NEW pieces, NEW P \in [0 .. m -> Int], P[0] = 0,
         pieces = [i \in 1 .. m |-> pieces[i]],
         \A i \in 1 .. m : HasRows(pieces[i], P[i] - P[i - 1])
  PROVE  HasRows(FlattenSeq(pieces), P[m])
<1> DEFINE A == UNION {{pieces[i][k] : k \in DOMAIN pieces[i]} : i \in 1 .. m}
<1>1. \A i \in 1 .. m : /\ Len(pieces[i]) = P[i] - P[i - 1]
                        /\ DOMAIN pieces[i] = 1 .. P[i] - P[i - 1]
                        /\ \A S : (\A k \in DOMAIN pieces[i] : pieces[i][k] \in S) => pieces[i] \in Seq(S)
  BY RowsLen
<1>2. \A i \in 1 .. m : \A k \in DOMAIN pieces[i] : pieces[i][k] \in A  OBVIOUS
<1> HIDE DEF A
<1>3. \A i \in 1 .. m : pieces[i] \in Seq(A)  BY <1>1, <1>2
<1>4. pieces \in Seq(Seq(A)) /\ Len(pieces) = m
  <2>1. pieces \in [1 .. m -> Seq(A)]  BY <1>3
  <2> QED  BY <2>1
<1>5. CASE m = 0
  <2>1. pieces = << >>  BY <1>4, <1>5
  <2>2. FlattenSeq(pieces) = << >>  BY <2>1 DEF FlattenSeq
  <2>3. HasRows(<< >>, 0)  BY DEF HasRows
  <2> QED  BY <1>5, <2>2, <2>3
<1>6. CASE m # 0
  <2>1. PICK f : /\ FlattenSeq(pieces) = f[m]
                 /\ \A i \in 1 .. m : /\ f[i] \in Seq(A)
                                      /\ f[i] = IF i = 1 THEN pieces[i] ELSE f[i - 1] \o pieces[i]
    <3>1. pieces # << >>  BY <1>4, <1>6
    <3> HIDE DEF A
    <3>4. \A B : pieces \in Seq(Seq(B)) =>
            \E f : /\ FlattenSeq(pieces) = f[Len(pieces)]
                   /\ \A i \in 1 .. Len(pieces) :
                      /\ f[i] \in Seq(B)
                      /\ f[i] = IF i = 1 THEN pieces[i] ELSE f[i - 1] \o pieces[i]
      BY ONLY <3>1, FlattenUnfolds
    <3>2. \E f : /\ FlattenSeq(pieces) = f[Len(pieces)]
                 /\ \A i \in 1 .. Len(pieces) :
                      /\ f[i] \in Seq(A)
                      /\ f[i] = IF i = 1 THEN pieces[i] ELSE f[i - 1] \o pieces[i]
      BY ONLY <1>4, <3>4, ZenonT(30)
    <3> QED  BY <1>4, <3>2
  <2> DEFINE T == {i \in 1 .. m : Len(f[i]) # P[i]}
  <2>2. T = {}
    <3>1. SUFFICES ASSUME T # {}  PROVE FALSE  OBVIOUS
    <3>2. PICK i \in T : \A j \in T : i <= j
      <4>1. T \in SUBSET Nat  OBVIOUS
      <4> HIDE DEF T
      <4> QED  BY <3>1, <4>1, Least
    <3>3. i \in 1 .. m /\ Len(f[i]) # P[i]  OBVIOUS
    <3>4. i # 1
      <4>1. 1 \in 1 .. m  BY <1>6
      <4>2. f[1] = pieces[1]  BY <2>1, <4>1
      <4>3. Len(pieces[1]) = P[1] - P[0]  BY ONLY <1>1, <4>1
      <4>4. P[1] \in Int  BY <4>1
      <4> QED  BY <3>3, <4>2, <4>3, <4>4
    <3>5. i - 1 \in 1 .. m /\ i - 1 \notin T  BY <3>2, <3>3, <3>4
    <3>6. Len(f[i - 1]) = P[i - 1] /\ f[i - 1] \in Seq(A)  BY <2>1, <3>5
    <3>7. f[i] = f[i - 1] \o pieces[i]  BY <2>1, <3>3, <3>4
    <3>8. Len(f[i]) = Len(f[i - 1]) + Len(pieces[i])  BY <1>3, <3>3, <3>6, <3>7
    <3>9. P[i] \in Int /\ P[i - 1] \in Int  BY <3>3, <3>5
    <3> QED  BY <1>1, <3>3, <3>6, <3>8, <3>9
  <2>3. m \in 1 .. m  BY <1>6
  <2>4. Len(f[m]) = P[m] /\ f[m] \in Seq(A)  BY <2>1, <2>2, <2>3
  <2> QED  BY <2>1, <2>4, SeqRows
<1> QED  BY <1>5, <1>6

\* Pieces of n rows each.
LEMMA FlattenEqual ==
  ASSUME NEW m \in Nat, NEW n \in Nat, NEW pieces, pieces = [i \in 1 .. m |-> pieces[i]],
         \A i \in 1 .. m : HasRows(pieces[i], n)
  PROVE  HasRows(FlattenSeq(pieces), m * n)
<1> DEFINE P == [i \in 0 .. m |-> i * n]
<1>1. P \in [0 .. m -> Int] /\ P[0] = 0 /\ P[m] = m * n  OBVIOUS
<1>2. \A i \in 1 .. m : P[i] - P[i - 1] = n
  <2> SUFFICES ASSUME NEW i \in 1 .. m  PROVE P[i] - P[i - 1] = n
    OBVIOUS
  <2>1. i \in 0 .. m /\ i - 1 \in 0 .. m  OBVIOUS
  <2>2. P[i] = i * n /\ P[i - 1] = (i - 1) * n  BY <2>1
  <2>3. (i - 1) * n = i * n - n /\ i * n \in Int  OBVIOUS
  <2> QED  BY <2>2, <2>3
<1> HIDE DEF P
<1>3. \A i \in 1 .. m : HasRows(pieces[i], P[i] - P[i - 1])  BY <1>2
<1>4. HasRows(FlattenSeq(pieces), P[m])  BY <1>1, <1>3, FlattenRows
<1> QED  BY <1>1, <1>4

\* Pieces of almost the same size, the larger ones first.
LEMMA FlattenSplit ==
  ASSUME NEW m \in Nat \ {0}, NEW n \in Nat, NEW pieces, pieces = [i \in 1 .. m |-> pieces[i]],
         \A i \in 1 .. m : HasRows(pieces[i], SplitSizes(n, m)[i])
  PROVE  HasRows(FlattenSeq(pieces), n)
<1> DEFINE q == n \div m  k == n % m
           P == [i \in 0 .. m |-> i * q + IF i <= k THEN i ELSE k]
<1>1. n = q * m + k /\ q \in Int /\ k \in 0 .. m - 1  BY DivMod
<1>2. \A i \in 1 .. m : SplitSizes(n, m)[i] = q + IF i <= k THEN 1 ELSE 0  BY DEF SplitSizes
<1> HIDE DEF q, k
<1>3. P \in [0 .. m -> Int] /\ P[0] = 0
  <2>1. \A i \in 0 .. m : i * q \in Int  BY <1>1
  <2> QED  BY <1>1, <2>1
<1>4. P[m] = n
  <2>1. m * q = q * m /\ m * q \in Int  BY <1>1
  <2> QED  BY <1>1, <2>1
<1>5. \A i \in 1 .. m : P[i] - P[i - 1] = SplitSizes(n, m)[i]
  <2> SUFFICES ASSUME NEW i \in 1 .. m  PROVE P[i] - P[i - 1] = SplitSizes(n, m)[i]
    OBVIOUS
  <2>1. i \in 0 .. m /\ i - 1 \in 0 .. m  OBVIOUS
  <2>2. (i - 1) * q = i * q - q /\ i * q \in Int  BY <1>1
  <2>3. P[i] = i * q + IF i <= k THEN i ELSE k  BY <2>1
  <2>4. P[i - 1] = (i - 1) * q + IF i - 1 <= k THEN i - 1 ELSE k  BY <2>1
  <2>5. SplitSizes(n, m)[i] = q + IF i <= k THEN 1 ELSE 0  BY <1>2
  <2>6. PICK z \in Int : z = i * q  BY <2>2
  <2> HIDE DEF P
  <2>7. P[i] - P[i - 1] = q + (IF i <= k THEN i ELSE k) - (IF i - 1 <= k THEN i - 1 ELSE k)
    BY ONLY <1>1, <2>2, <2>3, <2>4, <2>6, i \in 1 .. m, m \in Nat
  <2> QED  BY <1>1, <2>5, <2>7
<1> HIDE DEF P
<1>6. \A i \in 1 .. m : HasRows(pieces[i], P[i] - P[i - 1])  BY <1>5
<1>7. HasRows(FlattenSeq(pieces), P[m])  BY <1>3, <1>6, FlattenRows
<1> QED  BY <1>4, <1>7

\* The running sums of sizes.
Sums(f, sizes, n) == f = [k \in 0 .. n |-> IF k = 0 THEN 0 ELSE f[k - 1] + sizes[k]]

LEMMA SumsExist ==
  ASSUME NEW sizes, NEW n \in Nat
  PROVE  \E f : Sums(f, sizes, n)
<1> DEFINE T == {i \in Nat : ~\E f : Sums(f, sizes, i)}
<1>1. SUFFICES ASSUME T # {}  PROVE FALSE  OBVIOUS
<1>2. PICK i \in T : \A j \in T : i <= j
  <2>1. T \in SUBSET Nat  OBVIOUS
  <2> HIDE DEF T
  <2> QED  BY <1>1, <2>1, Least
<1>3. i # 0
  <2>1. Sums([j \in 0 .. 0 |-> 0], sizes, 0)  BY DEF Sums
  <2> QED  BY <2>1
<1>4. i - 1 \in Nat /\ i - 1 \notin T  BY <1>2, <1>3
<1>5. PICK f : Sums(f, sizes, i - 1)  BY <1>4
<1> DEFINE g == [j \in 0 .. i |-> IF j = 0 THEN 0 ELSE f[j - 1] + sizes[j]]
<1>6. \A j \in 0 .. i - 1 : g[j] = f[j]
  <2>1. \A j \in 0 .. i - 1 : f[j] = IF j = 0 THEN 0 ELSE f[j - 1] + sizes[j]
    BY <1>5 DEF Sums
  <2> QED  BY <1>4, <2>1
<1>7. \A j \in 0 .. i : j # 0 => j - 1 \in 0 .. i - 1  BY <1>4
<1>8. \A j \in 0 .. i : j # 0 => f[j - 1] = g[j - 1]  BY <1>6, <1>7
<1>9. g = [j \in 0 .. i |-> IF j = 0 THEN 0 ELSE g[j - 1] + sizes[j]]
  <2> DEFINE h == [j \in 0 .. i |-> IF j = 0 THEN 0 ELSE g[j - 1] + sizes[j]]
  <2>1. \A j \in 0 .. i : g[j] = h[j]
    <3>1. \A j \in 0 .. i : g[j] = IF j = 0 THEN 0 ELSE f[j - 1] + sizes[j]
      OBVIOUS
    <3>2. \A j \in 0 .. i : h[j] = IF j = 0 THEN 0 ELSE g[j - 1] + sizes[j]
      OBVIOUS
    <3> HIDE DEF g, h, T
    <3> QED  BY <1>8, <3>1, <3>2
  <2>2. g = [j \in 0 .. i |-> g[j]] /\ h = [j \in 0 .. i |-> h[j]]  OBVIOUS
  <2> HIDE DEF g, h, T
  <2>3. g = h  BY <2>1, <2>2
  <2> QED  BY <2>3 DEF h
<1>10. Sums(g, sizes, i)  BY ONLY <1>9 DEF Sums
<1> HIDE DEF g
<1> QED  BY <1>10

\* Where each part of a whole by sizes starts.
LEMMA Starts ==
  ASSUME NEW m \in Nat, NEW sizes \in [1 .. m -> Nat]
  PROVE  \E P \in [0 .. m -> Nat] :
           /\ P[0] = 0 /\ \A i \in 1 .. m : P[i] - P[i - 1] = sizes[i]
           /\ \A i \in 1 .. m + 1 : Start(sizes, i) = P[i - 1]
<1> DEFINE P == CHOOSE f : Sums(f, sizes, m)  T == {i \in 0 .. m : P[i] \notin Nat}
<1>1. Len(sizes) = m  OBVIOUS
<1>2. \A i : Start(sizes, i) = P[i - 1]  BY <1>1 DEF Start, Sums
<1>3. Sums(P, sizes, m)  BY SumsExist
<1> HIDE DEF P
<1>4. \A i \in 0 .. m : P[i] = IF i = 0 THEN 0 ELSE P[i - 1] + sizes[i]  BY <1>3 DEF Sums
<1>5. T = {}
  <2>1. SUFFICES ASSUME T # {}  PROVE FALSE  OBVIOUS
  <2>2. PICK i \in T : \A j \in T : i <= j
    <3>1. T \in SUBSET Nat  OBVIOUS
    <3> HIDE DEF T
    <3> QED  BY <2>1, <3>1, Least
  <2>3. i # 0  BY <1>4
  <2>4. i - 1 \in 0 .. m /\ i - 1 \notin T /\ i \in 1 .. m  BY <2>2, <2>3
  <2>5. P[i - 1] \in Nat /\ sizes[i] \in Nat  BY <2>4
  <2>6. P[i] = P[i - 1] + sizes[i]  BY <1>4, <2>3
  <2> QED  BY <2>5, <2>6
<1>6. P \in [0 .. m -> Nat]
  <2>1. P = [i \in 0 .. m |-> P[i]]  BY <1>3 DEF Sums
  <2> QED  BY <1>5, <2>1
<1>7. P[0] = 0  BY <1>4
<1>8. \A i \in 1 .. m : P[i] - P[i - 1] = sizes[i]
  <2> SUFFICES ASSUME NEW i \in 1 .. m  PROVE P[i] - P[i - 1] = sizes[i]
    OBVIOUS
  <2>1. i \in 0 .. m /\ i - 1 \in 0 .. m /\ i # 0  OBVIOUS
  <2>2. P[i] = P[i - 1] + sizes[i] /\ P[i - 1] \in Nat /\ sizes[i] \in Nat  BY <1>4, <1>6, <2>1
  <2> QED  BY <2>2
<1> QED  BY <1>2, <1>6, <1>7, <1>8

\* Some number of a list is the largest.
LEMMA Largest ==
  ASSUME NEW m \in Nat \ {0}, NEW sizes \in [1 .. m -> Nat]
  PROVE  \E n \in ToSet(sizes) : n \in Nat /\ \A k \in ToSet(sizes) : k <= n
<1> DEFINE T == {i \in 1 .. m : ~\E n \in 1 .. i : \A k \in 1 .. i : sizes[k] <= sizes[n]}
<1>1. T = {}
  <2>1. SUFFICES ASSUME T # {}  PROVE FALSE  OBVIOUS
  <2>2. PICK i \in T : \A j \in T : i <= j
    <3>1. T \in SUBSET Nat  OBVIOUS
    <3> HIDE DEF T
    <3> QED  BY <2>1, <3>1, Least
  <2>3. i # 1
    <3>1. 1 \in 1 .. 1 /\ \A k \in 1 .. 1 : k = 1  OBVIOUS
    <3>2. sizes[1] \in Nat  OBVIOUS
    <3>3. sizes[1] <= sizes[1]  BY <3>2
    <3> QED  BY <3>1, <3>3
  <2>4. i - 1 \in 1 .. m /\ i - 1 \notin T /\ i \in 1 .. m
    <3>1. i \in 1 .. m  BY <2>2
    <3>2. i - 1 \in 1 .. m  BY <2>3, <3>1
    <3>3. ~(i <= i - 1)  BY <3>1
    <3> HIDE DEF T
    <3> QED  BY <2>2, <3>1, <3>2, <3>3
  <2>5. PICK n \in 1 .. i - 1 : \A k \in 1 .. i - 1 : sizes[k] <= sizes[n]  BY <2>4
  <2>6. \A k \in 1 .. i : k \in 1 .. i - 1 \/ k = i  BY <2>4
  <2>7. \A k \in 1 .. i : sizes[k] \in Nat  BY <2>4
  <2>8. n \in 1 .. i /\ i \in 1 .. i  BY <2>4
  <2>9. CASE sizes[i] <= sizes[n]  BY <2>5, <2>6, <2>8, <2>9
  <2>10. CASE ~(sizes[i] <= sizes[n])
    <3>1. \A k \in 1 .. i : sizes[k] <= sizes[i]  BY <2>5, <2>6, <2>7, <2>8, <2>10
    <3> QED  BY <2>8, <3>1
  <2> QED  BY <2>9, <2>10
<1>2. PICK n \in 1 .. m : \A k \in 1 .. m : sizes[k] <= sizes[n]
  <2>1. m \in 1 .. m  OBVIOUS
  <2> QED  BY <1>1, <2>1
<1>3. DOMAIN sizes = 1 .. m  OBVIOUS
<1>4. ToSet(sizes) = {sizes[k] : k \in 1 .. m}  BY <1>3 DEF ToSet
<1> HIDE DEF T
<1> QED  BY <1>2, <1>4

(* The groups that ranks serve in.                                         *)

\* How many ranks a group of a kind has, and how far they are apart.
Grouped == {"tp", "attn_cp", "attn_tp", "moe_ep", "pp"}
Many(kind) ==
  [tp |-> conf.tp, attn_cp |-> conf.cp, attn_tp |-> AttnTp(conf), moe_ep |-> conf.ep,
   pp |-> conf.pp][kind]
Apart(kind) ==
  [tp |-> 1, attn_cp |-> AttnTp(conf), attn_tp |-> 1, moe_ep |-> MoeTp(conf),
   pp |-> conf.tp][kind]

\* The ranks of r's group of a kind.
Home(r, kind) ==
  LET n == Many(kind)  w == Apart(kind) IN
  Stride((r \div (w * n)) * (w * n) + (r % w), n, w)

LEMMA GroupsDivide ==
  ASSUME conf \in Layouts, NEW kind \in Grouped
  PROVE  /\ Many(kind) \in Nat \ {0} /\ Apart(kind) \in Nat \ {0}
         /\ \E g \in Nat \ {0} : World = g * (Apart(kind) * Many(kind))
<1> DEFINE c == conf  t == AttnTp(c)  m == MoeTp(c)  T == c.tp
<1>1. Layout(c)  BY CollectivesAssumption
<1>2. /\ Three(t, c.cp, c.dp, t * c.cp, T) /\ Three(m, c.ep, c.mdp, m * c.ep, T)
      /\ c.pp \in Nat \ {0} /\ T \in Nat \ {0} /\ World = c.pp * T
  BY <1>1, Widths
<1>3. /\ t \in Nat \ {0} /\ c.cp \in Nat \ {0} /\ c.dp \in Nat \ {0}
      /\ c.pp * c.dp \in Nat \ {0} /\ c.pp * T = (c.pp * c.dp) * (t * c.cp)
      /\ c.pp * (c.cp * c.dp) \in Nat \ {0} /\ c.pp * T = (c.pp * (c.cp * c.dp)) * (1 * t)
  BY <1>2, ThreeFacts
<1>4. /\ m \in Nat \ {0} /\ c.ep \in Nat \ {0} /\ c.mdp \in Nat \ {0}
      /\ c.pp * c.mdp \in Nat \ {0} /\ c.pp * T = (c.pp * c.mdp) * (m * c.ep)
  BY <1>2, ThreeFacts
<1>5. c.pp * T = c.pp * (1 * T) /\ c.pp * T = 1 * (T * c.pp)  BY <1>2
<1> HIDE DEF t, m, T
<1>6. CASE kind = "tp"
  <2>1. Many(kind) = T /\ Apart(kind) = 1  BY <1>6 DEF Many, Apart, T
  <2> QED  BY <1>2, <1>5, <2>1
<1>7. CASE kind = "attn_cp"
  <2>1. Many(kind) = c.cp /\ Apart(kind) = t  BY <1>7 DEF Many, Apart, t
  <2> QED  BY <1>2, <1>3, <2>1
<1>8. CASE kind = "attn_tp"
  <2>1. Many(kind) = t /\ Apart(kind) = 1  BY <1>8 DEF Many, Apart, t
  <2> DEFINE g == c.pp * (c.cp * c.dp)
  <2>2. World = g * (1 * t) /\ g \in Nat \ {0} /\ 1 \in Nat \ {0}  BY <1>2, <1>3
  <2> HIDE DEF g
  <2> QED  BY <1>3, <2>1, <2>2
<1>9. CASE kind = "moe_ep"
  <2>1. Many(kind) = c.ep /\ Apart(kind) = m  BY <1>9 DEF Many, Apart, m
  <2> QED  BY <1>2, <1>4, <2>1
<1>10. CASE kind = "pp"
  <2>1. Many(kind) = c.pp /\ Apart(kind) = T  BY <1>10 DEF Many, Apart, T
  <2>2. 1 \in Nat \ {0}  OBVIOUS
  <2> QED  BY <1>2, <1>5, <2>1, <2>2
<1> QED  BY <1>6, <1>7, <1>8, <1>9, <1>10 DEF Grouped

LEMMA HomeFacts ==
  ASSUME conf \in Layouts, NEW r \in Ranks, NEW kind \in Grouped
  PROVE  /\ Home(r, kind) \in Seq(Int) /\ Len(Home(r, kind)) = Many(kind)
         /\ DOMAIN Home(r, kind) = 1 .. Many(kind) /\ Many(kind) \in Nat \ {0}
         /\ ToSet(Home(r, kind)) = Class(Many(kind), Apart(kind), r)
         /\ r \in ToSet(Home(r, kind)) /\ ToSet(Home(r, kind)) \subseteq Ranks
         /\ \A q \in ToSet(Home(r, kind)) : Home(q, kind) = Home(r, kind)
         /\ \A i \in 1 .. Many(kind) : /\ Home(r, kind)[i] \in ToSet(Home(r, kind))
                                       /\ IndexOf(Home(r, kind), Home(r, kind)[i]) = i
         /\ IndexOf(Home(r, kind), r) \in 1 .. Many(kind)
         /\ Home(r, kind)[IndexOf(Home(r, kind), r)] = r
<1> DEFINE n == Many(kind)  w == Apart(kind)  h == r \div (w * n)  l == r % w
           first == h * (w * n) + l  list == Home(r, kind)
<1>1. PICK g \in Nat \ {0} : World = g * (w * n)  BY GroupsDivide
<1>2. n \in Nat \ {0} /\ w \in Nat \ {0} /\ w * n \in Nat \ {0} /\ r \in Int
  <2>1. n \in Nat \ {0} /\ w \in Nat \ {0}  BY GroupsDivide
  <2> HIDE DEF n, w
  <2> QED  BY <2>1, TwoDigits, CollectivesAssumption DEF Ranks
<1>3. list = Stride(first, n, w)  BY DEF Home
<1> HIDE DEF n, w, list
<1>4. h \in 0 .. g - 1 /\ l \in 0 .. w - 1
  <2> DEFINE N == w * n
  <2>1. N \in Nat \ {0} /\ h = r \div N  BY <1>2
  <2> HIDE DEF N
  <2>2. /\ r = (r \div N) * N + (r % N) /\ r \div N \in Int /\ r % N \in 0 .. N - 1
    BY ONLY <1>2, <2>1, DivMod
  <2>3. l \in 0 .. w - 1  BY <1>2, DivMod
  <2>4. h \in Int /\ r = h * N + (r % N) /\ h * N \in Int  BY <2>1, <2>2
  <2>5. r >= 0 /\ r < g * N  BY <1>1, CollectivesAssumption DEF Ranks, N
  <2> HIDE DEF h, l
  <2>6. PICK rest \in 0 .. N - 1 : r = h * N + rest  BY <2>2, <2>4
  <2>7. h >= 0
    <3>1. SUFFICES ASSUME h <= -1  PROVE FALSE  BY <2>4
    <3>2. (-1 - h) * N >= 0 /\ (-1 - h) * N = (-1) * N - h * N  BY ONLY <2>1, <2>4, <3>1
    <3> QED  BY ONLY <1>2, <2>1, <2>4, <2>5, <2>6, <3>2
  <2>8. h <= g - 1
    <3>1. SUFFICES ASSUME h >= g  PROVE FALSE  BY <2>4
    <3>2. (h - g) * N >= 0 /\ (h - g) * N = h * N - g * N  BY ONLY <2>1, <2>4, <3>1, g \in Nat \ {0}
    <3>3. g * N \in Int  BY <2>1
    <3> QED  BY ONLY <1>2, <2>1, <2>4, <2>5, <2>6, <3>2, <3>3
  <2> QED  BY <2>3, <2>4, <2>7, <2>8
<1> HIDE DEF h, l
<1>5. ToSet(list) = Free(n, w, h, l)
  <2>1. n \in Nat \ {0} /\ w \in Nat \ {0} /\ g \in Nat  BY <1>2
  <2> QED  BY ONLY <1>1, <1>3, <1>4, <2>1, StrideFree
<1>6. ToSet(list) = Class(n, w, r)  BY <1>5 DEF Class, h, l
<1>7. r \in ToSet(list) /\ ToSet(list) \subseteq Ranks  BY <1>6 DEF Class, Free
<1>8. \A q \in ToSet(list) : Home(q, kind) = list
  <2>1. \A q \in ToSet(list) : q \div (w * n) = h /\ q % w = l  BY <1>5 DEF Free
  <2> QED  BY <1>3, <2>1 DEF Home, n, w, h, l
<1>9. first \in Int
  <2>1. h * (w * n) \in Int /\ l \in Int  BY <1>2, <1>4
  <2> QED  BY <2>1
<1> HIDE DEF first
<1>10. /\ DOMAIN list = 1 .. n /\ \A i \in 1 .. n : list[i] = first + (i - 1) * w /\ list[i] \in Int
  <2>1. \A i \in 1 .. n : (i - 1) * w \in Int  BY <1>2
  <2> QED  BY <1>3, <1>9, <2>1 DEF Stride
<1>11. list \in Seq(Int) /\ Len(list) = n
  <2>1. list = [k \in 1 .. n |-> first + (k - 1) * w]  BY <1>3 DEF Stride
  <2>2. HasRows(list, n)  BY <1>2, <2>1 DEF HasRows
  <2> QED  BY <1>10, <2>2, RowsLen
<1>12. \A i, j \in 1 .. n : list[i] = list[j] => i = j
  <2> SUFFICES ASSUME NEW i \in 1 .. n, NEW j \in 1 .. n, list[i] = list[j]  PROVE i = j
    OBVIOUS
  <2>1. (i - 1) * w = (j - 1) * w /\ (i - 1) * w \in Int
    <3>1. (i - 1) * w \in Int /\ (j - 1) * w \in Int  BY <1>2
    <3> QED  BY <1>9, <1>10, <3>1
  <2>2. ((i - 1) * w) \div w = i - 1 /\ ((j - 1) * w) \div w = j - 1
    <3>1. 0 \in 0 .. w - 1 /\ i - 1 \in Int /\ j - 1 \in Int  BY <1>2
    <3> QED  BY <1>2, <3>1, DivSimple
  <2> QED  BY <2>1, <2>2
<1>13. \A i \in 1 .. n : list[i] \in ToSet(list) /\ IndexOf(list, list[i]) = i
  BY <1>10, <1>12 DEF IndexOf, ToSet
<1>14. PICK k \in 1 .. n : list[k] = r  BY <1>7, <1>10 DEF ToSet
<1>15. IndexOf(list, r) = k  BY <1>13, <1>14
<1> QED  BY <1>2, <1>6, <1>7, <1>8, <1>10, <1>11, <1>13, <1>14, <1>15 DEF n, w, list

\* A product of three, taken in another order, and how a sum distributes.
LEMMA Regroup ==
  ASSUME NEW h \in Int, NEW w \in Int, NEW n \in Int, NEW i \in Int
  PROVE  /\ h * (w * n) = (h * n) * w
         /\ (h * n + i) * w = (h * n) * w + i * w
         /\ h * n \in Int /\ (h * n) * w \in Int /\ i * w \in Int
OBVIOUS

LEMMA CanonicalHome ==
  ASSUME NEW g \in Int, NEW n \in Nat \ {0}, NEW w \in Nat \ {0},
         NEW list \in ToSet(Canonical(g, n, w)), NEW r \in ToSet(list)
  PROVE  list = Stride((r \div (w * n)) * (w * n) + (r % w), n, w)
<1>1. PICK j \in 1 .. g * w :
        list = Stride(((j - 1) \div w) * (w * n) + ((j - 1) % w), n, w)
  BY DEF Canonical, Lists, ToSet
<1> DEFINE h == (j - 1) \div w  l == (j - 1) % w  first == h * (w * n) + l
<1>2. h \in Int /\ l \in 0 .. w - 1
  <2>1. g * w \in Int  OBVIOUS
  <2>2. j - 1 \in Int  BY <2>1
  <2> QED  BY <2>2, DivMod
<1>3. list = Stride(first, n, w)  BY <1>1
<1> HIDE DEF h, l
<1>4. w * n \in Nat \ {0} /\ h * (w * n) \in Int /\ first \in Int
  <2>1. w * n \in Nat \ {0}  BY TwoDigits
  <2>2. h * (w * n) \in Int  BY <1>2, <2>1
  <2> QED  BY <1>2, <2>1, <2>2
<1>5. r \in Strided(n, w, first)
  <2>1. first \in Int /\ n \in Nat /\ w \in Int  BY <1>4
  <2> HIDE DEF first
  <2>2. ToSet(list) = Strided(n, w, first)  BY ONLY <1>3, <2>1, StrideSet
  <2> QED  BY <2>2
<1>6. PICK i \in 0 .. n - 1 : r = first + i * w  BY <1>5 DEF Strided
<1>7. i * w + l \in 0 .. w * n - 1 /\ i * w \in Int  BY <1>2, TwoDigits
<1>8. r \div (w * n) = h
  <2>1. r = h * (w * n) + (i * w + l)  BY <1>2, <1>4, <1>6, <1>7
  <2> DEFINE N == w * n  M == i * w + l
  <2>2. N \in Nat \ {0} /\ h \in Int /\ M \in 0 .. N - 1 /\ r = h * N + M
    BY <1>2, <1>4, <1>7, <2>1
  <2> HIDE DEF N, M
  <2>3. r \div N = h  BY ONLY <2>2, DivUnique
  <2> QED  BY <2>3 DEF N
<1>9. r % w = l
  <2>a. h \in Int /\ w \in Int /\ n \in Int /\ i \in Int  BY <1>2
  <2>1. h * (w * n) = (h * n) * w  BY ONLY <2>a, Regroup
  <2>2. (h * n + i) * w = (h * n) * w + i * w  BY ONLY <2>a, Regroup
  <2>3. h * n \in Int /\ (h * n) * w \in Int  BY ONLY <2>a, Regroup
  <2>4. r = (h * n + i) * w + l  BY <1>2, <1>6, <1>7, <2>1, <2>2, <2>3
  <2>5. h * n + i \in Int  BY <2>a, <2>3
  <2> DEFINE q == h * n + i
  <2>6. q \in Int /\ w \in Nat \ {0} /\ l \in 0 .. w - 1 /\ r = q * w + l
    BY <1>2, <2>4, <2>5
  <2> HIDE DEF q
  <2> QED  BY ONLY <2>6, DivUnique
<1> QED  BY <1>3, <1>8, <1>9

\* What a rank has formed of a kind that it serves in is its group of that kind.
LEMMA ListedHome ==
  ASSUME conf \in Layouts, NEW r \in Ranks, NEW kind \in Grouped, NEW list,
         Listed(conf, Backing(conf)[kind], list), r \in ToSet(list)
  PROVE  list = Home(r, kind)
<1> DEFINE c == conf  t == AttnTp(c)  m == MoeTp(c)  T == c.tp  n == Many(kind)  w == Apart(kind)
           name == Backing(c)[kind]
<1>1. Layout(c)  BY CollectivesAssumption
<1>2. PICK k \in ToSet(Coordinators(c)) : k.name = name /\ list \in ToSet(k.lists)
  BY DEF Listed
<1>3. k \in Kinds(c)  BY <1>2, CoordinatorKind
<1>4. /\ n \in Nat \ {0} /\ w \in Nat \ {0}
      /\ \E g \in Nat \ {0} : World = g * (w * n)
  BY GroupsDivide
<1>5. \E g \in Int : k.lists = Canonical(g, n, w)
  <2>1. /\ TpLists(c) = Canonical(c.pp, T, 1)
        /\ AttnCpLists(c) = Canonical(c.pp * c.dp, c.cp, t)
        /\ AttnTpLists(c) = Canonical(World \div t, t, 1)
        /\ MoeEpLists(c) = Canonical(c.pp * c.mdp, c.ep, m)
        /\ PpLists(c) = Canonical(1, c.pp, T)
    BY <1>1, ListsCanonical
  <2>0. /\ c.pp \in Int /\ c.pp * c.dp \in Int /\ World \div t \in Int /\ c.pp * c.mdp \in Int
        /\ 1 \in Int
    <3>1. /\ t \in Nat \ {0} /\ c.dp \in Int /\ c.mdp \in Int /\ c.pp \in Int /\ World \in Int
      BY <1>1, Widths DEF Three
    <3> HIDE DEF t
    <3>2. World \div t \in Int  BY <3>1, DivMod
    <3> QED  BY <3>1, <3>2
  <2>2. (c.cp = T => t = 1) /\ (c.ep = T => m = 1)  BY <1>1, SharedWidths
  <2>3. /\ name = "tp" => k.lists = TpLists(c)
        /\ name = "attn_cp" => k.lists = AttnCpLists(c)
        /\ name = "attention_tp" => k.lists = AttnTpLists(c)
        /\ name = "moe_ep" => k.lists = MoeEpLists(c)
        /\ name = "pp" => k.lists = PpLists(c)
    BY ONLY <1>2, <1>3, KindLists
  <2> HIDE DEF t, m, T
  <2>4. CASE kind = "tp"
    <3>1. n = T /\ w = 1 /\ name = "tp"  BY <2>4 DEF Many, Apart, Backing, T
    <3> QED  BY <2>0, <2>1, <2>3, <3>1
  <2>5. CASE kind = "attn_cp"
    <3>1. n = c.cp /\ w = t /\ name = IF c.cp = T THEN "tp" ELSE "attn_cp"
      BY <2>5 DEF Many, Apart, Backing, AttnCp, T, t
    <3> QED  BY <2>0, <2>1, <2>2, <2>3, <3>1
  <2>6. CASE kind = "attn_tp"
    <3>1. n = t /\ w = 1 /\ name = IF t = T THEN "tp" ELSE "attention_tp"
      BY <2>6 DEF Many, Apart, Backing, T, t
    <3> QED  BY <2>0, <2>1, <2>2, <2>3, <3>1
  <2>7. CASE kind = "moe_ep"
    <3>1. n = c.ep /\ w = m /\ name = IF c.ep = T THEN "tp" ELSE "moe_ep"
      BY <2>7 DEF Many, Apart, Backing, T, m
    <3> QED  BY <2>0, <2>1, <2>2, <2>3, <3>1
  <2>8. CASE kind = "pp"
    <3>1. n = c.pp /\ w = T /\ name = "pp"  BY <2>8 DEF Many, Apart, Backing, T
    <3> QED  BY <2>0, <2>1, <2>3, <3>1
  <2> QED  BY <2>4, <2>5, <2>6, <2>7, <2>8 DEF Grouped
<1>6. list = Stride((r \div (w * n)) * (w * n) + (r % w), n, w)
  <2> HIDE DEF n, w
  <2> QED  BY <1>2, <1>4, <1>5, CanonicalHome
<1> QED  BY <1>6 DEF Home

\* A rank that serves has, of each kind, its group.
LEMMA ServesAtHome ==
  ASSUME IInv, NEW r \in Ranks, waits[r] = Idle, todo[r] # << >>, Head(todo[r]) \in Serving,
         NEW kind \in Grouped
  PROVE  group[r][Backing(conf)[kind]] = Home(r, kind) /\ Kind(r, kind) = Home(r, kind)
<1>1. conf \in Layouts  BY DEF IInv, Rightly
<1>2. kind \in DOMAIN Backing(conf)  BY DEF Backing, Grouped
<1>3. PICK k \in ToSet(Coordinators(conf)) : k.name = Backing(conf)[kind]  BY <1>2, KindsBacked
<1>4. Backing(conf)[kind] \in DOMAIN group[r]  BY <1>3, ServingFormed
<1>5. /\ Listed(conf, Backing(conf)[kind], group[r][Backing(conf)[kind]])
      /\ r \in ToSet(group[r][Backing(conf)[kind]])
  BY <1>4 DEF IInv, Rightly
<1>6. group[r][Backing(conf)[kind]] = Home(r, kind)  BY <1>1, <1>5, ListedHome
<1> QED  BY <1>6 DEF Kind

\* The layout in numbers.
LEMMA LayoutFacts ==
  ASSUME conf \in Layouts
  PROVE  /\ Layout(conf) /\ World \in Nat /\ HiddenWidth \in Nat \ {0}
         /\ conf.tp \in Nat \ {0} /\ conf.pp \in Nat \ {0} /\ conf.cp \in Nat \ {0}
         /\ conf.dp \in Nat \ {0} /\ conf.ep \in Nat \ {0} /\ AttnTp(conf) \in Nat \ {0}
         /\ World = conf.pp * conf.tp /\ conf.tp = (AttnTp(conf) * conf.cp) * conf.dp
         /\ AttnTp(conf) * conf.cp \in Nat \ {0}
         /\ conf.passes \in Nat /\ conf.counts \in [1 .. conf.dp -> Nat]
         /\ conf.gatherv => conf.dp = conf.tp
<1> DEFINE t == AttnTp(conf)
<1>1. /\ Layout(conf) /\ World \in Nat /\ HiddenWidth \in Nat \ {0}
      /\ conf.passes \in Nat /\ conf.counts \in [1 .. conf.dp -> Nat]
      /\ conf.gatherv => conf.dp = conf.tp
  BY CollectivesAssumption
<1>2. /\ Three(t, conf.cp, conf.dp, t * conf.cp, conf.tp)
      /\ Three(MoeTp(conf), conf.ep, conf.mdp, MoeTp(conf) * conf.ep, conf.tp)
      /\ conf.pp \in Nat \ {0} /\ conf.tp \in Nat \ {0} /\ World = conf.pp * conf.tp
  BY <1>1, Widths
<1> HIDE DEF t
<1>3. /\ t \in Nat \ {0} /\ conf.cp \in Nat \ {0} /\ conf.dp \in Nat \ {0}
      /\ conf.ep \in Nat \ {0} /\ conf.tp = (t * conf.cp) * conf.dp
  BY <1>2 DEF Three
<1>4. t * conf.cp \in Nat \ {0}  BY <1>3, TwoDigits
<1> QED  BY <1>1, <1>2, <1>3, <1>4 DEF t

\* The first and the last of p parts of T ranks each.
LEMMA Ends ==
  ASSUME NEW T \in Nat \ {0}, NEW p \in Nat \ {0}, NEW r \in Int, r >= 0, r < p * T,
         NEW k \in Int, NEW rest \in 0 .. T - 1, r = k * T + rest
  PROVE  /\ k \in 0 .. p - 1 /\ (r < T <=> k = 0) /\ (r >= p * T - T <=> k = p - 1)
<1> DEFINE z == k * T  w == p * T
<1>1. z \in Int /\ w \in Int /\ r = z + rest /\ r >= 0 /\ r < w /\ rest \in Int
      /\ rest >= 0 /\ rest < T /\ T > 0
  OBVIOUS
<1>2. k <= -1 => z <= -T
  <2>1. (-1 - k) * T = -T - z  OBVIOUS
  <2>2. k <= -1 => (-1 - k) * T >= 0  OBVIOUS
  <2> HIDE DEF z, w
  <2> QED  BY ONLY <1>1, <2>1, <2>2, k \in Int, T \in Nat
<1>3. k >= 1 => z >= T
  <2>1. (k - 1) * T = z - T  OBVIOUS
  <2>2. k >= 1 => (k - 1) * T >= 0  OBVIOUS
  <2> HIDE DEF z, w
  <2> QED  BY ONLY <1>1, <2>1, <2>2, k \in Int, T \in Nat
<1>4. k >= p => z >= w
  <2>1. (k - p) * T = z - w  OBVIOUS
  <2>2. k >= p => (k - p) * T >= 0  OBVIOUS
  <2> HIDE DEF z, w
  <2> QED  BY ONLY <1>1, <2>1, <2>2, k \in Int, T \in Nat
<1>5. k <= p - 2 => z <= w - 2 * T
  <2>1. (p - 2 - k) * T = w - 2 * T - z  OBVIOUS
  <2>2. k <= p - 2 => (p - 2 - k) * T >= 0  OBVIOUS
  <2> HIDE DEF z, w
  <2> QED  BY ONLY <1>1, <2>1, <2>2, k \in Int, T \in Nat, p \in Nat
<1>6. (k = 0 => z = 0) /\ (k = p - 1 => z = w - T)  OBVIOUS
<1> HIDE DEF z
<1>7. r >= w - T <=> k = p - 1
  <2> HIDE DEF w
  <2> QED  BY ONLY <1>1, <1>2, <1>4, <1>5, <1>6, k \in Int, T \in Nat, p \in Nat, r \in Int
<1>8. k \in 0 .. p - 1 /\ (r < T <=> k = 0)
  <2> HIDE DEF w
  <2> QED  BY ONLY <1>1, <1>2, <1>3, <1>4, <1>6, k \in Int, T \in Nat, p \in Nat, r \in Int
<1> QED  BY <1>7, <1>8 DEF w

\* Which replica and which stage a rank belongs to.
LEMMA PlaceFacts ==
  ASSUME conf \in Layouts, NEW r \in Ranks
  PROVE  /\ Replica(r) \in 0 .. conf.dp - 1 /\ r \in Int
         /\ FirstStage(r) <=> Place(conf, r).stage = 0
         /\ LastStage(r) <=> Place(conf, r).stage = conf.pp - 1
         /\ Place(conf, r).stage \in 0 .. conf.pp - 1 /\ Place(conf, r).stage = r \div conf.tp
         /\ Replica(r) = (r % conf.tp) \div (AttnTp(conf) * conf.cp)
<1> DEFINE t == AttnTp(conf)  N == t * conf.cp  T == conf.tp  k == r \div T  p == conf.pp
           d == conf.dp
<1>1. /\ t \in Nat \ {0} /\ conf.cp \in Nat \ {0} /\ d \in Nat \ {0} /\ N \in Nat \ {0}
      /\ T \in Nat \ {0} /\ p \in Nat \ {0} /\ World = p * T /\ T = N * d
  BY LayoutFacts
<1>2. r \in Int /\ r >= 0 /\ r < World  BY LayoutFacts DEF Ranks
<1>3. Place(conf, r).stage = k /\ Replica(r) = (r % T) \div N  BY DEF Place, Replica
<1>4. Three(t, conf.cp, d, N, T)  BY <1>1 DEF Three, N
<1> HIDE DEF t, N, T, p, d
<1>5. Replica(r) \in 0 .. d - 1
  <2>1. (r % T) \div N = (r \div N) % d
    BY <1>2, <1>4, Digits
  <2> DEFINE z == r \div N
  <2>2. z \in Int  BY <1>1, <1>2, DivMod
  <2> HIDE DEF z
  <2>3. z % d \in 0 .. d - 1  BY ONLY <1>1, <2>2, DivMod
  <2> QED  BY <1>3, <2>1, <2>3 DEF z
<1>6. r = k * T + (r % T) /\ k \in Int /\ r % T \in 0 .. T - 1  BY ONLY <1>1, <1>2, DivMod
<1> HIDE DEF k
<1>7. PICK rest \in 0 .. T - 1 : r = k * T + rest  BY <1>6
<1>8. r < p * T  BY <1>1, <1>2
<1>9. k \in 0 .. p - 1 /\ (r < T <=> k = 0) /\ (r >= p * T - T <=> k = p - 1)
  BY ONLY <1>1, <1>2, <1>6, <1>7, <1>8, Ends
<1> QED  BY <1>1, <1>2, <1>3, <1>5, <1>9 DEF FirstStage, LastStage, T, p, d, N, t, k

\* The ranks of a group are of one stage, or of one replica.
LEMMA HomePlaces ==
  ASSUME conf \in Layouts, NEW r \in Ranks, NEW kind \in Grouped, NEW q \in ToSet(Home(r, kind))
  PROVE  /\ kind # "pp" => (FirstStage(q) <=> FirstStage(r)) /\ (LastStage(q) <=> LastStage(r))
         /\ kind \in {"attn_tp", "attn_cp", "pp"} => Replica(q) = Replica(r)
<1>1. Layout(conf)  BY LayoutFacts
<1>2. q \in Class(Many(kind), Apart(kind), r) /\ q \in Ranks  BY HomeFacts
<1>3. /\ Alike(conf, r, {"stage"}) = Class(conf.tp, 1, r)
      /\ Alike(conf, r, {"i"}) = Class(conf.pp, conf.tp, r)
      /\ Alike(conf, r, {"stage", "dp", "t"}) = Class(conf.cp, AttnTp(conf), r)
      /\ Alike(conf, r, {"stage", "dp", "cp"}) = Class(AttnTp(conf), 1, r)
      /\ Alike(conf, r, {"stage", "mdp", "m"}) = Class(conf.ep, MoeTp(conf), r)
  BY <1>1, MeantClasses
<1>4. /\ FirstStage(r) <=> Place(conf, r).stage = 0
      /\ LastStage(r) <=> Place(conf, r).stage = conf.pp - 1
      /\ FirstStage(q) <=> Place(conf, q).stage = 0
      /\ LastStage(q) <=> Place(conf, q).stage = conf.pp - 1
  BY <1>2, PlaceFacts
<1>5. \A on : \A s \in Alike(conf, r, on) : \A k \in on : Place(conf, s)[k] = Place(conf, r)[k]
  BY DEF Alike
<1> DEFINE same(k) == Place(conf, q)[k] = Place(conf, r)[k]
<1>6. CASE kind = "tp"
  <2>1. q \in Alike(conf, r, {"stage"})  BY <1>2, <1>3, <1>6 DEF Many, Apart
  <2>2. same("stage")  BY <1>5, <2>1
  <2> QED  BY <1>4, <1>6, <2>2
<1>7. CASE kind = "attn_cp"
  <2>1. q \in Alike(conf, r, {"stage", "dp", "t"})  BY <1>2, <1>3, <1>7 DEF Many, Apart
  <2>2. same("stage") /\ same("dp")  BY <1>5, <2>1
  <2> QED  BY <1>4, <1>7, <2>2 DEF Replica
<1>8. CASE kind = "attn_tp"
  <2>1. q \in Alike(conf, r, {"stage", "dp", "cp"})  BY <1>2, <1>3, <1>8 DEF Many, Apart
  <2>2. same("stage") /\ same("dp")  BY <1>5, <2>1
  <2> QED  BY <1>4, <1>8, <2>2 DEF Replica
<1>9. CASE kind = "moe_ep"
  <2>1. q \in Alike(conf, r, {"stage", "mdp", "m"})  BY <1>2, <1>3, <1>9 DEF Many, Apart
  <2>2. same("stage")  BY <1>5, <2>1
  <2> QED  BY <1>4, <1>9, <2>2
<1>10. CASE kind = "pp"
  <2>1. q \in Alike(conf, r, {"i"})  BY <1>2, <1>3, <1>10 DEF Many, Apart
  <2>2. same("i")  BY <1>5, <2>1
  <2>3. Replica(q) = Replica(r)  BY <2>2 DEF Replica, Place
  <2> QED  BY <1>10, <2>3
<1> QED  BY <1>6, <1>7, <1>8, <1>9, <1>10 DEF Grouped

LEMMA StrideAt ==
  ASSUME NEW first, NEW n \in Nat, NEW w, NEW i \in 1 .. n
  PROVE  Stride(first, n, w)[i] = first + (i - 1) * w
  BY Zenon DEF Stride

\* Where a rank stands in its group of all tensor parallel ranks.
LEMMA IndexTp ==
  ASSUME conf \in Layouts, NEW r \in Ranks
  PROVE  IndexOf(Home(r, "tp"), r) = (r % conf.tp) + 1
<1> DEFINE T == conf.tp  k == r \div T  i == r % T  list == Home(r, "tp")
<1>1. T \in Nat \ {0} /\ r \in Int  BY LayoutFacts, PlaceFacts
<1>2. "tp" \in Grouped /\ Many("tp") = T /\ Apart("tp") = 1  BY DEF Grouped, Many, Apart
<1> HIDE DEF T
<1>3. 1 * T = T /\ 1 \in Nat \ {0}  BY <1>1
<1>4. r = k * T + i /\ k \in Int /\ i \in 0 .. T - 1  BY ONLY <1>1, DivMod
<1>5. r % 1 = 0
  <2>1. r % 1 \in 0 .. 1 - 1  BY ONLY <1>1, <1>3, DivMod
  <2> QED  BY <2>1
<1>6. list = Stride(k * T + 0, T, 1)  BY <1>2, <1>3, <1>5 DEF Home
<1> HIDE DEF k, i, list
<1>7. PICK z \in Int : z = k * T  BY <1>1, <1>4
<1>8. i + 1 \in 1 .. T  BY <1>1, <1>4
<1>9. PICK j \in 1 .. T : j = i + 1  BY <1>8
<1>10. list[i + 1] = r
  <2>1. list = Stride(z + 0, T, 1)  BY <1>6, <1>7
  <2>2. list[j] = (z + 0) + (j - 1) * 1
    <3>1. \A x \in 1 .. T : Stride(z + 0, T, 1)[x] = (z + 0) + (x - 1) * 1
      <4>1. T \in Nat  BY <1>1
      <4> QED  BY ONLY <4>1, StrideAt
    <3> QED  BY ONLY <2>1, <3>1
  <2>3. r = z + i /\ i \in Int /\ j \in Int  BY ONLY <1>1, <1>4, <1>7
  <2> QED  BY ONLY <1>7, <1>9, <2>2, <2>3
<1>11. IndexOf(list, list[i + 1]) = i + 1  BY <1>2, <1>8, HomeFacts DEF list
<1> QED  BY <1>10, <1>11 DEF list, i, T

\* Where it stands in its pipeline.
LEMMA IndexPp ==
  ASSUME conf \in Layouts, NEW r \in Ranks
  PROVE  IndexOf(Home(r, "pp"), r) = Place(conf, r).stage + 1
<1> DEFINE T == conf.tp  p == conf.pp  k == r \div T  i == r % T  list == Home(r, "pp")
<1>1. /\ T \in Nat \ {0} /\ p \in Nat \ {0} /\ r \in Int /\ World = p * T
      /\ k \in 0 .. p - 1 /\ Place(conf, r).stage = k /\ r >= 0 /\ r < World
  <2>1. /\ T \in Nat \ {0} /\ p \in Nat \ {0} /\ World = p * T /\ World \in Nat
    BY LayoutFacts
  <2>2. Place(conf, r).stage = k /\ k \in 0 .. p - 1  BY PlaceFacts
  <2>3. r \in Int /\ r >= 0 /\ r < World  BY <2>1 DEF Ranks
  <2> QED  BY ONLY <2>1, <2>2, <2>3
<1>2. "pp" \in Grouped /\ Many("pp") = p /\ Apart("pp") = T  BY DEF Grouped, Many, Apart
<1> HIDE DEF T, p
<1>3. T * p = World /\ World \in Nat \ {0}  BY <1>1, TwoDigits
<1>4. r = k * T + i /\ k \in Int /\ i \in 0 .. T - 1  BY ONLY <1>1, DivMod
<1>5. r \div World = 0  BY <1>1, <1>3, DivSmall
<1>6. list = Stride(0 * World + i, p, T)  BY <1>2, <1>3, <1>5 DEF Home
<1> HIDE DEF k, i, list
<1>7. k + 1 \in 1 .. p  BY <1>1
<1>8. list[k + 1] = (0 * World + i) + (k + 1 - 1) * T  
  BY ONLY <1>1, <1>6, <1>7, StrideAt
<1>9. list[k + 1] = r
  <2>1. PICK z \in Int : z = k * T  BY <1>1, <1>4
  <2>2. 0 * World = 0 /\ k + 1 - 1 = k  BY <1>3, <1>4
  <2>3. list[k + 1] = (0 + i) + z  BY <1>8, <2>1, <2>2
  <2> QED  BY ONLY <1>4, <2>1, <2>3
<1>10. IndexOf(list, list[k + 1]) = k + 1  BY <1>2, <1>7, HomeFacts DEF list
<1> QED  BY <1>1, <1>9, <1>10 DEF list

\* The rank behind r in its pipeline.
LEMMA Behind ==
  ASSUME conf \in Layouts, NEW r \in Ranks, NEW from,
         from = Home(r, "pp")[((IndexOf(Home(r, "pp"), r) - 1 + (-1)) % conf.pp) + 1]
  PROVE  from \in Ranks /\ Replica(from) = Replica(r) /\ (LastStage(from) <=> FirstStage(r))
<1> DEFINE p == conf.pp  k == Place(conf, r).stage  list == Home(r, "pp")
           j == ((IndexOf(list, r) - 1 + (-1)) % p) + 1
<1>1. "pp" \in Grouped /\ Many("pp") = p  BY DEF Grouped, Many
<1>2. /\ p \in Nat \ {0} /\ k \in 0 .. p - 1 /\ IndexOf(list, r) = k + 1
      /\ FirstStage(r) <=> k = 0
  BY LayoutFacts, PlaceFacts, IndexPp
<1> HIDE DEF p, k, list
<1>3. k + 1 - 1 + (-1) = k - 1 /\ k - 1 \in Int  BY <1>2
<1>4. j = ((k - 1) % p) + 1  BY <1>2, <1>3
<1>5. (k - 1) % p = IF k = 0 THEN p - 1 ELSE k - 1
  <2>1. CASE k = 0
    <3>1. k - 1 = (-1) * p + (p - 1) /\ p - 1 \in 0 .. p - 1 /\ -1 \in Int  BY <1>2, <2>1
    <3> QED  BY ONLY <1>2, <1>3, <2>1, <3>1, DivUnique
  <2>2. CASE k # 0
    <3>1. k - 1 \in 0 .. p - 1  BY <1>2, <2>2
    <3>2. k - 1 = 0 * p + (k - 1) /\ 0 \in Int  BY <1>2
    <3> QED  BY ONLY <1>2, <1>3, <2>2, <3>1, <3>2, DivUnique
  <2> QED  BY <2>1, <2>2
<1>6. j \in 1 .. p  BY <1>2, <1>4, <1>5
<1> HIDE DEF j
<1>7. from = list[j]  BY DEF j, list, p
<1>8. from \in ToSet(list) /\ ToSet(list) \subseteq Ranks /\ IndexOf(list, from) = j
      /\ Home(from, "pp") = list
  BY <1>1, <1>6, <1>7, HomeFacts DEF list
<1>9. from \in Ranks  BY <1>8
<1>10. Place(conf, from).stage + 1 = j /\ Place(conf, from).stage \in Int
  <2>1. IndexOf(Home(from, "pp"), from) = Place(conf, from).stage + 1  BY <1>9, IndexPp
  <2>2. Place(conf, from).stage \in 0 .. p - 1  BY <1>9, PlaceFacts DEF p
  <2> QED  BY <1>8, <2>1, <2>2
<1>11. LastStage(from) <=> Place(conf, from).stage = p - 1  BY <1>9, PlaceFacts DEF p
<1>12. Replica(from) = Replica(r)  BY <1>1, <1>8, HomePlaces DEF list
<1>13. LastStage(from) <=> k = 0  BY ONLY <1>2, <1>4, <1>5, <1>10, <1>11
<1> QED  BY <1>2, <1>9, <1>12, <1>13

\* With as many replicas as ranks each rank is a replica of its own.
LEMMA ReplicaOfRank ==
  ASSUME conf \in Layouts, conf.dp = conf.tp, NEW r \in Ranks
  PROVE  Replica(r) + 1 = IndexOf(Home(r, "tp"), r) /\ AttnTp(conf) = 1
<1> DEFINE T == conf.tp  N == AttnTp(conf) * conf.cp  i == r % T
<1>1. /\ T \in Nat \ {0} /\ N \in Nat \ {0} /\ AttnTp(conf) \in Nat \ {0}
      /\ conf.cp \in Nat \ {0} /\ T = N * T /\ r \in Int
      /\ Replica(r) = i \div N
  BY LayoutFacts, PlaceFacts
<1> DEFINE t == AttnTp(conf)  c == conf.cp
<1>2. N = t * c  OBVIOUS
<1> HIDE DEF T, N, t, c
<1>3. N = 1
  <2>1. (N - 1) * T = N * T - T /\ N * T \in Int  BY <1>1
  <2>2. (N - 1) * T = 0  BY <1>1, <2>1
  <2>3. N >= 2 => (N - 2) * T >= 0 /\ (N - 2) * T = (N - 1) * T - T  BY <1>1
  <2> QED  BY ONLY <1>1, <2>2, <2>3
<1>4. t = 1
  <2>1. t \in Nat \ {0} /\ c \in Nat \ {0} /\ t * c = 1  BY <1>1, <1>2, <1>3 DEF t, c
  <2>2. t >= 2 => (t - 2) * c >= 0 /\ (t - 2) * c = t * c - 2 * c  BY <2>1
  <2> QED  BY ONLY <2>1, <2>2
<1>5. i \in Int  BY ONLY <1>1, DivMod
<1>6. i \div N = i
  <2> HIDE DEF i
  <2>1. i = i * 1 + 0 /\ 0 \in 0 .. 1 - 1 /\ 1 \in Nat \ {0}  BY <1>5
  <2> QED  BY ONLY <1>3, <1>5, <2>1, DivUnique
<1> QED  BY <1>1, <1>4, <1>6, IndexTp DEF i, T, t

-----------------------------------------------------------------------------
(* How many rows ranks have in their buffers.                              *)

\* Rows of a rank's replica, of its context-parallel share, of its part of rows padded alike
\* and of those gathered from all replicas.
Full(r) == RowsOf(Replica(r))
Local(r) == Full(r) \div conf.cp
Padded(r) == Full(r) \div AttnTp(conf)
Total == IF conf.pad = "max" THEN conf.tp * (MaxRows \div AttnTp(conf))
         ELSE Start(AllRows, conf.dp + 1)
PartOf(r) == SplitSizes(Full(r), AttnTp(conf))[IndexOf(Home(r, "attn_tp"), r)]
AtExperts(r) ==
  IF MoeGather THEN Total
  ELSE IF UseCp /\ ~conf.a2a THEN conf.cp * Local(r)
  ELSE IF AttnScatter THEN PartOf(r) ELSE Local(r)

\* What a stage lets go, and what it is sent, as rows and as elements.
Result(r) == IF LastStage(r) THEN conf.cp * Local(r) ELSE Local(r)
Came(r, on) == IF on = "x" THEN Local(r) ELSE conf.cp * Local(r)
Flat(r, on) == Came(r, on) * Width(on)

LEMMA DivNat ==
  ASSUME NEW a \in Nat, NEW n \in Nat \ {0}
  PROVE  a \div n \in Nat /\ a % n \in 0 .. n - 1
<1> DEFINE q == a \div n  k == a % n
<1>1. a = q * n + k /\ q \in Int /\ k \in 0 .. n - 1  BY DivMod
<1> HIDE DEF q, k
<1>2. q <= -1 => (-1 - q) * n >= 0 /\ (-1 - q) * n = -n - q * n /\ q * n \in Int  BY <1>1
<1>3. q >= 0
  <2>1. PICK z \in Int : z = q * n  BY <1>1
  <2> QED  BY ONLY <1>1, <1>2, <2>1, a \in Nat, n \in Nat
<1> QED  BY <1>1, <1>3 DEF q, k

LEMMA TimesNat ==
  ASSUME NEW a \in Nat, NEW b \in Nat
  PROVE  a * b \in Nat
<1>1. a * b \in Int /\ a * b >= 0  OBVIOUS
<1> QED  BY <1>1

LEMMA SplitSizesNat ==
  ASSUME NEW size \in Nat, NEW n \in Nat \ {0}, NEW i \in 1 .. n
  PROVE  SplitSizes(size, n)[i] \in Nat /\ Equal(size, n)[i] = size \div n
<1>1. size \div n \in Nat  BY DivNat
<1>2. SplitSizes(size, n)[i] = size \div n + (IF i <= size % n THEN 1 ELSE 0)
  BY DEF SplitSizes
<1>3. Equal(size, n)[i] = size \div n  BY DEF Equal
<1> QED  BY <1>1, <1>2, <1>3

\* The rows of the replicas.
LEMMA RowsNat ==
  ASSUME conf \in Layouts
  PROVE  /\ MaxRows \in Nat /\ \A d \in 0 .. conf.dp - 1 : RowsOf(d) \in Nat
         /\ AllRows \in [1 .. conf.dp -> Nat] /\ \A d \in 0 .. conf.dp - 1 : AllRows[d + 1] = RowsOf(d)
         /\ Total \in Nat
<1> DEFINE t == AttnTp(conf)  all == ToSet(conf.counts)  d == conf.dp
           most == CHOOSE n \in all : \A m \in all : m <= n
           up == (most + t - 1) \div t
<1>1. /\ t \in Nat \ {0} /\ d \in Nat \ {0} /\ conf.counts \in [1 .. d -> Nat]
      /\ conf.tp \in Nat
  BY LayoutFacts
<1>2. \E n \in all : n \in Nat /\ \A k \in all : k <= n  BY <1>1, Largest
<1>3. MaxRows = up * t  BY DEF MaxRows
<1> HIDE DEF t, d, all
<1>4. most \in all /\ all \subseteq Nat
  <2>1. \A n \in all : n \in Nat
    <3>1. all = {conf.counts[i] : i \in DOMAIN conf.counts}  BY DEF ToSet, all
    <3> QED  BY <1>1, <3>1
  <2> QED  BY <1>2, <2>1
<1> HIDE DEF most
<1>5. most + t - 1 \in Nat  BY <1>1, <1>4
<1> DEFINE a == most + t - 1
<1>6. up \in Nat
  <2>1. a \in Nat /\ up = a \div t  BY <1>5
  <2> HIDE DEF a
  <2> QED  BY ONLY <1>1, <2>1, DivNat
<1> HIDE DEF up
<1>7. MaxRows \in Nat  BY ONLY <1>1, <1>3, <1>6, TimesNat
<1>8. \A i \in 0 .. d - 1 : RowsOf(i) \in Nat
  <2> SUFFICES ASSUME NEW i \in 0 .. d - 1  PROVE RowsOf(i) \in Nat
    OBVIOUS
  <2>1. conf.counts[i + 1] \in Nat
    <3>1. i + 1 \in 1 .. d  BY <1>1
    <3> QED  BY <1>1, <3>1
  <2> QED  BY <1>7, <2>1 DEF RowsOf
<1>9. AllRows = [k \in 1 .. d |-> RowsOf(k - 1)]  BY DEF AllRows, d
<1>10. AllRows \in [1 .. d -> Nat] /\ \A i \in 0 .. d - 1 : AllRows[i + 1] = RowsOf(i)
  <2>1. \A k \in 1 .. d : k - 1 \in 0 .. d - 1  BY <1>1
  <2>2. \A i \in 0 .. d - 1 : i + 1 \in 1 .. d /\ i + 1 - 1 = i  BY <1>1
  <2> QED  BY <1>8, <1>9, <2>1, <2>2
<1>11. Total \in Nat
  <2>1. MaxRows \div t \in Nat  BY <1>1, <1>7, DivNat
  <2>2. conf.tp * (MaxRows \div t) \in Nat  BY ONLY <1>1, <2>1, TimesNat
  <2>3. Start(AllRows, d + 1) \in Nat
    <3>1. PICK P \in [0 .. d -> Nat] : \A i \in 1 .. d + 1 : Start(AllRows, i) = P[i - 1]
      BY <1>1, <1>10, Starts
    <3>2. d + 1 \in 1 .. d + 1 /\ d + 1 - 1 = d /\ d \in 0 .. d  BY <1>1
    <3>3. Start(AllRows, d + 1) = P[d]  BY ONLY <3>1, <3>2
    <3> QED  BY <3>2, <3>3
  <2> QED  BY <2>2, <2>3 DEF Total, t, d
<1> QED  BY <1>7, <1>8, <1>10, <1>11 DEF d

LEMMA WidthNat ==
  ASSUME NEW on
  PROVE  Width(on) \in Nat \ {0}
  BY CollectivesAssumption DEF Width

\* The rows of a rank.
LEMMA SizesNat ==
  ASSUME conf \in Layouts, NEW r \in Ranks
  PROVE  /\ Full(r) \in Nat /\ Local(r) \in Nat /\ Padded(r) \in Nat /\ Total \in Nat
         /\ PartOf(r) \in Nat /\ conf.cp * Local(r) \in Nat /\ AtExperts(r) \in Nat
         /\ Result(r) \in Nat
         /\ \A on : Came(r, on) \in Nat /\ Flat(r, on) \in Nat /\ Flat(r, on) \div AttnTp(conf) \in Nat
         /\ conf.cp = 1 => Local(r) = Full(r) /\ conf.cp * Local(r) = Local(r)
         /\ AttnTp(conf) = 1 => Padded(r) = Full(r)
<1>1. /\ conf.cp \in Nat \ {0} /\ AttnTp(conf) \in Nat \ {0} /\ Replica(r) \in 0 .. conf.dp - 1
  BY LayoutFacts, PlaceFacts
<1>2. Full(r) \in Nat  BY <1>1, RowsNat DEF Full
<1>3. Local(r) \in Nat /\ Padded(r) \in Nat  BY <1>1, <1>2, DivNat DEF Local, Padded
<1>4. conf.cp * Local(r) \in Nat  BY <1>1, <1>3, TimesNat
<1>5. PartOf(r) \in Nat
  <2>1. IndexOf(Home(r, "attn_tp"), r) \in 1 .. AttnTp(conf)
    BY HomeFacts DEF Grouped, Many
  <2> QED  BY <1>1, <1>2, <2>1, SplitSizesNat DEF PartOf
<1>6. Total \in Nat  BY RowsNat
<1>7. AtExperts(r) \in Nat /\ Result(r) \in Nat
  BY <1>3, <1>4, <1>5, <1>6 DEF AtExperts, Result
<1>8. ASSUME NEW on
      PROVE  Came(r, on) \in Nat /\ Flat(r, on) \in Nat /\ Flat(r, on) \div AttnTp(conf) \in Nat
  <2>1. Came(r, on) \in Nat  BY <1>3, <1>4 DEF Came
  <2>2. Width(on) \in Nat  BY WidthNat
  <2>3. Flat(r, on) \in Nat  BY <2>1, <2>2, TimesNat DEF Flat
  <2> QED  BY <1>1, <2>1, <2>3, DivNat
<1>9. \A n \in Nat : n \div 1 = n
  <2> SUFFICES ASSUME NEW n \in Nat  PROVE n \div 1 = n
    OBVIOUS
  <2>1. n * 1 = n /\ n \in Int /\ 1 \in Nat \ {0} /\ 0 \in 0 .. 1 - 1  OBVIOUS
  <2>2. (n * 1) \div 1 = n  BY ONLY <2>1, DivSimple
  <2> QED  BY <2>1, <2>2
<1>10. conf.cp = 1 => Local(r) = Full(r) /\ conf.cp * Local(r) = Local(r)
  <2>1. conf.cp = 1 => Local(r) = Full(r)  BY <1>2, <1>9 DEF Local
  <2>2. 1 * Local(r) = Local(r)  BY <1>3
  <2> QED  BY <2>1, <2>2
<1>11. AttnTp(conf) = 1 => Padded(r) = Full(r)  BY <1>2, <1>9 DEF Padded
<1> QED  BY <1>2, <1>3, <1>4, <1>5, <1>6, <1>7, <1>8, <1>10, <1>11

\* Ranks of one replica have as many.
LEMMA SizesShared ==
  ASSUME conf \in Layouts, NEW r \in Ranks, NEW q \in Ranks,
         Replica(q) = Replica(r) \/ conf.dp = 1 \/ (MoeGather /\ conf.pad = "max")
  PROVE  /\ Full(q) = Full(r) /\ Local(q) = Local(r) /\ Padded(q) = Padded(r)
         /\ \A on : Came(q, on) = Came(r, on) /\ Flat(q, on) = Flat(r, on)
<1>1. Full(q) = Full(r)
  <2>1. CASE Replica(q) = Replica(r)  BY <2>1 DEF Full
  <2>2. CASE conf.dp = 1
    <3>1. Replica(q) \in 0 .. conf.dp - 1 /\ Replica(r) \in 0 .. conf.dp - 1  BY PlaceFacts
    <3>2. Replica(q) = 0 /\ Replica(r) = 0  BY <2>2, <3>1
    <3> QED  BY <3>2 DEF Full
  <2>3. CASE MoeGather /\ conf.pad = "max"  BY <2>3 DEF Full, RowsOf
  <2> QED  BY <2>1, <2>2, <2>3
<1>2. Local(q) = Local(r) /\ Padded(q) = Padded(r)  BY <1>1 DEF Local, Padded
<1>3. \A on : Came(q, on) = Came(r, on)  BY <1>2 DEF Came
<1> QED  BY <1>1, <1>2, <1>3 DEF Flat

\* The rows of a rank before it takes step s, while it waits in it and after it.
Before(r, s) ==
  CASE s.do \in {"attend", "cp_gather", "cp_output"} -> Local(r)
    [] s.do \in {"place", "zero_scatter", "gatherv"} -> Full(r)
    [] s.do = "gather" -> Padded(r)
    [] s.do = "experts" -> AtExperts(r)
    [] s.do = "cp_reduce_scatter" -> conf.cp * Local(r)
    [] s.do = "combine" -> Total
    [] s.do = "gather_split" -> PartOf(r)
During(r, s) ==
  IF s.do = "place" THEN Total
  ELSE IF s.do = "recv" THEN Flat(r, s.on) \div AttnTp(conf) ELSE Before(r, s)
After(r, s) ==
  CASE s.do \in {"attend", "cp_reduce_scatter"} -> Local(r)
    [] s.do \in {"place", "gather", "gatherv"} -> Total
    [] s.do = "zero_scatter" -> Padded(r)
    [] s.do \in {"cp_gather", "cp_output"} -> conf.cp * Local(r)
    [] s.do = "experts" -> AtExperts(r)
    [] s.do \in {"combine", "gather_split"} -> Full(r)
    [] s.do = "recv" -> Flat(r, s.on)

Sizes == [x : Nat, ids : Nat]
Gathers == {"place", "zero_scatter", "gather", "gatherv"}
Meetings == Gathers \cup {"attend", "cp_gather", "cp_output", "experts", "cp_reduce_scatter",
                          "combine", "gather_split"}

\* Where a layout has a rank take step s.
Apt(s) ==
  /\ s.do \in Gathers \cup {"combine"} => MoeGather
  /\ s.do \in {"zero_scatter", "gather"} <=> s.do \in Gathers /\ conf.pad = "max"
  /\ s.do = "gatherv" => conf.gatherv
  /\ s.do = "place" => ~conf.gatherv
  /\ s.do \in {"cp_gather", "cp_output", "cp_reduce_scatter"} => UseCp
  /\ s.do \in {"cp_gather", "cp_reduce_scatter"} => ~conf.a2a
  /\ s.do = "gather_split" => AttnScatter
  /\ s.do \notin Gathers => s.on = "x"

\* The collective that rank r enters in step s of serving, or none.
Reducing(r, kind, on, size) ==
  LET name == Backing(conf)[kind]  list == Home(r, kind) IN
  IF Len(list) = 1 THEN Idle
  ELSE Call("all_reduce", on, name, list, Route(conf, name, size), <<size>>)
Exchanging(r, do, on, kind, sizes) ==
  Call(do, on, Backing(conf)[kind], Home(r, kind), TensorRoute(conf, Backing(conf)[kind]), sizes)
BySizes(r, do, on, kind, sizes) ==
  Call(do, on, Backing(conf)[kind], Home(r, kind), "nccl", sizes)
AttnKind == IF AttnTp(conf) = conf.tp THEN "tp" ELSE "attn_tp"
InExperts(r) ==
  IF conf.a2a THEN Exchanging(r, "a2a", "x", "moe_ep", << >>)
  ELSE IF SumLeftOut THEN Idle ELSE Reducing(r, "tp", "x", AtExperts(r))
InCombine(r) ==
  IF DpReduceScatterV \/ ReduceScatterV THEN BySizes(r, "reduce_scatter", "x", "tp", AllRows)
  ELSE IF ReduceScatter THEN Exchanging(r, "reduce_scatter", "x", "tp", Equal(Total, conf.tp))
  ELSE Idle
InRecv(r, on) ==
  IF Flat(r, on) # 0 /\ Sliced(Flat(r, on)) /\ AttnTp(conf) > 1
  THEN Exchanging(r, "all_gather", on, "attn_tp", <<Flat(r, on)>>) ELSE Idle
Parting(r) ==
  Call("all_gather", "x", Backing(conf)["attn_tp"], Home(r, "attn_tp"), "device",
       SplitSizes(Full(r), AttnTp(conf)))
Entry(r, s) ==
  CASE s.do = "attend" -> Reducing(r, AttnKind, "x", Local(r))
    [] s.do = "place" -> Reducing(r, "tp", s.on, Total)
    [] s.do = "zero_scatter" ->
         Exchanging(r, "reduce_scatter", s.on, "attn_tp", Equal(Full(r), AttnTp(conf)))
    [] s.do = "gather" -> Exchanging(r, "all_gather", s.on, "tp", <<Padded(r)>>)
    [] s.do = "gatherv" -> BySizes(r, "all_gather", s.on, "tp", AllRows)
    [] s.do \in {"cp_gather", "cp_output"} ->
         Exchanging(r, "all_gather", s.on, "attn_cp", <<Local(r)>>)
    [] s.do = "experts" -> InExperts(r)
    [] s.do = "cp_reduce_scatter" ->
         Exchanging(r, "reduce_scatter", "x", "attn_cp", Equal(conf.cp * Local(r), conf.cp))
    [] s.do = "combine" -> InCombine(r)
    [] s.do = "gather_split" -> Parting(r)
    [] s.do = "recv" -> InRecv(r, s.on)
    [] OTHER -> Idle

LEMMA Tables ==
  ASSUME NEW r, NEW s
  PROVE  /\ s.do = "attend" =>
              /\ Before(r, s) = Local(r) /\ During(r, s) = Local(r) /\ After(r, s) = Local(r)
              /\ Entry(r, s) = Reducing(r, AttnKind, "x", Local(r))
         /\ s.do = "place" =>
              /\ Before(r, s) = Full(r) /\ During(r, s) = Total /\ After(r, s) = Total
              /\ Entry(r, s) = Reducing(r, "tp", s.on, Total)
         /\ s.do = "zero_scatter" =>
              /\ Before(r, s) = Full(r) /\ During(r, s) = Full(r) /\ After(r, s) = Padded(r)
              /\ Entry(r, s)
                   = Exchanging(r, "reduce_scatter", s.on, "attn_tp", Equal(Full(r), AttnTp(conf)))
         /\ s.do = "gather" =>
              /\ Before(r, s) = Padded(r) /\ During(r, s) = Padded(r) /\ After(r, s) = Total
              /\ Entry(r, s) = Exchanging(r, "all_gather", s.on, "tp", <<Padded(r)>>)
         /\ s.do = "gatherv" =>
              /\ Before(r, s) = Full(r) /\ During(r, s) = Full(r) /\ After(r, s) = Total
              /\ Entry(r, s) = BySizes(r, "all_gather", s.on, "tp", AllRows)
         /\ s.do \in {"cp_gather", "cp_output"} =>
              /\ Before(r, s) = Local(r) /\ During(r, s) = Local(r)
              /\ After(r, s) = conf.cp * Local(r)
              /\ Entry(r, s) = Exchanging(r, "all_gather", s.on, "attn_cp", <<Local(r)>>)
         /\ s.do = "experts" =>
              /\ Before(r, s) = AtExperts(r) /\ During(r, s) = AtExperts(r)
              /\ After(r, s) = AtExperts(r) /\ Entry(r, s) = InExperts(r)
         /\ s.do = "cp_reduce_scatter" =>
              /\ Before(r, s) = conf.cp * Local(r) /\ During(r, s) = conf.cp * Local(r)
              /\ After(r, s) = Local(r)
              /\ Entry(r, s) = Exchanging(r, "reduce_scatter", "x", "attn_cp",
                                          Equal(conf.cp * Local(r), conf.cp))
         /\ s.do = "combine" =>
              /\ Before(r, s) = Total /\ During(r, s) = Total /\ After(r, s) = Full(r)
              /\ Entry(r, s) = InCombine(r)
         /\ s.do = "gather_split" =>
              /\ Before(r, s) = PartOf(r) /\ During(r, s) = PartOf(r) /\ After(r, s) = Full(r)
              /\ Entry(r, s) = Parting(r)
         /\ s.do = "recv" =>
              /\ During(r, s) = Flat(r, s.on) \div AttnTp(conf) /\ After(r, s) = Flat(r, s.on)
              /\ Entry(r, s) = InRecv(r, s.on)
         /\ s.do \notin Meetings \cup {"recv"} => Entry(r, s) = Idle
<1>1. ASSUME s.do \in {"attend", "place", "zero_scatter"}
      PROVE  /\ s.do = "attend" =>
              /\ Before(r, s) = Local(r) /\ During(r, s) = Local(r) /\ After(r, s) = Local(r)
              /\ Entry(r, s) = Reducing(r, AttnKind, "x", Local(r))
             /\ s.do = "place" =>
              /\ Before(r, s) = Full(r) /\ During(r, s) = Total /\ After(r, s) = Total
              /\ Entry(r, s) = Reducing(r, "tp", s.on, Total)
             /\ s.do = "zero_scatter" =>
              /\ Before(r, s) = Full(r) /\ During(r, s) = Full(r) /\ After(r, s) = Padded(r)
              /\ Entry(r, s)
                   = Exchanging(r, "reduce_scatter", s.on, "attn_tp", Equal(Full(r), AttnTp(conf)))
  BY ONLY <1>1 DEF Before, During, After, Entry
<1>2. ASSUME s.do \in {"gather", "gatherv", "cp_gather", "cp_output"}
      PROVE  /\ s.do = "gather" =>
              /\ Before(r, s) = Padded(r) /\ During(r, s) = Padded(r) /\ After(r, s) = Total
              /\ Entry(r, s) = Exchanging(r, "all_gather", s.on, "tp", <<Padded(r)>>)
             /\ s.do = "gatherv" =>
              /\ Before(r, s) = Full(r) /\ During(r, s) = Full(r) /\ After(r, s) = Total
              /\ Entry(r, s) = BySizes(r, "all_gather", s.on, "tp", AllRows)
             /\ s.do \in {"cp_gather", "cp_output"} =>
              /\ Before(r, s) = Local(r) /\ During(r, s) = Local(r)
              /\ After(r, s) = conf.cp * Local(r)
              /\ Entry(r, s) = Exchanging(r, "all_gather", s.on, "attn_cp", <<Local(r)>>)
  BY ONLY <1>2 DEF Before, During, After, Entry
<1>3. ASSUME s.do \in {"experts", "cp_reduce_scatter", "combine"}
      PROVE  /\ s.do = "experts" =>
              /\ Before(r, s) = AtExperts(r) /\ During(r, s) = AtExperts(r)
              /\ After(r, s) = AtExperts(r) /\ Entry(r, s) = InExperts(r)
             /\ s.do = "cp_reduce_scatter" =>
              /\ Before(r, s) = conf.cp * Local(r) /\ During(r, s) = conf.cp * Local(r)
              /\ After(r, s) = Local(r)
              /\ Entry(r, s) = Exchanging(r, "reduce_scatter", "x", "attn_cp",
                                          Equal(conf.cp * Local(r), conf.cp))
             /\ s.do = "combine" =>
              /\ Before(r, s) = Total /\ During(r, s) = Total /\ After(r, s) = Full(r)
              /\ Entry(r, s) = InCombine(r)
  BY ONLY <1>3 DEF Before, During, After, Entry
<1>4. ASSUME s.do = "gather_split"
      PROVE   /\ Before(r, s) = PartOf(r) /\ During(r, s) = PartOf(r) /\ After(r, s) = Full(r)
              /\ Entry(r, s) = Parting(r)
  BY ONLY <1>4 DEF Before, During, After, Entry
<1>5. ASSUME s.do = "recv"
      PROVE  /\ During(r, s) = Flat(r, s.on) \div AttnTp(conf) /\ After(r, s) = Flat(r, s.on)
             /\ Entry(r, s) = InRecv(r, s.on)
  BY ONLY <1>5 DEF During, After, Entry
<1>6. ASSUME s.do \notin Meetings \cup {"recv"}  PROVE Entry(r, s) = Idle
  BY ONLY <1>6 DEF Entry, Meetings, Gathers
<1> QED  BY <1>1, <1>2, <1>3, <1>4, <1>5, <1>6

\* Steps that a program may have.
Sound(s) == s \in Serving /\ (s.do \in Meetings => Apt(s))

\* A call among the ranks of the rank's own group of some kind.
Exchanges == {"all_reduce", "all_gather", "reduce_scatter", "a2a"}
AtHome(r, on, call) ==
  \E kind \in Grouped \ {"pp"}, do \in Exchanges : \E route, sizes :
    call = Call(do, on, Backing(conf)[kind], Home(r, kind), route, sizes)

LEMMA CallsAtHome ==
  ASSUME NEW r, NEW kind \in Grouped \ {"pp"}, NEW on, NEW size,
         NEW do \in {"all_gather", "reduce_scatter", "a2a"}
  PROVE  /\ Reducing(r, kind, on, size) = Idle \/ AtHome(r, on, Reducing(r, kind, on, size))
         /\ AtHome(r, on, Exchanging(r, do, on, kind, size))
         /\ AtHome(r, on, BySizes(r, do, on, kind, size))
<1>1. "all_reduce" \in Exchanges /\ do \in Exchanges  BY DEF Exchanges
<1>2. \A task \in Exchanges : \A route, sizes :
        AtHome(r, on, Call(task, on, Backing(conf)[kind], Home(r, kind), route, sizes))
  BY DEF AtHome
<1>3. CASE Len(Home(r, kind)) = 1  BY <1>1, <1>2, <1>3 DEF Reducing, Exchanging, BySizes
<1>4. CASE Len(Home(r, kind)) # 1  BY <1>1, <1>2, <1>4 DEF Reducing, Exchanging, BySizes
<1> QED  BY <1>3, <1>4

LEMMA EntryShape ==
  ASSUME NEW r, NEW s, Sound(s), Entry(r, s) # Idle
  PROVE  s.do \in Meetings \cup {"recv"} /\ AtHome(r, s.on, Entry(r, s))
<1>1. s.do \in Meetings \cup {"recv"}  BY Tables
<1>2. s.do \in Meetings \ Gathers => s.on = "x"  BY DEF Sound, Apt
<1>3. \A kind \in Grouped \ {"pp"} : \A on, size : Reducing(r, kind, on, size) # Idle =>
        AtHome(r, on, Reducing(r, kind, on, size))
  <2> SUFFICES ASSUME NEW kind \in Grouped \ {"pp"}, NEW on, NEW size, Reducing(r, kind, on, size) # Idle
               PROVE  AtHome(r, on, Reducing(r, kind, on, size))
    OBVIOUS
  <2>1. "a2a" \in {"all_gather", "reduce_scatter", "a2a"}  OBVIOUS
  <2> QED  BY <2>1, CallsAtHome
<1>4. \A kind \in Grouped \ {"pp"}, do \in {"all_gather", "reduce_scatter", "a2a"} : \A on, size :
        /\ AtHome(r, on, Exchanging(r, do, on, kind, size))
        /\ AtHome(r, on, BySizes(r, do, on, kind, size))
  BY CallsAtHome
<1>5. {"tp", "attn_cp", "attn_tp", "moe_ep"} = Grouped \ {"pp"}  BY DEF Grouped
<1>6. CASE s.do = "attend"
  <2>1. Entry(r, s) = Reducing(r, AttnKind, s.on, Local(r))  BY <1>2, <1>6, Tables DEF Meetings, Gathers
  <2>2. AttnKind \in Grouped \ {"pp"}  BY <1>5 DEF AttnKind
  <2> QED  BY <1>1, <1>3, <2>1, <2>2
<1>7. CASE s.do = "place"
  <2>1. Entry(r, s) = Reducing(r, "tp", s.on, Total)  BY <1>7, Tables
  <2> QED  BY <1>1, <1>3, <1>5, <2>1
<1>8. CASE s.do = "zero_scatter"
  <2>1. Entry(r, s) = Exchanging(r, "reduce_scatter", s.on, "attn_tp", Equal(Full(r), AttnTp(conf)))
    BY <1>8, Tables
  <2> QED  BY <1>1, <1>4, <1>5, <2>1
<1>9. CASE s.do = "gather"
  <2>1. Entry(r, s) = Exchanging(r, "all_gather", s.on, "tp", <<Padded(r)>>)
    BY <1>9, Tables
  <2> QED  BY <1>1, <1>4, <1>5, <2>1
<1>10. CASE s.do = "gatherv"
  <2>1. Entry(r, s) = BySizes(r, "all_gather", s.on, "tp", AllRows)
    BY <1>10, Tables
  <2> QED  BY <1>1, <1>4, <1>5, <2>1
<1>11. CASE s.do \in {"cp_gather", "cp_output"}
  <2>1. Entry(r, s) = Exchanging(r, "all_gather", s.on, "attn_cp", <<Local(r)>>)
    BY <1>11, Tables
  <2> QED  BY <1>1, <1>4, <1>5, <2>1
<1>12. CASE s.do = "experts"
  <2>1. Entry(r, s) = InExperts(r) /\ s.on = "x"  BY <1>2, <1>12, Tables DEF Meetings, Gathers
  <2>2. \/ Entry(r, s) = Exchanging(r, "a2a", s.on, "moe_ep", << >>)
        \/ Entry(r, s) = Reducing(r, "tp", s.on, AtExperts(r))
    BY <2>1 DEF InExperts
  <2> QED  BY <1>1, <1>3, <1>4, <1>5, <2>2
<1>13. CASE s.do = "cp_reduce_scatter"
  <2>1. s.on = "x" /\ Entry(r, s) =
             Exchanging(r, "reduce_scatter", s.on, "attn_cp", Equal(conf.cp * Local(r), conf.cp))
    BY <1>2, <1>13, Tables DEF Meetings, Gathers
  <2> QED  BY <1>1, <1>4, <1>5, <2>1
<1>14. CASE s.do = "combine"
  <2>1. Entry(r, s) = InCombine(r) /\ s.on = "x"  BY <1>2, <1>14, Tables DEF Meetings, Gathers
  <2>2. \/ Entry(r, s) = BySizes(r, "reduce_scatter", s.on, "tp", AllRows)
        \/ Entry(r, s) = Exchanging(r, "reduce_scatter", s.on, "tp", Equal(Total, conf.tp))
    BY <2>1 DEF InCombine
  <2> QED  BY <1>1, <1>4, <1>5, <2>2
<1>15. CASE s.do = "gather_split"
  <2>1. s.on = "x" /\ Entry(r, s) = Call("all_gather", s.on, Backing(conf)["attn_tp"],
                     Home(r, "attn_tp"), "device", SplitSizes(Full(r), AttnTp(conf)))
    BY <1>2, <1>15, Tables DEF Meetings, Gathers, Parting
  <2>2. "all_gather" \in Exchanges  BY DEF Exchanges
  <2> QED  BY <1>1, <1>5, <2>1, <2>2 DEF AtHome
<1>16. CASE s.do = "recv"
  <2>1. Entry(r, s) = Exchanging(r, "all_gather", s.on, "attn_tp", <<Flat(r, s.on)>>)
    BY <1>16, Tables DEF InRecv
  <2> QED  BY <1>1, <1>4, <1>5, <2>1
<1>17. Meetings = {"attend", "place", "zero_scatter", "gather", "gatherv", "cp_gather", "cp_output",
                   "experts", "cp_reduce_scatter", "combine", "gather_split"}
  BY DEF Meetings, Gathers
<1> HIDE DEF Meetings
<1> QED  BY <1>1, <1>6, <1>7, <1>8, <1>9, <1>10, <1>11, <1>12, <1>13, <1>14, <1>15, <1>16, <1>17

\* Ranks of one group enter alike what they enter with the same size.
LEMMA EntersAlike ==
  ASSUME conf \in Layouts, NEW r \in Ranks, NEW kind \in Grouped, NEW q \in ToSet(Home(r, kind))
  PROVE  \A on, size : /\ Reducing(q, kind, on, size) = Reducing(r, kind, on, size)
                       /\ \A do : Exchanging(q, do, on, kind, size) = Exchanging(r, do, on, kind, size)
                       /\ \A do : BySizes(q, do, on, kind, size) = BySizes(r, do, on, kind, size)
<1>1. Home(q, kind) = Home(r, kind)  BY HomeFacts
<1> QED  BY <1>1 DEF Reducing, Exchanging, BySizes

\* The ranks of a call are those of the group it is made in.
LEMMA CallRanks ==
  ASSUME NEW r, NEW kind, NEW on, NEW size, NEW do
  PROVE  /\ Reducing(r, kind, on, size) # Idle => Reducing(r, kind, on, size).list = Home(r, kind)
         /\ Exchanging(r, do, on, kind, size).list = Home(r, kind)
         /\ BySizes(r, do, on, kind, size).list = Home(r, kind)
<1>1. CASE Len(Home(r, kind)) = 1  BY <1>1, CallFields DEF Reducing, Exchanging, BySizes
<1>2. CASE Len(Home(r, kind)) # 1  BY <1>2, CallFields DEF Reducing, Exchanging, BySizes
<1> QED  BY <1>1, <1>2

\* All attention is in one replica where it is sharded over all of TP.
LEMMA WholeAttention ==
  ASSUME conf \in Layouts, AttnTp(conf) = conf.tp
  PROVE  conf.dp = 1 /\ conf.cp = 1
<1> DEFINE t == conf.tp  a == AttnTp(conf)  c == conf.cp  d == conf.dp
<1>1. t \in Nat \ {0} /\ c \in Nat \ {0} /\ d \in Nat \ {0} /\ t = (t * c) * d  BY LayoutFacts
<1> HIDE DEF t, c, d
<1>2. t * c >= t  BY ONLY <1>1
<1>3. (t * c) * d >= t * c  BY ONLY <1>1, <1>2
<1>4. t * c = t  BY ONLY <1>1, <1>2, <1>3
<1>5. t * d = t  BY ONLY <1>1, <1>4
<1>6. c = 1 /\ d = 1
  <2>1. ASSUME NEW z \in Nat \ {0}, t * z = t  PROVE z = 1
    <3>1. CASE z >= 2
      <4>1. t * z >= t * 2  BY ONLY <1>1, <2>1, <3>1
      <4> QED  BY ONLY <1>1, <2>1, <4>1
    <3> QED  BY ONLY <2>1, <3>1
  <2> QED  BY ONLY <1>1, <1>4, <1>5, <2>1
<1> QED  BY <1>6 DEF c, d

\* The ranks of a call enter the same one in the same step, and are of one stage.
LEMMA EntryAgrees ==
  ASSUME conf \in Layouts, NEW r \in Ranks, NEW s, Sound(s), Entry(r, s) # Idle,
         NEW q \in ToSet(Entry(r, s).list)
  PROVE  /\ q \in Ranks /\ Entry(q, s) = Entry(r, s)
         /\ FirstStage(q) <=> FirstStage(r)
         /\ LastStage(q) <=> LastStage(r)
<1>1. s.do \in Meetings \cup {"recv"} /\ AtHome(r, s.on, Entry(r, s))  BY EntryShape
<1>2. s.do \in Meetings => Apt(s)  BY DEF Sound
<1>3. \E kind \in Grouped \ {"pp"} : Entry(r, s).list = Home(r, kind)
  <2>1. PICK kind \in Grouped \ {"pp"}, do \in Exchanges :
          \E route, sizes :
            Entry(r, s) = Call(do, s.on, Backing(conf)[kind], Home(r, kind), route, sizes)
    BY <1>1 DEF AtHome
  <2>2. Entry(r, s).list = Home(r, kind)  BY <2>1, CallFields
  <2> QED  BY <2>2
<1>4. /\ q \in Ranks
      /\ FirstStage(q) <=> FirstStage(r)
      /\ LastStage(q) <=> LastStage(r)
  BY <1>3, HomeFacts, HomePlaces
<1>5. {"tp", "attn_cp", "attn_tp", "moe_ep"} \subseteq Grouped  BY DEF Grouped
<1>6. \A kind \in Grouped : q \in ToSet(Home(r, kind)) =>
        /\ \A on, size : /\ Reducing(q, kind, on, size) = Reducing(r, kind, on, size)
                         /\ \A do : Exchanging(q, do, on, kind, size) = Exchanging(r, do, on, kind, size)
                         /\ \A do : BySizes(q, do, on, kind, size) = BySizes(r, do, on, kind, size)
        /\ kind \in {"attn_tp", "attn_cp"} => Replica(q) = Replica(r)
        /\ Home(q, kind) = Home(r, kind)
  BY EntersAlike, HomePlaces, HomeFacts
<1>7. Replica(q) = Replica(r) \/ conf.dp = 1 \/ (MoeGather /\ conf.pad = "max") =>
         /\ Full(q) = Full(r) /\ Local(q) = Local(r) /\ Padded(q) = Padded(r)
         /\ \A on : Came(q, on) = Came(r, on) /\ Flat(q, on) = Flat(r, on)
  BY <1>4, SizesShared
<1>8. CASE s.do = "attend"
  <2>1. /\ Entry(r, s) = Reducing(r, AttnKind, "x", Local(r))
        /\ Entry(q, s) = Reducing(q, AttnKind, "x", Local(q))
    BY <1>8, Tables
  <2>2. q \in ToSet(Home(r, AttnKind))  BY <2>1, CallRanks
  <2>3. AttnKind \in Grouped /\ (Replica(q) = Replica(r) \/ conf.dp = 1)
    BY <1>5, <1>6, <2>2, WholeAttention DEF AttnKind
  <2> QED  BY <1>4, <1>6, <1>7, <2>1, <2>2, <2>3
<1>9. CASE s.do = "place"
  <2>1. /\ Entry(r, s) = Reducing(r, "tp", s.on, Total) /\ Entry(q, s) = Reducing(q, "tp", s.on, Total)
    BY <1>9, Tables
  <2>2. q \in ToSet(Home(r, "tp"))  BY <2>1, CallRanks
  <2> QED  BY <1>4, <1>5, <1>6, <2>1, <2>2
<1>10. CASE s.do = "zero_scatter"
  <2>1. \A p \in {q, r} : Entry(p, s)
          = Exchanging(p, "reduce_scatter", s.on, "attn_tp", Equal(Full(p), AttnTp(conf)))
    BY <1>10, Tables
  <2>2. q \in ToSet(Home(r, "attn_tp"))  BY <2>1, CallRanks
  <2> QED  BY <1>4, <1>5, <1>6, <1>7, <2>1, <2>2
<1>11. CASE s.do = "gather"
  <2>1. \A p \in {q, r} : Entry(p, s) = Exchanging(p, "all_gather", s.on, "tp", <<Padded(p)>>)
    BY <1>11, Tables
  <2>2. q \in ToSet(Home(r, "tp"))  BY <2>1, CallRanks
  <2>3. MoeGather /\ conf.pad = "max"  BY <1>2, <1>11 DEF Apt, Meetings, Gathers
  <2> QED  BY <1>4, <1>5, <1>6, <1>7, <2>1, <2>2, <2>3
<1>12. CASE s.do = "gatherv"
  <2>1. \A p \in {q, r} : Entry(p, s) = BySizes(p, "all_gather", s.on, "tp", AllRows)
    BY <1>12, Tables
  <2>2. q \in ToSet(Home(r, "tp"))  BY <2>1, CallRanks
  <2> QED  BY <1>4, <1>5, <1>6, <2>1, <2>2
<1>13. CASE s.do \in {"cp_gather", "cp_output"}
  <2>1. \A p \in {q, r} : Entry(p, s) = Exchanging(p, "all_gather", s.on, "attn_cp", <<Local(p)>>)
    BY <1>13, Tables
  <2>2. q \in ToSet(Home(r, "attn_cp"))  BY <2>1, CallRanks
  <2>3. Local(q) = Local(r)  BY <1>5, <1>6, <1>7, <2>2
  <2>4. \A on, size : Exchanging(q, "all_gather", on, "attn_cp", size)
                        = Exchanging(r, "all_gather", on, "attn_cp", size)
    BY <1>5, <1>6, <2>2
  <2> QED  BY <1>4, <2>1, <2>3, <2>4
<1>14. CASE s.do = "experts"
  <2>1. Entry(r, s) = InExperts(r) /\ Entry(q, s) = InExperts(q)  BY <1>14, Tables
  <2>2. CASE conf.a2a
    <3>1. \A p \in {q, r} : Entry(p, s) = Exchanging(p, "a2a", "x", "moe_ep", << >>)
      BY <2>1, <2>2 DEF InExperts
    <3>2. q \in ToSet(Home(r, "moe_ep"))  BY <3>1, CallRanks
    <3>3. \A on, size : Exchanging(q, "a2a", on, "moe_ep", size)
                          = Exchanging(r, "a2a", on, "moe_ep", size)
      BY <1>5, <1>6, <3>2
    <3> QED  BY <1>4, <3>1, <3>3
  <2>3. CASE ~conf.a2a
    <3>1. ~SumLeftOut  BY <2>1, <2>3 DEF InExperts
    <3>2. \A p \in {q, r} : Entry(p, s) = Reducing(p, "tp", "x", AtExperts(p))
      BY <2>1, <2>3, <3>1 DEF InExperts
    <3>3. q \in ToSet(Home(r, "tp"))  BY <3>2, CallRanks
    <3>4. AtExperts(q) = AtExperts(r)
      <4>1. CASE MoeGather  BY <4>1 DEF AtExperts
      <4>2. CASE ~MoeGather
        <5>1. ~UseCp  BY <3>1 DEF SumLeftOut, MlpReduceScatter
        <5>2. conf.dp = 1
          <6>1. conf.dp \in Nat \ {0}  BY LayoutFacts
          <6>2. ~(conf.dp > 1)  BY <2>3, <4>2, <5>1 DEF MoeGather
          <6> QED  BY ONLY <6>1, <6>2
        <5>3. AtExperts(q) = Local(q) /\ AtExperts(r) = Local(r)
          BY <2>3, <4>2, <5>1 DEF AtExperts, AttnScatter
        <5> QED  BY <1>7, <5>2, <5>3
      <4> QED  BY <4>1, <4>2
    <3> QED  BY <1>4, <1>5, <1>6, <3>2, <3>3, <3>4
  <2> QED  BY <2>2, <2>3
<1>15. CASE s.do = "cp_reduce_scatter"
  <2>1. \A p \in {q, r} : Entry(p, s)
          = Exchanging(p, "reduce_scatter", "x", "attn_cp", Equal(conf.cp * Local(p), conf.cp))
    BY <1>15, Tables
  <2>2. q \in ToSet(Home(r, "attn_cp"))  BY <2>1, CallRanks
  <2>3. Local(q) = Local(r)  BY <1>5, <1>6, <1>7, <2>2
  <2> QED  BY <1>4, <1>5, <1>6, <2>1, <2>2, <2>3
<1>16. CASE s.do = "combine"
  <2>1. Entry(r, s) = InCombine(r) /\ Entry(q, s) = InCombine(q)  BY <1>16, Tables
  <2>2. q \in ToSet(Home(r, "tp"))
    <3>1. \/ Entry(r, s) = BySizes(r, "reduce_scatter", "x", "tp", AllRows)
          \/ Entry(r, s) = Exchanging(r, "reduce_scatter", "x", "tp", Equal(Total, conf.tp))
      BY <2>1 DEF InCombine
    <3> QED  BY <3>1, CallRanks
  <2> QED  BY <1>4, <1>5, <1>6, <2>1, <2>2 DEF InCombine
<1>17. CASE s.do = "gather_split"
  <2>1. Entry(r, s) = Parting(r) /\ Entry(q, s) = Parting(q)  BY <1>17, Tables
  <2>2. q \in ToSet(Home(r, "attn_tp"))  BY <2>1, CallFields DEF Parting
  <2> QED  BY <1>4, <1>5, <1>6, <1>7, <2>1, <2>2 DEF Parting
<1>18. CASE s.do = "recv"
  <2>1. Entry(r, s) = InRecv(r, s.on) /\ Entry(q, s) = InRecv(q, s.on)  BY <1>18, Tables
  <2>2. q \in ToSet(Home(r, "attn_tp"))
    <3>1. Entry(r, s) = Exchanging(r, "all_gather", s.on, "attn_tp", <<Flat(r, s.on)>>)
      BY <2>1 DEF InRecv
    <3> QED  BY <3>1, CallRanks
  <2>3. Flat(q, s.on) = Flat(r, s.on)  BY <1>5, <1>6, <1>7, <2>2
  <2> QED  BY <1>4, <1>5, <1>6, <2>1, <2>2, <2>3 DEF InRecv
<1>19. Meetings = {"attend", "place", "zero_scatter", "gather", "gatherv", "cp_gather", "cp_output",
                   "experts", "cp_reduce_scatter", "combine", "gather_split"}
  BY DEF Meetings, Gathers
<1> HIDE DEF Meetings
<1> QED  BY <1>1, <1>8, <1>9, <1>10, <1>11, <1>12, <1>13, <1>14, <1>15, <1>16, <1>17, <1>18, <1>19

\* In what a rank waits by the step that it takes.
LEMMA CallDoes ==
  ASSUME NEW r, NEW s, Sound(s), Entry(r, s) # Idle
  PROVE  /\ Entry(r, s).do = "all_reduce" <=>
              s.do \in {"attend", "place"} \/ (s.do = "experts" /\ ~conf.a2a)
         /\ Entry(r, s).do = "a2a" <=> s.do = "experts" /\ conf.a2a
         /\ Entry(r, s).do = "reduce_scatter" <=>
              s.do \in {"zero_scatter", "cp_reduce_scatter", "combine"}
         /\ Entry(r, s).do = "all_gather" <=>
              s.do \in {"gather", "gatherv", "cp_gather", "cp_output", "gather_split", "recv"}
<1>1. s.do \in Meetings \cup {"recv"}  BY EntryShape
<1>2. \A kind, on, size :
        /\ Reducing(r, kind, on, size) # Idle => Reducing(r, kind, on, size).do = "all_reduce"
        /\ \A do : /\ Exchanging(r, do, on, kind, size).do = do
                   /\ BySizes(r, do, on, kind, size).do = do
  <2> SUFFICES ASSUME NEW kind, NEW on, NEW size
               PROVE  /\ Reducing(r, kind, on, size) # Idle =>
                           Reducing(r, kind, on, size).do = "all_reduce"
                      /\ \A do : /\ Exchanging(r, do, on, kind, size).do = do
                                 /\ BySizes(r, do, on, kind, size).do = do
    OBVIOUS
  <2>1. CASE Len(Home(r, kind)) = 1  BY <2>1, CallFields DEF Reducing, Exchanging, BySizes
  <2>2. CASE Len(Home(r, kind)) # 1  BY <2>2, CallFields DEF Reducing, Exchanging, BySizes
  <2> QED  BY <2>1, <2>2
<1>3. CASE s.do \in {"attend", "place"}
  <2>1. \/ Entry(r, s) = Reducing(r, AttnKind, "x", Local(r))
        \/ Entry(r, s) = Reducing(r, "tp", s.on, Total)
    BY <1>3, Tables
  <2>2. Entry(r, s).do = "all_reduce"  BY <1>2, <2>1
  <2> QED  BY <1>3, <2>2
<1>4. CASE s.do = "experts"
  <2>1. Entry(r, s) = InExperts(r)  BY <1>4, Tables
  <2>2. CASE conf.a2a
    <3>1. Entry(r, s) = Exchanging(r, "a2a", "x", "moe_ep", << >>)  BY <2>1, <2>2 DEF InExperts
    <3>2. Entry(r, s).do = "a2a"  BY <1>2, <3>1
    <3> QED  BY <1>4, <2>2, <3>2
  <2>3. CASE ~conf.a2a
    <3>1. Entry(r, s) = Reducing(r, "tp", "x", AtExperts(r))  BY <2>1, <2>3 DEF InExperts
    <3>2. Entry(r, s).do = "all_reduce"  BY <1>2, <3>1
    <3> QED  BY <1>4, <2>3, <3>2
  <2> QED  BY <2>2, <2>3
<1>5. CASE s.do \in {"zero_scatter", "cp_reduce_scatter", "combine"}
  <2>1. \/ Entry(r, s) = Exchanging(r, "reduce_scatter", s.on, "attn_tp", Equal(Full(r), AttnTp(conf)))
        \/ Entry(r, s)
             = Exchanging(r, "reduce_scatter", "x", "attn_cp", Equal(conf.cp * Local(r), conf.cp))
        \/ Entry(r, s) = InCombine(r)
    BY <1>5, Tables
  <2>2. Entry(r, s) = InCombine(r) =>
          \/ Entry(r, s) = BySizes(r, "reduce_scatter", "x", "tp", AllRows)
          \/ Entry(r, s) = Exchanging(r, "reduce_scatter", "x", "tp", Equal(Total, conf.tp))
    BY DEF InCombine
  <2>3. Entry(r, s).do = "reduce_scatter"  BY <1>2, <2>1, <2>2
  <2> QED  BY <1>5, <2>3
<1>6. CASE s.do \in {"gather", "gatherv", "cp_gather", "cp_output", "gather_split", "recv"}
  <2>1. \/ Entry(r, s) = Exchanging(r, "all_gather", s.on, "tp", <<Padded(r)>>)
        \/ Entry(r, s) = BySizes(r, "all_gather", s.on, "tp", AllRows)
        \/ Entry(r, s) = Exchanging(r, "all_gather", s.on, "attn_cp", <<Local(r)>>)
        \/ Entry(r, s) = Parting(r)
        \/ Entry(r, s) = InRecv(r, s.on)
    BY <1>6, Tables
  <2>2. Parting(r).do = "all_gather"  BY CallFields DEF Parting
  <2>3. Entry(r, s) = InRecv(r, s.on) =>
          Entry(r, s) = Exchanging(r, "all_gather", s.on, "attn_tp", <<Flat(r, s.on)>>)
    BY DEF InRecv
  <2>4. Entry(r, s).do = "all_gather"  BY <1>2, <2>1, <2>2, <2>3
  <2> QED  BY <1>6, <2>4
<1>7. Meetings = {"attend", "place", "zero_scatter", "gather", "gatherv", "cp_gather", "cp_output",
                  "experts", "cp_reduce_scatter", "combine", "gather_split"}
  BY DEF Meetings, Gathers
<1> HIDE DEF Meetings
<1> QED  BY <1>1, <1>3, <1>4, <1>5, <1>6, <1>7

\* Where a rank waits.
LEMMA CallMade ==
  ASSUME conf \in Layouts, NEW r \in Ranks, NEW s, Sound(s), Entry(r, s) # Idle
  PROVE  /\ Entry(r, s).on = s.on /\ Entry(r, s).do \in Exchanges /\ Entry(r, s).do \notin SetUpTasks
         /\ Entry(r, s).name \in Names /\ Entry(r, s).list \in Seq(Int)
         /\ r \in ToSet(Entry(r, s).list)
         /\ \E kind \in Grouped \ {"pp"} : Entry(r, s).list = Home(r, kind)
<1>1. PICK kind \in Grouped \ {"pp"}, do \in Exchanges :
        \E route, sizes :
          Entry(r, s) = Call(do, s.on, Backing(conf)[kind], Home(r, kind), route, sizes)
  BY EntryShape DEF AtHome
<1>2. PICK route, sizes :
        Entry(r, s) = Call(do, s.on, Backing(conf)[kind], Home(r, kind), route, sizes)
  BY <1>1
<1>3. /\ Entry(r, s).on = s.on /\ Entry(r, s).do = do
      /\ Entry(r, s).name = Backing(conf)[kind] /\ Entry(r, s).list = Home(r, kind)
  BY <1>2, CallFields
<1>4. Home(r, kind) \in Seq(Int) /\ r \in ToSet(Home(r, kind))  BY HomeFacts
<1>5. kind \in DOMAIN Backing(conf)  BY DEF Backing, Grouped
<1>6. Backing(conf)[kind] \in Names
  <2>1. PICK k \in ToSet(Coordinators(conf)) : k.name = Backing(conf)[kind]  BY <1>5, KindsBacked
  <2> QED  BY <2>1, CoordinatorName
<1>7. do \notin SetUpTasks  BY DEF Exchanges, SetUpTasks
<1> QED  BY <1>3, <1>4, <1>6, <1>7

\* A reduction changes no numbers of rows.
LEMMA ReducedRows ==
  ASSUME conf \in Layouts, NEW r \in Ranks, NEW s, Sound(s), Entry(r, s) # Idle,
         Entry(r, s).do \in {"all_reduce", "a2a"}
  PROVE  /\ During(r, s) = After(r, s)
         /\ Entry(r, s).do = "all_reduce" =>
              \A q \in ToSet(Entry(r, s).list) : During(q, s) = After(r, s)
<1>1. s.do \in {"attend", "place", "experts"}  BY CallDoes
<1>2. During(r, s) = After(r, s)  BY <1>1, Tables
<1>3. ASSUME NEW q \in ToSet(Entry(r, s).list), Entry(r, s).do = "all_reduce"
      PROVE  During(q, s) = After(r, s)
  <2>1. Entry(q, s) = Entry(r, s) /\ q \in Ranks  BY EntryAgrees
  <2>2. \A p, kind, on, size : Reducing(p, kind, on, size) # Idle =>
          Reducing(p, kind, on, size).arg = <<size>>
    BY CallFields DEF Reducing
  <2>3. CASE s.do = "attend"
    <3>1. \A p \in {q, r} : /\ Entry(p, s) = Reducing(p, AttnKind, "x", Local(p))
                            /\ During(p, s) = Local(p) /\ After(p, s) = Local(p)
      BY <2>3, Tables
    <3>2. Entry(q, s).arg = <<Local(q)>> /\ Entry(r, s).arg = <<Local(r)>>
      <4>1. /\ Entry(q, s) = Reducing(q, AttnKind, "x", Local(q)) /\ Entry(q, s) # Idle
            /\ Entry(r, s) = Reducing(r, AttnKind, "x", Local(r)) /\ Entry(r, s) # Idle
        BY <2>1, <3>1
      <4> QED  BY ONLY <2>2, <4>1
    <3>3. <<Local(q)>> = <<Local(r)>>  BY <2>1, <3>2
    <3> QED  BY <3>1, <3>3
  <2>4. CASE s.do = "place"  BY <2>4, Tables
  <2>5. CASE s.do = "experts"
    <3>1. \A p \in {q, r} : /\ Entry(p, s) = InExperts(p)
                            /\ During(p, s) = AtExperts(p) /\ After(p, s) = AtExperts(p)
      BY <2>5, Tables
    <3>2. ~conf.a2a  BY <1>3, <2>5, CallDoes
    <3>3. ~SumLeftOut  BY <3>1, <3>2 DEF InExperts
    <3>4. \A p \in {q, r} : Entry(p, s) = Reducing(p, "tp", "x", AtExperts(p))
      BY <3>1, <3>2, <3>3 DEF InExperts
    <3>5. Entry(q, s).arg = <<AtExperts(q)>> /\ Entry(r, s).arg = <<AtExperts(r)>>
      BY <2>1, <2>2, <3>4
    <3>6. <<AtExperts(q)>> = <<AtExperts(r)>>  BY <2>1, <3>5
    <3> QED  BY <3>1, <3>6
  <2> QED  BY <1>1, <2>3, <2>4, <2>5
<1> QED  BY <1>2, <1>3

\* A reduce-scatter leaves a rank the rows of its own chunk.
LEMMA ScatteredRows ==
  ASSUME conf \in Layouts, NEW r \in Ranks, NEW s, Sound(s), Entry(r, s) # Idle,
         Entry(r, s).do = "reduce_scatter"
  PROVE  Entry(r, s).arg[IndexOf(Entry(r, s).list, r)] = After(r, s)
<1> DEFINE call == Entry(r, s)  i == IndexOf(call.list, r)
<1>1. s.do \in {"zero_scatter", "cp_reduce_scatter", "combine"}  BY CallDoes
<1>2. \A do, on, kind, size : LET e == Exchanging(r, do, on, kind, size)
                                  v == BySizes(r, do, on, kind, size)
                              IN e.arg = size /\ v.arg = size /\ e.list = Home(r, kind) /\ v.list = Home(r, kind)
  BY CallFields DEF Exchanging, BySizes
<1>3. \A kind \in Grouped : IndexOf(Home(r, kind), r) \in 1 .. Many(kind)  BY HomeFacts
<1>4. {"tp", "attn_cp", "attn_tp"} \subseteq Grouped  BY DEF Grouped
<1>5. Many("tp") = conf.tp /\ Many("attn_cp") = conf.cp /\ Many("attn_tp") = AttnTp(conf)
  BY DEF Many
<1>6. /\ conf.tp \in Nat \ {0} /\ conf.cp \in Nat \ {0} /\ AttnTp(conf) \in Nat \ {0}
      /\ Full(r) \in Nat /\ conf.cp * Local(r) \in Nat /\ Local(r) \in Nat /\ Total \in Nat
      /\ conf.gatherv => conf.dp = conf.tp
  BY LayoutFacts, SizesNat
<1>7. CASE s.do = "zero_scatter"
  <2>1. /\ call = Exchanging(r, "reduce_scatter", s.on, "attn_tp", Equal(Full(r), AttnTp(conf)))
        /\ After(r, s) = Padded(r)
    BY <1>7, Tables
  <2>2. i \in 1 .. AttnTp(conf) /\ call.arg = Equal(Full(r), AttnTp(conf))
    BY <1>2, <1>3, <1>4, <1>5, <2>1
  <2>3. call.arg[i] = Full(r) \div AttnTp(conf)  BY <1>6, <2>2, SplitSizesNat
  <2> QED  BY <2>1, <2>3 DEF Padded
<1>8. CASE s.do = "cp_reduce_scatter"
  <2> DEFINE all == conf.cp * Local(r)
  <2>1. /\ call = Exchanging(r, "reduce_scatter", "x", "attn_cp", Equal(all, conf.cp))
        /\ After(r, s) = Local(r)
    BY <1>8, Tables
  <2> HIDE DEF all
  <2>2. i \in 1 .. conf.cp /\ call.arg = Equal(all, conf.cp)
    BY <1>2, <1>3, <1>4, <1>5, <2>1
  <2>3. all \in Nat  BY <1>6 DEF all
  <2>4. call.arg[i] = all \div conf.cp  BY <1>6, <2>2, <2>3, SplitSizesNat
  <2>5. all = Local(r) * conf.cp  BY <1>6 DEF all
  <2>6. all \div conf.cp = Local(r)
    <3>1. Local(r) \in Int /\ 0 \in 0 .. conf.cp - 1  BY <1>6
    <3> QED  BY ONLY <1>6, <2>5, <3>1, DivSimple
  <2> QED  BY <2>1, <2>4, <2>6
<1>9. CASE s.do = "combine"
  <2>1. call = InCombine(r) /\ After(r, s) = Full(r)  BY <1>9, Tables
  <2>2. CASE DpReduceScatterV \/ ReduceScatterV
    <3>1. call = BySizes(r, "reduce_scatter", "x", "tp", AllRows)  BY <2>1, <2>2 DEF InCombine
    <3>2. i = IndexOf(Home(r, "tp"), r) /\ call.arg = AllRows  BY <1>2, <3>1
    <3>3. conf.dp = conf.tp  BY <1>6, <2>2 DEF ReduceScatterV, DpReduceScatterV
    <3>4. i = Replica(r) + 1  BY <3>2, <3>3, ReplicaOfRank
    <3>5. Replica(r) \in 0 .. conf.dp - 1  BY PlaceFacts
    <3>6. AllRows[Replica(r) + 1] = RowsOf(Replica(r))  BY <3>5, RowsNat
    <3> QED  BY <2>1, <3>2, <3>4, <3>6 DEF Full
  <2>3. CASE ~(DpReduceScatterV \/ ReduceScatterV)
    <3>1. ReduceScatter /\ call = Exchanging(r, "reduce_scatter", "x", "tp", Equal(Total, conf.tp))
      BY <2>1, <2>3 DEF InCombine
    <3>2. i \in 1 .. conf.tp /\ call.arg = Equal(Total, conf.tp)
      BY <1>2, <1>3, <1>4, <1>5, <3>1
    <3>3. MoeGather /\ conf.pad = "max" /\ conf.dp = conf.tp  BY <3>1 DEF ReduceScatter
    <3>4. call.arg[i] = Total \div conf.tp  BY <1>6, <3>2, SplitSizesNat
    <3>5. AttnTp(conf) = 1  BY <3>3, ReplicaOfRank
    <3>6. Full(r) = MaxRows  BY <3>3 DEF Full, RowsOf
    <3>7. Total = conf.tp * (MaxRows \div AttnTp(conf))  BY <3>3 DEF Total
    <3>8. MaxRows \div AttnTp(conf) = MaxRows
      <4>1. Padded(r) = Full(r)  BY <3>5, SizesNat
      <4> QED  BY <3>6, <4>1 DEF Padded
    <3>9. Total = MaxRows * conf.tp  BY <1>6, <3>6, <3>7, <3>8
    <3>10. Total \div conf.tp = MaxRows
      <4>1. MaxRows \in Int /\ 0 \in 0 .. conf.tp - 1  BY <1>6, <3>6
      <4> QED  BY ONLY <1>6, <3>9, <4>1, DivSimple
    <3> QED  BY <2>1, <3>4, <3>6, <3>10
  <2> QED  BY <2>2, <2>3
<1> QED  BY <1>1, <1>7, <1>8, <1>9

\* What ranks hold, in the order of their group.
Pieces(held, list) == [i \in DOMAIN list |-> held[list[i]]]

LEMMA PiecesAtHome ==
  ASSUME conf \in Layouts, NEW r \in Ranks, NEW kind \in Grouped, NEW held
  PROVE  /\ Pieces(held, Home(r, kind)) = [i \in 1 .. Many(kind) |-> Pieces(held, Home(r, kind))[i]]
         /\ \A i \in 1 .. Many(kind) : Pieces(held, Home(r, kind))[i] = held[Home(r, kind)[i]]
<1> DEFINE list == Home(r, kind)
<1>1. DOMAIN list = 1 .. Many(kind)  BY HomeFacts
<1> HIDE DEF list
<1> QED  BY <1>1 DEF Pieces, list

\* As many rows from each rank.
LEMMA AlikeGathered ==
  ASSUME conf \in Layouts, NEW r \in Ranks, NEW kind \in Grouped, NEW held, NEW n \in Nat,
         \A q \in ToSet(Home(r, kind)) : HasRows(held[q], n)
  PROVE  HasRows(FlattenSeq(Pieces(held, Home(r, kind))), Many(kind) * n)
<1> DEFINE pieces == Pieces(held, Home(r, kind))  m == Many(kind)
<1>1. m \in Nat \ {0} /\ \A i \in 1 .. m : Home(r, kind)[i] \in ToSet(Home(r, kind))
  BY HomeFacts
<1>2. /\ pieces = [i \in 1 .. m |-> pieces[i]]
      /\ \A i \in 1 .. m : pieces[i] = held[Home(r, kind)[i]]
  BY PiecesAtHome
<1>3. \A i \in 1 .. m : HasRows(pieces[i], n)  BY <1>1, <1>2
<1>4. m \in Nat  BY <1>1
<1> HIDE DEF pieces, m
<1>5. pieces = [i \in 1 .. m |-> pieces[i]]  BY <1>2
<1> QED  BY ONLY <1>3, <1>4, <1>5, n \in Nat, FlattenEqual DEF pieces, m

\* A gather leaves a rank the rows of all of them.
LEMMA GatheredRows ==
  ASSUME conf \in Layouts, NEW r \in Ranks, NEW s, Sound(s), Entry(r, s) # Idle,
         Entry(r, s).do = "all_gather", NEW held,
         \A q \in ToSet(Entry(r, s).list) : HasRows(held[q], During(q, s))
  PROVE  HasRows(FlattenSeq(Pieces(held, Entry(r, s).list)), After(r, s))
<1>1. s.do \in {"gather", "gatherv", "cp_gather", "cp_output", "gather_split", "recv"}
  BY CallDoes
<1>2. s.do \in Meetings => Apt(s)  BY DEF Sound
<1>3. \A p, do, on, kind, size :
        /\ Exchanging(p, do, on, kind, size).arg = size
        /\ Exchanging(p, do, on, kind, size).list = Home(p, kind)
        /\ BySizes(p, do, on, kind, size).list = Home(p, kind)
  BY CallFields DEF Exchanging, BySizes
<1>4. {"tp", "attn_cp", "attn_tp"} \subseteq Grouped  BY DEF Grouped
<1>5. Many("tp") = conf.tp /\ Many("attn_cp") = conf.cp /\ Many("attn_tp") = AttnTp(conf)
  BY DEF Many
<1>6. \A q \in ToSet(Entry(r, s).list) : q \in Ranks /\ Entry(q, s) = Entry(r, s)
  BY EntryAgrees
<1>7. \A p \in Ranks : /\ Full(p) \in Nat /\ Local(p) \in Nat /\ Padded(p) \in Nat
                       /\ \A on : Flat(p, on) \in Nat /\ Flat(p, on) \div AttnTp(conf) \in Nat
  BY SizesNat
<1>8. CASE s.do = "gather"
  <2>1. \A p : /\ Entry(p, s) = Exchanging(p, "all_gather", s.on, "tp", <<Padded(p)>>)
               /\ During(p, s) = Padded(p) /\ After(p, s) = Total
    BY <1>8, Tables
  <2>2. Entry(r, s).list = Home(r, "tp")
    <3>1. Entry(r, s) = Exchanging(r, "all_gather", s.on, "tp", <<Padded(r)>>)  BY <2>1
    <3> QED  BY <1>3, <3>1
  <2>3. MoeGather /\ conf.pad = "max"  BY <1>2, <1>8 DEF Apt, Meetings, Gathers
  <2>4. ASSUME NEW q \in ToSet(Home(r, "tp"))  PROVE HasRows(held[q], Padded(r))
    <3>1. q \in Ranks /\ HasRows(held[q], Padded(q))  BY <1>6, <2>1, <2>2
    <3>2. Padded(q) = Padded(r)  BY <2>3, <3>1, SizesShared
    <3> QED  BY <3>1, <3>2
  <2>5. HasRows(FlattenSeq(Pieces(held, Home(r, "tp"))), Many("tp") * Padded(r))
    BY <1>4, <1>7, <2>4, AlikeGathered
  <2>6. Total = conf.tp * Padded(r)  BY <2>3 DEF Total, Padded, Full, RowsOf
  <2> QED  BY <1>5, <2>1, <2>2, <2>5, <2>6
<1>9. CASE s.do = "gatherv"
  <2>1. \A p : /\ Entry(p, s) = BySizes(p, "all_gather", s.on, "tp", AllRows)
               /\ During(p, s) = Full(p) /\ After(p, s) = Total
    BY <1>9, Tables
  <2>2. Entry(r, s).list = Home(r, "tp")  BY <1>3, <2>1
  <2>3. conf.dp = conf.tp /\ conf.pad # "max"
    BY <1>2, <1>9, LayoutFacts DEF Apt, Meetings, Gathers
  <2> DEFINE m == conf.dp  pieces == Pieces(held, Home(r, "tp"))
  <2>4. m \in Nat /\ AllRows \in [1 .. m -> Nat]  BY LayoutFacts, RowsNat
  <2>5. PICK P \in [0 .. m -> Nat] :
          /\ P[0] = 0 /\ \A i \in 1 .. m : P[i] - P[i - 1] = AllRows[i]
          /\ \A i \in 1 .. m + 1 : Start(AllRows, i) = P[i - 1]
    BY <2>4, Starts
  <2>6. pieces = [i \in 1 .. m |-> pieces[i]]
    BY <1>4, <1>5, <2>3, PiecesAtHome
  <2>7. ASSUME NEW i \in 1 .. m  PROVE HasRows(pieces[i], P[i] - P[i - 1])
    <3> DEFINE q == Home(r, "tp")[i]
    <3>1. /\ q \in ToSet(Home(r, "tp")) /\ IndexOf(Home(r, "tp"), q) = i
          /\ Home(q, "tp") = Home(r, "tp")
      BY <1>4, <1>5, <2>3, HomeFacts
    <3>2. q \in Ranks /\ HasRows(held[q], Full(q))  BY <1>6, <2>1, <2>2, <3>1
    <3>3. Replica(q) + 1 = i  BY <2>3, <3>1, <3>2, ReplicaOfRank
    <3>4. AllRows[i] = Full(q)
      <4>1. Replica(q) \in 0 .. conf.dp - 1  BY <3>2, PlaceFacts
      <4>2. AllRows[Replica(q) + 1] = RowsOf(Replica(q))  BY <4>1, RowsNat
      <4> QED  BY <3>3, <4>2 DEF Full
    <3>5. pieces[i] = held[q]  BY <1>4, <1>5, <2>3, PiecesAtHome
    <3> QED  BY <2>5, <3>2, <3>4, <3>5
  <2>8. P \in [0 .. m -> Int]  BY <2>5
  <2> HIDE DEF m, pieces
  <2>9. HasRows(FlattenSeq(pieces), P[m])
    BY ONLY <2>4, <2>5, <2>6, <2>7, <2>8, FlattenRows
  <2>10. Total = P[m]
    <3>1. m + 1 \in 1 .. m + 1 /\ (m + 1) - 1 = m  BY <2>4
    <3>2. Start(AllRows, m + 1) = P[m]  BY <2>5, <3>1
    <3> QED  BY <2>3, <3>2 DEF Total, m
  <2> QED  BY <2>1, <2>2, <2>9, <2>10 DEF pieces
<1>10. CASE s.do \in {"cp_gather", "cp_output"}
  <2>1. \A p : /\ Entry(p, s) = Exchanging(p, "all_gather", s.on, "attn_cp", <<Local(p)>>)
               /\ During(p, s) = Local(p) /\ After(p, s) = conf.cp * Local(p)
    BY <1>10, Tables
  <2>2. Entry(r, s).list = Home(r, "attn_cp")
    <3>1. Entry(r, s) = Exchanging(r, "all_gather", s.on, "attn_cp", <<Local(r)>>)  BY <2>1
    <3> QED  BY <1>3, <3>1
  <2>3. ASSUME NEW q \in ToSet(Home(r, "attn_cp"))  PROVE HasRows(held[q], Local(r))
    <3>1. q \in Ranks /\ HasRows(held[q], Local(q))  BY <1>6, <2>1, <2>2
    <3>2. Replica(q) = Replica(r)  BY <1>4, HomePlaces
    <3>3. Local(q) = Local(r)  BY <3>1, <3>2, SizesShared
    <3> QED  BY <3>1, <3>3
  <2>4. HasRows(FlattenSeq(Pieces(held, Home(r, "attn_cp"))), Many("attn_cp") * Local(r))
    BY <1>4, <1>7, <2>3, AlikeGathered
  <2> QED  BY <1>5, <2>1, <2>2, <2>4
<1>11. CASE s.do = "recv"
  <2> DEFINE on == s.on  n == Flat(r, on) \div AttnTp(conf)
  <2>1. \A p : /\ Entry(p, s) = InRecv(p, on) /\ After(p, s) = Flat(p, on)
               /\ During(p, s) = Flat(p, on) \div AttnTp(conf)
    BY <1>11, Tables
  <2>2. /\ Entry(r, s) = Exchanging(r, "all_gather", on, "attn_tp", <<Flat(r, on)>>)
        /\ Sliced(Flat(r, on))
    BY <2>1 DEF InRecv
  <2>3. Entry(r, s).list = Home(r, "attn_tp")  BY <1>3, <2>2
  <2>4. ASSUME NEW q \in ToSet(Home(r, "attn_tp"))  PROVE HasRows(held[q], n)
    <3>1. q \in Ranks /\ HasRows(held[q], Flat(q, on) \div AttnTp(conf))  BY <1>6, <2>1, <2>3
    <3>2. Replica(q) = Replica(r)  BY <1>4, HomePlaces
    <3>3. Flat(q, on) = Flat(r, on)  BY <3>1, <3>2, SizesShared
    <3> QED  BY <3>1, <3>3
  <2>5. n \in Nat  BY <1>7
  <2> HIDE DEF n, on
  <2>6. HasRows(FlattenSeq(Pieces(held, Home(r, "attn_tp"))), Many("attn_tp") * n)
    BY <1>4, <2>4, <2>5, AlikeGathered
  <2>7. AttnTp(conf) * n = Flat(r, on)
    <3> DEFINE f == Flat(r, on)  t == AttnTp(conf)
    <3>1. t \in Nat \ {0} /\ f \in Int  BY <1>7, LayoutFacts
    <3>2. f % t = 0  BY <2>2 DEF Sliced
    <3> HIDE DEF f, t
    <3>3. f = (f \div t) * t + (f % t) /\ f \div t \in Int  BY ONLY <3>1, DivMod
    <3> DEFINE d == f \div t
    <3>4. f = d * t + 0 /\ d \in Int  BY <3>2, <3>3
    <3> HIDE DEF d
    <3>5. f = t * d  BY ONLY <3>1, <3>4
    <3> QED  BY <3>5 DEF d, f, t, n
  <2> QED  BY <1>5, <2>1, <2>3, <2>6, <2>7 DEF on
<1>12. CASE s.do = "gather_split"
  <2>1. \A p : Entry(p, s) = Parting(p) /\ During(p, s) = PartOf(p) /\ After(p, s) = Full(p)
    BY <1>12, Tables
  <2>2. Entry(r, s).list = Home(r, "attn_tp")  BY <2>1, CallFields DEF Parting
  <2> DEFINE m == AttnTp(conf)  n == Full(r)  pieces == Pieces(held, Home(r, "attn_tp"))
  <2>3. m \in Nat \ {0} /\ n \in Nat  BY <1>7, LayoutFacts
  <2>4. pieces = [i \in 1 .. m |-> pieces[i]]  BY <1>4, <1>5, PiecesAtHome
  <2>5. ASSUME NEW i \in 1 .. m  PROVE HasRows(pieces[i], SplitSizes(n, m)[i])
    <3> DEFINE q == Home(r, "attn_tp")[i]
    <3>1. /\ q \in ToSet(Home(r, "attn_tp")) /\ IndexOf(Home(r, "attn_tp"), q) = i
          /\ Home(q, "attn_tp") = Home(r, "attn_tp")
      BY <1>4, <1>5, HomeFacts
    <3>2. q \in Ranks /\ HasRows(held[q], PartOf(q))  BY <1>6, <2>1, <2>2, <3>1
    <3>3. Replica(q) = Replica(r)  BY <1>4, <3>1, HomePlaces
    <3>4. Full(q) = Full(r)  BY <3>2, <3>3, SizesShared
    <3>5. pieces[i] = held[q]  BY <1>4, <1>5, PiecesAtHome
    <3> QED  BY <3>1, <3>2, <3>4, <3>5 DEF PartOf
  <2> HIDE DEF m, n, pieces
  <2>6. HasRows(FlattenSeq(pieces), n)  BY ONLY <2>3, <2>4, <2>5, FlattenSplit
  <2> QED  BY <2>1, <2>2, <2>6 DEF n, pieces
<1> QED  BY <1>1, <1>8, <1>9, <1>10, <1>11, <1>12

(* How many rows the steps of a program take and leave.                    *)

\* Step s takes rank r from rows in number a to rows in number b.
Takes(r, s, a, b) ==
  \/ s.do \in SetUpTasks \cup {"shared", "add_shared", "release"} /\ b = a
  \/ s.do = "send" /\ a.x = Result(r) /\ b = a
  \/ s.do = "embed" /\ b = [x |-> Local(r), ids |-> Local(r)]
  \/ s.do = "recv" /\ (s.on = "x" <=> ~FirstStage(r)) /\ b = [a EXCEPT ![s.on] = Flat(r, s.on)]
  \/ /\ s.do = "unpack" /\ a[s.on] = Flat(r, s.on)
     /\ b = IF s.on = "x" THEN [x |-> Local(r), ids |-> Full(r)]
            ELSE [a EXCEPT !.ids = Came(r, "ids")]
  \/ /\ s.do = "split" /\ AttnScatter /\ a = [x |-> Full(r), ids |-> Full(r)]
     /\ b = [x |-> PartOf(r), ids |-> PartOf(r)]
  \/ /\ s.do \in Meetings /\ Apt(s) /\ a[s.on] = Before(r, s)
     /\ b = [a EXCEPT ![s.on] = After(r, s)]

\* The steps q take rank r from rows in number a to rows in number b.
Flow(r, q, a, b) ==
  /\ q \in Seq(Steps)
  /\ \E f \in [0 .. Len(q) -> Sizes] :
       /\ f[0] = a /\ f[Len(q)] = b
       /\ \A i \in 1 .. Len(q) : Takes(r, q[i], f[i - 1], f[i])

LEMMA FlowNone ==
  ASSUME NEW r, NEW a \in Sizes
  PROVE  Flow(r, << >>, a, a)
<1> DEFINE f == [i \in 0 .. 0 |-> a]
<1>1. << >> \in Seq(Steps) /\ Len(<< >>) = 0  OBVIOUS
<1>2. f \in [0 .. 0 -> Sizes] /\ f[0] = a  OBVIOUS
<1>3. 1 .. 0 = {}  OBVIOUS
<1> HIDE DEF f
<1> QED  BY <1>1, <1>2, <1>3 DEF Flow

LEMMA FlowOne ==
  ASSUME NEW r, NEW s \in Steps, NEW a \in Sizes, NEW b \in Sizes, Takes(r, s, a, b)
  PROVE  Flow(r, <<s>>, a, b)
<1> DEFINE f == [i \in 0 .. 1 |-> IF i = 0 THEN a ELSE b]  q == <<s>>
<1>1. q \in Seq(Steps) /\ Len(q) = 1 /\ q[1] = s  OBVIOUS
<1>2. f \in [0 .. 1 -> Sizes] /\ f[0] = a /\ f[1] = b  OBVIOUS
<1>3. \A i \in 1 .. 1 : i = 1 /\ i - 1 = 0  OBVIOUS
<1> HIDE DEF f, q
<1>4. \A i \in 1 .. 1 : Takes(r, q[i], f[i - 1], f[i])  BY <1>1, <1>2, <1>3
<1> QED  BY <1>1, <1>2, <1>4 DEF Flow, q

LEMMA FlowConcat ==
  ASSUME NEW r, NEW p, NEW q, NEW a, NEW b, NEW c, Flow(r, p, a, b), Flow(r, q, b, c)
  PROVE  Flow(r, p \o q, a, c)
<1> DEFINE m == Len(p)  n == Len(q)
<1>1. /\ p \in Seq(Steps) /\ q \in Seq(Steps)  BY DEF Flow
<1>2. /\ m \in Nat /\ n \in Nat /\ p \o q \in Seq(Steps) /\ Len(p \o q) = m + n
      /\ \A i \in 1 .. m : (p \o q)[i] = p[i]
      /\ \A i \in m + 1 .. m + n : (p \o q)[i] = q[i - m]
  BY <1>1
<1>3. PICK f \in [0 .. m -> Sizes] :
        /\ f[0] = a /\ f[m] = b /\ \A i \in 1 .. m : Takes(r, p[i], f[i - 1], f[i])
  BY DEF Flow
<1>4. PICK g \in [0 .. n -> Sizes] :
        /\ g[0] = b /\ g[n] = c /\ \A i \in 1 .. n : Takes(r, q[i], g[i - 1], g[i])
  BY DEF Flow
<1> DEFINE h == [i \in 0 .. m + n |-> IF i <= m THEN f[i] ELSE g[i - m]]  pq == p \o q
<1> HIDE DEF m, n
<1>5. h \in [0 .. m + n -> Sizes]
  <2>1. \A i \in 0 .. m + n : IF i <= m THEN i \in 0 .. m ELSE i - m \in 0 .. n
    BY <1>2
  <2> QED  BY <1>3, <1>4, <2>1
<1>6. /\ \A i \in 0 .. m : h[i] = f[i]
      /\ \A i \in 0 .. n : h[m + i] = g[i]
  <2>1. ASSUME NEW i \in 0 .. m  PROVE h[i] = f[i]
    <3>1. i \in 0 .. m + n /\ i <= m  BY <1>2
    <3> QED  BY <3>1
  <2>2. ASSUME NEW i \in 0 .. n  PROVE h[m + i] = g[i]
    <3>1. m + i \in 0 .. m + n /\ (m + i) - m = i  BY <1>2
    <3>2. CASE i = 0
      <4>1. m + i = m /\ m <= m  BY <1>2, <3>2
      <4> QED  BY <1>3, <1>4, <3>1, <3>2, <4>1
    <3>3. CASE i # 0
      <4>1. ~(m + i <= m)  BY <1>2, <3>3
      <4> QED  BY <3>1, <4>1
    <3> QED  BY <3>2, <3>3
  <2> QED  BY <2>1, <2>2
<1> HIDE DEF h, pq
<1>7. h[0] = a /\ h[m + n] = c
  <2>1. 0 \in 0 .. m /\ n \in 0 .. n  BY <1>2
  <2> QED  BY <1>3, <1>4, <1>6, <2>1
<1>8. ASSUME NEW i \in 1 .. m + n  PROVE Takes(r, pq[i], h[i - 1], h[i])
  <2>1. CASE i <= m
    <3>1. i \in 1 .. m /\ i \in 0 .. m /\ i - 1 \in 0 .. m  BY <1>2, <2>1
    <3>2. Takes(r, p[i], f[i - 1], f[i])  BY <1>3, <3>1
    <3>3. pq[i] = p[i] /\ h[i - 1] = f[i - 1] /\ h[i] = f[i]  BY <1>2, <1>6, <3>1 DEF pq
    <3> QED  BY <3>2, <3>3
  <2>2. CASE i > m
    <3>1. PICK j \in 1 .. n : i = m + j
      <4>1. i - m \in 1 .. n /\ i = m + (i - m)  BY <1>2, <2>2
      <4> QED  BY <4>1
    <3>2. PICK k \in 0 .. n : k = j - 1
      <4>1. j - 1 \in 0 .. n  BY <1>2
      <4> QED  BY <4>1
    <3>3. i - m = j /\ i - 1 = m + k /\ i \in m + 1 .. m + n /\ j \in 0 .. n
      BY <1>2, <2>2, <3>1, <3>2
    <3>4. Takes(r, q[j], g[k], g[j])  BY <1>4, <3>2
    <3>5. pq[i] = q[j]  BY <1>2, <3>3 DEF pq
    <3>6. h[i - 1] = g[k] /\ h[i] = g[j]
      <4>1. h[m + k] = g[k] /\ h[m + j] = g[j]  BY <1>6, <3>3
      <4> QED  BY <3>1, <3>3, <4>1
    <3> QED  BY <3>4, <3>5, <3>6
  <2> QED  BY <1>2, <2>1, <2>2
<1> QED
  <2>1. pq \in Seq(Steps) /\ Len(pq) = m + n  BY <1>2 DEF pq
  <2>2. Flow(r, pq, a, c)  BY <1>5, <1>7, <1>8, <2>1 DEF Flow
  <2> QED  BY <2>2 DEF pq

LEMMA FlowTail ==
  ASSUME NEW r, NEW q, q # << >>, NEW a, NEW c, Flow(r, q, a, c)
  PROVE  /\ a \in Sizes /\ Head(q) \in Steps
         /\ \E b \in Sizes : Takes(r, Head(q), a, b) /\ Flow(r, Tail(q), b, c)
<1> DEFINE n == Len(q)  t == Tail(q)
<1>1. q \in Seq(Steps)  BY DEF Flow
<1>2. /\ n \in Nat \ {0} /\ t \in Seq(Steps) /\ Len(t) = n - 1 /\ Head(q) = q[1]
      /\ \A i \in 1 .. n - 1 : t[i] = q[i + 1]
      /\ q[1] \in Steps
  BY <1>1
<1>3. PICK f \in [0 .. n -> Sizes] :
        /\ f[0] = a /\ f[n] = c /\ \A i \in 1 .. n : Takes(r, q[i], f[i - 1], f[i])
  BY DEF Flow
<1> HIDE DEF n, t
<1> DEFINE g == [i \in 0 .. n - 1 |-> f[i + 1]]
<1>4. g \in [0 .. n - 1 -> Sizes]
  <2>1. \A i \in 0 .. n - 1 : i + 1 \in 0 .. n  BY <1>2
  <2> QED  BY <1>3, <2>1
<1>5. f[0] \in Sizes /\ f[1] \in Sizes /\ Takes(r, q[1], f[0], f[1])
  <2>1. 0 \in 0 .. n /\ 1 \in 0 .. n /\ 1 \in 1 .. n /\ 1 - 1 = 0  BY <1>2
  <2> QED  BY <1>3, <2>1
<1>6. g[0] = f[1] /\ g[n - 1] = c
  <2>1. 0 \in 0 .. n - 1 /\ n - 1 \in 0 .. n - 1 /\ 0 + 1 = 1 /\ (n - 1) + 1 = n  BY <1>2
  <2>2. g[0] = f[0 + 1] /\ g[n - 1] = f[(n - 1) + 1]  BY <2>1
  <2> QED  BY <1>3, <2>1, <2>2
<1>7. ASSUME NEW i \in 1 .. n - 1  PROVE Takes(r, t[i], g[i - 1], g[i])
  <2>1. PICK j \in 1 .. n : j = i + 1
    <3>1. i + 1 \in 1 .. n  BY <1>2
    <3> QED  BY <3>1
  <2>2. j - 1 = i /\ i \in 0 .. n - 1 /\ i - 1 \in 0 .. n - 1 /\ (i - 1) + 1 = i  BY <1>2, <2>1
  <2>3. Takes(r, q[j], f[j - 1], f[j])  BY <1>3
  <2>4. t[i] = q[j]  BY <1>2, <2>1
  <2>5. g[i - 1] = f[(i - 1) + 1] /\ g[i] = f[i + 1]  BY <2>2
  <2>6. g[i - 1] = f[j - 1] /\ g[i] = f[j]  BY <2>1, <2>2, <2>5
  <2> QED  BY <2>3, <2>4, <2>6
<1> HIDE DEF g
<1>8. Flow(r, t, f[1], c)  BY <1>2, <1>4, <1>6, <1>7 DEF Flow
<1> QED  BY <1>2, <1>3, <1>5, <1>8 DEF t

LEMMA FlowOnly ==
  ASSUME NEW r, NEW q, NEW condition, NEW a \in Sizes, NEW b,
         condition => Flow(r, q, a, b), ~condition => b = a
  PROVE  Flow(r, Only(condition, q), a, b)
<1>1. CASE condition  BY <1>1 DEF Only
<1>2. CASE ~condition  BY <1>2, FlowNone DEF Only
<1> QED  BY <1>1, <1>2

\* Steps that may be taken from any number of rows.
Runs(r, q) == \A a \in Sizes : \E b \in Sizes : Flow(r, q, a, b)

LEMMA RunsSeq ==
  ASSUME NEW r, NEW q, Runs(r, q)
  PROVE  q \in Seq(Steps)
<1>1. [x |-> 0, ids |-> 0] \in Sizes  BY DEF Sizes
<1> QED  BY <1>1 DEF Runs, Flow

LEMMA RunsConcat ==
  ASSUME NEW r, NEW p, NEW q, Runs(r, p), Runs(r, q)
  PROVE  Runs(r, p \o q)
<1> SUFFICES ASSUME NEW a \in Sizes  PROVE \E c \in Sizes : Flow(r, p \o q, a, c)
  BY DEF Runs
<1>1. PICK b \in Sizes : Flow(r, p, a, b)  BY DEF Runs
<1>2. PICK c \in Sizes : Flow(r, q, b, c)  BY DEF Runs
<1>3. Flow(r, p \o q, a, c)  BY <1>1, <1>2, FlowConcat
<1> QED  BY <1>3

LEMMA RunsOnly ==
  ASSUME NEW r, NEW q, NEW condition, condition => Runs(r, q)
  PROVE  Runs(r, Only(condition, q))
<1>1. CASE condition  BY <1>1 DEF Only
<1>2. CASE ~condition
  <2>1. Only(condition, q) = << >>  BY <1>2 DEF Only
  <2> QED  BY <2>1, FlowNone DEF Runs
<1> QED  BY <1>1, <1>2

LEMMA RunsFlatten ==
  ASSUME NEW r, NEW n \in Nat, NEW seqs, seqs = [i \in 1 .. n |-> seqs[i]],
         \A i \in 1 .. n : Runs(r, seqs[i])
  PROVE  Runs(r, FlattenSeq(seqs))
<1>1. \A i \in 1 .. n : seqs[i] \in Seq(Steps)  BY RunsSeq
<1>2. seqs \in Seq(Seq(Steps)) /\ Len(seqs) = n
  <2>1. HasRows(seqs, n)  BY DEF HasRows
  <2> QED  BY ONLY <1>1, <2>1, RowsLen
<1>3. CASE n = 0
  <2>1. seqs = << >>  BY <1>2, <1>3
  <2>2. FlattenSeq(seqs) = << >>  BY <2>1 DEF FlattenSeq
  <2> QED  BY <2>2, FlowNone DEF Runs
<1>4. CASE n # 0
  <2>1. seqs # << >>  BY <1>2, <1>4
  <2>2. PICK f : /\ FlattenSeq(seqs) = f[n]
                 /\ \A i \in 1 .. n : /\ f[i] \in Seq(Steps)
                                      /\ f[i] = IF i = 1 THEN seqs[i] ELSE f[i - 1] \o seqs[i]
    <3>1. \E f : /\ FlattenSeq(seqs) = f[Len(seqs)]
                 /\ \A i \in 1 .. Len(seqs) :
                      /\ f[i] \in Seq(Steps)
                      /\ f[i] = IF i = 1 THEN seqs[i] ELSE f[i - 1] \o seqs[i]
      <4>1. seqs \in Seq(Seq(Steps))  BY <1>2
      <4> QED  BY ONLY <2>1, <4>1, FlattenUnfolds
    <3>2. Len(seqs) = n  BY <1>2
    <3> QED  BY ONLY <3>1, <3>2
  <2> DEFINE T == {i \in 1 .. n : ~Runs(r, f[i])}
  <2>3. T = {}
    <3>1. SUFFICES ASSUME T # {}  PROVE FALSE  OBVIOUS
    <3>2. PICK i \in T : \A j \in T : i <= j
      <4>1. T \in SUBSET Nat  OBVIOUS
      <4> HIDE DEF T
      <4> QED  BY <3>1, <4>1, Least
    <3>3. i \in 1 .. n /\ ~Runs(r, f[i])  OBVIOUS
    <3>4. CASE i = 1
      <4>1. f[i] = seqs[i]  BY ONLY <2>2, <3>3, <3>4
      <4> QED  BY ONLY <3>3, <4>1, \A k \in 1 .. n : Runs(r, seqs[k])
    <3>5. CASE i # 1
      <4>1. i - 1 \in 1 .. n /\ i - 1 \notin T
        <5>1. i - 1 \in 1 .. n /\ i \in Int  BY ONLY <3>3, <3>5, n \in Nat
        <5> HIDE DEF T
        <5> QED  BY ONLY <3>2, <5>1
      <4>2. Runs(r, f[i - 1])  BY ONLY <4>1
      <4>3. f[i] = f[i - 1] \o seqs[i]  BY ONLY <2>2, <3>3, <3>5
      <4>4. Runs(r, seqs[i])  BY ONLY <3>3, \A k \in 1 .. n : Runs(r, seqs[k])
      <4>5. Runs(r, f[i - 1] \o seqs[i])  BY ONLY <4>2, <4>4, RunsConcat
      <4> QED  BY ONLY <3>3, <4>3, <4>5
    <3> QED  BY <3>4, <3>5
  <2>4. n \in 1 .. n  BY <1>4
  <2> QED  BY ONLY <2>2, <2>3, <2>4
<1> QED  BY <1>3, <1>4

LEMMA ConcatAt ==
  ASSUME NEW A, NEW p \in Seq(A), NEW q \in Seq(A)
  PROVE  /\ p \o q \in Seq(A) /\ Len(p \o q) = Len(p) + Len(q)
         /\ \A i \in 1 .. Len(p) : (p \o q)[i] = p[i]
         /\ \A i \in Len(p) + 1 .. Len(p) + Len(q) : (p \o q)[i] = q[i - Len(p)]
  OBVIOUS

LEMMA TwoSteps ==
  ASSUME NEW A, NEW s \in A, NEW t \in A
  PROVE  <<s, t>> = <<s>> \o <<t>>
<1> DEFINE p == <<s>>  q == <<t>>
<1>1. p \in Seq(A) /\ q \in Seq(A) /\ Len(p) = 1 /\ Len(q) = 1 /\ p[1] = s /\ q[1] = t
  OBVIOUS
<1> HIDE DEF p, q
<1>2. /\ p \o q \in Seq(A) /\ Len(p \o q) = Len(p) + Len(q)
      /\ \A i \in 1 .. Len(p) : (p \o q)[i] = p[i]
      /\ \A i \in Len(p) + 1 .. Len(p) + Len(q) : (p \o q)[i] = q[i - Len(p)]
  BY ONLY <1>1, ConcatAt
<1> DEFINE z == p \o q
<1>3. z \in Seq(A) /\ Len(z) = 2 /\ z[1] = s /\ z[2] = t
  <2>1. 1 \in 1 .. 1 /\ 2 \in 1 + 1 .. 1 + 1 /\ 1 + 1 = 2 /\ 2 - 1 = 1  OBVIOUS
  <2> HIDE DEF z
  <2> QED  BY ONLY <1>1, <1>2, <2>1 DEF z
<1> HIDE DEF z
<1>4. <<s, t>> = z  BY <1>3
<1> QED  BY <1>4 DEF z, p, q

\* Rows in number x of hidden states and i of token ids.
Both(x, i) == [x |-> x, ids |-> i]

LEMMA BothSizes ==
  ASSUME NEW x \in Nat, NEW i \in Nat
  PROVE  /\ Both(x, i) \in Sizes /\ Both(x, i)["x"] = x /\ Both(x, i)["ids"] = i
         /\ \A y : /\ [Both(x, i) EXCEPT !["x"] = y] = Both(y, i)
                   /\ [Both(x, i) EXCEPT !["ids"] = y] = Both(x, y)
<1>1. Both(x, i) \in Sizes /\ Both(x, i)["x"] = x /\ Both(x, i)["ids"] = i
  BY DEF Both, Sizes
<1>2. ASSUME NEW y
      PROVE  /\ [Both(x, i) EXCEPT !["x"] = y] = Both(y, i)
             /\ [Both(x, i) EXCEPT !["ids"] = y] = Both(x, y)
  <2>1. [[x |-> x, ids |-> i] EXCEPT !["x"] = y] = [x |-> y, ids |-> i]  OBVIOUS
  <2>2. [[x |-> x, ids |-> i] EXCEPT !["ids"] = y] = [x |-> x, ids |-> y]  OBVIOUS
  <2> QED  BY <2>1, <2>2 DEF Both
<1> QED  BY <1>1, <1>2

LEMMA SizesBoth ==
  ASSUME NEW a \in Sizes
  PROVE  a = Both(a.x, a.ids) /\ a.x \in Nat /\ a.ids \in Nat
  BY DEF Sizes, Both

LEMMA ServeStep ==
  ASSUME NEW do \in ServeTasks, NEW on \in {"x", "ids"}, NEW arg \in Seq(Int)
  PROVE  /\ Step(do, on, arg) \in Serving /\ Step(do, on, arg) \in Steps
         /\ Step(do, on, arg).do = do /\ Step(do, on, arg).on = on
<1>1. Step(do, on, arg) \in Serving  BY ServingIn
<1>2. Step(do, on, arg).do = do /\ Step(do, on, arg).on = on  BY DEF Step
<1> QED  BY <1>1, <1>2 DEF Steps

\* The rows after a step in which ranks may meet are a number.
LEMMA AfterNat ==
  ASSUME conf \in Layouts, NEW r \in Ranks, NEW s, s.do \in Meetings
  PROVE  After(r, s) \in Nat
<1>1. /\ Full(r) \in Nat /\ Local(r) \in Nat /\ Padded(r) \in Nat /\ Total \in Nat
      /\ conf.cp * Local(r) \in Nat /\ AtExperts(r) \in Nat
  BY SizesNat
<1> DEFINE c == conf.cp * Local(r)
<1> HIDE DEF c
<1>2. CASE s.do \in {"attend", "place", "zero_scatter", "gather", "gatherv"}
  BY <1>1, <1>2, Tables
<1>3. CASE s.do \in {"cp_gather", "cp_output", "experts", "cp_reduce_scatter", "combine", "gather_split"}
  <2>1. After(r, s) \in {conf.cp * Local(r), AtExperts(r), Local(r), Full(r)}  BY <1>3, Tables
  <2> QED  BY <1>1, <2>1
<1> QED  BY <1>2, <1>3 DEF Meetings, Gathers

LEMMA MeetingFlows ==
  ASSUME conf \in Layouts, NEW r \in Ranks, NEW do \in Meetings, NEW on \in {"x", "ids"},
         NEW s, s = Step(do, on, << >>), Apt(s), NEW x \in Nat, NEW i \in Nat
  PROVE  /\ s.do = do /\ s.on = on
         /\ on = "x" /\ Before(r, s) = x => Flow(r, <<s>>, Both(x, i), Both(After(r, s), i))
         /\ on = "ids" /\ Before(r, s) = i => Flow(r, <<s>>, Both(x, i), Both(x, After(r, s)))
<1>1. do \in ServeTasks  BY DEF Meetings, Gathers, ServeTasks
<1>2. s \in Steps /\ s.do = do /\ s.on = on
  <2> DEFINE none == << >>
  <2>1. none \in Seq(Int)  OBVIOUS
  <2> HIDE DEF none
  <2>2. /\ Step(do, on, none) \in Steps
        /\ Step(do, on, none).do = do /\ Step(do, on, none).on = on
    BY <1>1, <2>1, ServeStep
  <2> QED  BY <2>2 DEF none
<1>3. After(r, s) \in Nat  BY <1>2, AfterNat
<1> DEFINE n == After(r, s)
<1> HIDE DEF n
<1>4. n \in Nat  BY <1>3 DEF n
<1>5. ASSUME on = "x", Before(r, s) = x  PROVE Flow(r, <<s>>, Both(x, i), Both(n, i))
  <2>1. Both(x, i) \in Sizes /\ Both(n, i) \in Sizes  BY <1>4, BothSizes
  <2>2. Both(x, i)[s.on] = Before(r, s) /\ Both(n, i) = [Both(x, i) EXCEPT ![s.on] = n]
    BY <1>2, <1>5, BothSizes
  <2>3. Takes(r, s, Both(x, i), Both(n, i))  BY <1>2, <2>2 DEF Takes, n
  <2> QED  BY <1>2, <2>1, <2>3, FlowOne
<1>6. ASSUME on = "ids", Before(r, s) = i  PROVE Flow(r, <<s>>, Both(x, i), Both(x, n))
  <2>1. Both(x, i) \in Sizes /\ Both(x, n) \in Sizes  BY <1>4, BothSizes
  <2>2. Both(x, i)[s.on] = Before(r, s) /\ Both(x, n) = [Both(x, i) EXCEPT ![s.on] = n]
    BY <1>2, <1>6, BothSizes
  <2>3. Takes(r, s, Both(x, i), Both(x, n))  BY <1>2, <2>2 DEF Takes, n
  <2> QED  BY <1>2, <2>1, <2>3, FlowOne
<1> QED  BY <1>2, <1>5, <1>6 DEF n

\* Steps that keep the rows.
LEMMA KeepingFlows ==
  ASSUME NEW r, NEW do \in {"shared", "add_shared", "release", "send"}, NEW on \in {"x", "ids"},
         NEW arg \in Seq(Int), NEW x \in Nat, NEW i \in Nat, do = "send" => x = Result(r)
  PROVE  Flow(r, <<Step(do, on, arg)>>, Both(x, i), Both(x, i))
<1> DEFINE s == Step(do, on, arg)
<1>1. do \in ServeTasks  BY DEF ServeTasks
<1>2. s \in Steps /\ s.do = do  BY <1>1, ServeStep
<1> HIDE DEF s
<1>3. Both(x, i) \in Sizes /\ Both(x, i).x = x  BY BothSizes DEF Both
<1>4. Takes(r, s, Both(x, i), Both(x, i))  BY <1>2, <1>3 DEF Takes
<1>5. Flow(r, <<s>>, Both(x, i), Both(x, i))  BY <1>2, <1>3, <1>4, FlowOne
<1> QED  BY <1>5 DEF s

\* Setting up touches no rows.
LEMMA BuildingFlows ==
  ASSUME NEW r, NEW q \in Seq(Building(conf)), NEW a \in Sizes
  PROVE  Flow(r, q, a, a)
<1> DEFINE n == Len(q)  f == [i \in 0 .. n |-> a]
<1>1. q \in Seq(Steps) /\ n \in Nat /\ \A i \in 1 .. n : q[i] \in Building(conf)
  BY DEF Steps
<1>2. \A i \in 1 .. n : q[i].do \in SetUpTasks  BY <1>1 DEF Building
<1> HIDE DEF n
<1>3. f \in [0 .. n -> Sizes] /\ \A i \in 0 .. n : f[i] = a  OBVIOUS
<1>4. 0 \in 0 .. n /\ n \in 0 .. n /\ \A i \in 1 .. n : i \in 0 .. n /\ i - 1 \in 0 .. n
  BY <1>1
<1> HIDE DEF f
<1>5. \A i \in 1 .. n : Takes(r, q[i], f[i - 1], f[i])
  <2> SUFFICES ASSUME NEW i \in 1 .. n  PROVE Takes(r, q[i], f[i - 1], f[i])
    OBVIOUS
  <2>1. f[i - 1] = a /\ f[i] = a /\ q[i].do \in SetUpTasks  BY <1>2, <1>3, <1>4
  <2> QED  BY <2>1 DEF Takes
<1> QED  BY <1>1, <1>3, <1>4, <1>5 DEF Flow, n

\* What may come first: the embedding, and what another stage has sent.
LEMMA ComingRuns ==
  ASSUME conf \in Layouts, NEW r \in Ranks, NEW p \in Int, NEW a \in Sizes
  PROVE  /\ FirstStage(r) => Flow(r, <<Step("embed", "x", <<p>>)>>, a, Both(Local(r), Local(r)))
         /\ ~FirstStage(r) =>
              Flow(r, <<Step("recv", "x", <<p>>), Step("unpack", "x", <<p>>)>>, a, Both(Local(r), Full(r)))
         /\ FirstStage(r) =>
              \E b \in Sizes : Flow(r, <<Step("recv", "ids", <<p>>), Step("unpack", "ids", <<p>>)>>, a, b)
<1>1. /\ Local(r) \in Nat /\ Full(r) \in Nat
      /\ \A on : Came(r, on) \in Nat /\ Flat(r, on) \in Nat
  BY SizesNat
<1>2. <<p>> \in Seq(Int) /\ {"embed", "recv", "unpack"} \subseteq ServeTasks  BY DEF ServeTasks
<1>3. \A do \in {"embed", "recv", "unpack"}, on \in {"x", "ids"} :
        /\ Step(do, on, <<p>>) \in Steps
        /\ Step(do, on, <<p>>).do = do /\ Step(do, on, <<p>>).on = on
  <2> DEFINE arg == <<p>>
  <2>1. arg \in Seq(Int)  OBVIOUS
  <2> HIDE DEF arg
  <2>2. \A do \in {"embed", "recv", "unpack"}, on \in {"x", "ids"} :
          /\ Step(do, on, arg) \in Steps
          /\ Step(do, on, arg).do = do /\ Step(do, on, arg).on = on
    BY <1>2, <2>1, ServeStep
  <2> QED  BY <2>2 DEF arg
<1>4. a = Both(a.x, a.ids) /\ a.x \in Nat /\ a.ids \in Nat  BY SizesBoth
<1>5. ASSUME FirstStage(r)
      PROVE  Flow(r, <<Step("embed", "x", <<p>>)>>, a, Both(Local(r), Local(r)))
  <2> DEFINE s == Step("embed", "x", <<p>>)  b == Both(Local(r), Local(r))
  <2>1. s \in Steps /\ s.do = "embed"  BY <1>3
  <2> HIDE DEF s
  <2>2. b \in Sizes  BY <1>1, BothSizes
  <2>3. Takes(r, s, a, b)  BY <2>1 DEF Takes, Both
  <2>4. Flow(r, <<s>>, a, b)  BY <2>1, <2>2, <2>3, FlowOne
  <2> QED  BY <2>4 DEF s
<1>6. ASSUME NEW s \in Steps, NEW t \in Steps  PROVE <<s, t>> = <<s>> \o <<t>>
  BY TwoSteps
<1>7. ASSUME ~FirstStage(r)
      PROVE  Flow(r, <<Step("recv", "x", <<p>>), Step("unpack", "x", <<p>>)>>, a, Both(Local(r), Full(r)))
  <2> DEFINE s == Step("recv", "x", <<p>>)  t == Step("unpack", "x", <<p>>)
             b == Both(Flat(r, "x"), a.ids)  c == Both(Local(r), Full(r))
  <2>1. s \in Steps /\ s.do = "recv" /\ s.on = "x" /\ t \in Steps /\ t.do = "unpack" /\ t.on = "x"
    BY <1>3
  <2> HIDE DEF s, t
  <2>2. b \in Sizes /\ c \in Sizes /\ b["x"] = Flat(r, "x") /\ b = [a EXCEPT !["x"] = Flat(r, "x")]
    BY <1>1, <1>4, BothSizes
  <2> HIDE DEF b
  <2>3. Takes(r, s, a, b)  BY <1>7, <2>1, <2>2 DEF Takes
  <2>4. Takes(r, t, b, c)  BY <2>1, <2>2 DEF Takes, Both
  <2> HIDE DEF c
  <2>5. Flow(r, <<s>>, a, b) /\ Flow(r, <<t>>, b, c)  BY <2>1, <2>2, <2>3, <2>4, FlowOne
  <2>6. Flow(r, <<s>> \o <<t>>, a, c)  BY <2>5, FlowConcat
  <2> QED  BY <1>6, <2>1, <2>6 DEF s, t, c
<1>8. ASSUME FirstStage(r)
      PROVE  \E b \in Sizes :
               Flow(r, <<Step("recv", "ids", <<p>>), Step("unpack", "ids", <<p>>)>>, a, b)
  <2> DEFINE s == Step("recv", "ids", <<p>>)  t == Step("unpack", "ids", <<p>>)
             b == Both(a.x, Flat(r, "ids"))  c == Both(a.x, Came(r, "ids"))
  <2>1. s \in Steps /\ s.do = "recv" /\ s.on = "ids" /\ t \in Steps /\ t.do = "unpack" /\ t.on = "ids"
    BY <1>3
  <2> HIDE DEF s, t
  <2>2. /\ b \in Sizes /\ c \in Sizes /\ b["ids"] = Flat(r, "ids")
        /\ b = [a EXCEPT !["ids"] = Flat(r, "ids")] /\ c = [b EXCEPT !["ids"] = Came(r, "ids")]
    BY <1>1, <1>4, BothSizes
  <2> HIDE DEF b, c
  <2>3. Takes(r, s, a, b)  BY <1>8, <2>1, <2>2 DEF Takes
  <2>4. Takes(r, t, b, c)  BY <2>1, <2>2 DEF Takes
  <2>5. Flow(r, <<s>>, a, b) /\ Flow(r, <<t>>, b, c)  BY <2>1, <2>2, <2>3, <2>4, FlowOne
  <2>6. Flow(r, <<s>> \o <<t>>, a, c)  BY <2>5, FlowConcat
  <2> QED  BY <1>6, <2>1, <2>2, <2>6 DEF s, t
<1> QED  BY <1>5, <1>7, <1>8

\* The gather of the rows of all replicas.
LEMMA GatherFlows ==
  ASSUME conf \in Layouts, MoeGather, NEW r \in Ranks, NEW i \in Nat
  PROVE  /\ Flow(r, DpGather("ids"), Both(i, Full(r)), Both(i, Total))
         /\ Flow(r, DpGather("x"), Both(Full(r), i), Both(Total, i))
<1>1. /\ Full(r) \in Nat /\ Padded(r) \in Nat /\ Total \in Nat
      /\ AttnTp(conf) = 1 => Padded(r) = Full(r)
  BY SizesNat
<1>2. AttnTp(conf) \in Nat \ {0}  BY LayoutFacts
<1> DEFINE S(do, on) == Step(do, on, << >>)  full == Full(r)  padded == Padded(r)  total == Total
<1>3. \A do \in Gathers, on \in {"x", "ids"} : S(do, on).do = do
  BY DEF Step
<1>4. ASSUME NEW do \in Gathers, NEW on \in {"x", "ids"},
             do \in {"zero_scatter", "gather"} <=> conf.pad = "max",
             do = "gatherv" => conf.gatherv, do = "place" => ~conf.gatherv
      PROVE  Apt(S(do, on))
  BY <1>3, <1>4 DEF Apt, Gathers
<1>5. \A do \in Gathers, on \in {"x", "ids"} :
        /\ Before(r, S(do, on)) = IF do = "gather" THEN padded ELSE full
        /\ After(r, S(do, on)) = IF do = "zero_scatter" THEN padded ELSE total
  <2> SUFFICES ASSUME NEW do \in Gathers, NEW on \in {"x", "ids"}
               PROVE  /\ Before(r, S(do, on)) = IF do = "gather" THEN padded ELSE full
                      /\ After(r, S(do, on)) = IF do = "zero_scatter" THEN padded ELSE total
    OBVIOUS
  <2> DEFINE s == S(do, on)
  <2>1. s.do = do  BY <1>3
  <2> HIDE DEF s
  <2> QED  BY <2>1, Tables DEF Gathers, s
<1>6. Gathers \subseteq Meetings  BY DEF Meetings
<1>7. ASSUME NEW do \in Gathers, Apt(S(do, "ids")), Apt(S(do, "x")), NEW n \in Nat,
             n = IF do = "gather" THEN padded ELSE full, NEW m \in Nat,
             m = IF do = "zero_scatter" THEN padded ELSE total
      PROVE  /\ Flow(r, <<S(do, "ids")>>, Both(i, n), Both(i, m))
             /\ Flow(r, <<S(do, "x")>>, Both(n, i), Both(m, i))
  <2> DEFINE s == S(do, "ids")  t == S(do, "x")
  <2>1. Before(r, s) = n /\ After(r, s) = m /\ Before(r, t) = n /\ After(r, t) = m
    BY <1>5, <1>7
  <2>2. do \in Meetings /\ s = Step(do, "ids", << >>) /\ t = Step(do, "x", << >>)  BY <1>6
  <2>3. Apt(s) /\ Apt(t)  BY <1>7
  <2> HIDE DEF s, t
  <2>4. Flow(r, <<s>>, Both(i, n), Both(i, m))
    BY <2>1, <2>2, <2>3, MeetingFlows
  <2>5. Flow(r, <<t>>, Both(n, i), Both(m, i))
    BY <2>1, <2>2, <2>3, MeetingFlows
  <2> QED  BY <2>4, <2>5 DEF s, t
<1> HIDE DEF S
<1>8. CASE conf.pad # "max" /\ conf.gatherv
  <2>1. \A on : DpGather(on) = <<S("gatherv", on)>>  BY <1>8 DEF DpGather, S
  <2>2. Apt(S("gatherv", "ids")) /\ Apt(S("gatherv", "x"))  BY <1>4, <1>8 DEF Gathers
  <2> QED  BY <1>1, <1>7, <2>1, <2>2 DEF Gathers
<1>9. CASE conf.pad # "max" /\ ~conf.gatherv
  <2>1. \A on : DpGather(on) = <<S("place", on)>>  BY <1>9 DEF DpGather, S
  <2>2. Apt(S("place", "ids")) /\ Apt(S("place", "x"))  BY <1>4, <1>9 DEF Gathers
  <2> QED  BY <1>1, <1>7, <2>1, <2>2 DEF Gathers
<1>10. CASE conf.pad = "max"
  <2> DEFINE many == AttnTp(conf) > 1
  <2>1. \A on : DpGather(on) = Only(many, <<S("zero_scatter", on)>>) \o <<S("gather", on)>>
    BY <1>10 DEF DpGather, S
  <2>2. \A do \in {"zero_scatter", "gather"} : Apt(S(do, "ids")) /\ Apt(S(do, "x"))
    BY <1>4, <1>10 DEF Gathers
  <2>3. /\ Flow(r, <<S("zero_scatter", "ids")>>, Both(i, full), Both(i, padded))
        /\ Flow(r, <<S("zero_scatter", "x")>>, Both(full, i), Both(padded, i))
    BY <1>1, <1>7, <2>2 DEF Gathers
  <2>4. /\ Flow(r, <<S("gather", "ids")>>, Both(i, padded), Both(i, total))
        /\ Flow(r, <<S("gather", "x")>>, Both(padded, i), Both(total, i))
    BY <1>1, <1>7, <2>2 DEF Gathers
  <2>5. ~many => padded = full  BY <1>1, <1>2
  <2>6. Both(i, full) \in Sizes /\ Both(full, i) \in Sizes  BY <1>1, BothSizes
  <2> HIDE DEF many, full, padded, total
  <2>7. /\ Flow(r, Only(many, <<S("zero_scatter", "ids")>>), Both(i, full), Both(i, padded))
        /\ Flow(r, Only(many, <<S("zero_scatter", "x")>>), Both(full, i), Both(padded, i))
    BY <2>3, <2>5, <2>6, FlowOnly
  <2>8. /\ Flow(r, DpGather("ids"), Both(i, full), Both(i, total))
        /\ Flow(r, DpGather("x"), Both(full, i), Both(total, i))
    BY <2>1, <2>4, <2>7, FlowConcat
  <2> QED  BY <2>8 DEF full, total
<1> QED  BY <1>8, <1>9, <1>10

\* The other steps of a pass in which ranks may meet.
LEMMA MiddleFlows ==
  ASSUME conf \in Layouts, NEW r \in Ranks, NEW i \in Nat,
         NEW do \in Meetings \ Gathers,
         do = "combine" => MoeGather,
         do \in {"cp_gather", "cp_output", "cp_reduce_scatter"} => UseCp,
         do \in {"cp_gather", "cp_reduce_scatter"} => ~conf.a2a,
         do = "gather_split" => AttnScatter
  PROVE  LET s == Step(do, "x", << >>)
         IN Flow(r, <<s>>, Both(Before(r, s), i), Both(After(r, s), i))
<1> DEFINE s == Step(do, "x", << >>)
<1>1. s.do = do /\ s.on = "x" /\ s = Step(do, "x", << >>)  BY DEF Step
<1> HIDE DEF s
<1>2. Apt(s)  BY <1>1 DEF Apt, Gathers, Meetings
<1>3. Before(r, s) \in Nat
  <2>1. /\ Full(r) \in Nat /\ Local(r) \in Nat /\ Total \in Nat /\ PartOf(r) \in Nat
        /\ conf.cp * Local(r) \in Nat /\ AtExperts(r) \in Nat
    BY SizesNat
  <2>2. Before(r, s) \in {Local(r), AtExperts(r), conf.cp * Local(r), Total, PartOf(r)}
    BY <1>1, Tables DEF Meetings, Gathers
  <2> QED  BY <2>1, <2>2
<1>4. Flow(r, <<s>>, Both(Before(r, s), i), Both(After(r, s), i))
  BY <1>1, <1>2, <1>3, MeetingFlows
<1> QED  BY <1>4 DEF s

\* A forward pass may be taken from any number of rows: what a step leaves the next one takes.
LEMMA ForwardRuns ==
  ASSUME conf \in Layouts, NEW r \in Ranks, NEW p \in Int
  PROVE  Runs(r, Forward(r, p))
<1> DEFINE One(do) == <<Step(do, "x", << >>)>>
           Of(do, on) == <<Step(do, on, <<p>>)>>
           L == Local(r)  F == Full(r)  T == Total  Q == PartOf(r)  C == conf.cp * Local(r)
           cp == UseCp /\ ~conf.a2a
           i1 == IF FirstStage(r) THEN L ELSE F
           x2 == IF MoeGather THEN T ELSE L
           i2 == IF MoeGather THEN T ELSE i1
           x3 == IF cp THEN C ELSE x2
           x4 == IF AttnScatter THEN Q ELSE x3
           i4 == IF AttnScatter THEN Q ELSE i2
           x5 == IF cp THEN L ELSE x4
           x6 == IF MoeGather THEN F ELSE x5
           x8 == IF LastStage(r) /\ UseCp THEN C ELSE L
           a == IF FirstStage(r) THEN Of("embed", "x")
                ELSE <<Step("recv", "x", <<p>>), Step("unpack", "x", <<p>>)>>
           b == One("attend")
           c1 == DpGather("ids") \o One("shared") \o DpGather("x")
           c == Only(MoeGather, c1)
           d == Only(cp, One("cp_gather"))
           e == Only(AttnScatter, One("split"))
           f == One("experts")
           g == Only(cp, One("cp_reduce_scatter"))
           h1 == <<Step("combine", "x", << >>), Step("add_shared", "x", << >>)>>
           h == Only(MoeGather, h1)
           i == Only(AttnScatter, One("gather_split"))
           j == Only(LastStage(r) /\ UseCp, One("cp_output"))
           k == Only(~LastStage(r), Of("send", "x"))
           l == Only(LastStage(r), Of("release", "x"))
           m == Only(LastStage(r) /\ conf.pp > 1, Of("send", "ids"))
<1>1. Forward(r, p) = a \o b \o c \o d \o e \o f \o g \o h \o i \o j \o k \o l \o m
  BY DEF Forward
<1>2. /\ L \in Nat /\ F \in Nat /\ T \in Nat /\ Q \in Nat /\ C \in Nat
      /\ ~UseCp => L = F /\ C = L
  <2>1. /\ Full(r) \in Nat /\ Local(r) \in Nat /\ Total \in Nat /\ PartOf(r) \in Nat
        /\ conf.cp * Local(r) \in Nat
        /\ conf.cp = 1 => Local(r) = Full(r) /\ conf.cp * Local(r) = Local(r)
    BY SizesNat
  <2>2. conf.cp \in Nat \ {0}  BY LayoutFacts
  <2>3. ~UseCp => conf.cp = 1  BY <2>2 DEF UseCp
  <2> QED  BY <2>1, <2>3
<1>3. (MoeGather => ~UseCp /\ ~AttnScatter) /\ (AttnScatter => ~UseCp /\ ~MoeGather)
      /\ (cp => ~MoeGather /\ ~AttnScatter)
  BY DEF MoeGather, AttnScatter
<1>4. /\ AtExperts(r) = x4
      /\ Result(r) = x8
  <2>1. AtExperts(r) = x4  BY <1>2, <1>3 DEF AtExperts
  <2>2. Result(r) = x8  BY <1>2 DEF Result
  <2> QED  BY <2>1, <2>2
<1>5. \A do \in Meetings \ Gathers : \A n \in Nat :
        (/\ do = "combine" => MoeGather
         /\ do \in {"cp_gather", "cp_output", "cp_reduce_scatter"} => UseCp
         /\ do \in {"cp_gather", "cp_reduce_scatter"} => ~conf.a2a
         /\ do = "gather_split" => AttnScatter)
          => LET s == Step(do, "x", << >>)
             IN s.do = do /\ Flow(r, <<s>>, Both(Before(r, s), n), Both(After(r, s), n))
  BY MiddleFlows DEF Step
<1>6. {"attend", "experts", "cp_gather", "cp_output", "cp_reduce_scatter", "combine",
       "gather_split"} \subseteq Meetings \ Gathers
  BY DEF Meetings, Gathers
<1>7. /\ i1 \in Nat /\ x2 \in Nat /\ i2 \in Nat /\ x3 \in Nat /\ x4 \in Nat /\ i4 \in Nat
      /\ x5 \in Nat /\ x6 \in Nat /\ x8 \in Nat
  BY <1>2
<1>8. Flow(r, b, Both(L, i1), Both(L, i1))
  <2> DEFINE s == Step("attend", "x", << >>)
  <2>1. s.do = "attend" /\ Flow(r, <<s>>, Both(Before(r, s), i1), Both(After(r, s), i1))
    BY <1>5, <1>6, <1>7
  <2> HIDE DEF s, i1
  <2>2. Before(r, s) = L /\ After(r, s) = L  BY <2>1, Tables
  <2> QED  BY <2>1, <2>2 DEF s
<1>9. Flow(r, c, Both(L, i1), Both(x2, i2))
  <2>1. Both(L, i1) \in Sizes  BY <1>2, <1>7, BothSizes
  <2>2. ASSUME MoeGather  PROVE Flow(r, c1, Both(L, i1), Both(T, T))
    <3>1. L = F /\ i1 = F  BY <1>2, <1>3, <2>2
    <3>2. /\ Flow(r, DpGather("ids"), Both(F, F), Both(F, T))
          /\ Flow(r, DpGather("x"), Both(F, T), Both(T, T))
      BY <1>2, <2>2, GatherFlows
    <3>3. Flow(r, One("shared"), Both(F, T), Both(F, T))
      <4> DEFINE none == << >>
      <4>1. none \in Seq(Int)  OBVIOUS
      <4> HIDE DEF none
      <4>2. Flow(r, <<Step("shared", "x", none)>>, Both(F, T), Both(F, T))
        BY <1>2, <4>1, KeepingFlows
      <4> QED  BY <4>2 DEF none
    <3> HIDE DEF One, L, F, T, i1
    <3>4. Flow(r, DpGather("ids") \o One("shared"), Both(F, F), Both(F, T))
      BY ONLY <3>2, <3>3, FlowConcat
    <3>5. Flow(r, DpGather("ids") \o One("shared") \o DpGather("x"), Both(F, F), Both(T, T))
      BY ONLY <3>2, <3>4, FlowConcat
    <3> QED  BY <3>1, <3>5
  <2> HIDE DEF c1, L, T, i1
  <2>3. MoeGather => x2 = T /\ i2 = T  OBVIOUS
  <2>4. ~MoeGather => x2 = L /\ i2 = i1  OBVIOUS
  <2> HIDE DEF x2, i2
  <2> QED  BY <2>1, <2>2, <2>3, <2>4, FlowOnly
<1>10. Flow(r, d, Both(x2, i2), Both(x3, i2))
  <2>1. Both(x2, i2) \in Sizes  BY <1>7, BothSizes
  <2>2. ASSUME cp  PROVE Flow(r, One("cp_gather"), Both(x2, i2), Both(x3, i2))
    <3> DEFINE s == Step("cp_gather", "x", << >>)
    <3>1. s.do = "cp_gather" /\ Flow(r, <<s>>, Both(Before(r, s), i2), Both(After(r, s), i2))
      BY <1>5, <1>6, <1>7, <2>2
    <3>2. x2 = L /\ x3 = C  BY <1>3, <2>2
    <3> HIDE DEF s, i2, x2, x3
    <3>3. Before(r, s) = L /\ After(r, s) = C  BY <3>1, Tables
    <3> QED  BY <3>1, <3>2, <3>3 DEF s
  <2>3. ~cp => x3 = x2  OBVIOUS
  <2> HIDE DEF x2, x3, i2, cp, One
  <2> QED  BY <2>1, <2>2, <2>3, FlowOnly
<1>11. Flow(r, e, Both(x3, i2), Both(x4, i4))
  <2>1. Both(x3, i2) \in Sizes /\ Both(x4, i4) \in Sizes  BY <1>7, BothSizes
  <2>2. ASSUME AttnScatter  PROVE Flow(r, One("split"), Both(x3, i2), Both(x4, i4))
    <3> DEFINE none == << >>  s == Step("split", "x", none)
    <3>1. none \in Seq(Int) /\ "split" \in ServeTasks  BY DEF ServeTasks
    <3> HIDE DEF none
    <3>2. s \in Steps /\ s.do = "split"  BY <3>1, ServeStep
    <3> HIDE DEF s
    <3>3. x3 = F /\ i2 = F /\ x4 = Q /\ i4 = Q  BY <1>2, <1>3, <2>2
    <3>4. Takes(r, s, Both(x3, i2), Both(x4, i4))
      <4> HIDE DEF x3, i2, x4, i4
      <4>1. Both(x3, i2) = [x |-> Full(r), ids |-> Full(r)] /\ Both(x4, i4) = [x |-> PartOf(r), ids |-> PartOf(r)]
        BY <3>3 DEF Both
      <4> QED  BY <2>2, <3>2, <4>1 DEF Takes
    <3> HIDE DEF x3, i2, x4, i4
    <3>5. Flow(r, <<s>>, Both(x3, i2), Both(x4, i4))  BY <2>1, <3>2, <3>4, FlowOne
    <3> QED  BY <3>5 DEF s, none
  <2>3. ~AttnScatter => x4 = x3 /\ i4 = i2  OBVIOUS
  <2> HIDE DEF x3, x4, i2, i4, One
  <2> QED  BY <2>1, <2>2, <2>3, FlowOnly
<1>12. Flow(r, f, Both(x4, i4), Both(x4, i4))
  <2> DEFINE s == Step("experts", "x", << >>)
  <2>1. s.do = "experts" /\ Flow(r, <<s>>, Both(Before(r, s), i4), Both(After(r, s), i4))
    BY <1>5, <1>6, <1>7
  <2> HIDE DEF s, x4, i4
  <2>2. Before(r, s) = x4 /\ After(r, s) = x4  BY <1>4, <2>1, Tables
  <2> QED  BY <2>1, <2>2 DEF s
<1>13. Flow(r, g, Both(x4, i4), Both(x5, i4))
  <2>1. Both(x4, i4) \in Sizes  BY <1>7, BothSizes
  <2>2. ASSUME cp  PROVE Flow(r, One("cp_reduce_scatter"), Both(x4, i4), Both(x5, i4))
    <3> DEFINE s == Step("cp_reduce_scatter", "x", << >>)
    <3>1. s.do = "cp_reduce_scatter" /\ Flow(r, <<s>>, Both(Before(r, s), i4), Both(After(r, s), i4))
      BY <1>5, <1>6, <1>7, <2>2
    <3>2. x4 = C /\ x5 = L  BY <1>3, <2>2
    <3> HIDE DEF s, i4, x4, x5
    <3>3. Before(r, s) = C /\ After(r, s) = L  BY <3>1, Tables
    <3> QED  BY <3>1, <3>2, <3>3 DEF s
  <2>3. ~cp => x5 = x4  OBVIOUS
  <2> HIDE DEF x4, x5, i4, cp, One
  <2> QED  BY <2>1, <2>2, <2>3, FlowOnly
<1>14. Flow(r, h, Both(x5, i4), Both(x6, i4))
  <2>1. Both(x5, i4) \in Sizes  BY <1>7, BothSizes
  <2>2. ASSUME MoeGather  PROVE Flow(r, h1, Both(x5, i4), Both(x6, i4))
    <3> DEFINE s == Step("combine", "x", << >>)  none == << >>  t == Step("add_shared", "x", none)
    <3>1. s.do = "combine" /\ Flow(r, <<s>>, Both(Before(r, s), i4), Both(After(r, s), i4))
      BY <1>5, <1>6, <1>7, <2>2
    <3>2. x5 = T /\ x6 = F  BY <1>3, <2>2
    <3>3. none \in Seq(Int)  OBVIOUS
    <3>4. "add_shared" \in ServeTasks /\ "combine" \in ServeTasks  BY DEF ServeTasks
    <3>5. h1 = <<s, t>>  OBVIOUS
    <3> HIDE DEF none
    <3>6. Flow(r, <<t>>, Both(x6, i4), Both(x6, i4))  BY <1>7, <3>3, KeepingFlows
    <3>7. s \in Steps /\ t \in Steps
      <4>1. s = Step("combine", "x", none)  BY DEF none
      <4> QED  BY <3>3, <3>4, <4>1, ServeStep
    <3> HIDE DEF s, t, i4, x5, x6, h1
    <3>8. Before(r, s) = T /\ After(r, s) = F  BY <3>1, Tables
    <3>9. Flow(r, <<s>>, Both(x5, i4), Both(x6, i4))  BY <3>1, <3>2, <3>8
    <3>10. Flow(r, <<s>> \o <<t>>, Both(x5, i4), Both(x6, i4))  BY ONLY <3>6, <3>9, FlowConcat
    <3>11. <<s, t>> = <<s>> \o <<t>>  BY ONLY <3>7, TwoSteps
    <3> QED  BY ONLY <3>5, <3>10, <3>11
  <2>3. ~MoeGather => x6 = x5  OBVIOUS
  <2> HIDE DEF x5, x6, i4, h1
  <2> QED  BY <2>1, <2>2, <2>3, FlowOnly
<1>15. Flow(r, i, Both(x6, i4), Both(L, i4))
  <2>1. Both(x6, i4) \in Sizes  BY <1>7, BothSizes
  <2>2. ASSUME AttnScatter  PROVE Flow(r, One("gather_split"), Both(x6, i4), Both(L, i4))
    <3> DEFINE s == Step("gather_split", "x", << >>)
    <3>1. s.do = "gather_split" /\ Flow(r, <<s>>, Both(Before(r, s), i4), Both(After(r, s), i4))
      BY <1>5, <1>6, <1>7, <2>2
    <3>2. x6 = Q /\ L = F  BY <1>2, <1>3, <2>2
    <3> HIDE DEF s, i4, x6
    <3>3. Before(r, s) = Q /\ After(r, s) = F  BY <3>1, Tables
    <3> QED  BY <3>1, <3>2, <3>3 DEF s
  <2>3. ~AttnScatter => x6 = L  BY <1>2, <1>3
  <2> HIDE DEF x6, i4, One, L
  <2> QED  BY <2>1, <2>2, <2>3, FlowOnly
<1>16. Flow(r, j, Both(L, i4), Both(x8, i4))
  <2>1. Both(L, i4) \in Sizes  BY <1>2, <1>7, BothSizes
  <2>2. ASSUME LastStage(r) /\ UseCp  PROVE Flow(r, One("cp_output"), Both(L, i4), Both(x8, i4))
    <3> DEFINE s == Step("cp_output", "x", << >>)
    <3>1. s.do = "cp_output" /\ Flow(r, <<s>>, Both(Before(r, s), i4), Both(After(r, s), i4))
      BY <1>5, <1>6, <1>7, <2>2
    <3>2. x8 = C  BY <2>2
    <3> HIDE DEF s, i4, x8
    <3>3. Before(r, s) = L /\ After(r, s) = C  BY <3>1, Tables
    <3> QED  BY <3>1, <3>2, <3>3 DEF s
  <2>3. ~(LastStage(r) /\ UseCp) => x8 = L  OBVIOUS
  <2> HIDE DEF x8, i4, One, L
  <2> QED  BY <2>1, <2>2, <2>3, FlowOnly
<1>17. /\ Flow(r, k, Both(x8, i4), Both(x8, i4)) /\ Flow(r, l, Both(x8, i4), Both(x8, i4))
       /\ Flow(r, m, Both(x8, i4), Both(x8, i4))
  <2> DEFINE arg == <<p>>
  <2>1. arg \in Seq(Int)  OBVIOUS
  <2> HIDE DEF arg
  <2>2. Both(x8, i4) \in Sizes  BY <1>7, BothSizes
  <2>3. /\ Flow(r, <<Step("send", "x", arg)>>, Both(x8, i4), Both(x8, i4))
        /\ Flow(r, <<Step("release", "x", arg)>>, Both(x8, i4), Both(x8, i4))
        /\ Flow(r, <<Step("send", "ids", arg)>>, Both(x8, i4), Both(x8, i4))
    BY <1>4, <1>7, <2>1, KeepingFlows
  <2>4. Of("send", "x") = <<Step("send", "x", arg)>> /\ Of("release", "x") = <<Step("release", "x", arg)>>
        /\ Of("send", "ids") = <<Step("send", "ids", arg)>>
    BY DEF arg
  <2> HIDE DEF x8, i4, Of
  <2> QED  BY <2>2, <2>3, <2>4, FlowOnly
<1> HIDE DEF b, c, d, e, f, g, h, i, j, k, l, m, x2, i2, x3, x4, i4, x5, x6, x8
<1>18. ASSUME NEW z \in Sizes
       PROVE  Flow(r, a, z, Both(L, i1))
  BY ComingRuns
<1> HIDE DEF a, L, i1
<1>19. ASSUME NEW z \in Sizes
       PROVE  Flow(r, a \o b \o c \o d \o e \o f \o g \o h \o i \o j \o k \o l \o m, z, Both(x8, i4))
  <2>1. Flow(r, a \o b, z, Both(L, i1))  BY ONLY <1>8, <1>18, z \in Sizes, FlowConcat
  <2>2. Flow(r, a \o b \o c, z, Both(x2, i2))  BY ONLY <1>9, <2>1, FlowConcat
  <2>3. Flow(r, a \o b \o c \o d, z, Both(x3, i2))  BY ONLY <1>10, <2>2, FlowConcat
  <2>4. Flow(r, a \o b \o c \o d \o e, z, Both(x4, i4))  BY ONLY <1>11, <2>3, FlowConcat
  <2>5. Flow(r, a \o b \o c \o d \o e \o f, z, Both(x4, i4))  BY ONLY <1>12, <2>4, FlowConcat
  <2>6. Flow(r, a \o b \o c \o d \o e \o f \o g, z, Both(x5, i4))
    BY ONLY <1>13, <2>5, FlowConcat
  <2>7. Flow(r, a \o b \o c \o d \o e \o f \o g \o h, z, Both(x6, i4))
    BY ONLY <1>14, <2>6, FlowConcat
  <2>8. Flow(r, a \o b \o c \o d \o e \o f \o g \o h \o i, z, Both(L, i4))
    BY ONLY <1>15, <2>7, FlowConcat
  <2>9. Flow(r, a \o b \o c \o d \o e \o f \o g \o h \o i \o j, z, Both(x8, i4))
    BY ONLY <1>16, <2>8, FlowConcat
  <2>10. Flow(r, a \o b \o c \o d \o e \o f \o g \o h \o i \o j \o k, z, Both(x8, i4))
    BY ONLY <1>17, <2>9, FlowConcat
  <2>11. Flow(r, a \o b \o c \o d \o e \o f \o g \o h \o i \o j \o k \o l, z, Both(x8, i4))
    BY ONLY <1>17, <2>10, FlowConcat
  <2> QED  BY ONLY <1>17, <2>11, FlowConcat
<1>20. Both(x8, i4) \in Sizes  BY <1>7, BothSizes
<1> QED  BY <1>1, <1>19, <1>20 DEF Runs

\* A rank can take its whole program, from no rows.
LEMMA ProgramRuns ==
  ASSUME conf \in Layouts, NEW r \in Ranks
  PROVE  Runs(r, Program(r))
<1> DEFINE n == conf.passes
           one == <<Step("recv", "ids", <<0>>), Step("unpack", "ids", <<0>>)>>
           back == Only(FirstStage(r) /\ conf.pp > 1, one)
           passes == [p \in 1 .. n |-> Forward(r, p) \o Only(~conf.async, back)]
           backs == [p \in 1 .. n |-> back]
           last == Only(conf.async, FlattenSeq(backs))
           first == Setup(r)
<1>1. n \in Nat  BY CollectivesAssumption
<1>2. FirstStage(r) => Runs(r, one)
  <2> SUFFICES ASSUME FirstStage(r), NEW a \in Sizes  PROVE \E b \in Sizes : Flow(r, one, a, b)
    BY DEF Runs
  <2> DEFINE zero == 0
  <2>1. zero \in Int  OBVIOUS
  <2> HIDE DEF zero
  <2>2. \E b \in Sizes :
          Flow(r, <<Step("recv", "ids", <<zero>>), Step("unpack", "ids", <<zero>>)>>, a, b)
    BY <2>1, ComingRuns
  <2> QED  BY <2>2 DEF zero
<1>3. Program(r) = first \o FlattenSeq(passes) \o last  BY DEF Program
<1> HIDE DEF one
<1>4. Runs(r, back)
  <2> DEFINE condition == FirstStage(r) /\ conf.pp > 1
  <2>1. condition => Runs(r, one)  BY <1>2
  <2> HIDE DEF condition
  <2>2. Runs(r, Only(condition, one))  BY <2>1, RunsOnly
  <2> QED  BY <2>2 DEF condition
<1> HIDE DEF n, back
<1>5. \A p \in 1 .. n : Runs(r, passes[p]) /\ Runs(r, backs[p])
  <2> SUFFICES ASSUME NEW p \in 1 .. n  PROVE Runs(r, passes[p]) /\ Runs(r, backs[p])
    OBVIOUS
  <2>1. p \in Int  OBVIOUS
  <2>2. Runs(r, Forward(r, p))  BY <2>1, ForwardRuns
  <2>3. Runs(r, Only(~conf.async, back))  BY <1>4, RunsOnly
  <2>4. Runs(r, Forward(r, p) \o Only(~conf.async, back))  BY ONLY <2>2, <2>3, RunsConcat
  <2>5. passes[p] = Forward(r, p) \o Only(~conf.async, back) /\ backs[p] = back  OBVIOUS
  <2> HIDE DEF passes, backs
  <2> QED  BY <1>4, <2>4, <2>5
<1>6. passes = [p \in 1 .. n |-> passes[p]] /\ backs = [p \in 1 .. n |-> backs[p]]  OBVIOUS
<1> HIDE DEF passes, backs
<1>7. Runs(r, FlattenSeq(passes)) /\ Runs(r, FlattenSeq(backs))
  BY ONLY <1>1, <1>5, <1>6, RunsFlatten
<1>8. Runs(r, last)  BY <1>7, RunsOnly
<1>9. Runs(r, first)
  <2>1. first \in Seq(Building(conf))  BY SetupBuilds
  <2> HIDE DEF first
  <2>2. \A a \in Sizes : Flow(r, first, a, a)  BY <2>1, BuildingFlows
  <2> QED  BY <2>2 DEF Runs
<1> DEFINE middle == FlattenSeq(passes)
<1> HIDE DEF first, last, middle
<1>10. Runs(r, middle)  BY <1>7 DEF middle
<1>11. Runs(r, first \o middle)  BY ONLY <1>9, <1>10, RunsConcat
<1>12. Runs(r, first \o middle \o last)  BY ONLY <1>8, <1>11, RunsConcat
<1> QED  BY <1>3, <1>12 DEF middle

-----------------------------------------------------------------------------
(* The rows that ranks hold while they serve.                              *)

\* Buffers with rows in number a, and those of a rank that waits in step s.
HasBoth(held, a) == HasRows(held["x"], a["x"]) /\ HasRows(held["ids"], a["ids"])
Inside(held, r, s, a) ==
  /\ a[s.on] = After(r, s) /\ HasRows(held[s.on], During(r, s))
  /\ \A on \in {"x", "ids"} \ {s.on} : HasRows(held[on], a[on])

Shaped ==
  /\ DOMAIN buf = Ranks
  /\ \A r \in Ranks : DOMAIN buf[r] = {"x", "ids"}

\* Rank r may take step s from rows in number a to rows in number b.
Ready(r, s, a, b) ==
  /\ IInv /\ Shaped /\ r \in Ranks /\ r \notin raised /\ waits[r] = Idle
  /\ todo[r] # << >> /\ s = Head(todo[r]) /\ s \in Serving
  /\ a \in Sizes /\ b \in Sizes /\ HasBoth(buf[r], a) /\ Takes(r, s, a, b)

\* It takes the step, or raises.
Comes(r, s, b) ==
  /\ DOMAIN buf' = Ranks /\ DOMAIN buf'[r] = {"x", "ids"}
  /\ \A q \in Ranks \ {r} : buf'[q] = buf[q]
  /\ \/ r \in raised'
     \/ /\ waits'[r] = Entry(r, s)
        /\ IF Entry(r, s) = Idle THEN HasBoth(buf'[r], b) ELSE Sound(s) /\ Inside(buf'[r], r, s, b)

LEMMA ReadyFacts ==
  ASSUME NEW r, NEW s, NEW a, NEW b, Ready(r, s, a, b)
  PROVE  /\ conf \in Layouts /\ r \in Ranks /\ Current(r) = s /\ s.on \in {"x", "ids"}
         /\ DOMAIN waits = Ranks
         /\ s.do \in Meetings =>
              Apt(s) /\ a[s.on] = Before(r, s) /\ b = [a EXCEPT ![s.on] = After(r, s)]
         /\ Sound(s)
         /\ \A kind \in Grouped : Kind(r, kind) = Home(r, kind) /\ InGroup(r, kind) = IndexOf(Home(r, kind), r)
<1>1. /\ IInv /\ r \in Ranks /\ waits[r] = Idle /\ todo[r] # << >> /\ s = Head(todo[r]) /\ s \in Serving
      /\ Takes(r, s, a, b)
  BY DEF Ready
<1>2. conf \in Layouts /\ DOMAIN waits = Ranks  BY <1>1 DEF IInv, Rightly
<1>3. s.on \in {"x", "ids"}  BY <1>1 DEF Serving
<1>4. s.do \in Meetings =>
        Apt(s) /\ a[s.on] = Before(r, s) /\ b = [a EXCEPT ![s.on] = After(r, s)]
  <2>1. \A do \in Meetings :
          do \notin SetUpTasks \cup {"shared", "add_shared", "release", "send", "embed", "recv", "unpack", "split"}
    BY DEF Meetings, Gathers, SetUpTasks
  <2> HIDE DEF Meetings
  <2> QED  BY <1>1, <2>1 DEF Takes
<1>5. Sound(s)  BY <1>1, <1>4 DEF Sound
<1>6. \A kind \in Grouped : group[r][Backing(conf)[kind]] = Home(r, kind) /\ Kind(r, kind) = Home(r, kind)
  BY <1>1, ServesAtHome
<1>7. \A kind \in Grouped : InGroup(r, kind) = IndexOf(Home(r, kind), r)  BY <1>6 DEF InGroup
<1> QED  BY <1>1, <1>2, <1>3, <1>4, <1>5, <1>6, <1>7 DEF Current

LEMMA ReadyCalls ==
  ASSUME NEW r, NEW s, NEW a, NEW b, Ready(r, s, a, b), NEW kind \in Grouped, NEW do, NEW on, NEW size
  PROVE  /\ AllReduce(r, kind, on, size) = Reducing(r, kind, on, size)
         /\ Tensor(r, do, on, kind, size) = Exchanging(r, do, on, kind, size)
         /\ TensorV(r, do, on, kind, size) = BySizes(r, do, on, kind, size)
<1>1. group[r][Backing(conf)[kind]] = Home(r, kind)  BY ServesAtHome DEF Ready
<1>2. AllReduce(r, kind, on, size) = Reducing(r, kind, on, size)  BY <1>1 DEF AllReduce, Reducing
<1>3. Tensor(r, do, on, kind, size) = Exchanging(r, do, on, kind, size)
  BY <1>1 DEF Tensor, Exchanging
<1>4. TensorV(r, do, on, kind, size) = BySizes(r, do, on, kind, size)
  BY <1>1 DEF TensorV, BySizes
<1> QED  BY <1>2, <1>3, <1>4

\* A rank enters a step's collective, or none, with the rows that the step leaves.
LEMMA EnterComes ==
  ASSUME NEW r, NEW s, NEW a, NEW b, Ready(r, s, a, b), b = [a EXCEPT ![s.on] = After(r, s)],
         NEW rows, HasRows(rows, IF Entry(r, s) = Idle THEN After(r, s) ELSE During(r, s)),
         Enter(r, s.on, rows, Entry(r, s))
  PROVE  Comes(r, s, b)
<1>1. /\ DOMAIN buf = Ranks /\ r \in Ranks /\ DOMAIN buf[r] = {"x", "ids"} /\ a \in Sizes
      /\ HasBoth(buf[r], a)
  BY DEF Ready, Shaped
<1>2. s.on \in {"x", "ids"} /\ DOMAIN waits = Ranks /\ Sound(s)  BY ReadyFacts
<1> DEFINE on == s.on  call == Entry(r, s)  n == After(r, s)
<1>3. buf' = [buf EXCEPT ![r][on] = rows] /\ waits' = [waits EXCEPT ![r] = call]
  BY DEF Enter
<1> HIDE DEF on, call, n
<1>4. on \in {"x", "ids"}  BY <1>2 DEF on
<1>5. /\ DOMAIN buf' = Ranks /\ DOMAIN buf'[r] = {"x", "ids"}
      /\ \A q \in Ranks \ {r} : buf'[q] = buf[q]
      /\ buf'[r][on] = rows /\ \A o \in {"x", "ids"} \ {on} : buf'[r][o] = buf[r][o]
  BY ONLY <1>1, <1>3, <1>4
<1>6. waits'[r] = call  BY ONLY <1>1, <1>2, <1>3
<1>7. b = [a EXCEPT ![on] = n] /\ HasRows(rows, IF call = Idle THEN n ELSE During(r, s))
  BY DEF on, call, n
<1>8. b[on] = n /\ \A o \in {"x", "ids"} \ {on} : b[o] = a[o]
  BY ONLY <1>1, <1>4, <1>7 DEF Sizes
<1>9. \A o \in {"x", "ids"} \ {on} : HasRows(buf'[r][o], b[o])
  BY <1>1, <1>5, <1>8 DEF HasBoth
<1>10. CASE call = Idle
  <2>1. HasRows(buf'[r][on], b[on])  BY <1>5, <1>7, <1>8, <1>10
  <2>2. HasBoth(buf'[r], b)  BY <1>4, <1>9, <2>1 DEF HasBoth
  <2> QED  BY <1>5, <1>6, <1>10, <2>2 DEF Comes, call
<1>11. CASE call # Idle
  <2>1. HasRows(buf'[r][on], During(r, s))  BY <1>5, <1>7, <1>11
  <2>2. Inside(buf'[r], r, s, b)  BY <1>8, <1>9, <2>1 DEF Inside, on, n
  <2> QED  BY <1>2, <1>5, <1>6, <1>11, <2>2 DEF Comes, call
<1> QED  BY <1>10, <1>11

\* A rank reads the health of RoCE before it enters.
LEMMA ReduceComes ==
  ASSUME NEW r, NEW s, NEW a, NEW b, Ready(r, s, a, b), b = [a EXCEPT ![s.on] = After(r, s)],
         NEW rows, HasRows(rows, During(r, s)), During(r, s) = After(r, s),
         EnterReduce(r, s.on, rows, Entry(r, s))
  PROVE  Comes(r, s, b)
<1>1. CASE Enter(r, s.on, rows, Entry(r, s))
  <2>1. HasRows(rows, IF Entry(r, s) = Idle THEN After(r, s) ELSE During(r, s))  OBVIOUS
  <2> QED  BY <1>1, <2>1, EnterComes
<1>2. CASE raised' = raised \cup {r} /\ UNCHANGED <<buf, waits>>
  <2>1. DOMAIN buf = Ranks /\ DOMAIN buf[r] = {"x", "ids"}  BY DEF Ready, Shaped
  <2> QED  BY <1>2, <2>1 DEF Comes
<1> QED  BY <1>1, <1>2 DEF EnterReduce

\* A step that meets nobody.
LEMMA AloneComes ==
  ASSUME NEW r, NEW s, NEW a, NEW b, Ready(r, s, a, b), waits'[r] = Idle,
         s.do \notin Meetings \cup {"recv"},
         DOMAIN buf' = Ranks, DOMAIN buf'[r] = {"x", "ids"}, \A q \in Ranks \ {r} : buf'[q] = buf[q],
         HasBoth(buf'[r], b)
  PROVE  Comes(r, s, b)
<1>1. Entry(r, s) = Idle  BY Tables
<1> QED  BY <1>1 DEF Comes

LEMMA MappedRows ==
  ASSUME NEW rows, NEW n, HasRows(rows, n), NEW q, DOMAIN q = DOMAIN rows, q = [k \in DOMAIN q |-> q[k]]
  PROVE  HasRows(q, n) /\ Len(q) = n
<1>1. DOMAIN rows = 1 .. n /\ n \in Nat  BY RowsLen
<1>2. HasRows(q, n)  BY <1>1 DEF HasRows
<1> QED  BY <1>2, RowsLen

\* How many rows a step starts from.
LEMMA ReadyRows ==
  ASSUME NEW r, NEW s, NEW a, NEW b, Ready(r, s, a, b)
  PROVE  /\ \A on \in {"x", "ids"} : HasRows(buf[r][on], a[on]) /\ DOMAIN buf[r][on] = 1 .. a[on]
                                     /\ Len(buf[r][on]) = a[on] /\ a[on] \in Nat
         /\ s.do \in Meetings => HasRows(buf[r][s.on], Before(r, s)) /\ Before(r, s) \in Nat
         /\ DOMAIN buf = Ranks /\ DOMAIN buf[r] = {"x", "ids"}
<1>1. HasBoth(buf[r], a) /\ DOMAIN buf = Ranks /\ DOMAIN buf[r] = {"x", "ids"}  BY DEF Ready, Shaped
<1>2. ASSUME NEW on \in {"x", "ids"}
      PROVE  HasRows(buf[r][on], a[on]) /\ DOMAIN buf[r][on] = 1 .. a[on]
             /\ Len(buf[r][on]) = a[on] /\ a[on] \in Nat
  <2>1. HasRows(buf[r][on], a[on])  BY <1>1 DEF HasBoth
  <2> QED  BY <2>1, RowsLen
<1>3. s.do \in Meetings => HasRows(buf[r][s.on], Before(r, s)) /\ Before(r, s) \in Nat
  <2>1. s.on \in {"x", "ids"} /\ (s.do \in Meetings => a[s.on] = Before(r, s))  BY ReadyFacts
  <2> QED  BY <1>2, <2>1
<1> QED  BY <1>1, <1>2, <1>3

\* A rank that enters a gather or a scatter waits.
LEMMA Entered ==
  ASSUME NEW r, NEW do \in Exchanges, NEW on, NEW kind, NEW sizes
  PROVE  Exchanging(r, do, on, kind, sizes) # Idle /\ BySizes(r, do, on, kind, sizes) # Idle
<1>1. Exchanging(r, do, on, kind, sizes).do = do /\ BySizes(r, do, on, kind, sizes).do = do
  BY CallFields DEF Exchanging, BySizes
<1>2. Idle.do = "idle" /\ "idle" \notin Exchanges  BY DEF Idle, Step, Exchanges
<1> QED  BY <1>1, <1>2

LEMMA AttendComes ==
  ASSUME NEW r, NEW s, NEW a, NEW b, Ready(r, s, a, b), Attend(r)
  PROVE  Comes(r, s, b)
<1> DEFINE rows == Each(buf[r].x, LAMBDA row : Partial(row, "attn", Place(conf, r).t))
<1>1. s.do = "attend" /\ EnterReduce(r, "x", rows, AllReduce(r, AttnKind, "x", Len(rows)))
  BY ReadyFacts DEF Attend, Do, AttnKind, Current
<1>2. s.do \in Meetings /\ s.do \notin Gathers  BY <1>1 DEF Meetings, Gathers
<1>3. s.on = "x" /\ b = [a EXCEPT ![s.on] = After(r, s)]  BY <1>2, ReadyFacts DEF Apt
<1>4. DOMAIN rows = DOMAIN buf[r].x /\ rows = [k \in DOMAIN rows |-> rows[k]]  BY DEF Each
<1> HIDE DEF rows
<1>5. HasRows(buf[r].x, Before(r, s))  BY <1>2, <1>3, ReadyRows
<1>6. HasRows(rows, Before(r, s)) /\ Len(rows) = Before(r, s)  BY ONLY <1>4, <1>5, MappedRows
<1>7. /\ Before(r, s) = Local(r) /\ During(r, s) = Local(r) /\ After(r, s) = Local(r)
      /\ Entry(r, s) = Reducing(r, AttnKind, "x", Local(r))
  BY <1>1, Tables
<1>8. AttnKind \in Grouped  BY DEF AttnKind, Grouped
<1>9. AllReduce(r, AttnKind, "x", Len(rows)) = Entry(r, s)  BY <1>6, <1>7, <1>8, ReadyCalls
<1> QED  BY <1>1, <1>3, <1>6, <1>7, <1>9, ReduceComes

LEMMA PlaceComes ==
  ASSUME NEW r, NEW s, NEW a, NEW b, Ready(r, s, a, b), PlaceRows(r)
  PROVE  Comes(r, s, b)
<1> DEFINE on == s.on  rows == Placed(r, buf[r][on])
<1>1. s.do = "place" /\ EnterReduce(r, on, rows, AllReduce(r, "tp", on, Len(rows)))
  BY ReadyFacts DEF PlaceRows, Do, Current
<1>2. s.do \in Meetings /\ s.do \in Gathers /\ s.do \notin {"zero_scatter", "gather"}
  BY <1>1 DEF Meetings, Gathers
<1>3. b = [a EXCEPT ![s.on] = After(r, s)] /\ conf.pad # "max"  BY <1>2, ReadyFacts DEF Apt
<1>4. conf \in Layouts  BY ReadyFacts
<1>5. Total = Start(AllRows, conf.dp + 1) /\ Total \in Nat  BY <1>3, <1>4, RowsNat DEF Total
<1>6. HasRows(rows, Total)  BY <1>5 DEF HasRows, Placed
<1> HIDE DEF rows
<1>7. Len(rows) = Total  BY ONLY <1>6, RowsLen
<1>8. /\ During(r, s) = Total /\ After(r, s) = Total
      /\ Entry(r, s) = Reducing(r, "tp", s.on, Total)
  BY <1>1, Tables
<1>9. "tp" \in Grouped  BY DEF Grouped
<1>10. AllReduce(r, "tp", on, Len(rows)) = Entry(r, s)  BY <1>7, <1>8, <1>9, ReadyCalls
<1> QED  BY <1>1, <1>3, <1>6, <1>8, <1>10, ReduceComes

LEMMA ScatterComes ==
  ASSUME NEW r, NEW s, NEW a, NEW b, Ready(r, s, a, b), ZeroScatter(r)
  PROVE  Comes(r, s, b)
<1> DEFINE on == s.on
           rows == IF InGroup(r, "attn_tp") = 1 THEN buf[r][on] ELSE Each(buf[r][on], LAMBDA row : Pad)
           call == Tensor(r, "reduce_scatter", on, "attn_tp", Equal(Len(rows), AttnTp(conf)))
<1>1. s.do = "zero_scatter" /\ Enter(r, on, rows, call)
  BY ReadyFacts DEF ZeroScatter, Do, Current
<1>2. s.do \in Meetings  BY <1>1 DEF Meetings, Gathers
<1>3. b = [a EXCEPT ![s.on] = After(r, s)]  BY <1>2, ReadyFacts
<1>4. HasRows(buf[r][on], Before(r, s))  BY <1>2, ReadyRows
<1>5. HasRows(rows, Before(r, s)) /\ Len(rows) = Before(r, s)
  <2> DEFINE q == Each(buf[r][on], LAMBDA row : Pad)
  <2>1. DOMAIN q = DOMAIN buf[r][on] /\ q = [k \in DOMAIN q |-> q[k]]  BY DEF Each
  <2> HIDE DEF q
  <2>2. HasRows(q, Before(r, s))  BY <1>4, <2>1, MappedRows
  <2>3. rows \in {buf[r][on], q}  BY DEF q
  <2> HIDE DEF rows
  <2> QED  BY <1>4, <2>2, <2>3, RowsLen
<1>6. /\ Before(r, s) = Full(r) /\ During(r, s) = Full(r)
      /\ Entry(r, s) = Exchanging(r, "reduce_scatter", s.on, "attn_tp", Equal(Full(r), AttnTp(conf)))
  BY <1>1, Tables
<1> HIDE DEF rows
<1>7. "attn_tp" \in Grouped  BY DEF Grouped
<1>8. call = Entry(r, s)
  <2>1. call = Exchanging(r, "reduce_scatter", on, "attn_tp", Equal(Len(rows), AttnTp(conf)))
    BY <1>7, ReadyCalls
  <2> QED  BY <1>5, <1>6, <2>1
<1>9. Entry(r, s) # Idle
  <2>1. "reduce_scatter" \in Exchanges  BY DEF Exchanges
  <2> QED  BY <1>6, <2>1, Entered
<1> QED  BY <1>1, <1>3, <1>5, <1>6, <1>8, <1>9, EnterComes

LEMMA GatherComes ==
  ASSUME NEW r, NEW s, NEW a, NEW b, Ready(r, s, a, b), Gather(r)
  PROVE  Comes(r, s, b)
<1> DEFINE on == s.on  rows == buf[r][on]
<1>1. \/ /\ s.do = "gather"
         /\ Enter(r, on, rows, Tensor(r, "all_gather", on, "tp", <<Len(rows)>>))
      \/ /\ s.do = "gatherv"
         /\ Enter(r, on, rows, TensorV(r, "all_gather", on, "tp", AllRows))
      \/ /\ s.do \in {"cp_gather", "cp_output"}
         /\ Enter(r, on, rows, Tensor(r, "all_gather", on, "attn_cp", <<Len(rows)>>))
  BY ReadyFacts DEF Gather, Do, Current
<1>2. s.do \in Meetings  BY <1>1 DEF Meetings, Gathers
<1>3. b = [a EXCEPT ![s.on] = After(r, s)]  BY <1>2, ReadyFacts
<1>4. HasRows(rows, Before(r, s))  BY <1>2, ReadyRows
<1>5. Len(rows) = Before(r, s)  BY <1>4, RowsLen
<1>6. "tp" \in Grouped /\ "attn_cp" \in Grouped /\ "all_gather" \in Exchanges
  BY DEF Grouped, Exchanges
<1>7. During(r, s) = Before(r, s) /\ Entry(r, s) # Idle /\ Enter(r, on, rows, Entry(r, s))
  <2>1. CASE s.do = "gather" /\ Enter(r, on, rows, Tensor(r, "all_gather", on, "tp", <<Len(rows)>>))
    <3>1. /\ Before(r, s) = Padded(r) /\ During(r, s) = Padded(r)
          /\ Entry(r, s) = Exchanging(r, "all_gather", s.on, "tp", <<Padded(r)>>)
      BY <2>1, Tables
    <3>2. Tensor(r, "all_gather", on, "tp", <<Len(rows)>>)
            = Exchanging(r, "all_gather", on, "tp", <<Len(rows)>>)
      BY <1>6, ReadyCalls
    <3> HIDE DEF rows
    <3> QED  BY <1>5, <1>6, <2>1, <3>1, <3>2, Entered
  <2>2. CASE s.do = "gatherv" /\ Enter(r, on, rows, TensorV(r, "all_gather", on, "tp", AllRows))
    <3>1. /\ Before(r, s) = Full(r) /\ During(r, s) = Full(r)
          /\ Entry(r, s) = BySizes(r, "all_gather", s.on, "tp", AllRows)
      BY <2>2, Tables
    <3>2. TensorV(r, "all_gather", on, "tp", AllRows) = BySizes(r, "all_gather", on, "tp", AllRows)
      BY <1>6, ReadyCalls
    <3> HIDE DEF rows
    <3> QED  BY <1>6, <2>2, <3>1, <3>2, Entered
  <2>3. CASE /\ s.do \in {"cp_gather", "cp_output"}
             /\ Enter(r, on, rows, Tensor(r, "all_gather", on, "attn_cp", <<Len(rows)>>))
    <3>1. /\ Before(r, s) = Local(r) /\ During(r, s) = Local(r)
          /\ Entry(r, s) = Exchanging(r, "all_gather", s.on, "attn_cp", <<Local(r)>>)
      BY <2>3, Tables
    <3>2. Tensor(r, "all_gather", on, "attn_cp", <<Len(rows)>>)
            = Exchanging(r, "all_gather", on, "attn_cp", <<Len(rows)>>)
      BY <1>6, ReadyCalls
    <3> HIDE DEF rows
    <3> QED  BY <1>5, <1>6, <2>3, <3>1, <3>2, Entered
  <2> QED  BY <1>1, <2>1, <2>2, <2>3
<1> QED  BY <1>3, <1>4, <1>7, EnterComes

LEMMA ExpertsComes ==
  ASSUME NEW r, NEW s, NEW a, NEW b, Ready(r, s, a, b), Experts(r)
  PROVE  Comes(r, s, b)
<1> DEFINE rows == [k \in DOMAIN buf[r].x |-> Routed(r, k)]
           partial == Each(rows, LAMBDA row : Expert(r, row))
<1>1. /\ s.do = "experts"
      /\ IF conf.a2a THEN Enter(r, "x", rows, Tensor(r, "a2a", "x", "moe_ep", << >>))
         ELSE EnterReduce(r, "x", partial, IF SumLeftOut THEN Idle
                                           ELSE AllReduce(r, "tp", "x", Len(partial)))
  BY ReadyFacts DEF Experts, Do, Current
<1>2. s.do \in Meetings /\ s.do \notin Gathers  BY <1>1 DEF Meetings, Gathers
<1>3. s.on = "x" /\ b = [a EXCEPT ![s.on] = After(r, s)]  BY <1>2, ReadyFacts DEF Apt
<1>4. HasRows(buf[r].x, Before(r, s))  BY <1>2, <1>3, ReadyRows
<1>5. /\ Before(r, s) = AtExperts(r) /\ During(r, s) = AtExperts(r)
      /\ After(r, s) = AtExperts(r) /\ Entry(r, s) = InExperts(r)
  BY <1>1, Tables
<1>6. DOMAIN rows = DOMAIN buf[r].x /\ rows = [k \in DOMAIN rows |-> rows[k]]  OBVIOUS
<1>7. DOMAIN partial = DOMAIN rows /\ partial = [k \in DOMAIN partial |-> partial[k]]  BY DEF Each
<1> HIDE DEF rows, partial
<1>8. HasRows(rows, AtExperts(r))  BY ONLY <1>4, <1>5, <1>6, MappedRows
<1>9. HasRows(partial, AtExperts(r)) /\ Len(partial) = AtExperts(r)  BY ONLY <1>7, <1>8, MappedRows
<1>10. "moe_ep" \in Grouped /\ "tp" \in Grouped  BY DEF Grouped
<1>11. CASE conf.a2a
  <2>1. Tensor(r, "a2a", "x", "moe_ep", << >>) = Exchanging(r, "a2a", "x", "moe_ep", << >>)
    BY <1>10, ReadyCalls
  <2>2. Entry(r, s) = Exchanging(r, "a2a", "x", "moe_ep", << >>)  BY <1>5, <1>11 DEF InExperts
  <2>3. Enter(r, s.on, rows, Entry(r, s))  BY <1>1, <1>3, <1>11, <2>1, <2>2
  <2> QED  BY <1>3, <1>5, <1>8, <2>3, EnterComes
<1>12. CASE ~conf.a2a
  <2>1. AllReduce(r, "tp", "x", Len(partial)) = Reducing(r, "tp", "x", Len(partial))
    BY <1>10, ReadyCalls
  <2>2. Entry(r, s) = IF SumLeftOut THEN Idle ELSE Reducing(r, "tp", "x", AtExperts(r))
    BY <1>5, <1>12 DEF InExperts
  <2>3. EnterReduce(r, s.on, partial, Entry(r, s))
    <3>1. CASE SumLeftOut  BY <1>1, <1>3, <1>12, <2>2, <3>1
    <3>2. CASE ~SumLeftOut  BY <1>1, <1>3, <1>9, <1>12, <2>1, <2>2, <3>2
    <3> QED  BY <3>1, <3>2
  <2> QED  BY <1>3, <1>5, <1>9, <2>3, ReduceComes
<1> QED  BY <1>11, <1>12

LEMMA SplitComes ==
  ASSUME NEW r, NEW s, NEW a, NEW b, Ready(r, s, a, b), GatherSplit(r)
  PROVE  Comes(r, s, b)
<1> DEFINE call == Call("all_gather", "x", Backing(conf).attn_tp, Kind(r, "attn_tp"),
                        "device", SplitSizes(RowsOf(Replica(r)), AttnTp(conf)))
<1>1. s.do = "gather_split" /\ Enter(r, "x", buf[r].x, call)
  BY ReadyFacts DEF GatherSplit, Do, Current
<1>2. s.do \in Meetings /\ s.do \notin Gathers  BY <1>1 DEF Meetings, Gathers
<1>3. s.on = "x" /\ b = [a EXCEPT ![s.on] = After(r, s)]  BY <1>2, ReadyFacts DEF Apt
<1>4. HasRows(buf[r].x, Before(r, s))  BY <1>2, <1>3, ReadyRows
<1>5. Before(r, s) = PartOf(r) /\ During(r, s) = PartOf(r) /\ Entry(r, s) = Parting(r)
  BY <1>1, Tables
<1>6. Kind(r, "attn_tp") = Home(r, "attn_tp")  BY ReadyFacts DEF Grouped
<1>7. call = Parting(r)  BY <1>6 DEF Parting, Full
<1>8. Parting(r) # Idle
  <2>1. Parting(r).do = "all_gather"  BY CallFields DEF Parting
  <2>2. Idle.do = "idle"  BY DEF Idle, Step
  <2> QED  BY <2>1, <2>2
<1> HIDE DEF call
<1> QED  BY <1>1, <1>3, <1>4, <1>5, <1>7, <1>8, EnterComes

LEMMA CombineComes ==
  ASSUME NEW r, NEW s, NEW a, NEW b, Ready(r, s, a, b), Combine(r)
  PROVE  Comes(r, s, b)
<1> DEFINE rows == buf[r].x
<1>1. \/ /\ s.do = "cp_reduce_scatter"
         /\ Enter(r, "x", rows, Tensor(r, "reduce_scatter", "x", "attn_cp", Equal(Len(rows), conf.cp)))
      \/ /\ s.do = "combine"
         /\ IF DpReduceScatterV \/ ReduceScatterV
            THEN Enter(r, "x", rows, TensorV(r, "reduce_scatter", "x", "tp", AllRows))
            ELSE IF ReduceScatter
            THEN Enter(r, "x", rows, Tensor(r, "reduce_scatter", "x", "tp", Equal(Len(rows), conf.tp)))
            ELSE Enter(r, "x", Chunk(rows, AllRows, Replica(r) + 1), Idle)
  BY ReadyFacts DEF Combine, Do, Current
<1>2. s.do \in Meetings /\ s.do \notin Gathers  BY <1>1 DEF Meetings, Gathers
<1>3. s.on = "x" /\ b = [a EXCEPT ![s.on] = After(r, s)]  BY <1>2, ReadyFacts DEF Apt
<1>4. HasRows(rows, Before(r, s)) /\ Len(rows) = Before(r, s)
  <2>1. HasRows(rows, Before(r, s))  BY <1>2, <1>3, ReadyRows
  <2> QED  BY <2>1, RowsLen
<1>5. "tp" \in Grouped /\ "attn_cp" \in Grouped /\ "reduce_scatter" \in Exchanges
  BY DEF Grouped, Exchanges
<1> HIDE DEF rows
<1>6. CASE /\ s.do = "cp_reduce_scatter"
           /\ Enter(r, "x", rows, Tensor(r, "reduce_scatter", "x", "attn_cp", Equal(Len(rows), conf.cp)))
  <2>1. /\ Before(r, s) = conf.cp * Local(r) /\ During(r, s) = conf.cp * Local(r)
        /\ Entry(r, s) = Exchanging(r, "reduce_scatter", "x", "attn_cp",
                                    Equal(conf.cp * Local(r), conf.cp))
    BY <1>6, Tables
  <2>2. Tensor(r, "reduce_scatter", "x", "attn_cp", Equal(Len(rows), conf.cp))
          = Exchanging(r, "reduce_scatter", "x", "attn_cp", Equal(Len(rows), conf.cp))
    BY <1>5, ReadyCalls
  <2>3. Entry(r, s) # Idle  BY <1>5, <2>1, Entered
  <2>4. Enter(r, s.on, rows, Entry(r, s))  BY <1>3, <1>4, <1>6, <2>1, <2>2
  <2>5. HasRows(rows, During(r, s))  BY <1>4, <2>1
  <2> QED  BY <1>3, <2>3, <2>4, <2>5, EnterComes
<1>7. CASE s.do = "combine"
  <2>1. Before(r, s) = Total /\ During(r, s) = Total /\ After(r, s) = Full(r) /\ Entry(r, s) = InCombine(r)
    BY <1>7, Tables
  <2>2. IF DpReduceScatterV \/ ReduceScatterV
        THEN Enter(r, "x", rows, TensorV(r, "reduce_scatter", "x", "tp", AllRows))
        ELSE IF ReduceScatter
        THEN Enter(r, "x", rows, Tensor(r, "reduce_scatter", "x", "tp", Equal(Len(rows), conf.tp)))
        ELSE Enter(r, "x", Chunk(rows, AllRows, Replica(r) + 1), Idle)
    BY <1>1, <1>7
  <2>3. CASE DpReduceScatterV \/ ReduceScatterV
    <3>1. Entry(r, s) = BySizes(r, "reduce_scatter", "x", "tp", AllRows)  BY <2>1, <2>3 DEF InCombine
    <3>2. TensorV(r, "reduce_scatter", "x", "tp", AllRows) = BySizes(r, "reduce_scatter", "x", "tp", AllRows)
      BY <1>5, ReadyCalls
    <3>3. Entry(r, s) # Idle  BY <1>5, <3>1, Entered
    <3>4. Enter(r, s.on, rows, Entry(r, s))  BY <1>3, <2>2, <2>3, <3>1, <3>2
    <3>5. HasRows(rows, During(r, s))  BY <1>4, <2>1
    <3> QED  BY <1>3, <3>3, <3>4, <3>5, EnterComes
  <2>4. CASE ~(DpReduceScatterV \/ ReduceScatterV) /\ ReduceScatter
    <3>1. Entry(r, s) = Exchanging(r, "reduce_scatter", "x", "tp", Equal(Total, conf.tp))
      BY <2>1, <2>4 DEF InCombine
    <3>2. Tensor(r, "reduce_scatter", "x", "tp", Equal(Len(rows), conf.tp))
            = Exchanging(r, "reduce_scatter", "x", "tp", Equal(Len(rows), conf.tp))
      BY <1>5, ReadyCalls
    <3>3. Entry(r, s) # Idle  BY <1>5, <3>1, Entered
    <3>4. Enter(r, s.on, rows, Entry(r, s))  BY <1>3, <1>4, <2>1, <2>2, <2>4, <3>1, <3>2
    <3>5. HasRows(rows, During(r, s))  BY <1>4, <2>1
    <3> QED  BY <1>3, <3>3, <3>4, <3>5, EnterComes
  <2>5. CASE ~(DpReduceScatterV \/ ReduceScatterV) /\ ~ReduceScatter
    <3> DEFINE chunk == Chunk(rows, AllRows, Replica(r) + 1)
    <3>1. Entry(r, s) = Idle  BY <2>1, <2>5 DEF InCombine
    <3>2. AllRows[Replica(r) + 1] = Full(r) /\ Full(r) \in Nat
      <4>1. conf \in Layouts /\ r \in Ranks  BY ReadyFacts
      <4>2. Replica(r) \in 0 .. conf.dp - 1  BY <4>1, PlaceFacts
      <4>3. AllRows[Replica(r) + 1] = RowsOf(Replica(r)) /\ RowsOf(Replica(r)) \in Nat
        BY <4>1, <4>2, RowsNat
      <4> QED  BY <4>3 DEF Full
    <3>3. chunk = [k \in 1 .. Full(r) |-> rows[Start(AllRows, Replica(r) + 1) + k]]
      BY <3>2 DEF Chunk
    <3> HIDE DEF chunk
    <3>4. HasRows(chunk, Full(r))  BY <3>2, <3>3 DEF HasRows
    <3>5. Enter(r, s.on, chunk, Entry(r, s))  BY <1>3, <2>2, <2>5, <3>1 DEF chunk
    <3> QED  BY <1>3, <2>1, <3>1, <3>4, <3>5, EnterComes
  <2> QED  BY <2>3, <2>4, <2>5
<1> QED  BY <1>1, <1>6, <1>7

\* Steps that leave the buffers as they are.
LEMMA KeepComes ==
  ASSUME NEW r, NEW s, NEW a, NEW b, Ready(r, s, a, b), KeepShared(r) \/ Send(r) \/ Release(r)
  PROVE  Comes(r, s, b)
<1>1. /\ s.do \in {"shared", "send", "release"} /\ buf' = buf /\ waits' = waits
  BY ReadyFacts DEF KeepShared, Send, Release, Do, Current, data, links
<1>2. s.do \notin Meetings \cup {"recv"} \cup SetUpTasks \cup {"embed", "unpack", "split"}
  BY <1>1 DEF Meetings, Gathers, SetUpTasks
<1>3. b = a  BY <1>1, <1>2 DEF Ready, Takes
<1>4. waits'[r] = Idle /\ HasBoth(buf'[r], b)  BY <1>1, <1>3 DEF Ready
<1> QED  BY <1>1, <1>2, <1>4, ReadyRows, AloneComes

LEMMA AddComes ==
  ASSUME NEW r, NEW s, NEW a, NEW b, Ready(r, s, a, b), AddShared(r)
  PROVE  Comes(r, s, b)
<1> DEFINE sum == Add(buf[r].x, SubSeq(kept[r], 1, Len(buf[r].x)))
           rows == IF kept[r] = << >> THEN buf[r].x ELSE sum
<1>1. s.do = "add_shared" /\ Enter(r, "x", rows, Idle)
  BY ReadyFacts DEF AddShared, Do, Current
<1>2. s.do \notin Meetings \cup {"recv"} \cup SetUpTasks \cup {"embed", "unpack", "split", "send"}
  BY <1>1 DEF Meetings, Gathers, SetUpTasks
<1>3. b = a  BY <1>1, <1>2 DEF Ready, Takes
<1>4. HasRows(buf[r].x, a.x) /\ HasRows(buf[r].ids, a.ids)  BY ReadyRows
<1>5. HasRows(rows, a.x)
  <2>1. DOMAIN sum = DOMAIN buf[r].x /\ sum = [k \in DOMAIN sum |-> sum[k]]  BY DEF Add
  <2> HIDE DEF sum
  <2>2. HasRows(sum, a.x)  BY <1>4, <2>1, MappedRows
  <2> QED  BY <1>4, <2>2
<1> HIDE DEF rows
<1>6. r \in Ranks /\ DOMAIN waits = Ranks /\ DOMAIN buf = Ranks /\ DOMAIN buf[r] = {"x", "ids"}
  BY ReadyFacts, ReadyRows
<1>7. buf' = [buf EXCEPT ![r]["x"] = rows] /\ waits' = [waits EXCEPT ![r] = Idle]  BY <1>1 DEF Enter
<1>8. /\ waits'[r] = Idle /\ DOMAIN buf' = Ranks /\ DOMAIN buf'[r] = {"x", "ids"}
      /\ \A q \in Ranks \ {r} : buf'[q] = buf[q]
      /\ buf'[r]["x"] = rows /\ buf'[r]["ids"] = buf[r]["ids"]
  BY ONLY <1>6, <1>7
<1>9. HasBoth(buf'[r], b)  BY <1>3, <1>4, <1>5, <1>8 DEF HasBoth
<1> QED  BY <1>2, <1>8, <1>9, AloneComes

LEMMA OwnRows ==
  ASSUME conf \in Layouts, NEW r \in Ranks, NEW p, NEW kind
  PROVE  HasRows(AsRows(Own(r, p), kind), Full(r))
<1> DEFINE tokens == Own(r, p)  rows == AsRows(tokens, kind)
<1>1. Full(r) \in Nat  BY SizesNat
<1>2. HasRows(tokens, Full(r))  BY <1>1 DEF HasRows, Own, Full
<1>3. DOMAIN rows = DOMAIN tokens /\ rows = [k \in DOMAIN rows |-> rows[k]]  BY DEF AsRows, Each
<1> HIDE DEF tokens, rows
<1>4. HasRows(rows, Full(r))  BY ONLY <1>2, <1>3, MappedRows
<1> QED  BY <1>4 DEF tokens, rows

LEMMA EmbedComes ==
  ASSUME NEW r, NEW s, NEW a, NEW b, Ready(r, s, a, b), Embed(r)
  PROVE  Comes(r, s, b)
<1> DEFINE rows(kind) == AsRows(Own(r, s.arg[1]), kind)
           part(kind) == IF UseCp THEN Share(r, rows(kind)) ELSE rows(kind)
<1>1. /\ s.do = "embed" /\ waits' = waits
      /\ buf' = [buf EXCEPT ![r] = [x |-> part("hidden"), ids |-> part("id")]]
  BY ReadyFacts DEF Embed, Do, Current
<1>2. conf \in Layouts /\ r \in Ranks  BY ReadyFacts
<1>3. s.do \notin Meetings \cup {"recv"} \cup SetUpTasks
                  \cup {"shared", "add_shared", "release", "send", "unpack", "split"}
  BY <1>1 DEF Meetings, Gathers, SetUpTasks
<1>4. b = [x |-> Local(r), ids |-> Local(r)]  BY <1>1, <1>3 DEF Ready, Takes
<1>5. ASSUME NEW kind  PROVE HasRows(part(kind), Local(r))
  <2> DEFINE q == rows(kind)
  <2>1. HasRows(q, Full(r))  BY <1>2, OwnRows
  <2> HIDE DEF q
  <2>2. Len(q) = Full(r)  BY <2>1, RowsLen
  <2>3. conf.cp \in Nat \ {0} /\ Local(r) \in Nat /\ (conf.cp = 1 => Local(r) = Full(r))
    BY <1>2, LayoutFacts, SizesNat
  <2>4. CASE UseCp
    <3>1. part(kind) = Share(r, q)  BY <2>4 DEF q
    <3>2. Share(r, q) = [k \in 1 .. Local(r) |-> q[(k - 1) * conf.cp + Place(conf, r).cp + 1]]
      BY <2>2 DEF Share, Local
    <3> HIDE DEF part
    <3> QED  BY <2>3, <3>1, <3>2 DEF HasRows
  <2>5. CASE ~UseCp
    <3>1. conf.cp = 1
      <4>1. ~(conf.cp > 1)  BY <2>5 DEF UseCp
      <4> QED  BY <2>3, <4>1
    <3>2. part(kind) = q  BY <2>5 DEF q
    <3> HIDE DEF part
    <3> QED  BY <2>1, <2>3, <3>1, <3>2
  <2> QED  BY <2>4, <2>5
<1> DEFINE h == part("hidden")  i == part("id")
<1>6. HasRows(h, Local(r)) /\ HasRows(i, Local(r))  BY <1>5
<1>7. buf' = [buf EXCEPT ![r] = [x |-> h, ids |-> i]]  BY <1>1
<1> HIDE DEF part, h, i
<1>8. DOMAIN buf = Ranks  BY ReadyRows
<1>9. /\ DOMAIN buf' = Ranks /\ DOMAIN buf'[r] = {"x", "ids"}
      /\ \A q \in Ranks \ {r} : buf'[q] = buf[q]
      /\ buf'[r]["x"] = h /\ buf'[r]["ids"] = i
  BY ONLY <1>2, <1>7, <1>8
<1>10. waits'[r] = Idle  BY <1>1 DEF Ready
<1>11. HasBoth(buf'[r], b)  BY <1>4, <1>6, <1>9 DEF HasBoth
<1> QED  BY <1>3, <1>9, <1>10, <1>11, AloneComes

LEMMA PartComes ==
  ASSUME NEW r, NEW s, NEW a, NEW b, Ready(r, s, a, b), SplitRows(r)
  PROVE  Comes(r, s, b)
<1> DEFINE part(rows) == Chunk(rows, SplitSizes(Len(rows), AttnTp(conf)), InGroup(r, "attn_tp"))
<1>1. /\ s.do = "split" /\ waits' = waits
      /\ buf' = [buf EXCEPT ![r] = [x |-> part(@.x), ids |-> part(@.ids)]]
  BY ReadyFacts DEF SplitRows, Do, Current
<1>2. conf \in Layouts /\ r \in Ranks  BY ReadyFacts
<1>3. s.do \notin Meetings \cup {"recv"} \cup SetUpTasks
                  \cup {"shared", "add_shared", "release", "send", "unpack", "embed"}
  BY <1>1 DEF Meetings, Gathers, SetUpTasks
<1>4. a = [x |-> Full(r), ids |-> Full(r)] /\ b = [x |-> PartOf(r), ids |-> PartOf(r)]
  BY <1>1, <1>3 DEF Ready, Takes
<1>5. InGroup(r, "attn_tp") = IndexOf(Home(r, "attn_tp"), r)  BY ReadyFacts DEF Grouped
<1>6. PartOf(r) \in Nat  BY <1>2, SizesNat
<1>7. ASSUME NEW rows, Len(rows) = Full(r)  PROVE HasRows(part(rows), PartOf(r))
  <2> DEFINE at == InGroup(r, "attn_tp")  sizes == SplitSizes(Len(rows), AttnTp(conf))
  <2>1. sizes[at] = PartOf(r)  BY <1>5, <1>7 DEF PartOf
  <2> HIDE DEF at, sizes
  <2>2. Chunk(rows, sizes, at) = [k \in 1 .. PartOf(r) |-> rows[Start(sizes, at) + k]]
    BY <2>1 DEF Chunk
  <2>3. HasRows(Chunk(rows, sizes, at), PartOf(r))  BY <1>6, <2>2 DEF HasRows
  <2> QED  BY <2>3 DEF at, sizes
<1> DEFINE h == part(buf[r].x)  i == part(buf[r].ids)
<1>8. Len(buf[r]["x"]) = Full(r) /\ Len(buf[r]["ids"]) = Full(r)
  <2>1. a["x"] = Full(r) /\ a["ids"] = Full(r)  BY <1>4
  <2> QED  BY <2>1, ReadyRows
<1>9. HasRows(h, PartOf(r)) /\ HasRows(i, PartOf(r))  BY <1>7, <1>8
<1>10. buf' = [buf EXCEPT ![r] = [x |-> h, ids |-> i]]  BY <1>1
<1> HIDE DEF part, h, i
<1>11. DOMAIN buf = Ranks  BY ReadyRows
<1>12. /\ DOMAIN buf' = Ranks /\ DOMAIN buf'[r] = {"x", "ids"}
       /\ \A q \in Ranks \ {r} : buf'[q] = buf[q]
       /\ buf'[r]["x"] = h /\ buf'[r]["ids"] = i
  BY ONLY <1>2, <1>10, <1>11
<1>13. waits'[r] = Idle  BY <1>1 DEF Ready
<1>14. HasBoth(buf'[r], b)  BY <1>4, <1>9, <1>12 DEF HasBoth
<1> QED  BY <1>3, <1>12, <1>13, <1>14, AloneComes

LEMMA UnpackComes ==
  ASSUME NEW r, NEW s, NEW a, NEW b, Ready(r, s, a, b), Unpack(r)
  PROVE  Comes(r, s, b)
<1> DEFINE on == s.on  width == Width(on)  rows == RowsIn(buf[r][on], width)
           ids == AsRows(Own(r, s.arg[1]), "id")
<1>1. /\ s.do = "unpack" /\ waits' = waits
      /\ buf' = [buf EXCEPT ![r][on] = rows, ![r].ids = IF on = "x" THEN ids ELSE @]
  BY ReadyFacts DEF Unpack, Do, Current
<1>2. conf \in Layouts /\ r \in Ranks /\ on \in {"x", "ids"} /\ a \in Sizes
  BY ReadyFacts DEF Ready
<1>3. s.do \notin Meetings \cup {"recv"} \cup SetUpTasks
                  \cup {"shared", "add_shared", "release", "send", "split", "embed"}
  BY <1>1 DEF Meetings, Gathers, SetUpTasks
<1>4. /\ a[on] = Flat(r, on)
      /\ b = IF on = "x" THEN [x |-> Local(r), ids |-> Full(r)]
             ELSE [a EXCEPT !.ids = Came(r, "ids")]
  BY <1>1, <1>3 DEF Ready, Takes
<1>5. Came(r, on) \in Nat /\ width \in Nat \ {0}  BY <1>2, SizesNat, WidthNat
<1>6. HasRows(rows, Came(r, on))
  <2>1. Len(buf[r][on]) = a[on]  BY <1>2, ReadyRows
  <2>2. a[on] = Came(r, on) * width  BY <1>4 DEF Flat
  <2> DEFINE c == Came(r, on)  z == 0
  <2>3. z \in 0 .. width - 1
    <3> HIDE DEF width
    <3> QED  BY <1>5
  <2>4. c \in Int  BY <1>5
  <2> HIDE DEF c, width, z
  <2>5. (c * width) \div width = c  BY ONLY <1>5, <2>3, <2>4, DivSimple
  <2>6. Len(buf[r][on]) \div width = c  BY ONLY <2>1, <2>2, <2>5 DEF c
  <2>7. DOMAIN rows = 1 .. c /\ rows = [k \in DOMAIN rows |-> rows[k]]  BY <2>6 DEF RowsIn
  <2> HIDE DEF rows
  <2> QED  BY <1>5, <2>7 DEF HasRows, c
<1>7. HasRows(ids, Full(r))  BY <1>2, OwnRows
<1> HIDE DEF on, rows, ids
<1>8. DOMAIN buf = Ranks /\ DOMAIN buf[r] = {"x", "ids"} /\ HasRows(buf[r]["x"], a["x"])
  BY ReadyRows
<1>9. waits'[r] = Idle  BY <1>1 DEF Ready
<1>10. /\ DOMAIN buf' = Ranks /\ DOMAIN buf'[r] = {"x", "ids"}
       /\ \A q \in Ranks \ {r} : buf'[q] = buf[q]
       /\ on = "x" => buf'[r]["x"] = rows /\ buf'[r]["ids"] = ids
       /\ on = "ids" => buf'[r]["x"] = buf[r]["x"] /\ buf'[r]["ids"] = rows
  BY ONLY <1>1, <1>2, <1>8
<1>11. HasBoth(buf'[r], b)
  <2>1. CASE on = "x"
    <3>1. b["x"] = Local(r) /\ b["ids"] = Full(r) /\ Came(r, on) = Local(r)
      BY <1>4, <2>1 DEF Came
    <3> QED  BY <1>6, <1>7, <1>10, <2>1, <3>1 DEF HasBoth
  <2>2. CASE on = "ids"
    <3>1. b["x"] = a["x"] /\ b["ids"] = Came(r, on)
      <4>1. b = [a EXCEPT !["ids"] = Came(r, "ids")]  BY <1>4, <2>2
      <4> QED  BY ONLY <1>2, <2>2, <4>1 DEF Sizes
    <3> QED  BY <1>6, <1>8, <1>10, <2>2, <3>1 DEF HasBoth
  <2> QED  BY <1>2, <2>1, <2>2
<1> QED  BY <1>3, <1>9, <1>10, <1>11, AloneComes

\* What is under way over a link: numbers of rows, all n, and tensors.
Link(under, n) ==
  /\ DOMAIN under = {"cpu", "device"} /\ under["cpu"] \in Seq({n})
  /\ \E S : under["device"] \in Seq(S) /\ \A tensor \in S : HasRows(tensor, Len(tensor))
Wired ==
  /\ DOMAIN wire = Ranks
  /\ \A r \in Ranks : DOMAIN wire[r] = Ranks /\ \A q \in Ranks : Link(wire[r][q], Result(r))

\* A stage is sent the rows that it expects.
LEMMA ComesFrom ==
  ASSUME NEW r, NEW s, NEW a, NEW b, Ready(r, s, a, b), s.do = "recv"
  PROVE  /\ Neighbour(r, -1) \in Ranks /\ Result(Neighbour(r, -1)) = Came(r, s.on)
         /\ b = [a EXCEPT ![s.on] = Flat(r, s.on)]
<1> DEFINE from == Neighbour(r, -1)  list == Home(r, "pp")
<1>1. conf \in Layouts /\ r \in Ranks /\ s.on \in {"x", "ids"}  BY ReadyFacts
<1>2. s.do \notin Meetings \cup SetUpTasks
                  \cup {"shared", "add_shared", "release", "send", "split", "embed", "unpack"}
  BY DEF Meetings, Gathers, SetUpTasks
<1>3. (s.on = "x" <=> ~FirstStage(r)) /\ b = [a EXCEPT ![s.on] = Flat(r, s.on)]
  BY <1>2 DEF Ready, Takes
<1>4. "pp" \in Grouped  BY DEF Grouped
<1>5. Kind(r, "pp") = list /\ InGroup(r, "pp") = IndexOf(list, r)  BY <1>4, ReadyFacts
<1>6. Len(list) = conf.pp
  <2>1. Len(list) = Many("pp")  BY <1>1, <1>4, HomeFacts
  <2>2. Many("pp") = conf.pp  BY DEF Many
  <2> QED  BY <2>1, <2>2
<1> HIDE DEF list
<1>7. from = list[((IndexOf(list, r) - 1 + (-1)) % conf.pp) + 1]
  BY <1>5, <1>6 DEF Neighbour
<1> HIDE DEF from
<1>8. from \in Ranks /\ Replica(from) = Replica(r) /\ (LastStage(from) <=> FirstStage(r))
  <2>1. from = Home(r, "pp")[((IndexOf(Home(r, "pp"), r) - 1 + (-1)) % conf.pp) + 1]
    BY <1>7 DEF list
  <2> QED  BY ONLY <1>1, <2>1, Behind
<1>9. Local(from) = Local(r)  BY <1>1, <1>8, SizesShared
<1>10. Result(from) = Came(r, s.on)
  BY <1>1, <1>3, <1>8, <1>9 DEF Result, Came
<1> QED  BY <1>3, <1>8, <1>10 DEF from

LEMMA RecvComes ==
  ASSUME NEW r, NEW s, NEW a, NEW b, Ready(r, s, a, b), Wired, Recv(r)
  PROVE  Comes(r, s, b)
<1> DEFINE on == s.on  from == Neighbour(r, -1)  link == wire[from][r]
           size == Object(link.cpu) * Width(on)
           gather == Sliced(size) /\ AttnTp(conf) > 1
           call == IF gather THEN Tensor(r, "all_gather", on, "attn_tp", <<size>>) ELSE Idle
           rows == Head(link.device)
           none == << >>
<1>1. s.do = "recv"  BY ReadyFacts DEF Recv, Do, Current
<1>2. /\ link.cpu # << >>
      /\ IF size = 0 THEN Enter(r, on, none, Idle)
         ELSE /\ link.device # << >>
              /\ Len(rows) = IF gather THEN size \div AttnTp(conf) ELSE size
              /\ Enter(r, on, rows, call)
  BY ReadyFacts DEF Recv
<1>3. conf \in Layouts /\ r \in Ranks /\ on \in {"x", "ids"}  BY ReadyFacts
<1>4. from \in Ranks /\ Result(from) = Came(r, on) /\ b = [a EXCEPT ![on] = Flat(r, on)]
  BY <1>1, ComesFrom
<1> HIDE DEF on, from
<1>5. Link(link, Result(from))  BY <1>3, <1>4 DEF Wired
<1> HIDE DEF link
<1>6. size = Flat(r, on)
  <2>1. Object(link.cpu) = Result(from)
    <3> DEFINE q == link.cpu  n == Result(from)
    <3>1. q \in Seq({n}) /\ q # << >>  BY <1>2, <1>5 DEF Link
    <3> HIDE DEF q, n
    <3>2. Head(q) = n  BY <3>1
    <3> QED  BY <3>2 DEF Object, q, n
  <2> QED  BY <1>4, <2>1 DEF Flat
<1> HIDE DEF size
<1>7. size # 0 => HasRows(rows, Len(rows))
  <2> SUFFICES ASSUME size # 0  PROVE HasRows(rows, Len(rows))  OBVIOUS
  <2> DEFINE q == link.device
  <2>1. q # << >>  BY <1>2
  <2>2. PICK S : q \in Seq(S) /\ \A tensor \in S : HasRows(tensor, Len(tensor))
    BY <1>5 DEF Link
  <2> HIDE DEF q
  <2>3. Head(q) \in S  BY <2>1, <2>2
  <2> QED  BY <2>2, <2>3 DEF q
<1> HIDE DEF rows
<1>8. /\ During(r, s) = size \div AttnTp(conf) /\ After(r, s) = size
      /\ Entry(r, s) = IF size # 0 /\ gather
                       THEN Exchanging(r, "all_gather", on, "attn_tp", <<size>>) ELSE Idle
  BY <1>1, <1>6, Tables DEF InRecv, on
<1>9. Tensor(r, "all_gather", on, "attn_tp", <<size>>)
        = Exchanging(r, "all_gather", on, "attn_tp", <<size>>)
  <2>1. "attn_tp" \in Grouped  BY DEF Grouped
  <2> QED  BY <2>1, ReadyCalls
<1>10. Exchanging(r, "all_gather", on, "attn_tp", <<size>>) # Idle
  <2>1. "all_gather" \in Exchanges  BY DEF Exchanges
  <2> DEFINE arg == <<size>>
  <2> HIDE DEF arg
  <2>2. Exchanging(r, "all_gather", on, "attn_tp", arg) # Idle  BY <2>1, Entered
  <2> QED  BY <2>2 DEF arg
<1> HIDE DEF gather
<1>11. b = [a EXCEPT ![s.on] = After(r, s)]  BY <1>4, <1>6, <1>8 DEF on
<1>12. CASE size = 0
  <2>1. Entry(r, s) = Idle /\ Enter(r, s.on, none, Entry(r, s))  BY <1>2, <1>8, <1>12 DEF on
  <2>2. HasRows(none, 0)
    <3>1. 1 .. 0 = {} /\ none = [k \in {} |-> none[k]]  OBVIOUS
    <3> QED  BY <3>1 DEF HasRows
  <2> HIDE DEF none
  <2> QED  BY <1>8, <1>11, <1>12, <2>1, <2>2, EnterComes
<1>13. CASE size # 0
  <2>1. /\ Len(rows) = IF gather THEN size \div AttnTp(conf) ELSE size
        /\ Enter(r, s.on, rows, Entry(r, s))
    BY <1>2, <1>8, <1>9, <1>13 DEF on
  <2>2. HasRows(rows, IF Entry(r, s) = Idle THEN After(r, s) ELSE During(r, s))
    BY <1>7, <1>8, <1>10, <1>13, <2>1
  <2> QED  BY <1>11, <2>1, <2>2, EnterComes
<1> QED  BY <1>12, <1>13

\* Every step of serving takes a rank to the rows that its program expects.
LEMMA ServingComes ==
  ASSUME NEW r, NEW s, NEW a, NEW b, Ready(r, s, a, b), Wired, RankServes(r)
  PROVE  Comes(r, s, b)
<1>1. CASE Embed(r)  BY <1>1, EmbedComes
<1>2. CASE Attend(r)  BY <1>2, AttendComes
<1>3. CASE KeepShared(r) \/ Send(r) \/ Release(r)  BY <1>3, KeepComes
<1>4. CASE PlaceRows(r)  BY <1>4, PlaceComes
<1>5. CASE ZeroScatter(r)  BY <1>5, ScatterComes
<1>6. CASE Gather(r)  BY <1>6, GatherComes
<1>7. CASE SplitRows(r)  BY <1>7, PartComes
<1>8. CASE Experts(r)  BY <1>8, ExpertsComes
<1>9. CASE Combine(r)  BY <1>9, CombineComes
<1>10. CASE AddShared(r)  BY <1>10, AddComes
<1>11. CASE GatherSplit(r)  BY <1>11, SplitComes
<1>12. CASE Recv(r)  BY <1>12, RecvComes
<1>13. CASE Unpack(r)  BY <1>13, UnpackComes
<1> QED  BY <1>1, <1>2, <1>3, <1>4, <1>5, <1>6, <1>7, <1>8, <1>9, <1>10, <1>11, <1>12, <1>13
         DEF RankServes

\* What follows from the layout stays as it is.
LEMMA StaticRows ==
  ASSUME conf' = conf, NEW r
  PROVE  /\ Full(r)' = Full(r) /\ Local(r)' = Local(r) /\ Padded(r)' = Padded(r) /\ Total' = Total
         /\ PartOf(r)' = PartOf(r) /\ AtExperts(r)' = AtExperts(r) /\ Result(r)' = Result(r)
         /\ \A on : Came(r, on)' = Came(r, on) /\ Flat(r, on)' = Flat(r, on)
         /\ FirstStage(r)' = FirstStage(r) /\ LastStage(r)' = LastStage(r)
         /\ MoeGather' = MoeGather /\ UseCp' = UseCp /\ AttnScatter' = AttnScatter
         /\ AllRows' = AllRows /\ \A kind : Home(r, kind)' = Home(r, kind)
<1>1. MoeGather' = MoeGather /\ UseCp' = UseCp /\ AttnScatter' = AttnScatter
  BY DEF MoeGather, UseCp, AttnScatter
<1>2. FirstStage(r)' = FirstStage(r) /\ LastStage(r)' = LastStage(r) /\ Replica(r)' = Replica(r)
  BY DEF FirstStage, LastStage, Replica
<1>3. MaxRows' = MaxRows  BY DEF MaxRows
<1>4. \A d : RowsOf(d)' = RowsOf(d)  BY <1>1, <1>3 DEF RowsOf
<1>5. Full(r)' = Full(r)  BY <1>2, <1>4 DEF Full
<1>6. Local(r)' = Local(r) /\ Padded(r)' = Padded(r)  BY <1>5 DEF Local, Padded
<1>7. AllRows' = AllRows  BY <1>4 DEF AllRows
<1>8. Total' = Total  BY <1>3, <1>7 DEF Total
<1>9. \A kind : Many(kind)' = Many(kind) /\ Apart(kind)' = Apart(kind)  BY DEF Many, Apart
<1>10. \A kind : Home(r, kind)' = Home(r, kind)  BY <1>9 DEF Home
<1>11. PartOf(r)' = PartOf(r)  BY <1>5, <1>10 DEF PartOf
<1>12. AtExperts(r)' = AtExperts(r)  BY <1>1, <1>6, <1>8, <1>11 DEF AtExperts
<1>13. Result(r)' = Result(r)  BY <1>2, <1>6 DEF Result
<1>14. \A on : Came(r, on)' = Came(r, on)  BY <1>6 DEF Came
<1>15. \A on : Flat(r, on)' = Flat(r, on)  BY <1>14 DEF Flat
<1> QED  BY <1>1, <1>2, <1>5, <1>6, <1>7, <1>8, <1>10, <1>11, <1>12, <1>13, <1>14, <1>15

LEMMA StaticSteps ==
  ASSUME conf' = conf, NEW r, NEW s
  PROVE  /\ Before(r, s)' = Before(r, s) /\ During(r, s)' = During(r, s) /\ After(r, s)' = After(r, s)
         /\ Apt(s)' = Apt(s) /\ Sound(s)' = Sound(s) /\ Entry(r, s)' = Entry(r, s)
         /\ \A a, b : Takes(r, s, a, b)' = Takes(r, s, a, b)
<1>1. /\ Full(r)' = Full(r) /\ Local(r)' = Local(r) /\ Padded(r)' = Padded(r) /\ Total' = Total
      /\ PartOf(r)' = PartOf(r) /\ AtExperts(r)' = AtExperts(r) /\ Result(r)' = Result(r)
      /\ \A on : Came(r, on)' = Came(r, on) /\ Flat(r, on)' = Flat(r, on)
      /\ FirstStage(r)' = FirstStage(r)
      /\ MoeGather' = MoeGather /\ UseCp' = UseCp /\ AttnScatter' = AttnScatter
      /\ AllRows' = AllRows /\ \A kind : Home(r, kind)' = Home(r, kind)
  BY StaticRows
<1>2. Before(r, s)' = Before(r, s)  BY <1>1 DEF Before
<1>3. During(r, s)' = During(r, s)  BY <1>1, <1>2 DEF During
<1>4. After(r, s)' = After(r, s)  BY <1>1 DEF After
<1>5. Apt(s)' = Apt(s)  BY <1>1 DEF Apt
<1>6. Sound(s)' = Sound(s)  BY <1>5 DEF Sound
<1>7. \A a, b : Takes(r, s, a, b)' = Takes(r, s, a, b)  BY <1>1, <1>2, <1>4, <1>5 DEF Takes
<1>8. \A kind, on, size, do :
        /\ Reducing(r, kind, on, size)' = Reducing(r, kind, on, size)
        /\ Exchanging(r, do, on, kind, size)' = Exchanging(r, do, on, kind, size)
        /\ BySizes(r, do, on, kind, size)' = BySizes(r, do, on, kind, size)
  BY <1>1 DEF Reducing, Exchanging, BySizes
<1>9. AttnKind' = AttnKind /\ ReduceScatterV' = ReduceScatterV /\ ReduceScatter' = ReduceScatter
      /\ DpReduceScatterV' = DpReduceScatterV /\ SumLeftOut' = SumLeftOut
  <2>1. ReduceScatterV' = ReduceScatterV  BY <1>1 DEF ReduceScatterV
  <2>2. DpReduceScatterV' = DpReduceScatterV  BY DEF DpReduceScatterV
  <2>3. ReduceScatter' = ReduceScatter  BY <1>1, <2>1, <2>2 DEF ReduceScatter
  <2>4. SumLeftOut' = SumLeftOut  BY <1>1, <2>1, <2>2, <2>3 DEF SumLeftOut, MlpReduceScatter
  <2>5. AttnKind' = AttnKind  BY DEF AttnKind
  <2> QED  BY <2>1, <2>2, <2>3, <2>4, <2>5
<1>10. InExperts(r)' = InExperts(r)  BY <1>1, <1>8, <1>9 DEF InExperts
<1>11. InCombine(r)' = InCombine(r)  BY <1>1, <1>8, <1>9 DEF InCombine
<1>12. \A on : InRecv(r, on)' = InRecv(r, on)  BY <1>1, <1>8 DEF InRecv, Sliced
<1>13. Parting(r)' = Parting(r)  BY <1>1 DEF Parting
<1>14. Entry(r, s)' = Entry(r, s)  BY <1>1, <1>8, <1>9, <1>10, <1>11, <1>12, <1>13 DEF Entry
<1> QED  BY <1>2, <1>3, <1>4, <1>5, <1>6, <1>7, <1>14

LEMMA StaticFlow ==
  ASSUME conf' = conf, NEW r, NEW q, NEW a, NEW b
  PROVE  Flow(r, q, a, b)' = Flow(r, q, a, b)
<1>1. Steps' = Steps  BY DEF Steps, Building, Listed
<1>2. \A s, c, d : Takes(r, s, c, d)' = Takes(r, s, c, d)  BY StaticSteps
<1> QED  BY <1>1, <1>2 DEF Flow

LEMMA WiredInit == Init => Wired
<1> SUFFICES ASSUME Init  PROVE Wired
  OBVIOUS
<1>1. wire = [r \in Ranks |-> [s \in Ranks |-> Unused]]  BY DEF Init
<1>2. ASSUME NEW n  PROVE Link(Unused, n)
  <2> DEFINE none == << >>
  <2>1. DOMAIN Unused = {"cpu", "device"} /\ Unused["cpu"] = none /\ Unused["device"] = none
    BY DEF Unused
  <2>2. none \in Seq({n}) /\ none \in Seq({})  OBVIOUS
  <2> HIDE DEF none
  <2>3. \A tensor \in {} : HasRows(tensor, Len(tensor))  OBVIOUS
  <2> QED  BY <2>1, <2>2, <2>3 DEF Link
<1>3. DOMAIN wire = Ranks /\ \A r \in Ranks : DOMAIN wire[r] = Ranks /\ \A q \in Ranks : wire[r][q] = Unused
  BY <1>1
<1> QED  BY <1>2, <1>3 DEF Wired

LEMMA QueueAfter ==
  ASSUME NEW S, NEW q \in Seq(S), NEW e \in S, NEW p, p \in {q, Append(q, e), Tail(q)},
         p = Tail(q) => q # << >> \/ p = q
  PROVE  p \in Seq(S)
<1>1. CASE p = q  BY <1>1
<1>2. CASE p = Append(q, e)
  <2>1. Append(q, e) \in Seq(S)  OBVIOUS
  <2> QED  BY <1>2, <2>1
<1>3. CASE p = Tail(q) /\ q # << >>
  <2>1. Tail(q) \in Seq(S)  BY <1>3
  <2> QED  BY <1>3, <2>1
<1> QED  BY <1>1, <1>2, <1>3

LEMMA LinkAfter ==
  ASSUME NEW old, NEW n, Link(old, n), NEW new, DOMAIN new = {"cpu", "device"},
         new["cpu"] \in {old["cpu"], Append(old["cpu"], n), Tail(old["cpu"])},
         new["cpu"] = Tail(old["cpu"]) => old["cpu"] # << >>,
         NEW tensor, HasRows(tensor, Len(tensor)),
         new["device"] \in {old["device"], Append(old["device"], tensor), Tail(old["device"])},
         new["device"] = Tail(old["device"]) => old["device"] # << >> \/ new["device"] = old["device"]
  PROVE  Link(new, n)
<1> DEFINE c == old["cpu"]  d == old["device"]
<1>1. c \in Seq({n})  BY DEF Link
<1>2. PICK S : d \in Seq(S) /\ \A t \in S : HasRows(t, Len(t))  BY DEF Link
<1> HIDE DEF c, d
<1>3. new["cpu"] \in {c, Append(c, n), Tail(c)} /\ (new["cpu"] = Tail(c) => c # << >>)  BY DEF c
<1>4. new["cpu"] \in Seq({n})  
  <2>1. n \in {n}  OBVIOUS
  <2> QED  BY ONLY <1>1, <1>3, <2>1, QueueAfter
<1> DEFINE T == S \cup {tensor}
<1>5. \A t \in T : HasRows(t, Len(t))  BY <1>2
<1>6. d \in Seq(T) /\ tensor \in T  BY <1>2
<1> HIDE DEF T
<1>7. new["device"] \in {d, Append(d, tensor), Tail(d)} /\ (new["device"] = Tail(d) => d # << >> \/ new["device"] = d)
  BY DEF d
<1>8. new["device"] \in Seq(T)  BY ONLY <1>6, <1>7, QueueAfter
<1> QED  BY <1>4, <1>5, <1>8 DEF Link

\* What a stage sends.
LEMMA SendsRows ==
  ASSUME NEW r, NEW s, NEW a, NEW b, Ready(r, s, a, b), s.do = "send"
  PROVE  /\ Len(Output(r)) = Result(r)
         /\ LET elements == Elements(Output(r), Width(s.on))
            IN HasRows(Slice(r, elements), Len(Slice(r, elements)))
<1> DEFINE rows == Output(r)  width == Width(s.on)  elements == Elements(rows, width)
           slice == Slice(r, elements)
<1>1. s.do \notin Meetings \cup SetUpTasks
                  \cup {"shared", "add_shared", "release", "recv", "split", "embed", "unpack"}
  BY DEF Meetings, Gathers, SetUpTasks
<1>2. a.x = Result(r)  BY <1>1 DEF Ready, Takes
<1>3. HasRows(buf[r].x, Result(r))  BY <1>2, ReadyRows
<1>4. HasRows(rows, Result(r)) /\ Len(rows) = Result(r)
  <2> DEFINE q == Each(buf[r].x, LAMBDA row : Folded(row, "ffn", Shards \cup {conf.tp}))
  <2>1. DOMAIN q = DOMAIN buf[r].x /\ q = [k \in DOMAIN q |-> q[k]]  BY DEF Each
  <2>2. DOMAIN rows = DOMAIN q /\ rows = [k \in DOMAIN rows |-> rows[k]]
    BY <2>1 DEF Output
  <2> HIDE DEF q, rows
  <2>3. HasRows(q, Result(r))  BY ONLY <1>3, <2>1, MappedRows
  <2> QED  BY ONLY <2>2, <2>3, MappedRows
<1>5. width \in Nat \ {0}  BY WidthNat
<1> HIDE DEF rows, width
<1>6. HasRows(elements, Result(r) * width)
  <2> DEFINE pieces == Each(rows, LAMBDA row : [j \in 1 .. width |-> <<row, j>>])  m == Result(r)
  <2>1. m \in Nat /\ DOMAIN rows = 1 .. m  BY <1>4, RowsLen
  <2>2. /\ DOMAIN pieces = 1 .. m /\ pieces = [i \in 1 .. m |-> pieces[i]]
        /\ \A i \in 1 .. m : pieces[i] = [j \in 1 .. width |-> <<rows[i], j>>]
    BY <2>1 DEF Each
  <2>3. elements = FlattenSeq(pieces)  BY DEF Elements
  <2> HIDE DEF pieces, m, elements
  <2>4. \A i \in 1 .. m : HasRows(pieces[i], width)  BY <1>5, <2>2 DEF HasRows
  <2>5. HasRows(FlattenSeq(pieces), m * width)
    <3>1. pieces = [i \in 1 .. m |-> pieces[i]] /\ width \in Nat  BY <1>5, <2>2
    <3> QED  BY ONLY <2>1, <2>4, <3>1, FlattenEqual
  <2> QED  BY <2>3, <2>5 DEF m
<1> HIDE DEF elements
<1>7. conf \in Layouts /\ r \in Ranks  BY ReadyFacts
<1>8. slice \in {elements, Chunk(elements, Equal(Len(elements), AttnTp(conf)), InGroup(r, "attn_tp"))}
  BY DEF Slice
<1> DEFINE e == Len(elements)  t == AttnTp(conf)  i == InGroup(r, "attn_tp")
<1>9. e \in Nat /\ HasRows(elements, e)
  <2>1. Len(elements) = Result(r) * width /\ Result(r) * width \in Nat  BY <1>6, RowsLen
  <2> QED  BY <1>6, <2>1
<1>10. i \in 1 .. t /\ t \in Nat \ {0}
  <2>1. "attn_tp" \in Grouped  BY DEF Grouped
  <2>2. i = IndexOf(Home(r, "attn_tp"), r)  BY <2>1, ReadyFacts
  <2>3. IndexOf(Home(r, "attn_tp"), r) \in 1 .. Many("attn_tp")  BY <1>7, <2>1, HomeFacts
  <2>4. Many("attn_tp") = t  BY DEF Many
  <2> HIDE DEF i, t
  <2>5. t \in Nat \ {0}  BY <1>7, LayoutFacts DEF t
  <2> QED  BY <2>2, <2>3, <2>4, <2>5
<1> HIDE DEF e, t, i
<1>11. Equal(e, t)[i] = e \div t /\ e \div t \in Nat
  <2>1. Equal(e, t)[i] = e \div t  BY <1>9, <1>10, SplitSizesNat
  <2>2. e \div t \in Nat  BY <1>9, <1>10, DivNat
  <2> QED  BY <2>1, <2>2
<1>12. HasRows(slice, Len(slice))
  <2> DEFINE sizes == Equal(e, t)  n == e \div t  chunk == Chunk(elements, sizes, i)
  <2>1. slice \in {elements, chunk}  BY <1>8 DEF e, t, i
  <2>2. sizes[i] = n /\ n \in Nat  BY <1>11
  <2> HIDE DEF slice, sizes, n
  <2>3. chunk = [k \in 1 .. n |-> elements[Start(sizes, i) + k]]  BY <2>2 DEF Chunk
  <2> HIDE DEF chunk
  <2>4. HasRows(chunk, n)  BY <2>2, <2>3 DEF HasRows
  <2>5. HasRows(chunk, Len(chunk))  BY <2>4, RowsLen
  <2> QED  BY <1>9, <2>1, <2>5 DEF e
<1> QED  BY <1>4, <1>12 DEF rows, width, elements, slice

LEMMA WiredServes ==
  ASSUME NEW r, NEW s, NEW a, NEW b, Ready(r, s, a, b), Wired, RankServes(r)
  PROVE  Wired'
<1>1. r \in Ranks /\ Current(r) = s /\ s.on \in {"x", "ids"}  BY ReadyFacts
<1>2. conf' = conf
  <2>1. Works(r)  BY <1>1, ServingWorks
  <2> QED  BY <2>1 DEF Works, Advances
<1>3. \A q : Result(q)' = Result(q)  BY <1>2, StaticRows
<1>4. SUFFICES /\ DOMAIN wire' = Ranks
               /\ \A q \in Ranks : DOMAIN wire'[q] = Ranks
               /\ \A q, p \in Ranks : Link(wire'[q][p], Result(q))
  <2>1. \A under, n : Link(under, n)' = Link(under, n)  BY DEF Link
  <2> QED  BY <1>3, <1>4, <2>1 DEF Wired
<1>5. CASE wire' = wire  BY <1>5 DEF Wired
<1>6. CASE Send(r)
  <2> DEFINE to == Neighbour(r, 1)  rows == Output(r)  elements == Elements(rows, Width(s.on))
             slice == Slice(r, elements)  old == wire[r][to]  n == Result(r)
             c == WithObject(old["cpu"], rows)
             d == IF elements = << >> THEN old["device"] ELSE Append(old["device"], slice)
  <2>1. /\ s.do = "send"
        /\ wire' = [wire EXCEPT ![r][to].cpu = c, ![r][to].device = d]
    BY <1>1, <1>6 DEF Send, Do, Current
  <2>2. Len(rows) = n /\ HasRows(slice, Len(slice))  BY <2>1, SendsRows
  <2>3. c = Append(old["cpu"], n)  BY <2>2 DEF WithObject
  <2>4. d \in {old["device"], Append(old["device"], slice)}  OBVIOUS
  <2> HIDE DEF slice, elements, rows, c, d, to, n
  <2>5. /\ DOMAIN wire = Ranks /\ \A q \in Ranks : DOMAIN wire[q] = Ranks
        /\ \A q, p \in Ranks : Link(wire[q][p], Result(q)) /\ DOMAIN wire[q][p] = {"cpu", "device"}
    BY DEF Wired, Link
  <2>6. /\ DOMAIN wire' = Ranks /\ \A q \in Ranks : DOMAIN wire'[q] = Ranks
        /\ \A q, p \in Ranks : q # r \/ p # to => wire'[q][p] = wire[q][p]
        /\ to \in Ranks => /\ DOMAIN wire'[r][to] = {"cpu", "device"}
                           /\ wire'[r][to]["cpu"] = c /\ wire'[r][to]["device"] = d
    BY ONLY <1>1, <2>1, <2>5
  <2>7. ASSUME to \in Ranks  PROVE Link(wire'[r][to], n)
    <3> DEFINE new == wire'[r][to]
    <3>1. Link(old, n)  BY <1>1, <2>5, <2>7 DEF n
    <3>2. DOMAIN new = {"cpu", "device"} /\ new["cpu"] = c /\ new["device"] = d  BY <2>6, <2>7
    <3> HIDE DEF new, old
    <3>3. old["cpu"] \in Seq({n}) /\ \E S : old["device"] \in Seq(S)  BY <3>1 DEF Link
    <3>4. new["cpu"] \in {old["cpu"], Append(old["cpu"], n), Tail(old["cpu"])}  BY <2>3, <3>2 DEF old
    <3>5. new["device"] \in {old["device"], Append(old["device"], slice), Tail(old["device"])}
      BY <2>4, <3>2 DEF old
    <3>6. Len(new["cpu"]) = Len(old["cpu"]) + 1
      BY <2>3, <3>2, <3>3 DEF old
    <3>7. new["cpu"] = Tail(old["cpu"]) => old["cpu"] # << >>
      <4> DEFINE q == old["cpu"]
      <4> HIDE DEF q
      <4>1. q = << >> => Len(q) = 0 /\ Tail(q) = << >>  OBVIOUS
      <4> QED  BY <3>6, <4>1 DEF q
    <3>8. new["device"] = Tail(old["device"]) => old["device"] # << >> \/ new["device"] = old["device"]
      <4> DEFINE q == old["device"]
      <4> HIDE DEF q
      <4>1. q = << >> => Tail(q) = q  OBVIOUS
      <4> QED  BY <4>1 DEF q
    <3> QED  BY <2>2, <3>1, <3>2, <3>4, <3>5, <3>7, <3>8, LinkAfter DEF new
  <2> QED  BY <2>5, <2>6, <2>7 DEF n
<1>7. CASE Recv(r)
  <2> DEFINE from == Neighbour(r, -1)  old == wire[from][r]  n == Result(from)
  <2>1. /\ old["cpu"] # << >>
        /\ \/ wire' = [wire EXCEPT ![from][r].cpu = Tail(@)]
           \/ /\ old["device"] # << >>
              /\ wire' = [wire EXCEPT ![from][r] = [cpu |-> Tail(@.cpu), device |-> Tail(@.device)]]
    BY <1>7 DEF Recv
  <2>2. from \in Ranks
    <3>1. s.do = "recv"  BY <1>1, <1>7 DEF Recv, Do, Current
    <3> QED  BY <3>1, ComesFrom
  <2> HIDE DEF from
  <2>3. /\ DOMAIN wire = Ranks /\ \A q \in Ranks : DOMAIN wire[q] = Ranks
        /\ \A q, p \in Ranks : Link(wire[q][p], Result(q)) /\ DOMAIN wire[q][p] = {"cpu", "device"}
    BY DEF Wired, Link
  <2>4. /\ DOMAIN wire' = Ranks /\ \A q \in Ranks : DOMAIN wire'[q] = Ranks
        /\ \A q, p \in Ranks : q # from \/ p # r => wire'[q][p] = wire[q][p]
        /\ DOMAIN wire'[from][r] = {"cpu", "device"} /\ wire'[from][r]["cpu"] = Tail(old["cpu"])
        /\ \/ wire'[from][r]["device"] = old["device"]
           \/ wire'[from][r]["device"] = Tail(old["device"]) /\ old["device"] # << >>
    <3> DEFINE c == Tail(old["cpu"])  d == Tail(old["device"])
    <3>1. CASE wire' = [wire EXCEPT ![from][r].cpu = Tail(@)]
      <4>1. wire' = [wire EXCEPT ![from][r].cpu = c]  BY <3>1
      <4> HIDE DEF c
      <4>2. /\ DOMAIN wire' = Ranks /\ \A q \in Ranks : DOMAIN wire'[q] = Ranks
            /\ \A q, p \in Ranks : q # from \/ p # r => wire'[q][p] = wire[q][p]
            /\ DOMAIN wire'[from][r] = {"cpu", "device"} /\ wire'[from][r]["cpu"] = c
            /\ wire'[from][r]["device"] = old["device"]
        BY ONLY <1>1, <2>2, <2>3, <4>1
      <4> QED  BY <4>2 DEF c
    <3>2. CASE /\ old["device"] # << >>
               /\ wire' = [wire EXCEPT ![from][r] = [cpu |-> Tail(@.cpu), device |-> Tail(@.device)]]
      <4>1. wire' = [wire EXCEPT ![from][r] = [cpu |-> c, device |-> d]]  BY <3>2
      <4> HIDE DEF c, d
      <4>2. /\ DOMAIN wire' = Ranks /\ \A q \in Ranks : DOMAIN wire'[q] = Ranks
            /\ \A q, p \in Ranks : q # from \/ p # r => wire'[q][p] = wire[q][p]
            /\ DOMAIN wire'[from][r] = {"cpu", "device"} /\ wire'[from][r]["cpu"] = c
            /\ wire'[from][r]["device"] = d
        BY ONLY <1>1, <2>2, <2>3, <4>1
      <4> QED  BY <3>2, <4>2 DEF c, d
    <3> QED  BY <2>1, <3>1, <3>2
  <2>5. Link(wire'[from][r], n)
    <3> DEFINE new == wire'[from][r]  none == << >>
    <3>1. Link(old, n)  BY <1>1, <2>2, <2>3
    <3>2. HasRows(none, Len(none))
      <4>1. none \in Seq({})  OBVIOUS
      <4> HIDE DEF none
      <4> QED  BY <4>1, SeqRows
    <3> HIDE DEF none
    <3>3. /\ DOMAIN new = {"cpu", "device"} /\ new["cpu"] = Tail(old["cpu"]) /\ old["cpu"] # << >>
          /\ \/ new["device"] = old["device"]
             \/ new["device"] = Tail(old["device"]) /\ old["device"] # << >>
      BY <2>1, <2>4
    <3> HIDE DEF new, old, n
    <3> QED  BY <3>1, <3>2, <3>3, LinkAfter DEF new, old, n
  <2> QED  BY <2>3, <2>4, <2>5
<1>8. wire' = wire \/ Send(r) \/ Recv(r)
  BY DEF RankServes, Embed, Attend, KeepShared, PlaceRows, ZeroScatter, Gather, SplitRows, Experts,
         Combine, AddShared, GatherSplit, Release, Unpack, links
<1> QED  BY <1>5, <1>6, <1>7, <1>8

-----------------------------------------------------------------------------
(* Ranks meet in the same step of serving.                                 *)

\* What a rank waits in, the rows that it holds and the steps that it has still to take.
Now(r) == [wait |-> waits[r], held |-> buf[r], rest |-> todo[r]]

\* It waits in a step of serving.
InPass(wait) == wait # Idle /\ wait.do \notin SetUpTasks

\* It can take what is left of its program from the rows that it holds; or, as it waits in
\* step s, from those that the step's collective leaves.
Settles(r, now) ==
  \E a \in Sizes : \E z : HasBoth(now.held, a) /\ Flow(r, now.rest, a, z)
Engages(r, s, now) ==
  /\ Sound(s) /\ Entry(r, s) # Idle /\ now.wait = Entry(r, s)
  /\ \E a \in Sizes : \E z : Inside(now.held, r, s, a) /\ Flow(r, now.rest, a, z)
Holds(r, now) ==
  IF InPass(now.wait) THEN now.wait.name \in Names /\ now.wait.list \in Seq(Int)
  ELSE Settles(r, now)

\* The steps of serving in which rank r enters communicator g.
Enters(r, g) ==
  {s \in Serving : /\ Sound(s) /\ Entry(r, s) # Idle
                   /\ <<Entry(r, s).name, Entry(r, s).list>> = g}

\* A rank waits in g in the first step of y, and has the others before it, or all of them.
Due(r, g, y, now) ==
  IF InPass(now.wait) /\ <<now.wait.name, now.wait.list>> = g
  THEN y # << >> /\ Engages(r, Head(y), now) /\ Selects(now.rest, Enters(r, g), Tail(y))
  ELSE Selects(now.rest, Enters(r, g), y)

Holding ==
  /\ Shaped
  /\ \A r \in Ranks : r \notin raised => \E now : now = Now(r) /\ Holds(r, now)

\* There is one sequence of steps for each communicator, the same for all its ranks.
Paired ==
  \A name \in Names, list \in Seq(Int) : \E y \in Seq(Serving) :
    \A r \in Ranks : r \notin raised /\ r \in ToSet(list) =>
      \E now : now = Now(r) /\ Due(r, <<name, list>>, y, now)

LEMMA StaticDue ==
  ASSUME conf' = conf, NEW r, NEW now
  PROVE  /\ Settles(r, now)' = Settles(r, now) /\ Holds(r, now)' = Holds(r, now)
         /\ \A g : Enters(r, g)' = Enters(r, g)
         /\ \A s : Engages(r, s, now)' = Engages(r, s, now)
         /\ \A g, y : Due(r, g, y, now)' = Due(r, g, y, now)
<1>1. \A q, a, b : Flow(r, q, a, b)' = Flow(r, q, a, b)  BY StaticFlow
<1>2. \A s : /\ Sound(s)' = Sound(s) /\ Entry(r, s)' = Entry(r, s)
             /\ During(r, s)' = During(r, s) /\ After(r, s)' = After(r, s)
  BY StaticSteps
<1>3. Settles(r, now)' = Settles(r, now)  BY <1>1 DEF Settles
<1>4. Holds(r, now)' = Holds(r, now)  BY <1>3 DEF Holds
<1>5. \A g : Enters(r, g)' = Enters(r, g)  BY <1>2 DEF Enters
<1>6. \A held, s, a : Inside(held, r, s, a)' = Inside(held, r, s, a)  BY <1>2 DEF Inside
<1>7. \A s : Engages(r, s, now)' = Engages(r, s, now)  BY <1>1, <1>2, <1>6 DEF Engages
<1>8. \A g, y : Due(r, g, y, now)' = Due(r, g, y, now)
  <2> SUFFICES ASSUME NEW g, NEW y  PROVE Due(r, g, y, now)' = Due(r, g, y, now)
    OBVIOUS
  <2> DEFINE s == Head(y)
  <2>1. Engages(r, s, now)' = Engages(r, s, now)  BY <1>7
  <2>2. Enters(r, g)' = Enters(r, g)  BY <1>5
  <2> QED  BY <2>1, <2>2 DEF Due
<1> QED  BY <1>3, <1>4, <1>5, <1>7, <1>8

\* A step of one rank concerns only what that rank waits in, holds and has to do.
LEMMA OneMoves ==
  ASSUME Holding, Paired, conf' = conf, Shaped', raised \subseteq raised', NEW r \in Ranks, r \notin raised,
         \A q \in Ranks \ {r} : Now(q)' = Now(q),
         NEW old, old = Now(r), NEW now, now = Now(r)',
         r \notin raised' =>
           Holds(r, now) /\ \A g : \A y \in Seq(Serving) : Due(r, g, y, old) => Due(r, g, y, now)
  PROVE  Holding' /\ Paired'
<1>1. ASSUME NEW q \in Ranks, q \notin raised'
      PROVE  \E at : at = Now(q)' /\ Holds(q, at)'
  <2>1. CASE q = r
    <3>1. Holds(r, now)' = Holds(r, now)  BY StaticDue
    <3> QED  BY <1>1, <2>1, <3>1
  <2>2. CASE q # r
    <3>1. PICK at : at = Now(q) /\ Holds(q, at)  BY <1>1 DEF Holding
    <3>2. Holds(q, at)' = Holds(q, at)  BY StaticDue
    <3> QED  BY <2>2, <3>1, <3>2
  <2> QED  BY <2>1, <2>2
<1>2. ASSUME NEW name \in Names, NEW list \in Seq(Int)
      PROVE  \E y \in Seq(Serving) :
               \A q \in Ranks : q \notin raised' /\ q \in ToSet(list) =>
                 \E at : at = Now(q)' /\ Due(q, <<name, list>>, y, at)'
  <2> DEFINE g == <<name, list>>
  <2>1. PICK y \in Seq(Serving) :
          \A q \in Ranks : q \notin raised /\ q \in ToSet(list) =>
            \E at : at = Now(q) /\ Due(q, g, y, at)
    BY DEF Paired
  <2> HIDE DEF g
  <2>2. ASSUME NEW q \in Ranks, q \notin raised', q \in ToSet(list)
        PROVE  \E at : at = Now(q)' /\ Due(q, g, y, at)'
    <3>1. PICK at : at = Now(q) /\ Due(q, g, y, at)  BY <2>1, <2>2
    <3>2. Due(q, g, y, at)' = Due(q, g, y, at) /\ Due(r, g, y, now)' = Due(r, g, y, now)
      BY StaticDue
    <3>3. CASE q = r
      <4>1. at = old  BY <3>1, <3>3
      <4>2. Due(r, g, y, now)  BY <2>2, <3>1, <3>3, <4>1
      <4> QED  BY <3>2, <3>3, <4>2
    <3>4. CASE q # r  BY <3>1, <3>2, <3>4
    <3> QED  BY <3>3, <3>4
  <2> QED  BY <2>2 DEF g
<1> QED  BY <1>1, <1>2 DEF Holding, Paired

LEMMA IdlePasses == ~InPass(Idle)
  BY DEF InPass

\* What a rank does after a step taken, it was to do before it.
LEMMA StepDue ==
  ASSUME conf \in Layouts, NEW r \in Ranks, NEW old, NEW now, NEW s, NEW b \in Sizes, NEW z,
         old.wait = Idle, old.rest \in Seq(Steps), old.rest # << >>, s = Head(old.rest),
         now.rest = Tail(old.rest), Flow(r, now.rest, b, z), s \in Serving,
         now.wait = Entry(r, s),
         IF Entry(r, s) = Idle THEN HasBoth(now.held, b)
         ELSE Sound(s) /\ Inside(now.held, r, s, b)
  PROVE  Holds(r, now) /\ \A g : \A y \in Seq(Serving) : Due(r, g, y, old) => Due(r, g, y, now)
<1>1. ASSUME NEW g, NEW y \in Seq(Serving), Due(r, g, y, old)
      PROVE  /\ s \in Enters(r, g) =>
                  y # << >> /\ Head(y) = s /\ Selects(now.rest, Enters(r, g), Tail(y))
             /\ s \notin Enters(r, g) => Selects(now.rest, Enters(r, g), y)
  <2> DEFINE q == old.rest  S == Enters(r, g)
  <2>1. Selects(q, S, y)  BY <1>1, IdlePasses DEF Due
  <2>2. y \in Seq(Steps)
    <3>1. Serving \subseteq Steps  BY DEF Steps
    <3> QED  BY <3>1
  <2> HIDE DEF S
  <2>3. /\ Head(q) \in S => y # << >> /\ Head(y) = Head(q) /\ Selects(Tail(q), S, Tail(y))
        /\ Head(q) \notin S => Selects(Tail(q), S, y)
    <3>1. q \in Seq(Steps) /\ q # << >>  OBVIOUS
    <3> HIDE DEF q
    <3> QED  BY ONLY <2>1, <2>2, <3>1, SelectsTail
  <2> QED  BY <2>3 DEF S
<1>2. CASE Entry(r, s) = Idle
  <2>1. Settles(r, now)  BY <1>2 DEF Settles
  <2>2. ~InPass(now.wait)  BY <1>2, IdlePasses
  <2>3. \A g : s \notin Enters(r, g)  BY <1>2 DEF Enters
  <2> QED  BY <1>1, <2>1, <2>2, <2>3 DEF Holds, Due
<1>3. CASE Entry(r, s) # Idle
  <2>1. Sound(s) /\ Inside(now.held, r, s, b)  BY <1>3
  <2>2. /\ Entry(r, s).do \notin SetUpTasks /\ Entry(r, s).name \in Names
        /\ Entry(r, s).list \in Seq(Int)
    BY <1>3, <2>1, CallMade
  <2>3. InPass(now.wait)  BY <1>3, <2>2 DEF InPass
  <2>4. Holds(r, now)  BY <2>2, <2>3 DEF Holds
  <2>5. Engages(r, s, now)  BY <1>3, <2>1 DEF Engages
  <2>6. ASSUME NEW g, NEW y \in Seq(Serving), Due(r, g, y, old)  PROVE Due(r, g, y, now)
    <3>1. s \in Enters(r, g) <=> <<now.wait.name, now.wait.list>> = g
      BY <1>3, <2>1 DEF Enters
    <3> QED  BY <1>1, <2>3, <2>5, <2>6, <3>1 DEF Due
  <2> QED  BY <2>4, <2>6
<1> QED  BY <1>2, <1>3

LEMMA PairedServes ==
  ASSUME IInv, Holding, Wired, Paired, NEW r \in Ranks, RankServes(r)
  PROVE  Holding' /\ Wired' /\ Paired'
<1>1. Works(r)  BY ServingWorks
<1>2. /\ todo'[r] = Tail(todo[r]) /\ todo[r] # << >> /\ Current(r) = Head(todo[r])
      /\ todo[r] \in Seq(Steps)
      /\ waits[r] = Idle /\ r \notin raised /\ raised' \in {raised, raised \cup {r}}
      /\ \A q \in Ranks \ {r} : todo'[q] = todo[q] /\ waits'[q] = waits[q]
      /\ conf' = conf
  BY <1>1, AdvancesTakes
<1>3. conf \in Layouts  BY DEF IInv, Rightly
<1> DEFINE s == Head(todo[r])
<1>4. s \in Serving
  <2>1. s \in Building(conf) \cup Serving  BY <1>2, ProgramTail DEF IInv, Rightly
  <2>2. s.do \in ServeTasks  BY <1>1, <1>2 DEF Works
  <2>3. \A t \in Building(conf) : t.do \in SetUpTasks  BY DEF Building
  <2>4. SetUpTasks \cap ServeTasks = {}  BY DEF SetUpTasks, ServeTasks
  <2> QED  BY <2>1, <2>2, <2>3, <2>4
<1>5. PICK old : old = Now(r) /\ Holds(r, old)  BY <1>2 DEF Holding
<1>6. old.wait = Idle /\ old.held = buf[r] /\ old.rest = todo[r]  BY <1>2, <1>5 DEF Now
<1>7. PICK a, z : a \in Sizes /\ HasBoth(buf[r], a) /\ Flow(r, todo[r], a, z)
  BY <1>5, <1>6, IdlePasses DEF Holds, Settles
<1>8. PICK b \in Sizes : Takes(r, s, a, b) /\ Flow(r, Tail(todo[r]), b, z)
  BY <1>2, <1>7, FlowTail
<1>9. Ready(r, s, a, b)  BY <1>2, <1>4, <1>7, <1>8 DEF Ready, Holding
<1>10. Comes(r, s, b)  BY <1>9, ServingComes
<1>11. Wired'  BY <1>9, WiredServes
<1>12. Shaped'  BY <1>10 DEF Comes, Holding, Shaped
<1>13. \A q \in Ranks \ {r} : Now(q)' = Now(q)  BY <1>2, <1>10 DEF Now, Comes
<1>14. PICK now : now = Now(r)'  OBVIOUS
<1>15. now.wait = waits'[r] /\ now.held = buf'[r] /\ now.rest = todo'[r]  BY <1>14 DEF Now
<1>16. ASSUME r \notin raised'
       PROVE  Holds(r, now) /\ \A g : \A y \in Seq(Serving) : Due(r, g, y, old) => Due(r, g, y, now)
  <2>1. /\ now.wait = Entry(r, s)
        /\ IF Entry(r, s) = Idle THEN HasBoth(now.held, b)
           ELSE Sound(s) /\ Inside(now.held, r, s, b)
    BY <1>10, <1>15, <1>16 DEF Comes
  <2>2. now.rest = Tail(old.rest) /\ s = Head(old.rest) /\ old.rest # << >> /\ old.rest \in Seq(Steps)
    BY <1>2, <1>6, <1>15
  <2>3. Flow(r, now.rest, b, z)  BY <1>2, <1>8, <1>15
  <2> HIDE DEF s
  <2> QED  BY ONLY <1>3, <1>4, <1>6, <2>1, <2>2, <2>3, r \in Ranks, b \in Sizes, StepDue
<1>17. raised \subseteq raised'  BY <1>2
<1>18. Holding' /\ Paired'
  BY ONLY <1>2, <1>5, <1>12, <1>13, <1>14, <1>16, <1>17, Holding, Paired, r \in Ranks, OneMoves
<1> QED  BY <1>11, <1>18

\* Setting up touches neither rows nor links.
LEMMA PairedBuilds ==
  ASSUME IInv, Holding, Wired, Paired, NEW r \in Ranks, SetUp(r) \/ SetUpRoce(r)
  PROVE  Holding' /\ Wired' /\ Paired'
<1>1. Builds(r)  BY SetUpBuilds
<1>2. /\ todo'[r] = Tail(todo[r]) /\ todo[r] # << >> /\ Current(r) = Head(todo[r])
      /\ todo[r] \in Seq(Steps)
      /\ waits[r] = Idle /\ r \notin raised /\ raised' \in {raised, raised \cup {r}}
      /\ \A q \in Ranks \ {r} : todo'[q] = todo[q] /\ waits'[q] = waits[q]
      /\ conf' = conf
      /\ \A call : waits' = [waits EXCEPT ![r] = call] => waits'[r] = call
  BY <1>1, AdvancesTakes
<1>3. buf' = buf /\ wire' = wire  BY DEF SetUp, SetUpRoce, data, links
<1>4. conf \in Layouts  BY DEF IInv, Rightly
<1> DEFINE s == Head(todo[r])
<1>5. s.do \in SetUpTasks /\ s \notin Serving
  <2>1. s.do \in SetUpTasks  BY <1>1, <1>2 DEF Builds
  <2>2. \A t \in Serving : t.do \in ServeTasks  BY DEF Serving
  <2>3. SetUpTasks \cap ServeTasks = {}  BY DEF SetUpTasks, ServeTasks
  <2> QED  BY <2>1, <2>2, <2>3
<1>6. Wired'
  <2>1. \A q : Result(q)' = Result(q)  BY <1>2, StaticRows
  <2>2. \A under, n : Link(under, n)' = Link(under, n)  BY DEF Link
  <2> QED  BY <1>3, <2>1, <2>2 DEF Wired
<1>7. Shaped'  BY <1>3 DEF Holding, Shaped
<1>8. PICK old : old = Now(r) /\ Holds(r, old)  BY <1>2 DEF Holding
<1>9. old.wait = Idle /\ old.held = buf[r] /\ old.rest = todo[r]  BY <1>2, <1>8 DEF Now
<1>10. PICK a, z : a \in Sizes /\ HasBoth(buf[r], a) /\ Flow(r, todo[r], a, z)
  BY <1>8, <1>9, IdlePasses DEF Holds, Settles
<1>11. PICK b \in Sizes : Takes(r, s, a, b) /\ Flow(r, Tail(todo[r]), b, z)
  BY <1>2, <1>10, FlowTail
<1>12. b = a  BY <1>5, <1>11 DEF Takes, SetUpTasks, Meetings, Gathers
<1>13. \A q \in Ranks \ {r} : Now(q)' = Now(q)  BY <1>2, <1>3 DEF Now
<1>14. PICK now : now = Now(r)'  OBVIOUS
<1>15. now.wait = waits'[r] /\ now.held = buf[r] /\ now.rest = Tail(todo[r])
  BY <1>2, <1>3, <1>14 DEF Now
<1>16. ~InPass(now.wait)
  <2>1. CASE waits' = waits  BY <1>2, <1>15, <2>1, IdlePasses
  <2>2. CASE waits' # waits
    <3>1. now.wait = CallOf(s)  BY <1>1, <1>2, <1>15, <2>2 DEF Builds
    <3>2. now.wait.do = s.do  BY <3>1, CallFields DEF CallOf
    <3> QED  BY <1>5, <3>2 DEF InPass
  <2> QED  BY <2>1, <2>2
<1>17. Holds(r, now)
  <2>1. Settles(r, now)  BY <1>10, <1>11, <1>12, <1>15 DEF Settles
  <2> QED  BY <1>16, <2>1 DEF Holds
<1>18. ASSUME NEW g, NEW y \in Seq(Serving), Due(r, g, y, old)  PROVE Due(r, g, y, now)
  <2> DEFINE q == todo[r]  S == Enters(r, g)
  <2>1. Selects(q, S, y)  BY <1>9, <1>18, IdlePasses DEF Due
  <2>2. y \in Seq(Steps)
    <3>1. Serving \subseteq Steps  BY DEF Steps
    <3> QED  BY <3>1
  <2>3. Head(q) \notin S  BY <1>5 DEF Enters
  <2> HIDE DEF S
  <2>4. Selects(Tail(q), S, y)
    <3>1. q \in Seq(Steps) /\ q # << >>  BY <1>2
    <3> HIDE DEF q
    <3> QED  BY ONLY <2>1, <2>2, <2>3, <3>1, SelectsTail
  <2> QED  BY <1>15, <1>16, <2>4 DEF Due, S
<1>19. raised \subseteq raised'  BY <1>2
<1>20. Holding' /\ Paired'
  BY ONLY <1>2, <1>7, <1>8, <1>13, <1>14, <1>17, <1>18, <1>19, Holding, Paired, r \in Ranks, OneMoves
<1> QED  BY <1>6, <1>20

\* A collective of serving leaves each of its ranks the rows that its program expects.
LEMMA MeetsRows ==
  ASSUME conf \in Layouts, Shaped, NEW s, Sound(s), NEW call, NEW m \in Ranks, call = Entry(m, s),
         call # Idle, \A q \in ToSet(call.list) : \E a \in Sizes : Inside(buf[q], q, s, a),
         AllReduced(call) \/ Gathered(call) \/ Scattered(call) \/ Dispatched(call)
  PROVE  /\ Shaped' /\ ToSet(call.list) \subseteq Ranks
         /\ \A q \in ToSet(call.list) : \A a : Inside(buf[q], q, s, a) => HasBoth(buf'[q], a)
         /\ \A q \in Ranks \ ToSet(call.list) : buf'[q] = buf[q]
<1> DEFINE M == ToSet(call.list)  on == call.on  list == call.list
<1>1. /\ on = s.on /\ s.on \in {"x", "ids"} /\ list \in Seq(Int) /\ m \in M
      /\ \E kind \in Grouped \ {"pp"} : list = Home(m, kind)
  <2>1. s.on \in {"x", "ids"}  BY DEF Sound, Serving
  <2> QED  BY <2>1, CallMade
<1>2. PICK kind \in Grouped : list = Home(m, kind)  BY <1>1
<1>3. /\ DOMAIN list = 1 .. Many(kind) /\ Many(kind) \in Nat \ {0} /\ M \subseteq Ranks
      /\ \A q \in M : Home(q, kind) = list
  BY <1>2, HomeFacts
<1>4. ASSUME NEW q \in M
      PROVE  /\ q \in Ranks /\ Entry(q, s) = call
             /\ IndexOf(list, q) \in 1 .. Many(kind) /\ list[IndexOf(list, q)] = q
             /\ HasRows(buf[q][on], During(q, s))
  <2>1. q \in Ranks /\ Entry(q, s) = call  BY EntryAgrees
  <2>2. Home(q, kind) = list  BY <1>3
  <2>3. IndexOf(list, q) \in 1 .. Many(kind) /\ list[IndexOf(list, q)] = q
    BY <2>1, <2>2, HomeFacts
  <2>4. HasRows(buf[q][on], During(q, s))  BY <1>1 DEF Inside
  <2> QED  BY <2>1, <2>3, <2>4
<1>5. \A i \in 1 .. Many(kind) : list[i] \in M  BY <1>3 DEF ToSet
<1>6. ASSUME NEW rows, \A q \in M : HasRows(rows[q], After(q, s)),
             buf' = [q \in Ranks |-> IF q \in M THEN [buf[q] EXCEPT ![on] = rows[q]] ELSE buf[q]]
      PROVE  /\ Shaped'
             /\ \A q \in M : \A a : Inside(buf[q], q, s, a) => HasBoth(buf'[q], a)
             /\ \A q \in Ranks \ M : buf'[q] = buf[q]
  <2>7. s.on \in {"x", "ids"} /\ on = s.on /\ M \in SUBSET Ranks  BY <1>1, <1>3
  <2>8. \A q \in M : HasRows(rows[q], After(q, s))  BY <1>6
  <2>9. buf' = [q \in Ranks |-> IF q \in M THEN [buf[q] EXCEPT ![on] = rows[q]] ELSE buf[q]]
    BY <1>6
  <2> HIDE DEF M, on, list
  <2>1. DOMAIN buf = Ranks /\ \A q \in Ranks : DOMAIN buf[q] = {"x", "ids"}  BY DEF Shaped
  <2>2. DOMAIN buf' = Ranks  BY ONLY <2>9
  <2>3. ASSUME NEW q \in Ranks
        PROVE  buf'[q] = IF q \in M THEN [buf[q] EXCEPT ![on] = rows[q]] ELSE buf[q]
    BY <2>9
  <2>4. ASSUME NEW q \in M
        PROVE  /\ DOMAIN buf'[q] = {"x", "ids"} /\ buf'[q][on] = rows[q]
               /\ \A other \in {"x", "ids"} \ {on} : buf'[q][other] = buf[q][other]
    <3>1. q \in Ranks  BY <2>7
    <3> DEFINE held == buf[q]  after == buf'[q]
    <3>2. after = [held EXCEPT ![on] = rows[q]] /\ DOMAIN held = {"x", "ids"} /\ on \in {"x", "ids"}
      BY <2>1, <2>3, <2>7, <3>1
    <3> HIDE DEF held, after
    <3>3. /\ DOMAIN after = {"x", "ids"} /\ after[on] = rows[q]
          /\ \A other \in {"x", "ids"} \ {on} : after[other] = held[other]
      BY ONLY <3>2
    <3> QED  BY <3>3 DEF held, after
  <2>5. Shaped'
    <3>1. ASSUME NEW q \in Ranks  PROVE DOMAIN buf'[q] = {"x", "ids"}
      <4>1. CASE q \in M  BY <2>4, <4>1
      <4>2. CASE q \notin M  BY <2>1, <2>3, <4>2
      <4> QED  BY <4>1, <4>2
    <3> QED  BY <2>2, <3>1 DEF Shaped
  <2>6. ASSUME NEW q \in M, NEW a, Inside(buf[q], q, s, a)  PROVE HasBoth(buf'[q], a)
    <3>1. a[on] = After(q, s) /\ \A other \in {"x", "ids"} \ {on} : HasRows(buf[q][other], a[other])
      BY <2>6, <2>7 DEF Inside
    <3>2. HasRows(buf'[q][on], a[on])
      <4>1. HasRows(rows[q], After(q, s))  BY <2>8
      <4>2. buf'[q][on] = rows[q] /\ a[on] = After(q, s)  BY <2>4, <3>1
      <4> QED  BY ONLY <4>1, <4>2
    <3>3. \A other \in {"x", "ids"} \ {on} : HasRows(buf'[q][other], a[other])  BY <2>4, <3>1
    <3>4. \A one \in {"x", "ids"} : HasRows(buf'[q][one], a[one])  BY ONLY <3>2, <3>3
    <3> QED  BY <3>4 DEF HasBoth
  <2> QED  BY <2>3, <2>5, <2>6
<1>7. CASE AllReduced(call)
  <2>1. call.do = "all_reduce"  BY <1>7 DEF AllReduced, Met
  <2>2. \A q \in M : During(q, s) = After(q, s) /\ \A p \in M : During(p, s) = After(q, s)
    BY <1>4, <2>1, ReducedRows
  <2>3. CASE Fill(call, LAMBDA i : SumOver(list, on))
    <3> DEFINE sum == SumOver(list, on)  rows == [q \in M |-> sum]
    <3>1. buf' = [q \in Ranks |-> IF q \in M THEN [buf[q] EXCEPT ![on] = rows[q]] ELSE buf[q]]
      BY <2>3 DEF Fill
    <3>2. \A q \in M : HasRows(sum, After(q, s))
      <4> SUFFICES ASSUME NEW q \in M  PROVE HasRows(sum, After(q, s))
        OBVIOUS
      <4> DEFINE p == list[1]
      <4>1. p \in M  BY <1>3, <1>5
      <4>2. HasRows(buf[p][on], After(q, s))  BY <1>4, <2>2, <4>1
      <4>3. sum = [k \in DOMAIN buf[p][on] |-> sum[k]]  BY DEF SumOver
      <4> HIDE DEF sum, p, on, list
      <4>4. DOMAIN sum = DOMAIN buf[p][on]  BY ONLY <4>3
      <4>5. sum = [k \in DOMAIN sum |-> sum[k]]  BY ONLY <4>3, <4>4
      <4> QED  BY ONLY <4>2, <4>4, <4>5, MappedRows
    <3>3. \A q \in M : HasRows(rows[q], After(q, s))  BY <3>2
    <3> HIDE DEF rows
    <3> QED  BY <1>3, <1>6, <3>1, <3>3
  <2>4. CASE Fill(call, LAMBDA i : Each(buf[list[i]][on], LAMBDA row : Bad))
    <3> DEFINE rows == [q \in Ranks |-> Each(buf[list[IndexOf(list, q)]][on], LAMBDA row : Bad)]
    <3>1. buf' = [q \in Ranks |-> IF q \in M THEN [buf[q] EXCEPT ![on] = rows[q]] ELSE buf[q]]
      BY <2>4 DEF Fill
    <3>2. \A q \in M : HasRows(rows[q], After(q, s))
      <4> SUFFICES ASSUME NEW q \in M  PROVE HasRows(rows[q], After(q, s))
        OBVIOUS
      <4> DEFINE one == rows[q]  had == buf[q][on]
      <4>1. HasRows(had, After(q, s))  BY <1>4, <2>2
      <4>2. one = [k \in DOMAIN had |-> Bad]  BY <1>4 DEF Each
      <4> HIDE DEF one, had
      <4>3. DOMAIN one = DOMAIN had /\ one = [k \in DOMAIN one |-> one[k]]  BY ONLY <4>2
      <4>4. HasRows(one, After(q, s))  BY ONLY <4>1, <4>3, MappedRows
      <4> QED  BY <4>4 DEF one
    <3> HIDE DEF rows
    <3> QED  BY <1>3, <1>6, <3>1, <3>2
  <2> QED  BY <1>7, <2>3, <2>4 DEF AllReduced
<1>8. CASE Gathered(call)
  <2>1. call.do = "all_gather"  BY <1>8 DEF Gathered, Met
  <2> DEFINE held == [q \in Ranks |-> buf[q][on]]
             all == JoinOver(list, on)  rows == [q \in M |-> all]
  <2>2. buf' = [q \in Ranks |-> IF q \in M THEN [buf[q] EXCEPT ![on] = rows[q]] ELSE buf[q]]
    BY <1>8 DEF Gathered, Fill
  <2>3. all = FlattenSeq(Pieces(held, list))
    <3>1. \A i \in DOMAIN list : held[list[i]] = buf[list[i]][on]  BY <1>3, <1>5
    <3>2. Pieces(held, list) = [i \in DOMAIN list |-> buf[list[i]][on]]
      <4> HIDE DEF held
      <4> QED  BY <3>1 DEF Pieces
    <3> QED  BY <3>2 DEF JoinOver
  <2>4. \A q \in M : HasRows(held[q], During(q, s))
    <3>1. \A q \in M : held[q] = buf[q][on]  BY <1>3
    <3> HIDE DEF held
    <3> QED  BY <1>4, <3>1
  <2>5. \A q \in M : HasRows(all, After(q, s))
    <3> SUFFICES ASSUME NEW q \in M  PROVE HasRows(all, After(q, s))
      OBVIOUS
    <3>1. q \in Ranks /\ Entry(q, s) = call /\ Entry(q, s) # Idle /\ Entry(q, s).do = "all_gather"
      BY <1>4, <2>1
    <3>2. \A p \in ToSet(Entry(q, s).list) : HasRows(held[p], During(p, s))  BY <2>4, <3>1
    <3> HIDE DEF held, all
    <3>3. HasRows(FlattenSeq(Pieces(held, Entry(q, s).list)), After(q, s))
      BY ONLY <3>1, <3>2, conf \in Layouts, Sound(s), GatheredRows
    <3> QED  BY <2>3, <3>1, <3>3
  <2>6. \A q \in M : HasRows(rows[q], After(q, s))  BY <2>5
  <2> HIDE DEF rows
  <2> QED  BY <1>3, <1>6, <2>2, <2>6
<1>9. CASE Scattered(call)
  <2>1. call.do = "reduce_scatter"  BY <1>9 DEF Scattered, Met
  <2> DEFINE sum == SumOver(list, on)
             rows == [q \in Ranks |-> Chunk(sum, call.arg, IndexOf(list, q))]
  <2>2. buf' = [q \in Ranks |-> IF q \in M THEN [buf[q] EXCEPT ![on] = rows[q]] ELSE buf[q]]
    BY <1>9 DEF Scattered, Fill
  <2>3. \A q \in M : HasRows(rows[q], After(q, s))
    <3> SUFFICES ASSUME NEW q \in M  PROVE HasRows(rows[q], After(q, s))
      OBVIOUS
    <3>1. q \in Ranks /\ Entry(q, s) = call  BY <1>4
    <3> DEFINE n == call.arg[IndexOf(list, q)]  one == rows[q]
    <3>2. n = After(q, s)  BY <2>1, <3>1, ScatteredRows
    <3>3. n \in Nat
      <4>1. s.do \in {"zero_scatter", "cp_reduce_scatter", "combine"}  BY <2>1, <3>1, CallDoes
      <4>2. s.do \in Meetings  BY <4>1 DEF Meetings, Gathers
      <4> QED  BY <3>1, <3>2, <4>2, AfterNat
    <3>4. one = [k \in 1 .. n |-> one[k]]  BY <3>1 DEF Chunk
    <3> HIDE DEF n, one
    <3>5. HasRows(one, n)  BY ONLY <3>3, <3>4 DEF HasRows
    <3> QED  BY <3>2, <3>5 DEF one
  <2> HIDE DEF rows
  <2> QED  BY <1>3, <1>6, <2>2, <2>3
<1>10. CASE Dispatched(call)
  <2>1. call.do = "a2a"  BY <1>10 DEF Dispatched, Met
  <2>2. on = "x"
    <3>1. s.do = "experts"  BY <2>1, CallDoes
    <3>2. Apt(s)  BY <3>1 DEF Sound, Meetings
    <3> QED  BY <1>1, <3>1, <3>2 DEF Apt, Gathers
  <2> DEFINE F(row) == IF row \in {Pad, Bad} THEN row
                       ELSE Whole(TokenOf(row), "ffn", Shards \cup {conf.tp})
             rows == [q \in Ranks |-> Each(buf[list[IndexOf(list, q)]].x, F)]
  <2>3. buf' = [q \in Ranks |-> IF q \in M THEN [buf[q] EXCEPT ![on] = rows[q]] ELSE buf[q]]
    BY <1>10 DEF Dispatched, Fill
  <2>4. \A q \in M : HasRows(rows[q], After(q, s))
    <3> SUFFICES ASSUME NEW q \in M  PROVE HasRows(rows[q], After(q, s))
      OBVIOUS
    <3> DEFINE one == rows[q]  had == buf[q][on]
    <3>1. q \in Ranks /\ Entry(q, s) = call  BY <1>4
    <3>2. During(q, s) = After(q, s)  BY <2>1, <3>1, ReducedRows
    <3>3. HasRows(had, After(q, s))  BY <1>4, <3>2
    <3> HIDE DEF F
    <3>4. one = [k \in DOMAIN had |-> F(had[k])]  BY <1>4, <2>2 DEF Each
    <3> HIDE DEF one, had
    <3>5. DOMAIN one = DOMAIN had /\ one = [k \in DOMAIN one |-> one[k]]  BY ONLY <3>4
    <3>6. HasRows(one, After(q, s))  BY ONLY <3>3, <3>5, MappedRows
    <3> QED  BY <3>6 DEF one
  <2> HIDE DEF rows
  <2> QED  BY <1>3, <1>6, <2>3, <2>4
<1> QED  BY <1>7, <1>8, <1>9, <1>10

\* When the ranks of a call leave it, each communicator has its sequence, or the rest of it.
LEMMA AllMove ==
  ASSUME Holding, Paired, conf' = conf, Shaped', raised' = raised,
         \A q \in Ranks : q \notin raised => \E now : now = Now(q)' /\ Holds(q, now),
         \A name \in Names, list \in Seq(Int), y \in Seq(Serving) :
           (\A q \in Ranks : q \notin raised /\ q \in ToSet(list) =>
              \E old : old = Now(q) /\ Due(q, <<name, list>>, y, old))
           => \E w \in Seq(Serving) : \A q \in Ranks : q \notin raised /\ q \in ToSet(list) =>
                \E now : now = Now(q)' /\ Due(q, <<name, list>>, w, now)
  PROVE  Holding' /\ Paired'
<1>1. ASSUME NEW q \in Ranks, q \notin raised'
      PROVE  \E now : now = Now(q)' /\ Holds(q, now)'
  <2>1. PICK now : now = Now(q)' /\ Holds(q, now)  BY <1>1
  <2>2. Holds(q, now)' = Holds(q, now)  BY StaticDue
  <2> QED  BY <2>1, <2>2
<1>2. ASSUME NEW name \in Names, NEW list \in Seq(Int)
      PROVE  \E w \in Seq(Serving) :
               \A q \in Ranks : q \notin raised' /\ q \in ToSet(list) =>
                 \E now : now = Now(q)' /\ Due(q, <<name, list>>, w, now)'
  <2> DEFINE g == <<name, list>>
  <2>1. PICK y \in Seq(Serving) :
          \A q \in Ranks : q \notin raised /\ q \in ToSet(list) =>
            \E old : old = Now(q) /\ Due(q, g, y, old)
    BY DEF Paired
  <2>2. PICK w \in Seq(Serving) : \A q \in Ranks : q \notin raised /\ q \in ToSet(list) =>
          \E now : now = Now(q)' /\ Due(q, g, w, now)
    BY <2>1
  <2> HIDE DEF g
  <2>3. ASSUME NEW q \in Ranks, q \notin raised', q \in ToSet(list)
        PROVE  \E now : now = Now(q)' /\ Due(q, g, w, now)'
    <3>1. PICK now : now = Now(q)' /\ Due(q, g, w, now)  BY <2>2, <2>3
    <3>2. Due(q, g, w, now)' = Due(q, g, w, now)  BY StaticDue
    <3> QED  BY <3>1, <3>2
  <2> QED  BY <2>3 DEF g
<1> QED  BY <1>1, <1>2 DEF Holding, Paired

LEMMA WiredKeeps ==
  ASSUME Wired, conf' = conf, wire' = wire
  PROVE  Wired'
<1>1. \A q : Result(q)' = Result(q)  BY StaticRows
<1>2. \A under, n : Link(under, n)' = Link(under, n)  BY DEF Link
<1> QED  BY <1>1, <1>2 DEF Wired

\* Ranks that have set something up are where they were in serving.
LEMMA PairedSetsUp ==
  ASSUME IInv, Holding, Wired, Paired, NEW call, FormGroup(call) \/ Handshake(call)
  PROVE  Holding' /\ Wired' /\ Paired'
<1>1. /\ conf' = conf /\ todo' = todo /\ raised' = raised /\ buf' = buf /\ wire' = wire
      /\ waits' = [r \in Ranks |-> IF r \in ToSet(call.list) THEN Idle ELSE waits[r]]
      /\ \A r \in ToSet(call.list) : waits[r] = call
      /\ call.do \in SetUpTasks
  BY DEF FormGroup, Handshake, Met, Leave, health, data, links, SetUpTasks
<1>2. Wired'  BY <1>1, WiredKeeps
<1>3. Shaped'  BY <1>1 DEF Holding, Shaped
<1>4. ASSUME NEW q \in Ranks, NEW old, old = Now(q), NEW now, now = Now(q)'
      PROVE  /\ now.held = old.held /\ now.rest = old.rest
             /\ now.wait = old.wait \/ (~InPass(old.wait) /\ ~InPass(now.wait))
  <2>1. /\ old.wait = waits[q] /\ old.held = buf[q] /\ old.rest = todo[q]
        /\ now.wait = waits'[q] /\ now.held = buf[q] /\ now.rest = todo[q]
    BY <1>1, <1>4 DEF Now
  <2>2. CASE q \in ToSet(call.list)
    <3>1. waits[q] = call /\ waits'[q] = Idle  BY <1>1, <2>2
    <3> QED  BY <1>1, <2>1, <3>1, IdlePasses DEF InPass
  <2>3. CASE q \notin ToSet(call.list)
    <3>1. waits'[q] = waits[q]  BY <1>1, <2>3
    <3> QED  BY <2>1, <3>1
  <2> QED  BY <2>2, <2>3
<1>5. ASSUME NEW q \in Ranks, NEW old, old = Now(q), NEW now, now = Now(q)'
      PROVE  /\ Holds(q, old) => Holds(q, now)
             /\ \A g, y : Due(q, g, y, old) => Due(q, g, y, now)
  <2>1. /\ now.held = old.held /\ now.rest = old.rest
        /\ now.wait = old.wait \/ (~InPass(old.wait) /\ ~InPass(now.wait))
    BY <1>4, <1>5
  <2>2. Settles(q, old) => Settles(q, now)  BY <2>1 DEF Settles
  <2>3. now.wait = old.wait => \A s : Engages(q, s, old) => Engages(q, s, now)
    BY <2>1 DEF Engages
  <2>4. Holds(q, old) => Holds(q, now)  BY <2>1, <2>2 DEF Holds
  <2>5. ASSUME NEW g, NEW y, Due(q, g, y, old)  PROVE Due(q, g, y, now)
    <3>1. Engages(q, Head(y), old) /\ now.wait = old.wait => Engages(q, Head(y), now)  BY <2>3
    <3> QED  BY <2>1, <2>5, <3>1 DEF Due
  <2> QED  BY <2>4, <2>5
<1>6. ASSUME NEW q \in Ranks, q \notin raised  PROVE \E now : now = Now(q)' /\ Holds(q, now)
  <2>1. PICK old : old = Now(q) /\ Holds(q, old)  BY <1>6 DEF Holding
  <2>2. PICK now : now = Now(q)'  OBVIOUS
  <2> QED  BY <1>5, <2>1, <2>2
<1>7. ASSUME NEW g, NEW list, NEW y,
             \A q \in Ranks : q \notin raised /\ q \in ToSet(list) =>
               \E old : old = Now(q) /\ Due(q, g, y, old)
      PROVE  \A q \in Ranks : q \notin raised /\ q \in ToSet(list) =>
               \E now : now = Now(q)' /\ Due(q, g, y, now)
  <2> SUFFICES ASSUME NEW q \in Ranks, q \notin raised, q \in ToSet(list)
               PROVE  \E now : now = Now(q)' /\ Due(q, g, y, now)
    OBVIOUS
  <2>1. PICK old : old = Now(q) /\ Due(q, g, y, old)  BY <1>7
  <2>2. PICK now : now = Now(q)'  OBVIOUS
  <2> QED  BY <1>5, <2>1, <2>2
<1>8. Holding' /\ Paired'
  BY ONLY <1>1, <1>3, <1>6, <1>7, Holding, Paired, AllMove
<1> QED  BY <1>2, <1>8

\* The ranks of a collective of serving leave it from the same step.
LEMMA PairedMeets ==
  ASSUME IInv, Within, Holding, Wired, Paired, NEW m \in Ranks, NEW call, call = waits[m],
         call # Idle, AllReduced(call) \/ Gathered(call) \/ Scattered(call) \/ Dispatched(call)
  PROVE  Holding' /\ Wired' /\ Paired'
<1> DEFINE M == ToSet(call.list)  g == <<call.name, call.list>>
<1>1. /\ conf' = conf /\ todo' = todo /\ raised' = raised /\ wire' = wire
      /\ waits' = [r \in Ranks |-> IF r \in M THEN Idle ELSE waits[r]]
      /\ \A r \in M : r \notin raised /\ waits[r] = call
      /\ call.do \in Exchanges
  BY DEF AllReduced, Gathered, Scattered, Dispatched, Met, Leave, health, links, Exchanges
<1>2. m \in M /\ m \notin raised  BY DEF Within
<1>3. conf \in Layouts  BY DEF IInv, Rightly
<1>4. InPass(call)
  <2>1. Exchanges \cap SetUpTasks = {}  BY DEF Exchanges, SetUpTasks
  <2> QED  BY <1>1, <2>1 DEF InPass
<1>5. call.name \in Names /\ call.list \in Seq(Int)
  <2>1. PICK now : now = Now(m) /\ Holds(m, now)  BY <1>2 DEF Holding
  <2>2. now.wait = call  BY <2>1 DEF Now
  <2> QED  BY <1>4, <2>1, <2>2 DEF Holds
<1>6. PICK y0 \in Seq(Serving) :
        \A q \in Ranks : q \notin raised /\ q \in M => \E old : old = Now(q) /\ Due(q, g, y0, old)
  BY <1>5 DEF Paired
<1> DEFINE s == Head(y0)  w0 == Tail(y0)
<1>7. ASSUME NEW q \in Ranks, q \in M
      PROVE  /\ y0 # << >>
             /\ \E old : old = Now(q) /\ Engages(q, s, old) /\ Selects(old.rest, Enters(q, g), w0)
  <2>1. PICK old : old = Now(q) /\ Due(q, g, y0, old)  BY <1>1, <1>6, <1>7
  <2>2. old.wait = call  BY <1>1, <1>7, <2>1 DEF Now
  <2> QED  BY <1>4, <2>1, <2>2 DEF Due
<1>8. y0 # << >> /\ w0 \in Seq(Serving)
  <2>1. y0 # << >>  BY <1>2, <1>7
  <2> QED  BY <2>1
<1> HIDE DEF g, s, w0
<1>9. Sound(s) /\ Entry(m, s) # Idle /\ call = Entry(m, s)
  <2>1. PICK old : old = Now(m) /\ Engages(m, s, old)  BY <1>2, <1>7
  <2>2. old.wait = call  BY <2>1 DEF Now
  <2> QED  BY <2>1, <2>2 DEF Engages
<1>10. M \subseteq Ranks
  <2>1. \A q \in ToSet(Entry(m, s).list) : q \in Ranks  BY <1>3, <1>9, EntryAgrees
  <2> QED  BY <1>9, <2>1
<1>11. ASSUME NEW q \in M
       PROVE  \E a \in Sizes : \E z : Inside(buf[q], q, s, a) /\ Flow(q, todo[q], a, z)
  <2>1. PICK old : old = Now(q) /\ Engages(q, s, old)  BY <1>7, <1>10
  <2>2. old.held = buf[q] /\ old.rest = todo[q]  BY <2>1 DEF Now
  <2> QED  BY <2>1, <2>2 DEF Engages
<1>12. /\ Shaped' /\ \A q \in M : \A a : Inside(buf[q], q, s, a) => HasBoth(buf'[q], a)
       /\ \A q \in Ranks \ M : buf'[q] = buf[q]
  <2>1. \A q \in M : \E a \in Sizes : Inside(buf[q], q, s, a)  BY <1>11
  <2>2. Shaped  BY DEF Holding
  <2> QED  BY <1>3, <1>9, <2>1, <2>2, MeetsRows
<1>13. ASSUME NEW q \in Ranks, NEW now, now = Now(q)'
       PROVE  /\ q \in M => now.wait = Idle /\ now.rest = todo[q] /\ Settles(q, now)
              /\ q \notin M => now = Now(q)
  <2>1. now.wait = waits'[q] /\ now.held = buf'[q] /\ now.rest = todo[q]  BY <1>1, <1>13 DEF Now
  <2>2. CASE q \in M
    <3>1. PICK a, z : a \in Sizes /\ Inside(buf[q], q, s, a) /\ Flow(q, todo[q], a, z)  BY <1>11, <2>2
    <3>2. HasBoth(buf'[q], a)  BY <1>12, <2>2, <3>1
    <3>3. Settles(q, now)  BY <2>1, <3>1, <3>2 DEF Settles
    <3> QED  BY <1>1, <2>1, <2>2, <3>3
  <2>3. CASE q \notin M
    <3>1. waits'[q] = waits[q] /\ buf'[q] = buf[q] /\ todo'[q] = todo[q]  BY <1>1, <1>12, <2>3
    <3> QED  BY <1>13, <2>3, <3>1 DEF Now
  <2> QED  BY <2>2, <2>3
<1>14. ASSUME NEW q \in Ranks, q \notin raised  PROVE \E now : now = Now(q)' /\ Holds(q, now)
  <2>1. PICK now : now = Now(q)'  OBVIOUS
  <2>2. CASE q \in M
    <3>1. now.wait = Idle /\ Settles(q, now)  BY <1>13, <2>1, <2>2
    <3> QED  BY <2>1, <3>1, IdlePasses DEF Holds
  <2>3. CASE q \notin M
    <3>1. PICK old : old = Now(q) /\ Holds(q, old)  BY <1>14 DEF Holding
    <3>2. now = old  BY <1>13, <2>1, <2>3, <3>1
    <3> QED  BY <2>1, <3>1, <3>2
  <2> QED  BY <2>2, <2>3
<1>15. ASSUME NEW name \in Names, NEW list \in Seq(Int), NEW y \in Seq(Serving),
              \A q \in Ranks : q \notin raised /\ q \in ToSet(list) =>
                \E old : old = Now(q) /\ Due(q, <<name, list>>, y, old)
       PROVE  \E w \in Seq(Serving) : \A q \in Ranks : q \notin raised /\ q \in ToSet(list) =>
                \E now : now = Now(q)' /\ Due(q, <<name, list>>, w, now)
  <2> DEFINE h == <<name, list>>
  <2>1. CASE name = call.name /\ list = call.list
    <3>1. h = g /\ ToSet(list) = M  BY <2>1 DEF g
    <3> HIDE DEF h, M
    <3>2. ASSUME NEW q \in Ranks, q \notin raised, q \in ToSet(list)
          PROVE  \E now : now = Now(q)' /\ Due(q, h, w0, now)
      <4>1. PICK old : old = Now(q) /\ Selects(old.rest, Enters(q, g), w0)  BY <1>7, <3>1, <3>2
      <4>2. PICK now : now = Now(q)'  OBVIOUS
      <4>3. now.wait = Idle /\ now.rest = todo[q]  BY <1>13, <3>1, <3>2, <4>2
      <4>4. old.rest = todo[q]  BY <4>1 DEF Now
      <4> QED  BY <3>1, <4>1, <4>2, <4>3, <4>4, IdlePasses DEF Due
    <3> QED  BY <1>8, <3>2 DEF h
  <2>2. CASE ~(name = call.name /\ list = call.list)
    <3>1. h # <<call.name, call.list>>  BY <2>2
    <3> HIDE DEF h, M
    <3>2. \A q \in Ranks : q \notin raised /\ q \in ToSet(list) =>
            \E old : old = Now(q) /\ Due(q, h, y, old)
      BY <1>15 DEF h
    <3>3. ASSUME NEW q \in Ranks, q \notin raised, q \in ToSet(list)
          PROVE  \E now : now = Now(q)' /\ Due(q, h, y, now)
      <4>1. PICK old : old = Now(q) /\ Due(q, h, y, old)  BY <3>2, <3>3
      <4>2. PICK now : now = Now(q)'  OBVIOUS
      <4>3. CASE q \in M
        <5>1. old.wait = call /\ old.rest = todo[q]  BY <1>1, <4>1, <4>3 DEF Now
        <5>2. Selects(todo[q], Enters(q, h), y)  BY <3>1, <4>1, <5>1 DEF Due
        <5>3. now.wait = Idle /\ now.rest = todo[q]  BY <1>13, <4>2, <4>3
        <5> QED  BY <4>2, <5>2, <5>3, IdlePasses DEF Due
      <4>4. CASE q \notin M
        <5>1. now = old  BY <1>13, <4>1, <4>2, <4>4
        <5> QED  BY <4>1, <4>2, <5>1
      <4> QED  BY <4>3, <4>4
    <3> QED  BY <3>3 DEF h
  <2> QED  BY <2>1, <2>2
<1>16. Holding' /\ Paired'
  BY ONLY <1>1, <1>12, <1>14, <1>15, Holding, Paired, AllMove
<1>17. Wired'  BY <1>1, WiredKeeps
<1> QED  BY <1>16, <1>17

LEMMA PairedNext ==
  IInv /\ Within /\ Holding /\ Wired /\ Paired /\ [Next]_vars => Holding' /\ Wired' /\ Paired'
<1> SUFFICES ASSUME IInv, Within, Holding, Wired, Paired, [Next]_vars
             PROVE  Holding' /\ Wired' /\ Paired'
  OBVIOUS
<1>1. ASSUME NEW r \in Ranks, SetUp(r) \/ SetUpRoce(r)  PROVE Holding' /\ Wired' /\ Paired'
  BY <1>1, PairedBuilds
<1>2. ASSUME NEW r \in Ranks, RankServes(r)  PROVE Holding' /\ Wired' /\ Paired'
  BY <1>2, PairedServes
<1>3. ASSUME NEW m \in Ranks, waits[m] # Idle, FormGroup(waits[m]) \/ Handshake(waits[m])
      PROVE  Holding' /\ Wired' /\ Paired'
  BY <1>3, PairedSetsUp
<1>4. ASSUME NEW m \in Ranks, waits[m] # Idle,
             \/ AllReduced(waits[m]) \/ Gathered(waits[m])
             \/ Scattered(waits[m]) \/ Dispatched(waits[m])
      PROVE  Holding' /\ Wired' /\ Paired'
  <2>1. PICK call : call = waits[m]  OBVIOUS
  <2> QED  BY <1>4, <2>1, PairedMeets
<1>5. CASE UNCHANGED vars
  <2>1. /\ conf' = conf /\ todo' = todo /\ raised' = raised /\ buf' = buf /\ wire' = wire
        /\ waits' = waits
    BY <1>5 DEF vars, data, links, health
  <2>2. Wired'  BY <2>1, WiredKeeps
  <2>3. Shaped'  BY <2>1 DEF Holding, Shaped
  <2>4. \A q : Now(q)' = Now(q)  BY <2>1 DEF Now
  <2>5. \A q \in Ranks : q \notin raised => \E now : now = Now(q)' /\ Holds(q, now)
    BY <2>4 DEF Holding
  <2>6. ASSUME NEW name \in Names, NEW list \in Seq(Int), NEW y \in Seq(Serving),
               \A q \in Ranks : q \notin raised /\ q \in ToSet(list) =>
                 \E old : old = Now(q) /\ Due(q, <<name, list>>, y, old)
        PROVE  \E w \in Seq(Serving) : \A q \in Ranks : q \notin raised /\ q \in ToSet(list) =>
                 \E now : now = Now(q)' /\ Due(q, <<name, list>>, w, now)
    <3> DEFINE h == <<name, list>>
    <3> HIDE DEF h
    <3>1. \A q \in Ranks : q \notin raised /\ q \in ToSet(list) =>
            \E now : now = Now(q)' /\ Due(q, h, y, now)
      BY <2>4, <2>6 DEF h
    <3> QED  BY <3>1 DEF h
  <2>7. Holding' /\ Paired'
    BY ONLY <2>1, <2>3, <2>5, <2>6, Holding, Paired, AllMove
  <2> QED  BY <2>2, <2>7
<1> QED  BY <1>1, <1>2, <1>3, <1>4, <1>5 DEF Next, RankServes, Stopped

\* Of any sequence something is left when only some steps are kept.
LEMMA SelectsExists ==
  ASSUME NEW A, NEW q \in Seq(A), NEW S
  PROVE  \E y \in Seq(A \cap S) : Selects(q, S, y)
<1> DEFINE B == A \cap S  n == Len(q)  p(i) == SubSeq(q, 1, i)
           T == {i \in 0 .. n : ~ \E y \in Seq(B) : Selects(p(i), S, y)}
<1>1. n \in Nat /\ p(n) = q  OBVIOUS
<1>2. \A i \in 0 .. n : p(i) \in Seq(A)  OBVIOUS
<1>3. p(0) = << >>  OBVIOUS
<1>4. \A i \in 1 .. n : p(i) = p(i - 1) \o <<q[i]>> /\ q[i] \in A
  <2> SUFFICES ASSUME NEW i \in 1 .. n  PROVE p(i) = p(i - 1) \o <<q[i]>> /\ q[i] \in A
    OBVIOUS
  <2> DEFINE a == p(i)  b == p(i - 1)  c == <<q[i]>>
  <2>1. /\ a = [k \in 1 .. i |-> q[k]] /\ b = [k \in 1 .. i - 1 |-> q[k]]
        /\ b \in Seq(A) /\ c \in Seq(A) /\ Len(b) = i - 1 /\ Len(c) = 1 /\ c[1] = q[i]
        /\ i \in Nat \ {0} /\ q[i] \in A
    OBVIOUS
  <2> DEFINE d == b \o c
  <2> HIDE DEF a, b, c
  <2>2. /\ d \in Seq(A) /\ Len(d) = Len(b) + Len(c)
        /\ \A k \in 1 .. Len(b) : d[k] = b[k]
        /\ \A k \in Len(b) + 1 .. Len(b) + Len(c) : d[k] = c[k - Len(b)]
    <3>1. b \in Seq(A) /\ c \in Seq(A)  BY <2>1
    <3> QED  BY ONLY <3>1, ConcatAt
  <2> HIDE DEF d
  <2>3. Len(d) = i /\ d[i] = q[i] /\ \A k \in 1 .. i - 1 : d[k] = q[k]
    <3>1. i \in Len(b) + 1 .. Len(b) + Len(c) /\ i - Len(b) = 1  BY ONLY <2>1
    <3>2. d[i] = q[i]  BY <2>1, <2>2, <3>1
    <3> QED  BY <2>1, <2>2, <3>2
  <2>4. a = d
    <3>1. d = [k \in 1 .. i |-> d[k]]  BY <2>1, <2>2, <2>3
    <3>2. \A k \in 1 .. i : d[k] = q[k]  BY <2>1, <2>3
    <3> QED  BY <2>1, <3>1, <3>2
  <2> QED  BY <2>1, <2>4 DEF a, b, c, d
<1> HIDE DEF B, n, p
<1>5. T = {}
  <2>1. SUFFICES ASSUME T # {}  PROVE FALSE  OBVIOUS
  <2>2. PICK i \in T : \A j \in T : i <= j
    <3>1. T \in SUBSET Nat  BY <1>1
    <3> HIDE DEF T
    <3> QED  BY <2>1, <3>1, Least
  <2>3. i \in 0 .. n /\ ~ \E y \in Seq(B) : Selects(p(i), S, y)  OBVIOUS
  <2>4. CASE i = 0
    <3> DEFINE none == << >>
    <3>1. none \in Seq(A) /\ none \in Seq(S) /\ none \in Seq(B)  OBVIOUS
    <3>2. p(i) = none  BY <1>3, <2>4
    <3> HIDE DEF none
    <3>3. Selects(none, S, none)  BY <3>1, SelectsAll
    <3> QED  BY <2>3, <3>1, <3>2, <3>3
  <2>5. CASE i # 0
    <3>1. i \in 1 .. n /\ i - 1 \in 0 .. n /\ i - 1 \notin T
      <4>1. i \in Int /\ i \in 1 .. n /\ i - 1 \in 0 .. n  BY <1>1, <2>3, <2>5
      <4> HIDE DEF T
      <4> QED  BY <2>2, <4>1
    <3>2. PICK y \in Seq(B) : Selects(p(i - 1), S, y)  BY <3>1
    <3> DEFINE one == <<q[i]>>  none == << >>
    <3>3. p(i) = p(i - 1) \o one /\ one \in Seq(A) /\ p(i - 1) \in Seq(A)  BY <1>2, <1>4, <3>1
    <3>4. PICK z \in Seq(B) : Selects(one, S, z)
      <4>1. CASE q[i] \in S
        <5>1. one \in Seq(S) /\ one \in Seq(B)
          <6> DEFINE e == q[i]
          <6>1. e \in S /\ e \in B  BY <1>4, <3>1, <4>1 DEF B
          <6> HIDE DEF e
          <6>2. <<e>> \in Seq(S) /\ <<e>> \in Seq(B)  BY <6>1
          <6> QED  BY <6>2 DEF e
        <5> HIDE DEF one
        <5> QED  BY <5>1, SelectsAll
      <4>2. CASE q[i] \notin S
        <5>1. one \in Seq({q[i]}) /\ {q[i]} \cap S = {} /\ none \in Seq(B)  BY <4>2
        <5> HIDE DEF one
        <5>2. Selects(one, S, << >>)  BY <5>1, SelectsNone
        <5> QED  BY <5>1, <5>2 DEF none
      <4> QED  BY <4>1, <4>2
    <3>5. y \in Seq(A) /\ z \in Seq(A) /\ y \o z \in Seq(B)
      <4>1. B \subseteq A  BY DEF B
      <4>2. y \o z \in Seq(B)  BY ONLY y \in Seq(B), z \in Seq(B), ConcatSeq
      <4> QED  BY <4>1, <4>2
    <3> HIDE DEF one, T
    <3>6. Selects(p(i - 1) \o one, S, y \o z)  BY <3>2, <3>3, <3>4, <3>5, SelectsConcat
    <3> QED  BY <2>3, <3>3, <3>5, <3>6
  <2> QED  BY <2>4, <2>5
<1>6. \E y \in Seq(B) : Selects(p(n), S, y)
  <2>1. n \in 0 .. n  BY <1>1
  <2> QED  BY <1>5, <2>1
<1> QED  BY <1>1, <1>6 DEF B

\* What ranks of one stage do after setting up is the same.
LEMMA ServedAlike ==
  ASSUME NEW r \in Ranks, NEW q \in Ranks,
         FirstStage(q) <=> FirstStage(r), LastStage(q) <=> LastStage(r)
  PROVE  Served(q) = Served(r)
<1>1. FirstStage(q) = FirstStage(r) /\ LastStage(q) = LastStage(r)
  BY DEF FirstStage, LastStage
<1>2. \A p : Forward(q, p) = Forward(r, p)  BY <1>1 DEF Forward
<1> QED  BY <1>1, <1>2 DEF Served

\* The ranks of a communicator that some of them enter enter it in the same steps.
LEMMA EntersShared ==
  ASSUME conf \in Layouts, NEW name, NEW list, NEW g, g = <<name, list>>, NEW r \in Ranks, r \in ToSet(list),
         Enters(r, g) # {}, NEW q \in Ranks, q \in ToSet(list)
  PROVE  Enters(q, g) = Enters(r, g) /\ Served(q) = Served(r)
<1>1. ASSUME NEW p \in Ranks, NEW s \in Enters(p, g)
      PROVE  /\ Sound(s) /\ s \in Serving /\ Entry(p, s) # Idle /\ Entry(p, s).name = name
             /\ Entry(p, s).list = list
  BY DEF Enters
<1>2. ASSUME NEW p \in Ranks, NEW o \in Ranks, o \in ToSet(list), NEW s \in Enters(p, g)
      PROVE  /\ s \in Enters(o, g)
             /\ FirstStage(o) <=> FirstStage(p)
             /\ LastStage(o) <=> LastStage(p)
  <2>1. /\ Entry(o, s) = Entry(p, s)
        /\ FirstStage(o) <=> FirstStage(p)
        /\ LastStage(o) <=> LastStage(p)
    BY <1>1, <1>2, EntryAgrees
  <2>2. s \in Enters(o, g)  BY <1>1, <1>2, <2>1 DEF Enters
  <2> QED  BY <2>1, <2>2
<1>3. Enters(q, g) = Enters(r, g)  BY <1>2
<1>4. PICK s : s \in Enters(r, g)  OBVIOUS
<1>5. Served(q) = Served(r)
  <2>1. /\ FirstStage(q) <=> FirstStage(r)
        /\ LastStage(q) <=> LastStage(r)
    BY <1>2, <1>4
  <2> QED  BY <2>1, ServedAlike
<1> QED  BY <1>3, <1>5

\* One sequence of steps for each communicator that ranks serve in.
LEMMA ProgramsPair ==
  ASSUME conf \in Layouts, NEW name, NEW list, NEW g, g = <<name, list>>
  PROVE  \E y \in Seq(Serving) :
           \A q \in Ranks : q \in ToSet(list) => Selects(Program(q), Enters(q, g), y)
<1>1. ASSUME NEW q \in Ranks, NEW y \in Seq(Serving), Selects(Served(q), Enters(q, g), y)
      PROVE  Selects(Program(q), Enters(q, g), y)
  <2> DEFINE a == Setup(q)  b == Served(q)  S == Enters(q, g)  none == << >>
  <2>1. a \in Seq(Building(conf)) /\ b \in Seq(Serving) /\ Program(q) = a \o b
    BY SetupBuilds, ProgramRightful
  <2>2. Building(conf) \cap S = {}
    <3>1. \A s \in Building(conf) : s.do \in SetUpTasks  BY DEF Building
    <3>2. \A s \in Serving : s.do \in ServeTasks  BY DEF Serving
    <3>3. SetUpTasks \cap ServeTasks = {}  BY DEF SetUpTasks, ServeTasks
    <3> QED  BY <3>1, <3>2, <3>3 DEF Enters
  <2> HIDE DEF a, b, S
  <2>3. Selects(a, S, none)  BY <2>1, <2>2, SelectsNone
  <2>4. /\ a \in Seq(Steps) /\ b \in Seq(Steps) /\ y \in Seq(Steps) /\ none \in Seq(Steps)
        /\ none \o y = y
    BY <2>1 DEF Steps
  <2> HIDE DEF none
  <2>5. Selects(a \o b, S, none \o y)  BY <1>1, <2>3, <2>4, SelectsConcat DEF b, S
  <2> QED  BY <2>1, <2>4, <2>5 DEF S
<1>2. CASE \E r \in Ranks : r \in ToSet(list) /\ Enters(r, g) # {}
  <2>1. PICK r \in Ranks : r \in ToSet(list) /\ Enters(r, g) # {}  BY <1>2
  <2>2. Served(r) \in Seq(Serving)  BY ProgramRightful
  <2>3. PICK y \in Seq(Serving \cap Enters(r, g)) : Selects(Served(r), Enters(r, g), y)
    BY <2>2, SelectsExists
  <2>4. y \in Seq(Serving)  OBVIOUS
  <2>5. ASSUME NEW q \in Ranks, q \in ToSet(list)  PROVE Selects(Program(q), Enters(q, g), y)
    <3>1. Enters(q, g) = Enters(r, g) /\ Served(q) = Served(r)  BY <2>1, <2>5, EntersShared
    <3> QED  BY <1>1, <2>3, <2>4, <3>1
  <2> QED  BY <2>4, <2>5
<1>3. CASE \A r \in Ranks : r \in ToSet(list) => Enters(r, g) = {}
  <2> DEFINE none == << >>
  <2>1. none \in Seq(Serving)  OBVIOUS
  <2>2. ASSUME NEW q \in Ranks, q \in ToSet(list)  PROVE Selects(Program(q), Enters(q, g), none)
    <3>1. Served(q) \in Seq(Serving) /\ Serving \cap Enters(q, g) = {}  BY <1>3, <2>2, ProgramRightful
    <3>2. Selects(Served(q), Enters(q, g), none)  BY <3>1, SelectsNone
    <3> HIDE DEF none
    <3> QED  BY <1>1, <2>1, <3>2
  <2> HIDE DEF none
  <2> QED  BY <2>1, <2>2
<1> QED  BY <1>2, <1>3

LEMMA PairedInit == Init => Holding /\ Wired /\ Paired
<1> SUFFICES ASSUME Init  PROVE Holding /\ Wired /\ Paired
  OBVIOUS
<1>1. /\ conf \in Layouts /\ todo = [r \in Ranks |-> Program(r)]
      /\ \A r \in Ranks : waits[r] = Idle
      /\ buf = [r \in Ranks |-> [x |-> << >>, ids |-> << >>]]
  BY DEF Init
<1>2. Wired  BY WiredInit
<1>3. Shaped  BY <1>1 DEF Shaped
<1>4. ASSUME NEW r \in Ranks  PROVE \E now : now = Now(r) /\ Holds(r, now)
  <2>1. PICK now : now = Now(r)  OBVIOUS
  <2>2. now.wait = Idle /\ now.held = buf[r] /\ now.rest = Program(r)  BY <1>1, <2>1 DEF Now
  <2> DEFINE a == Both(0, 0)  none == << >>
  <2>3. a \in Sizes /\ a["x"] = 0 /\ a["ids"] = 0  BY BothSizes
  <2>4. HasRows(none, 0)
    <3>1. none \in Seq({}) /\ Len(none) = 0  OBVIOUS
    <3> HIDE DEF none
    <3> QED  BY <3>1, SeqRows
  <2>5. now.held["x"] = none /\ now.held["ids"] = none  BY <1>1, <2>2
  <2> HIDE DEF a, none
  <2>6. HasBoth(now.held, a)  BY <2>3, <2>4, <2>5 DEF HasBoth
  <2>7. PICK z \in Sizes : Flow(r, Program(r), a, z)
    <3>1. Runs(r, Program(r))  BY <1>1, ProgramRuns
    <3> QED  BY <2>3, <3>1 DEF Runs
  <2>8. Settles(r, now)  BY <2>2, <2>3, <2>6, <2>7 DEF Settles
  <2> QED  BY <2>1, <2>2, <2>8, IdlePasses DEF Holds
<1>5. Holding  BY <1>3, <1>4 DEF Holding
<1>6. ASSUME NEW name \in Names, NEW list \in Seq(Int)
      PROVE  \E y \in Seq(Serving) : \A r \in Ranks : r \notin raised /\ r \in ToSet(list) =>
               \E now : now = Now(r) /\ Due(r, <<name, list>>, y, now)
  <2> DEFINE g == <<name, list>>
  <2>1. PICK y \in Seq(Serving) :
          \A q \in Ranks : q \in ToSet(list) => Selects(Program(q), Enters(q, g), y)
    BY <1>1, ProgramsPair
  <2> HIDE DEF g
  <2>2. ASSUME NEW r \in Ranks, r \in ToSet(list)
        PROVE  \E now : now = Now(r) /\ Due(r, g, y, now)
    <3>1. PICK now : now = Now(r)  OBVIOUS
    <3>2. now.wait = Idle /\ now.rest = Program(r)  BY <1>1, <3>1 DEF Now
    <3> QED  BY <2>1, <2>2, <3>1, <3>2, IdlePasses DEF Due
  <2> QED  BY <2>2 DEF g
<1> QED  BY <1>2, <1>5, <1>6 DEF Paired

\* Ranks that wait in one communicator are there in the same step, of setting up or of serving.
LEMMA PairedAgrees ==
  ASSUME IInv, Within, Agreed, Holding, Paired
  PROVE  GroupsAgreed
<1>1. ASSUME NEW r \in Ranks, NEW s \in Ranks, waits[r].do \in SetUpTasks
      PROVE  Together(r, s)
  <2> DEFINE name == waits[r].name  list == waits[r].list  g == <<name, list>>
  <2>1. SUFFICES ASSUME waits[s] # Idle, waits[s].name = name, waits[s].list = list
                 PROVE  waits[r] = waits[s]
    BY DEF Together
  <2>2. waits[r] # Idle  BY <1>1, IdleServes
  <2>3. /\ r \notin raised /\ r \in ToSet(list) /\ s \notin raised /\ s \in ToSet(list)
        /\ name \in Names /\ list \in Seq(Int)
    BY <1>1, <2>1, <2>2 DEF Within
  <2>4. PICK x \in Seq(Steps) :
          \A q \in Ranks : q \notin raised /\ q \in ToSet(list) =>
            Ahead(waits[q], todo[q], On(g), g, x)
    BY <2>3 DEF Agreed
  <2>5. Ahead(waits[r], todo[r], On(g), g, x) /\ Ahead(waits[s], todo[s], On(g), g, x)
    BY <2>3, <2>4
  <2>6. At(waits[r], g)  BY <1>1 DEF At
  <2>7. x # << >> /\ waits[r] = CallOf(Head(x))  BY <2>5, <2>6 DEF Ahead
  <2>8. CASE waits[s].do \in SetUpTasks
    <3>1. At(waits[s], g)  BY <2>1, <2>8 DEF At
    <3>2. waits[s] = CallOf(Head(x))  BY <2>5, <3>1 DEF Ahead
    <3> QED  BY <2>7, <3>2
  <2>9. CASE waits[s].do \notin SetUpTasks
    <3>1. ~At(waits[s], g)  BY <2>9 DEF At
    <3>2. Selects(todo[s], On(g), x)  BY <2>5, <3>1 DEF Ahead
    <3>3. todo[s] \in Seq(Serving)  BY <2>1, <2>9 DEF Within
    <3> QED  BY <2>7, <3>2, <3>3, ServesNone
  <2> QED  BY <2>8, <2>9
<1>2. ASSUME NEW r \in Ranks, NEW s \in Ranks,
             waits[r].do \notin SetUpTasks, waits[s].do \notin SetUpTasks
      PROVE  Together(r, s)
  <2> DEFINE name == waits[r].name  list == waits[r].list  g == <<name, list>>
  <2>1. SUFFICES ASSUME waits[r] # Idle, waits[s] # Idle, waits[s].name = name, waits[s].list = list
                 PROVE  waits[r] = waits[s]
    BY DEF Together
  <2>2. InPass(waits[r]) /\ InPass(waits[s])  BY <1>2, <2>1 DEF InPass
  <2>3. /\ r \notin raised /\ r \in ToSet(list) /\ s \notin raised /\ s \in ToSet(list)
        /\ conf \in Layouts
    BY <2>1 DEF Within, IInv, Rightly
  <2>4. name \in Names /\ list \in Seq(Int)
    <3>1. PICK now : now = Now(r) /\ Holds(r, now)  BY <2>3 DEF Holding
    <3>2. now.wait = waits[r]  BY <3>1 DEF Now
    <3> QED  BY <2>2, <3>1, <3>2 DEF Holds
  <2>5. PICK y \in Seq(Serving) : \A q \in Ranks : q \notin raised /\ q \in ToSet(list) =>
          \E now : now = Now(q) /\ Due(q, g, y, now)
    BY <2>4 DEF Paired
  <2>6. <<waits[s].name, waits[s].list>> = g  BY <2>1
  <2> DEFINE t == Head(y)
  <2>7. Sound(t) /\ Entry(r, t) # Idle /\ waits[r] = Entry(r, t)
    <3>1. PICK now : now = Now(r) /\ Due(r, g, y, now)  BY <2>3, <2>5
    <3>2. now.wait = waits[r]  BY <3>1 DEF Now
    <3>3. Engages(r, t, now)  BY <2>2, <3>1, <3>2 DEF Due
    <3> QED  BY <3>2, <3>3 DEF Engages
  <2>8. waits[s] = Entry(s, t)
    <3>1. PICK now : now = Now(s) /\ Due(s, g, y, now)  BY <2>3, <2>5
    <3>2. now.wait = waits[s]  BY <3>1 DEF Now
    <3>3. Engages(s, t, now)  BY <2>2, <2>6, <3>1, <3>2 DEF Due
    <3> QED  BY <3>2, <3>3 DEF Engages
  <2> HIDE DEF t
  <2>9. Entry(s, t) = Entry(r, t)
    <3>1. s \in ToSet(Entry(r, t).list)  BY <2>3, <2>7
    <3> QED  BY <2>3, <2>7, <3>1, EntryAgrees
  <2> QED  BY <2>7, <2>8, <2>9
<1>3. ASSUME NEW r \in Ranks, NEW s \in Ranks  PROVE Together(r, s)
  <2>1. Together(s, r) => Together(r, s)  BY DEF Together
  <2> QED  BY <1>1, <1>2, <2>1
<1> QED  BY <1>3, ReadyIsFormed DEF GroupsAgreed

(***************************************************************************)
(* In every layout, with any number of ranks, ranks that wait in one       *)
(* communicator wait in the same call, by the same route and with the same *)
(* sizes.  While they set up, the loops over groups that each rank runs    *)
(* alone, over its own groups and those of others                          *)
(* (GroupCoordinator.__init__), put their calls in one order.  In forward  *)
(* passes each rank decides by the rows in its own buffers and by the      *)
(* switches of the layout what it calls next, and by which route.  And a   *)
(* rank that goes on to serve has a group of every coordinator, with the   *)
(* ranks that the layout means.                                            *)
(***************************************************************************)
THEOREM GroupsAgreedHolds == Spec => []GroupsAgreed
<1> DEFINE Inv == IInv /\ Within /\ Agreed /\ Holding /\ Wired /\ Paired
<1>1. Init => Inv  BY IInvInit, AgreedInit, PairedInit
<1>2. Inv /\ [Next]_vars => Inv'
  BY IInvNext, AgreedNext, PairedNext
<1>3. Inv => GroupsAgreed  BY PairedAgrees
<1> HIDE DEF Inv
<1> QED  BY <1>1, <1>2, <1>3, PTL DEF Spec
==============================================================================
