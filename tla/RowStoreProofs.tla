--------------------------- MODULE RowStoreProofs ---------------------------
(***************************************************************************)
(* Proofs about RowStore for every set of threads, every table, every      *)
(* budget and number of ways, every range and every set of shards.         *)
(***************************************************************************)
EXTENDS RowStore, FiniteSetTheorems, TLAPS

\* Threads between the count of a lookup and the count of its hit or miss.
Uncounted == {t \in Threads : pc[t] \in {"probe", "copy", "read"}}

\* A shard or pinned scales start at the first owned row, and there are none
\* before the range is set; a thread serves only after loading, an owned row.
LoadedInv ==
  /\ packed \in {None, rowLo} /\ scales \in {None, rowLo}
  /\ phase = "open" => packed = None /\ scales = None
  /\ \A t \in Threads : pc[t] # "idle" =>
       /\ phase = "serving" /\ owned[t]
       /\ id[t] \in 0 .. TableRows - 1

\* The cache is used only if it has sets, and copied or keyed under its lock.
LockInv == \A t \in Threads :
  /\ pc[t] \in {"probe", "copy", "insert", "key"} => sets > 0
  /\ pc[t] \in {"copy", "key"} => lock[LockOf(SetOf(id[t]))] = t

\* What a thread inside fetch_row knows of its row and its slot.
FetchInv == \A t \in Threads :
  /\ pc[t] \in {"insert", "key"} => row[t] = RowOf(id[t])
  /\ pc[t] = "key" => data[SlotOf(t, way[t])] = RowOf(id[t])
  /\ pc[t] = "copy" => keys[SlotOf(t, way[t])] = id[t] + 1

\* A keyed slot is exact unless a thread is between its copy and its key.
SlotInv == \A slot \in Slots \ Filling :
  keys[slot] > 0 => data[slot] = RowOf(keys[slot] - 1)

CountInv == hits + misses + Cardinality(Uncounted) = lookups

IInv == /\ TypeOK /\ LoadedInv /\ LockInv /\ FetchInv /\ SlotInv
        /\ ServedExact /\ CountInv

-----------------------------------------------------------------------------
(* Arithmetic: sets, locks and the size of the cache.                      *)

LEMMA DivMod ==
  ASSUME NEW n \in Nat \ {0}, NEW a \in Nat
  PROVE  a % n \in 0 .. n - 1 /\ a \div n \in Nat
  OBVIOUS

LEMMA SetType ==
  ASSUME TypeOK, sets > 0
  PROVE  \A i \in Nat : SetOf(i) \in 0 .. sets - 1
<1>1. sets \in Nat \ {0}  BY DEF TypeOK
<1> QED  BY <1>1, DivMod DEF SetOf

LEMMA LockType == \A s \in Nat : LockOf(s) \in 0 .. NLocks - 1
<1>1. NLocks \in Nat \ {0}  BY RowStoreAssumption
<1> QED  BY <1>1, DivMod DEF LockOf

LEMMA SetsType ==
  ASSUME NEW b \in Nat, NEW w \in 1 .. 16
  PROVE  SetsFor(b, w) \in Nat
<1> DEFINE n == (KRowBytes + KeyBytes) * w + 1
<1>1. n \in Nat \ {0}  BY DEF KRowBytes, KeyBytes
<1> HIDE DEF n
<1>2. b \div n \in Nat  BY <1>1, DivMod
<1> QED  BY <1>2 DEF SetsFor, n

LEMMA ClampType == \A w \in Nat : Clamp(w) \in 1 .. 16  BY DEF Clamp

-----------------------------------------------------------------------------
(* The initial state.                                                      *)

LEMMA InitInv == Init => IInv
<1> SUFFICES ASSUME Init  PROVE IInv  OBVIOUS
<1> USE RowStoreAssumption
<1>1. ways \in 1 .. 16  BY ClampType DEF Init
<1>2. budget \in Nat  BY DEF Init
<1>3. sets \in Nat  BY <1>1, <1>2, SetsType DEF Init
<1>4. TypeOK
  <2>1. /\ rowLo \in 0 .. TableRows /\ rowHi \in rowLo .. TableRows
        /\ packed \in Int /\ scales \in Int
    BY DEF Init, None
  <2>2. /\ keys \in [Slots -> 0 .. TableRows]
        /\ data \in [Slots -> [weight : Int, scale : Int]]
    BY DEF Init, ZeroRow, RowOf, Nowhere
  <2>3. victim \in [0 .. sets - 1 -> 0 .. ways - 1]  BY <1>1 DEF Init
  <2>4. lock \in [0 .. NLocks - 1 -> Threads \cup {NoThread}]  BY DEF Init
  <2>5. /\ pc \in [Threads -> Labels] /\ id \in [Threads -> Ids]
        /\ owned \in [Threads -> BOOLEAN]
    BY DEF Init, Labels, Ids, None
  <2>6. row \in [Threads -> [weight : Int, scale : Int]]
    BY DEF Init, ZeroRow, RowOf, Nowhere
  <2>7. way \in [Threads -> 0 .. ways - 1]  BY <1>1 DEF Init
  <2>8. /\ phase \in {"open", "ranged", "serving"} /\ ram \in BOOLEAN
        /\ hits \in Nat /\ misses \in Nat /\ reads \in Nat
        /\ lookups \in Nat /\ aborted \in BOOLEAN
    BY DEF Init
  <2> QED  BY <1>1, <1>2, <1>3, <2>1, <2>2, <2>3, <2>4, <2>5, <2>6, <2>7, <2>8 DEF TypeOK
<1>5. LoadedInv /\ LockInv /\ FetchInv /\ ServedExact
  BY DEF Init, LoadedInv, LockInv, FetchInv, ServedExact, None
<1>6. SlotInv  BY DEF Init, SlotInv
<1>7. CountInv
  <2>1. Uncounted = {}  BY DEF Init, Uncounted
  <2> QED  BY <2>1, FS_EmptySet DEF Init, CountInv
<1> QED  BY <1>4, <1>5, <1>6, <1>7 DEF IInv

-----------------------------------------------------------------------------
(* Locks exclude: threads inside the same set are one thread.              *)

\* A thread that holds the lock of its set is the only one inside it.
LEMMA Exclusive ==
  ASSUME TypeOK, LoadedInv, LockInv, NEW t \in Threads, NEW u \in Threads,
         pc[t] \in {"copy", "key"}, pc[u] \in {"copy", "key"},
         LockOf(SetOf(id[t])) = LockOf(SetOf(id[u]))
  PROVE  t = u
  BY DEF LockInv

\* A free lock means that no thread is inside its sets.
LEMMA FreeMeansEmpty ==
  ASSUME TypeOK, LockInv, NEW t \in Threads, NEW u \in Threads,
         lock[LockOf(SetOf(id[t]))] = NoThread, pc[u] \in {"copy", "key"}
  PROVE  LockOf(SetOf(id[t])) # LockOf(SetOf(id[u]))
  BY RowStoreAssumption DEF LockInv

\* The slot of a thread inside the cache is one of the cache's.
LEMMA SlotType ==
  ASSUME TypeOK, LoadedInv, LockInv, NEW t \in Threads,
         pc[t] \in {"probe", "copy", "insert", "key"}
  PROVE  /\ SetOf(id[t]) \in 0 .. sets - 1 /\ id[t] \in 0 .. TableRows - 1
         /\ LockOf(SetOf(id[t])) \in 0 .. NLocks - 1
         /\ \A w \in 0 .. ways - 1 : <<SetOf(id[t]), w>> \in Slots
<1>1. id[t] \in 0 .. TableRows - 1 /\ sets > 0  BY DEF LoadedInv, LockInv
<1>2. SetOf(id[t]) \in 0 .. sets - 1  BY <1>1, SetType
<1>3. sets \in Nat  BY DEF TypeOK
<1>4. LockOf(SetOf(id[t])) \in 0 .. NLocks - 1  BY <1>2, <1>3, LockType
<1> QED  BY <1>1, <1>2, <1>4 DEF Slots

LEMMA UncountedFinite == IsFiniteSet(Uncounted)
  BY RowStoreAssumption, FS_Subset DEF Uncounted

-----------------------------------------------------------------------------
(* Steps that leave the cache and the threads alone.                       *)

\* Loading: the invariants of the cache and of the threads see no change.
LEMMA LoadingSteps ==
  ASSUME IInv,
         \/ \E r \in Ranges : SetRange(r)
         \/ \E f \in Shards : AttachPacked(f)
         \/ AttachMissing
  PROVE  IInv'
<1> USE DEF IInv
<1>1. UNCHANGED <<opened, cache, stats, locals, lookups>>
  BY DEF SetRange, AttachPacked, AttachMissing, Fail, layout
<1>2. UNCHANGED <<Slots, Filling, Uncounted>>
  BY <1>1 DEF Slots, Filling, Uncounted, opened, locals, SetOf, SlotOf
<1>3. LockInv' /\ FetchInv' /\ ServedExact'
  BY <1>1 DEF LockInv, FetchInv, ServedExact, opened, cache, locals, LockOf, SetOf, SlotOf
<1>4. SlotInv'  BY <1>1, <1>2 DEF SlotInv, cache
<1>5. CountInv'  BY <1>1, <1>2 DEF CountInv, stats
<1>6. CASE \E r \in Ranges : SetRange(r)
  <2>0. PICK r \in Ranges : SetRange(r)  BY <1>6
  <2>1. r[1] \in Nat /\ r[2] \in Nat  BY RowStoreAssumption
  <2>2. CASE UNCHANGED <<phase, layout>>
    <3>1. aborted' \in BOOLEAN  BY <2>0 DEF SetRange, Fail, TypeOK
    <3>2. TypeOK'
      BY <1>1, <1>2, <2>2, <3>1 DEF TypeOK, layout, opened, cache, stats, locals
    <3> QED  BY <1>1, <1>3, <1>4, <1>5, <2>2, <3>2 DEF LoadedInv, layout, locals
  <2>3. CASE phase' # phase
    <3>1. /\ ~BadRange(r[1], r[2]) /\ rowLo' = r[1] /\ rowHi' = r[2]
          /\ scales' \in PinScales(r[1], r[2]) /\ phase' = "ranged"
          /\ phase = "open" /\ UNCHANGED <<packed, aborted>>
      BY <2>0, <2>3 DEF SetRange, Fail
    <3>2. /\ packed' = None /\ scales' \in {None, rowLo'}
      BY <3>1 DEF LoadedInv, PinScales
    <3>3. rowLo' \in 0 .. TableRows /\ rowHi' \in rowLo' .. TableRows
      BY <2>1, <3>1, RowStoreAssumption DEF BadRange
    <3>4. TypeOK'
      BY <1>1, <1>2, <3>1, <3>2, <3>3 DEF TypeOK, opened, cache, stats, locals, None
    <3>5. \A t \in Threads : pc[t] = "idle"  BY <3>1 DEF LoadedInv
    <3>6. LoadedInv'  BY <1>1, <3>1, <3>2, <3>5 DEF LoadedInv, locals
    <3> QED  BY <1>3, <1>4, <1>5, <3>4, <3>6
  <2>4. phase' # phase \/ UNCHANGED <<phase, layout>>
    BY <2>0 DEF SetRange, Fail, layout
  <2> QED  BY <2>2, <2>3, <2>4
<1>7. CASE \E f \in Shards : AttachPacked(f)
  <2>0. PICK f \in Shards : AttachPacked(f)  BY <1>7
  <2>1. /\ packed' \in {None, rowLo} /\ UNCHANGED <<rowLo, rowHi, scales>>
        /\ phase' \in {"serving", phase} /\ aborted' \in BOOLEAN
        /\ phase = "ranged" /\ (phase' = phase => packed' = packed)
    BY <2>0 DEF AttachPacked, Matches, Fail, layout, TypeOK, LoadedInv
  <2>2. TypeOK'
    BY <1>1, <1>2, <2>1 DEF TypeOK, opened, cache, stats, locals, None
  <2>3. LoadedInv'  BY <1>1, <2>1 DEF LoadedInv, locals
  <2> QED  BY <1>3, <1>4, <1>5, <2>2, <2>3
<1>8. CASE AttachMissing
  <2>1. phase' = "serving" /\ phase = "ranged" /\ UNCHANGED <<layout, aborted>>
    BY <1>8 DEF AttachMissing
  <2>2. TypeOK'
    BY <1>1, <1>2, <2>1 DEF TypeOK, layout, opened, cache, stats, locals
  <2>3. LoadedInv'  BY <1>1, <2>1 DEF LoadedInv, layout, locals
  <2> QED  BY <1>3, <1>4, <1>5, <2>2, <2>3
<1> QED  BY <1>6, <1>7, <1>8

\* An abort, and a stuttering step, change nothing the invariant speaks of.
LEMMA NothingChanges ==
  ASSUME IInv, Fail \/ UNCHANGED vars
  PROVE  IInv'
<1>1. /\ UNCHANGED <<phase, opened, layout, cache, stats, locals, lookups>>
      /\ aborted' \in BOOLEAN
  BY DEF Fail, vars, IInv, TypeOK
<1>2. UNCHANGED <<Slots, Filling, Uncounted>>
  BY <1>1 DEF Slots, Filling, Uncounted, opened, locals, SetOf, SlotOf
<1>3. LockInv' /\ FetchInv' /\ ServedExact' /\ LoadedInv'
  BY <1>1 DEF IInv, LockInv, FetchInv, ServedExact, LoadedInv, opened, layout, cache,
     locals, LockOf, SetOf, SlotOf
<1>4. SlotInv' /\ CountInv'  BY <1>1, <1>2 DEF IInv, SlotInv, CountInv, cache, stats
<1>5. TypeOK'
  BY <1>1, <1>2 DEF IInv, TypeOK, opened, layout, cache, stats, locals
<1> QED  BY <1>3, <1>4, <1>5 DEF IInv

-----------------------------------------------------------------------------
(* Steps of a thread.                                                      *)

\* One thread more, or one less, is between the two counts.
LEMMA CountUp ==
  ASSUME NEW t \in Threads, t \notin Uncounted, Uncounted' = Uncounted \cup {t}
  PROVE  Cardinality(Uncounted') = Cardinality(Uncounted) + 1
  BY UncountedFinite, FS_AddElement

LEMMA CountDown ==
  ASSUME NEW t \in Threads, t \in Uncounted, Uncounted' = Uncounted \ {t}
  PROVE  Cardinality(Uncounted') = Cardinality(Uncounted) - 1
  BY UncountedFinite, FS_RemoveElement

LEMMA CountType == Cardinality(Uncounted) \in Nat
  BY UncountedFinite, FS_CardinalityType

\* The slots being filled are those of the threads before their key.
LEMMA SameFilling ==
  ASSUME \A u \in Threads : pc'[u] = "key" <=> pc[u] = "key",
         \A u \in Threads : pc[u] = "key" => SlotOf(u, way[u])' = SlotOf(u, way[u])
  PROVE  Filling' = Filling
  BY DEF Filling

LEMMA ServeStep ==
  ASSUME IInv, NEW t \in Threads, NEW i \in -1 .. TableRows, Serve(t, i)
  PROVE  IInv'
<1> USE RowStoreAssumption DEF IInv
<1>1. CASE i < 0 \/ i >= TableRows  BY <1>1, NothingChanges DEF Serve
<1>2. CASE ~(i < 0 \/ i >= TableRows)
  <2>1. /\ phase = "serving" /\ pc[t] = "idle"
        /\ id' = [id EXCEPT ![t] = i] /\ owned' = [owned EXCEPT ![t] = Owned(i)]
        /\ UNCHANGED <<phase, opened, layout, cache, stats, way, aborted>>
        /\ i \in 0 .. TableRows - 1
    BY <1>2 DEF Serve
  <2>2. UNCHANGED Slots  BY <2>1 DEF Slots, opened
  <2>3. \A u \in Threads : u # t => SlotOf(u, way[u])' = SlotOf(u, way[u])
    BY <2>1 DEF SlotOf, SetOf, opened, TypeOK
  <2>4. id' \in [Threads -> Ids] /\ owned' \in [Threads -> BOOLEAN]
    BY <2>1 DEF TypeOK, Ids, Owned
  <2>5. CASE Owned(i)
    <3> DEFINE next == IF sets > 0 THEN "probe" ELSE "read"
    <3>1. /\ pc' = [pc EXCEPT ![t] = next] /\ lookups' = lookups + 1
          /\ UNCHANGED row /\ next \in {"probe", "read"}
          /\ (next = "probe" => sets > 0)
      BY <1>2, <2>5 DEF Serve, Goto
    <3> HIDE DEF next
    <3>2. TypeOK'
      <4>1. pc' \in [Threads -> Labels]  BY <3>1 DEF TypeOK, Labels
      <4> QED  BY <2>1, <2>2, <2>4, <3>1, <4>1
               DEF TypeOK, opened, layout, cache, stats
    <3>3. LoadedInv'  BY <2>1, <2>5, <3>1 DEF LoadedInv, layout, TypeOK
    <3>4. LockInv'
      BY <2>1, <3>1 DEF LockInv, cache, opened, TypeOK, LockOf, SetOf
    <3>5. FetchInv'
      BY <2>1, <2>3, <3>1 DEF FetchInv, cache, TypeOK
    <3>6. Filling' = Filling
      <4>1. \A u \in Threads : pc'[u] = "key" <=> pc[u] = "key"
        BY <2>1, <3>1 DEF TypeOK
      <4> QED  BY <2>1, <2>3, <4>1, SameFilling
    <3>7. SlotInv'  BY <2>1, <2>2, <3>6 DEF SlotInv, cache
    <3>8. ServedExact'  BY <2>1, <3>1 DEF ServedExact, TypeOK
    <3>9. CountInv'
      <4>1. t \notin Uncounted /\ Uncounted' = Uncounted \cup {t}
        BY <2>1, <3>1 DEF Uncounted, TypeOK
      <4>2. Cardinality(Uncounted') = Cardinality(Uncounted) + 1  BY <4>1, CountUp
      <4> QED  BY <2>1, <3>1, <4>2, CountType DEF CountInv, stats, TypeOK
    <3> QED  BY <3>2, <3>3, <3>4, <3>5, <3>7, <3>8, <3>9
  <2>6. CASE ~Owned(i)
    <3>1. row' = [row EXCEPT ![t] = ZeroRow] /\ UNCHANGED <<pc, lookups>>
      BY <1>2, <2>6 DEF Serve
    <3>2. TypeOK'
      <4>1. row' \in [Threads -> [weight : Int, scale : Int]]
        BY <3>1 DEF TypeOK, ZeroRow, RowOf, Nowhere
      <4> QED  BY <2>1, <2>2, <2>4, <3>1, <4>1
               DEF TypeOK, opened, layout, cache, stats
    <3>3. LoadedInv'  BY <2>1, <3>1 DEF LoadedInv, layout, TypeOK
    <3>4. LockInv'
      BY <2>1, <3>1 DEF LockInv, cache, opened, TypeOK, LockOf, SetOf
    <3>5. FetchInv'
      BY <2>1, <2>3, <3>1 DEF FetchInv, cache, TypeOK
    <3>6. Filling' = Filling
      <4>1. \A u \in Threads : pc'[u] = "key" <=> pc[u] = "key"
        BY <2>1, <3>1 DEF TypeOK
      <4> QED  BY <2>1, <2>3, <4>1, SameFilling
    <3>7. SlotInv'  BY <2>1, <2>2, <3>6 DEF SlotInv, cache
    <3>8. ServedExact'  BY <2>1, <2>6, <3>1 DEF ServedExact, TypeOK
    <3>9. CountInv'  BY <2>1, <3>1 DEF CountInv, Uncounted, stats
    <3> QED  BY <3>2, <3>3, <3>4, <3>5, <3>7, <3>8, <3>9
  <2> QED  BY <2>5, <2>6
<1> QED  BY <1>1, <1>2

\* A thread that finds its row holds a way of its set whose key names the row.
LEMMA FoundWay ==
  ASSUME NEW t \in Threads, TypeOK, Found(t) # {}
  PROVE  (CHOOSE w \in Found(t) : \A v \in Found(t) : w <= v) \in Found(t)
<1>1. \E w \in Found(t) : \A v \in Found(t) : w <= v
  <2>1. Found(t) \in SUBSET Nat  BY DEF Found, TypeOK
  <2>2. PICK x \in Found(t) : \A y \in Found(t) : ~(<<y, x>> \in OpToRel(<, Nat))
    BY <2>1, NatLessThanWellFounded, WFMin
  <2>3. \A y \in Found(t) : ~(y < x)  BY <2>1, <2>2 DEF OpToRel
  <2> QED  BY <2>1, <2>3
<1> QED  BY <1>1

LEMMA ProbeHitStep ==
  ASSUME IInv, NEW t \in Threads, ProbeHit(t)
  PROVE  IInv'
<1> USE RowStoreAssumption DEF IInv
<1> DEFINE w == CHOOSE x \in Found(t) : \A v \in Found(t) : x <= v
<1>0. pc[t] = "probe" /\ Found(t) # {}  BY DEF ProbeHit
<1>1. w \in 0 .. ways - 1 /\ keys[SlotOf(t, w)] = id[t] + 1
  BY <1>0, FoundWay DEF Found
<1>2. /\ lock[LockOf(SetOf(id[t]))] = NoThread
      /\ lock' = [lock EXCEPT ![LockOf(SetOf(id[t]))] = t]
      /\ way' = [way EXCEPT ![t] = w] /\ pc' = [pc EXCEPT ![t] = "copy"]
      /\ UNCHANGED <<phase, opened, layout, keys, data, victim, stats, id, owned,
                     row, lookups, aborted>>
  BY DEF ProbeHit, Acquire, Goto
<1> HIDE DEF w
<1>3. LockOf(SetOf(id[t])) \in 0 .. NLocks - 1  BY <1>0, SlotType
<1>4. UNCHANGED Slots  BY <1>2 DEF Slots, opened
<1>5. \A u \in Threads : u # t => SlotOf(u, way[u])' = SlotOf(u, way[u])
  BY <1>2 DEF SlotOf, SetOf, opened, TypeOK
<1>6. SlotOf(t, way[t])' = SlotOf(t, w)
  BY <1>2 DEF SlotOf, SetOf, opened, TypeOK
<1>7. TypeOK'
  <2>1. /\ pc' \in [Threads -> Labels] /\ way' \in [Threads -> 0 .. ways - 1]
        /\ lock' \in [0 .. NLocks - 1 -> Threads \cup {NoThread}]
    BY <1>1, <1>2 DEF TypeOK, Labels
  <2> QED  BY <1>2, <1>4, <2>1 DEF TypeOK, opened, layout, stats
<1>8. LoadedInv'  BY <1>0, <1>2 DEF LoadedInv, layout, TypeOK
<1>9. LockInv'
  <2>1. \A u \in Threads : u # t /\ pc[u] \in {"copy", "key"} =>
          LockOf(SetOf(id[u])) # LockOf(SetOf(id[t]))
    BY <1>2, FreeMeansEmpty
  <2> QED  BY <1>0, <1>2, <1>3, <2>1 DEF LockInv, opened, TypeOK, LockOf, SetOf
<1>10. FetchInv'
  BY <1>0, <1>1, <1>2, <1>5, <1>6 DEF FetchInv, TypeOK
<1>11. Filling' = Filling
  <2>1. \A u \in Threads : pc'[u] = "key" <=> pc[u] = "key"
    BY <1>0, <1>2 DEF TypeOK
  <2> QED  BY <1>0, <1>5, <2>1, SameFilling
<1>12. SlotInv'  BY <1>2, <1>4, <1>11 DEF SlotInv
<1>13. ServedExact'  BY <1>2 DEF ServedExact, TypeOK
<1>14. CountInv'
  <2>1. Uncounted' = Uncounted  BY <1>0, <1>2 DEF Uncounted, TypeOK
  <2> QED  BY <1>2, <2>1 DEF CountInv, stats
<1> QED  BY <1>7, <1>8, <1>9, <1>10, <1>12, <1>13, <1>14

LEMMA ProbeMissStep ==
  ASSUME IInv, NEW t \in Threads, ProbeMiss(t)
  PROVE  IInv'
<1> USE RowStoreAssumption DEF IInv
<1>1. /\ pc[t] = "probe" /\ pc' = [pc EXCEPT ![t] = "read"]
      /\ UNCHANGED <<phase, opened, layout, cache, stats, id, owned, row, way,
                     lookups, aborted>>
  BY DEF ProbeMiss, Goto
<1>2. UNCHANGED Slots  BY <1>1 DEF Slots, opened
<1>3. \A u \in Threads : SlotOf(u, way[u])' = SlotOf(u, way[u])
  BY <1>1 DEF SlotOf, SetOf, opened
<1>4. TypeOK'
  <2>1. pc' \in [Threads -> Labels]  BY <1>1 DEF TypeOK, Labels
  <2> QED  BY <1>1, <1>2, <2>1 DEF TypeOK, opened, layout, cache, stats
<1>5. LoadedInv'  BY <1>1 DEF LoadedInv, layout, TypeOK
<1>6. LockInv'  BY <1>1 DEF LockInv, cache, opened, TypeOK, LockOf, SetOf
<1>7. FetchInv'  BY <1>1, <1>3 DEF FetchInv, cache, TypeOK
<1>8. Filling' = Filling  BY <1>1, <1>3 DEF Filling, TypeOK
<1>9. SlotInv'  BY <1>1, <1>2, <1>8 DEF SlotInv, cache
<1>10. ServedExact'  BY <1>1 DEF ServedExact, TypeOK
<1>11. CountInv'
  <2>1. Uncounted' = Uncounted  BY <1>1 DEF Uncounted, TypeOK
  <2> QED  BY <1>1, <2>1 DEF CountInv, stats
<1> QED  BY <1>4, <1>5, <1>6, <1>7, <1>9, <1>10, <1>11

\* The slot a thread copies from is not being filled: its lock is held.
LEMMA CopySettled ==
  ASSUME IInv, NEW t \in Threads, pc[t] = "copy"
  PROVE  SlotOf(t, way[t]) \in Slots \ Filling
<1>1. SlotOf(t, way[t]) \in Slots  BY SlotType DEF IInv, TypeOK, SlotOf
<1>2. ASSUME NEW u \in Threads, pc[u] = "key", SlotOf(t, way[t]) = SlotOf(u, way[u])
      PROVE  FALSE
  <2>1. SetOf(id[t]) = SetOf(id[u])  BY <1>2 DEF SlotOf
  <2> QED  BY <1>2, <2>1, Exclusive DEF IInv
<1> QED  BY <1>1, <1>2 DEF Filling

LEMMA CopyHitStep ==
  ASSUME IInv, NEW t \in Threads, CopyHit(t)
  PROVE  IInv'
<1> USE RowStoreAssumption DEF IInv
<1>1. /\ pc[t] = "copy" /\ pc' = [pc EXCEPT ![t] = "idle"]
      /\ row' = [row EXCEPT ![t] = data[SlotOf(t, way[t])]] /\ hits' = hits + 1
      /\ lock' = [lock EXCEPT ![LockOf(SetOf(id[t]))] = NoThread]
      /\ UNCHANGED <<phase, opened, layout, keys, data, victim, misses, reads, id,
                     owned, way, lookups, aborted>>
  BY DEF CopyHit, Goto, Release
<1>2. UNCHANGED Slots  BY <1>1 DEF Slots, opened
<1>3. \A u \in Threads : SlotOf(u, way[u])' = SlotOf(u, way[u])
  BY <1>1 DEF SlotOf, SetOf, opened
<1>4. SlotOf(t, way[t]) \in Slots \ Filling  BY <1>1, CopySettled
<1>5. id[t] \in 0 .. TableRows - 1 /\ owned[t]  BY <1>1 DEF LoadedInv
<1>6. row'[t] = RowOf(id[t])
  <2>1. keys[SlotOf(t, way[t])] = id[t] + 1  BY <1>1 DEF FetchInv
  <2>2. data[SlotOf(t, way[t])] = RowOf((id[t] + 1) - 1)
    BY <1>4, <1>5, <2>1 DEF SlotInv
  <2>3. (id[t] + 1) - 1 = id[t]  BY <1>5
  <2> QED  BY <1>1, <2>2, <2>3 DEF TypeOK
<1>7. TypeOK'
  <2>1. pc' \in [Threads -> Labels] /\ hits' \in Nat  BY <1>1 DEF TypeOK, Labels
  <2>2. row' \in [Threads -> [weight : Int, scale : Int]]  BY <1>1, <1>4 DEF TypeOK
  <2>3. lock' \in [0 .. NLocks - 1 -> Threads \cup {NoThread}]  BY <1>1 DEF TypeOK
  <2> QED  BY <1>1, <1>2, <2>1, <2>2, <2>3 DEF TypeOK, opened, layout
<1>8. LoadedInv'  BY <1>1 DEF LoadedInv, layout, TypeOK
<1>9. LockInv'
  <2>1. \A u \in Threads : u # t /\ pc[u] \in {"copy", "key"} =>
          LockOf(SetOf(id[u])) # LockOf(SetOf(id[t]))
    BY <1>1, Exclusive
  <2> QED  BY <1>1, <2>1 DEF LockInv, opened, TypeOK, LockOf, SetOf
<1>10. FetchInv'  BY <1>1, <1>3 DEF FetchInv, TypeOK
<1>11. Filling' = Filling
  <2>1. \A u \in Threads : pc'[u] = "key" <=> pc[u] = "key"  BY <1>1 DEF TypeOK
  <2> QED  BY <1>3, <2>1, SameFilling
<1>12. SlotInv'  BY <1>1, <1>2, <1>11 DEF SlotInv
<1>13. ServedExact'  BY <1>1, <1>5, <1>6 DEF ServedExact, TypeOK
<1>14. CountInv'
  <2>1. t \in Uncounted /\ Uncounted' = Uncounted \ {t}
    BY <1>1 DEF Uncounted, TypeOK
  <2>2. Cardinality(Uncounted') = Cardinality(Uncounted) - 1  BY <2>1, CountDown
  <2> QED  BY <1>1, <2>2, CountType DEF CountInv, TypeOK
<1> QED  BY <1>7, <1>8, <1>9, <1>10, <1>12, <1>13, <1>14

\* The place of an owned row, in the shard, the scales or the table, is its own.
LEMMA StoredExact ==
  ASSUME TypeOK, LoadedInv, NEW i \in 0 .. TableRows - 1
  PROVE  Stored(i) = RowOf(i)
<1> USE RowStoreAssumption DEF TypeOK, LoadedInv, Stored, RowOf
<1>1. packed # None => packed + (i - rowLo) = i  OBVIOUS
<1>2. scales # None => scales + (i - rowLo) = i  OBVIOUS
<1>3. CASE packed # None  BY <1>1, <1>3
<1>4. CASE packed = None  BY <1>2, <1>4
<1> QED  BY <1>3, <1>4

LEMMA ReadStep ==
  ASSUME IInv, NEW t \in Threads, Read(t)
  PROVE  IInv'
<1> USE RowStoreAssumption DEF IInv
<1> DEFINE next == IF sets > 0 THEN "insert" ELSE "idle"
<1>1. /\ pc[t] = "read" /\ pc' = [pc EXCEPT ![t] = next]
      /\ row' = [row EXCEPT ![t] = Stored(id[t])]
      /\ misses' = misses + 1 /\ reads' = reads + ReadCost
      /\ UNCHANGED <<phase, opened, layout, cache, hits, id, owned, way, lookups,
                     aborted>>
      /\ next \in {"insert", "idle"} /\ (next = "insert" => sets > 0)
  BY DEF Read, Goto
<1> HIDE DEF next
<1>2. UNCHANGED Slots  BY <1>1 DEF Slots, opened
<1>3. \A u \in Threads : SlotOf(u, way[u])' = SlotOf(u, way[u])
  BY <1>1 DEF SlotOf, SetOf, opened
<1>4. id[t] \in 0 .. TableRows - 1 /\ owned[t]  BY <1>1 DEF LoadedInv
<1>5. row'[t] = RowOf(id[t])  BY <1>1, <1>4, StoredExact DEF TypeOK
<1>6. TypeOK'
  <2>1. pc' \in [Threads -> Labels]  BY <1>1 DEF TypeOK, Labels
  <2>2. misses' \in Nat /\ reads' \in Nat  BY <1>1 DEF TypeOK, ReadCost
  <2>3. RowOf(id[t]) \in [weight : Int, scale : Int]  BY <1>4 DEF RowOf
  <2>4. row' \in [Threads -> [weight : Int, scale : Int]]
    BY <1>1, <1>4, <2>3, StoredExact DEF TypeOK
  <2> QED  BY <1>1, <1>2, <2>1, <2>2, <2>4 DEF TypeOK, opened, layout, cache
<1>7. LoadedInv'  BY <1>1 DEF LoadedInv, layout, TypeOK
<1>8. LockInv'  BY <1>1 DEF LockInv, cache, opened, TypeOK, LockOf, SetOf
<1>9. FetchInv'  BY <1>1, <1>3, <1>5 DEF FetchInv, cache, TypeOK
<1>10. Filling' = Filling
  <2>1. \A u \in Threads : pc'[u] = "key" <=> pc[u] = "key"  BY <1>1 DEF TypeOK
  <2> QED  BY <1>3, <2>1, SameFilling
<1>11. SlotInv'  BY <1>1, <1>2, <1>10 DEF SlotInv, cache
<1>12. ServedExact'  BY <1>1, <1>4, <1>5 DEF ServedExact, TypeOK
<1>13. CountInv'
  <2>1. t \in Uncounted /\ Uncounted' = Uncounted \ {t}
    BY <1>1 DEF Uncounted, TypeOK
  <2>2. Cardinality(Uncounted') = Cardinality(Uncounted) - 1  BY <2>1, CountDown
  <2> QED  BY <1>1, <2>2, CountType DEF CountInv, TypeOK
<1> QED  BY <1>6, <1>7, <1>8, <1>9, <1>11, <1>12, <1>13

LEMMA InsertRowStep ==
  ASSUME IInv, NEW t \in Threads, InsertRow(t)
  PROVE  IInv'
<1> USE RowStoreAssumption DEF IInv
<1> DEFINE s == SetOf(id[t])  w == victim[s] % ways
<1>1. /\ pc[t] = "insert" /\ pc' = [pc EXCEPT ![t] = "key"]
      /\ lock[LockOf(SetOf(id[t]))] = NoThread
      /\ lock' = [lock EXCEPT ![LockOf(SetOf(id[t]))] = t]
      /\ victim' = [victim EXCEPT ![s] = (@ + 1) % ways]
      /\ way' = [way EXCEPT ![t] = w]
      /\ data' = [data EXCEPT ![<<s, w>>] = row[t]]
      /\ UNCHANGED <<phase, opened, layout, keys, stats, id, owned, row, lookups,
                     aborted>>
  BY DEF InsertRow, Acquire, Goto
<1>2. UNCHANGED Slots  BY <1>1 DEF Slots, opened
<1>3. \A u \in Threads : u # t => SlotOf(u, way[u])' = SlotOf(u, way[u])
  BY <1>1 DEF SlotOf, SetOf, opened, TypeOK
<1>4. SlotOf(t, way[t])' = <<s, w>>
  BY <1>1 DEF SlotOf, SetOf, opened, TypeOK
<1>5. LockOf(SetOf(id[t])) \in 0 .. NLocks - 1 /\ s \in 0 .. sets - 1
  BY <1>1, SlotType
<1>6. ways \in Nat \ {0} /\ victim[s] \in Nat  BY <1>5 DEF TypeOK
<1>7. w \in 0 .. ways - 1 /\ (victim[s] + 1) % ways \in 0 .. ways - 1
  <2>1. victim[s] + 1 \in Nat  BY <1>6
  <2> QED  BY <1>6, <2>1, DivMod
<1> HIDE DEF w
<1>8. <<s, w>> \in Slots  BY <1>5, <1>7 DEF Slots
<1>9. \A u \in Threads : u # t /\ pc[u] \in {"copy", "key"} =>
        LockOf(SetOf(id[u])) # LockOf(SetOf(id[t]))
  BY <1>1, FreeMeansEmpty
<1>10. TypeOK'
  <2>1. pc' \in [Threads -> Labels] /\ way' \in [Threads -> 0 .. ways - 1]
    BY <1>1, <1>7 DEF TypeOK, Labels
  <2>2. lock' \in [0 .. NLocks - 1 -> Threads \cup {NoThread}]
    BY <1>1 DEF TypeOK
  <2>3. data' \in [Slots -> [weight : Int, scale : Int]]  BY <1>1, <1>8 DEF TypeOK
  <2>4. victim' \in [0 .. sets - 1 -> 0 .. ways - 1]  BY <1>1, <1>5, <1>7 DEF TypeOK
  <2> QED  BY <1>1, <1>2, <2>1, <2>2, <2>3, <2>4 DEF TypeOK, opened, layout, stats
<1>11. LoadedInv'  BY <1>1 DEF LoadedInv, layout, TypeOK
<1>12. LockInv'
  <2>1. \A u \in Threads : /\ pc'[u] = IF u = t THEN "key" ELSE pc[u]
                           /\ LockOf(SetOf(id[u]))' = LockOf(SetOf(id[u]))
    BY <1>1 DEF TypeOK, opened, LockOf, SetOf
  <2>2. lock'[LockOf(SetOf(id[t]))] = t  BY <1>1, <1>5 DEF TypeOK
  <2>3. \A u \in Threads : u # t /\ pc[u] \in {"copy", "key"} =>
          lock'[LockOf(SetOf(id[u]))] = lock[LockOf(SetOf(id[u]))]
    BY <1>1, <1>9 DEF TypeOK
  <2>4. sets' > 0 /\ sets' = sets  BY <1>1 DEF LockInv, opened
  <2> QED  BY <2>1, <2>2, <2>3, <2>4 DEF LockInv
<1>13. FetchInv'
  <2>1. ASSUME NEW u \in Threads, u # t, pc[u] = "key"
        PROVE  data'[SlotOf(u, way[u])] = data[SlotOf(u, way[u])]
    <3>1. SetOf(id[u]) # s  BY <1>9, <2>1
    <3>2. SlotOf(u, way[u]) # <<s, w>>  BY <3>1 DEF SlotOf
    <3> QED  BY <1>1, <3>2 DEF TypeOK
  <2>2. data'[<<s, w>>] = row[t]  BY <1>1, <1>8 DEF TypeOK
  <2>3. \A u \in Threads : u # t => pc'[u] = pc[u]  BY <1>1 DEF TypeOK
  <2>4. pc'[t] = "key"  BY <1>1 DEF TypeOK
  <2>5. row'[t] = RowOf(id'[t])  BY <1>1 DEF FetchInv
  <2>6. ASSUME NEW u \in Threads, u # t
        PROVE  /\ pc'[u] \in {"insert", "key"} => row'[u] = RowOf(id'[u])
               /\ pc'[u] = "key" => data'[SlotOf(u, way[u])'] = RowOf(id'[u])
               /\ pc'[u] = "copy" => keys'[SlotOf(u, way[u])'] = id'[u] + 1
    BY <1>1, <1>3, <2>1, <2>3, <2>6 DEF FetchInv
  <2>7. data'[SlotOf(t, way[t])'] = RowOf(id'[t])  BY <1>1, <1>4, <2>2, <2>5
  <2> QED  BY <2>4, <2>5, <2>6, <2>7 DEF FetchInv
<1>14. Filling' = Filling \cup {<<s, w>>}
  <2>1. \A u \in Threads : pc'[u] = "key" <=> u = t \/ pc[u] = "key"
    BY <1>1 DEF TypeOK
  <2>2. pc[t] # "key"  BY <1>1
  <2> QED  BY <1>3, <1>4, <2>1, <2>2 DEF Filling
<1>15. SlotInv'  BY <1>1, <1>2, <1>14 DEF SlotInv, TypeOK
<1>16. ServedExact'  BY <1>1 DEF ServedExact, TypeOK
<1>17. CountInv'
  <2>1. Uncounted' = Uncounted  BY <1>1 DEF Uncounted, TypeOK
  <2> QED  BY <1>1, <2>1 DEF CountInv, stats
<1> QED  BY <1>10, <1>11, <1>12, <1>13, <1>15, <1>16, <1>17

LEMMA InsertKeyStep ==
  ASSUME IInv, NEW t \in Threads, InsertKey(t)
  PROVE  IInv'
<1> USE RowStoreAssumption DEF IInv
<1> DEFINE slot == SlotOf(t, way[t])
<1>1. /\ pc[t] = "key" /\ pc' = [pc EXCEPT ![t] = "idle"]
      /\ lock' = [lock EXCEPT ![LockOf(SetOf(id[t]))] = NoThread]
      /\ keys' = [keys EXCEPT ![slot] = id[t] + 1]
      /\ UNCHANGED <<phase, opened, layout, data, victim, stats, id, owned, row,
                     way, lookups, aborted>>
  BY DEF InsertKey, Release, Goto
<1>2. UNCHANGED Slots  BY <1>1 DEF Slots, opened
<1>3. \A u \in Threads : SlotOf(u, way[u])' = SlotOf(u, way[u])
  BY <1>1 DEF SlotOf, SetOf, opened
<1>4. slot \in Slots /\ id[t] \in 0 .. TableRows - 1
  BY <1>1, SlotType DEF TypeOK, SlotOf
<1>5. data[slot] = RowOf(id[t]) /\ row[t] = RowOf(id[t]) /\ owned[t]
  BY <1>1 DEF FetchInv, LoadedInv
<1>6. \A u \in Threads : u # t /\ pc[u] \in {"copy", "key"} =>
        LockOf(SetOf(id[u])) # LockOf(SetOf(id[t]))
  BY <1>1, Exclusive
<1>7. \A u \in Threads : u # t /\ pc[u] \in {"copy", "key"} => SlotOf(u, way[u]) # slot
  BY <1>6 DEF SlotOf
<1> HIDE DEF slot
<1>8. TypeOK'
  <2>1. pc' \in [Threads -> Labels]  BY <1>1 DEF TypeOK, Labels
  <2>2. lock' \in [0 .. NLocks - 1 -> Threads \cup {NoThread}]  BY <1>1 DEF TypeOK
  <2>3. keys' \in [Slots -> 0 .. TableRows]
    <3>1. id[t] + 1 \in 0 .. TableRows  BY <1>4
    <3> QED  BY <1>1, <3>1 DEF TypeOK
  <2> QED  BY <1>1, <1>2, <2>1, <2>2, <2>3 DEF TypeOK, opened, layout, stats
<1>9. LoadedInv'  BY <1>1 DEF LoadedInv, layout, TypeOK
<1>10. LockInv'
  BY <1>1, <1>6 DEF LockInv, opened, TypeOK, LockOf, SetOf
<1>11. FetchInv'
  <2>1. \A u \in Threads : u # t => pc'[u] = pc[u]  BY <1>1 DEF TypeOK
  <2>2. pc'[t] = "idle"  BY <1>1 DEF TypeOK
  <2>3. \A u \in Threads : u # t /\ pc[u] = "copy" =>
          keys'[SlotOf(u, way[u])] = keys[SlotOf(u, way[u])]
    BY <1>1, <1>7 DEF TypeOK
  <2> QED  BY <1>1, <1>3, <2>1, <2>2, <2>3 DEF FetchInv
<1>12. Filling \subseteq Filling' \cup {slot}
  <2>1. \A u \in Threads : u # t => pc'[u] = pc[u]  BY <1>1 DEF TypeOK
  <2> QED  BY <1>3, <2>1 DEF Filling, slot
<1>13. SlotInv'
  <2>1. ASSUME NEW x \in Slots, x # slot, x \notin Filling', keys'[x] > 0
        PROVE  data'[x] = RowOf(keys'[x] - 1)
    <3>1. x \notin Filling /\ keys'[x] = keys[x]  BY <1>1, <1>12, <2>1 DEF TypeOK
    <3> QED  BY <1>1, <2>1, <3>1 DEF SlotInv
  <2>2. data'[slot] = RowOf(keys'[slot] - 1)
    <3>1. keys'[slot] = id[t] + 1  BY <1>1, <1>4 DEF TypeOK
    <3>2. keys'[slot] - 1 = id[t]  BY <1>4, <3>1
    <3> QED  BY <1>1, <1>5, <3>2
  <2> QED  BY <1>2, <2>1, <2>2 DEF SlotInv
<1>14. ServedExact'  BY <1>1, <1>5 DEF ServedExact, TypeOK
<1>15. CountInv'
  <2>1. Uncounted' = Uncounted  BY <1>1 DEF Uncounted, TypeOK
  <2> QED  BY <1>1, <2>1 DEF CountInv, stats
<1> QED  BY <1>8, <1>9, <1>10, <1>11, <1>13, <1>14, <1>15

-----------------------------------------------------------------------------
(* The theorems.                                                           *)

LEMMA NextInv == IInv /\ [Next]_vars => IInv'
<1> SUFFICES ASSUME IInv, [Next]_vars  PROVE IInv'  OBVIOUS
<1>1. CASE UNCHANGED vars  BY <1>1, NothingChanges
<1>2. CASE \/ \E r \in Ranges : SetRange(r)
           \/ \E f \in Shards : AttachPacked(f)
           \/ AttachMissing
  BY <1>2, LoadingSteps
<1>3. CASE \E t \in Threads : FetchStep(t) \/ \E i \in -1 .. TableRows : Serve(t, i)
  <2>1. PICK t \in Threads : FetchStep(t) \/ \E i \in -1 .. TableRows : Serve(t, i)
    BY <1>3
  <2>2. CASE \E i \in -1 .. TableRows : Serve(t, i)  BY <2>2, ServeStep
  <2>3. CASE ProbeHit(t)  BY <2>3, ProbeHitStep
  <2>4. CASE ProbeMiss(t)  BY <2>4, ProbeMissStep
  <2>5. CASE CopyHit(t)  BY <2>5, CopyHitStep
  <2>6. CASE Read(t)  BY <2>6, ReadStep
  <2>7. CASE ReadFails(t)  BY <2>7, NothingChanges DEF ReadFails
  <2>8. CASE InsertRow(t)  BY <2>8, InsertRowStep
  <2>9. CASE InsertKey(t)  BY <2>9, InsertKeyStep
  <2> QED
    BY <2>1, <2>2, <2>3, <2>4, <2>5, <2>6, <2>7, <2>8, <2>9 DEF FetchStep
<1>4. CASE Stopped  BY <1>4, NothingChanges DEF Stopped
<1> QED  BY <1>1, <1>2, <1>3, <1>4 DEF Next

\* IInv is inductive for any number of threads, rows, sets, ways and locks.
THEOREM Invariance == Spec => []IInv
<1>1. Init => IInv  BY InitInv
<1>2. IInv /\ [Next]_vars => IInv'  BY NextInv
<1> QED  BY <1>1, <1>2, PTL DEF Spec

\* Every row served has the exact bytes of its own id, and a row of another rank
\* is zero (adapter/row_store.cpp, serve and fetch_row): for any number of threads
\* that probe, read and insert at once, also when sets share a lock.
THEOREM ServedExactHolds == Spec => []ServedExact
<1>1. IInv => ServedExact  BY DEF IInv
<1> QED  BY <1>1, Invariance, PTL

\* A keyed slot of the cache holds the row its key names unless its lock is held
\* between copy and key, and when nothing is under way hits and misses add up to
\* the lookups (fetch_row counts each owned row once).
THEOREM CacheExactHolds == Spec => []CacheExact
<1>1. IInv => CacheExact
  <2> SUFFICES ASSUME IInv  PROVE CacheExact  OBVIOUS
  <2>1. TypeOK /\ SlotInv  BY DEF IInv
  <2>2. Quiet => hits + misses = lookups
    <3>1. Quiet => Uncounted = {}  BY DEF Quiet, Uncounted
    <3>2. Quiet => Cardinality(Uncounted) = 0  BY <3>1, FS_EmptySet
    <3> QED  BY <2>1, <3>2 DEF IInv, CountInv, TypeOK
  <2> QED  BY <2>1, <2>2 DEF CacheExact, SlotInv
<1> QED  BY <1>1, Invariance, PTL

\* A thread inside the cache's critical section is alone in all the sets of its
\* lock, and its set exists (std::lock_guard of fetch_row; 256 locks for any
\* number of sets).
THEOREM LocksExclude ==
  Spec => [](\A t, u \in Threads :
               /\ pc[t] \in {"copy", "key"} /\ pc[u] \in {"copy", "key"}
               /\ LockOf(SetOf(id[t])) = LockOf(SetOf(id[u]))
               => t = u)
<1>1. IInv => \A t, u \in Threads :
        /\ pc[t] \in {"copy", "key"} /\ pc[u] \in {"copy", "key"}
        /\ LockOf(SetOf(id[t])) = LockOf(SetOf(id[u]))
        => t = u
  BY Exclusive DEF IInv
<1> QED  BY <1>1, Invariance, PTL
=============================================================================
