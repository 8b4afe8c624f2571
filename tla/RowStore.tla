------------------------------ MODULE RowStore ------------------------------
(***************************************************************************)
(* The data path of adapter/row_store.cpp: opening a store, setting the    *)
(* owned range, attaching a packed shard, and serving one row through the  *)
(* set-associative cache, by any number of threads at once.  The bytes of  *)
(* a row are its weight part and its scale part; each part is the number   *)
(* of the row it belongs to.  A copy made under a lock is a step of its    *)
(* own, so that a missing lock shows as a torn row.                        *)
(***************************************************************************)
EXTENDS Integers, FiniteSets

CONSTANTS Threads,       \* threads that serve rows (RowPool's workers, callers)
          TableRows,     \* rows of the checkpoint table
          Budgets,       \* values of row_store_open's cache budget, in bytes
          CacheWays,     \* values of DSV41_CACHE_WAYS
          Ranges,        \* ranges <<lo, hi>> passed to row_store_range
          Shards,        \* packed shards on disk: [layer, lo, hi, rows, whole]
          Layer,         \* the layer being opened
          NLocks,        \* 256: locks, shared by the sets modulo their number
          NoThread,      \* owner of a free lock
          MaxLookups     \* bound: rows served in one behaviour

ASSUME RowStoreAssumption ==
  /\ IsFiniteSet(Threads) /\ NoThread \notin Threads
  /\ TableRows \in Nat /\ NLocks \in Nat \ {0} /\ MaxLookups \in Nat
  /\ Budgets \subseteq Nat /\ CacheWays \subseteq Nat   \* unsigned in the code
  /\ Ranges \subseteq Nat \X Nat

Nowhere == -1            \* contents of zeroed bytes
None == -1               \* no shard attached, no scales pinned
RowOf(i) == [weight |-> i, scale |-> i]
ZeroRow == RowOf(Nowhere)

VARIABLES
  phase,                                  \* load order kept by the adapter
  ram, sets, ways, budget,                \* fixed by row_store_open
  rowLo, rowHi, packed, scales,           \* range; base row of shard, of scales
  keys, data, victim, lock,               \* the cache and its locks
  hits, misses, reads,
  pc, id, owned, row, way,                \* per thread: serve and fetch_row
  lookups, aborted

opened == <<ram, sets, ways, budget>>
layout == <<rowLo, rowHi, packed, scales>>
cache == <<keys, data, victim, lock>>
stats == <<hits, misses, reads>>
locals == <<pc, id, owned, row, way>>
vars == <<phase, opened, layout, cache, stats, locals, lookups, aborted>>

KRowBytes == 264
KeyBytes == 8

Clamp(n) == IF n < 1 THEN 1 ELSE IF n > 16 THEN 16 ELSE n
SetsFor(b, w) == b \div ((KRowBytes + KeyBytes) * w + 1)

Slots == (0 .. sets - 1) \X (0 .. ways - 1)
LockOf(s) == s % NLocks
SetOf(i) == i % sets
SlotOf(t, w) == <<SetOf(id[t]), w>>      \* way w of the set of thread t's row

(***************************************************************************)
(* row_store_open: RAM mode maps the table and has no cache.               *)
(***************************************************************************)
Init ==
  /\ phase = "open"
  /\ ram \in BOOLEAN
  /\ budget \in IF ram THEN {0} ELSE Budgets
  /\ ways \in {Clamp(w) : w \in CacheWays}
  /\ sets = SetsFor(budget, ways)
  /\ rowLo = 0 /\ rowHi = TableRows /\ packed = None /\ scales = None
  /\ keys = [s \in Slots |-> 0]
  /\ data = [s \in Slots |-> ZeroRow]
  /\ victim = [s \in 0 .. sets - 1 |-> 0]
  /\ lock = [l \in 0 .. NLocks - 1 |-> NoThread]
  /\ hits = 0 /\ misses = 0 /\ reads = 0
  /\ pc = [t \in Threads |-> "idle"]
  /\ id = [t \in Threads |-> None]
  /\ owned = [t \in Threads |-> FALSE]
  /\ row = [t \in Threads |-> ZeroRow]
  /\ way = [t \in Threads |-> 0]
  /\ lookups = 0 /\ aborted = FALSE

Running == ~aborted
Quiet == \A t \in Threads : pc[t] = "idle"

\* fail(): the process aborts.
Fail == /\ aborted' = TRUE
        /\ UNCHANGED <<phase, opened, layout, cache, stats, locals, lookups>>

BadRange(lo, hi) == lo > hi \/ hi > TableRows

\* The scale rows are pinned once, if they are wanted and memory allows.
PinScales(lo, hi) == IF scales = None /\ hi > lo THEN {None, lo} ELSE {scales}

(***************************************************************************)
(* row_store_range.  Pinning may fail (no memory), which costs a read.     *)
(***************************************************************************)
SetRange(r) ==
  /\ Running /\ phase = "open"
  /\ LET lo == r[1]  hi == r[2] IN
     IF \/ BadRange(lo, hi)
        \/ scales # None /\ (lo # rowLo \/ hi # rowHi)
       THEN Fail
       ELSE /\ rowLo' = lo /\ rowHi' = hi
            /\ scales' \in PinScales(lo, hi)
            /\ phase' = "ranged"
            /\ UNCHANGED <<opened, packed, cache, stats, locals, lookups, aborted>>

Matches(f) == /\ f.layer = Layer
              /\ f.lo = rowLo /\ f.hi = rowHi /\ f.rows = TableRows

(***************************************************************************)
(* row_store_attach_packed: no file is no error, a wrong one is.           *)
(***************************************************************************)
AttachPacked(f) ==
  /\ Running /\ Quiet /\ phase = "ranged"
  /\ IF ~Matches(f) \/ ~f.whole
       THEN Fail
       ELSE /\ packed' = f.lo
            /\ phase' = "serving"
            /\ UNCHANGED <<opened, rowLo, rowHi, scales, cache, stats, locals,
                           lookups, aborted>>

AttachMissing ==
  /\ Running /\ phase = "ranged"
  /\ phase' = "serving"
  /\ UNCHANGED <<opened, layout, cache, stats, locals, lookups, aborted>>

(***************************************************************************)
(* serve(), one row; then fetch_row: probe, read, insert.                  *)
(***************************************************************************)
Goto(t, label) == pc' = [pc EXCEPT ![t] = label]

Owned(i) == rowLo <= i /\ i < rowHi

Serve(t, i) ==
  /\ Running /\ phase = "serving" /\ pc[t] = "idle" /\ lookups < MaxLookups
  /\ IF i < 0 \/ i >= TableRows
       THEN Fail
       ELSE /\ id' = [id EXCEPT ![t] = i]
            /\ owned' = [owned EXCEPT ![t] = Owned(i)]
            /\ IF Owned(i)
                 THEN /\ Goto(t, IF sets > 0 THEN "probe" ELSE "read")
                      /\ lookups' = lookups + 1
                      /\ UNCHANGED row
                 ELSE /\ row' = [row EXCEPT ![t] = ZeroRow]
                      /\ UNCHANGED <<pc, lookups>>
            /\ UNCHANGED <<phase, opened, layout, cache, stats, way, aborted>>

Acquire(t) == LET l == LockOf(SetOf(id[t])) IN
  lock[l] = NoThread /\ lock' = [lock EXCEPT ![l] = t]
Release(t) == lock' = [lock EXCEPT ![LockOf(SetOf(id[t]))] = NoThread]

\* The ways of its set in which thread t finds its row.
Found(t) == {w \in 0 .. ways - 1 : keys[SlotOf(t, w)] = id[t] + 1}

\* Mutant: a hit copies the row after the lock is released.
ProbeHit_Unlocked(t) ==
  /\ Running /\ pc[t] = "probe" /\ Found(t) # {}
  /\ way' = [way EXCEPT ![t] = CHOOSE w \in Found(t) : \A v \in Found(t) : w <= v]
  /\ Goto(t, "copy")
  /\ UNCHANGED <<phase, opened, layout, cache, stats, id, owned, row, lookups,
                 aborted>>

ProbeHit(t) ==
  /\ Running /\ pc[t] = "probe" /\ Found(t) # {}
  /\ Acquire(t)
  /\ way' = [way EXCEPT ![t] = CHOOSE w \in Found(t) : \A v \in Found(t) : w <= v]
  /\ Goto(t, "copy")
  /\ UNCHANGED <<phase, opened, layout, keys, data, victim, stats, id, owned, row,
                 lookups, aborted>>

ProbeMiss(t) ==
  /\ Running /\ pc[t] = "probe" /\ Found(t) = {}
  /\ lock[LockOf(SetOf(id[t]))] = NoThread
  /\ Goto(t, "read")
  /\ UNCHANGED <<phase, opened, layout, cache, stats, id, owned, row, way, lookups,
                 aborted>>

CopyHit(t) ==
  /\ Running /\ pc[t] = "copy"
  /\ row' = [row EXCEPT ![t] = data[SlotOf(t, way[t])]]
  /\ hits' = hits + 1
  /\ Release(t)
  /\ Goto(t, "idle")
  /\ UNCHANGED <<phase, opened, layout, keys, data, victim, misses, reads, id,
                 owned, way, lookups, aborted>>

\* preads a miss costs: from a shard one; from the table a weight and, unless
\* the scales are pinned, a scale, both of them copies in RAM mode.
ReadCost == IF packed # None THEN 1
            ELSE IF ram THEN 0
            ELSE IF scales # None THEN 1 ELSE 2

\* What the row's place in the shard, or in table and pinned scales, holds.
Stored(i) ==
  IF packed # None THEN RowOf(packed + (i - rowLo))
  ELSE [weight |-> i,
        scale |-> IF scales # None THEN scales + (i - rowLo) ELSE i]

\* The miss is read outside the lock, so misses of one set overlap on the drive.
Read(t) ==
  /\ Running /\ pc[t] = "read"
  /\ row' = [row EXCEPT ![t] = Stored(id[t])]
  /\ reads' = reads + ReadCost
  /\ misses' = misses + 1
  /\ Goto(t, IF sets > 0 THEN "insert" ELSE "idle")
  /\ UNCHANGED <<phase, opened, layout, cache, hits, id, owned, way, lookups,
                 aborted>>

ReadFails(t) == Running /\ pc[t] = "read" /\ Fail

InsertRow(t) ==
  /\ Running /\ pc[t] = "insert"
  /\ Acquire(t)
  /\ LET s == SetOf(id[t])
         w == victim[s] % ways IN
     /\ victim' = [victim EXCEPT ![s] = (@ + 1) % ways]
     /\ way' = [way EXCEPT ![t] = w]
     /\ data' = [data EXCEPT ![<<s, w>>] = row[t]]
  /\ Goto(t, "key")
  /\ UNCHANGED <<phase, opened, layout, keys, stats, id, owned, row, lookups,
                 aborted>>

\* Mutant: the key is not shifted, so row 0 looks like an empty slot.
InsertKey_Unshifted(t) ==
  /\ Running /\ pc[t] = "key"
  /\ keys' = [keys EXCEPT ![SlotOf(t, way[t])] = id[t]]
  /\ Release(t)
  /\ Goto(t, "idle")
  /\ UNCHANGED <<phase, opened, layout, data, victim, stats, id, owned, row, way,
                 lookups, aborted>>

InsertKey(t) ==
  /\ Running /\ pc[t] = "key"
  /\ keys' = [keys EXCEPT ![SlotOf(t, way[t])] = id[t] + 1]
  /\ Release(t)
  /\ Goto(t, "idle")
  /\ UNCHANGED <<phase, opened, layout, data, victim, stats, id, owned, row, way,
                 lookups, aborted>>

\* An aborted process, or one with nothing more to look up, stops.
Stopped == /\ \/ aborted
              \/ phase = "serving" /\ Quiet /\ lookups = MaxLookups
           /\ UNCHANGED vars

FetchStep(t) == \/ ProbeHit(t) \/ ProbeMiss(t) \/ CopyHit(t) \/ Read(t)
                \/ ReadFails(t) \/ InsertRow(t) \/ InsertKey(t)

Next == \/ \E r \in Ranges : SetRange(r)
        \/ \E f \in Shards : AttachPacked(f)
        \/ AttachMissing
        \/ \E t \in Threads : FetchStep(t) \/ \E i \in -1 .. TableRows : Serve(t, i)
        \/ Stopped

Spec == Init /\ [][Next]_vars

-----------------------------------------------------------------------------
Ids == -1 .. TableRows - 1
Labels == {"idle", "probe", "copy", "read", "insert", "key"}

\* Every variable has its type; a thread's way is always one of the set's ways.
TypeOK ==
  /\ phase \in {"open", "ranged", "serving"} /\ ram \in BOOLEAN
  /\ sets \in Nat /\ ways \in 1 .. 16 /\ budget \in Nat
  /\ rowLo \in 0 .. TableRows /\ rowHi \in rowLo .. TableRows
  /\ packed \in Int /\ scales \in Int
  /\ keys \in [Slots -> 0 .. TableRows]
  /\ data \in [Slots -> [weight : Int, scale : Int]]
  /\ victim \in [0 .. sets - 1 -> 0 .. ways - 1]
  /\ lock \in [0 .. NLocks - 1 -> Threads \cup {NoThread}]
  /\ hits \in Nat /\ misses \in Nat /\ reads \in Nat
  /\ pc \in [Threads -> Labels] /\ id \in [Threads -> Ids]
  /\ owned \in [Threads -> BOOLEAN]
  /\ row \in [Threads -> [weight : Int, scale : Int]]
  /\ way \in [Threads -> 0 .. ways - 1]
  /\ lookups \in Nat /\ aborted \in BOOLEAN

\* A served row has the exact weight and scale bytes of its own id, whether they
\* came from the cache, the shard, the pinned scales or the table, and whatever
\* other threads did to the cache meanwhile; a row of another rank is zero.
ServedExact == \A t \in Threads :
  pc[t] = "idle" /\ id[t] # None =>
    row[t] = IF owned[t] THEN RowOf(id[t]) ELSE ZeroRow

\* Slots some thread has copied a row into and not yet keyed.
Filling == {SlotOf(t, way[t]) : t \in {u \in Threads : pc[u] = "key"}}

\* A keyed slot holds the bytes of the row its key names, except while the
\* thread that holds the lock of the set is between the copy and the key; and
\* (tests/test_row_store.py) when no lookup is under way each owned one has been
\* counted once, as a hit or as a miss, also when threads missed one row at once.
\* Every variable keeps its type meanwhile.
CacheExact ==
  /\ TypeOK
  /\ \A slot \in Slots \ Filling : keys[slot] > 0 => data[slot] = RowOf(keys[slot] - 1)
  /\ Quiet => hits + misses = lookups
=============================================================================
