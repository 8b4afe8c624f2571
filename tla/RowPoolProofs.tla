--------------------------- MODULE RowPoolProofs ---------------------------
(***************************************************************************)
(* Proofs about RowPool for every set of callers, every finite set of      *)
(* workers and every size of lookup.  None of the invariants the runs      *)
(* check is inductive: Inv adds who holds which ticket, and what the two   *)
(* counters count.                                                         *)
(***************************************************************************)
EXTENDS RowPool, FiniteSetTheorems, TLAPS

CallerLabels == {"idle", "serial", "run", "publish", "wake", "join", "block",
                 "blocked"} \cup Draining
WorkerLabels == {"loop", "asleep", "leave", "exited"} \cup Draining

\* A caller between the publication of its job and the return of run().
Published == {"wake", "join", "block", "blocked"} \cup Draining

Typed ==
  /\ pc \in [Threads -> Labels]
  /\ \A c \in Callers : pc[c] \in CallerLabels
  /\ \A w \in Workers : pc[w] \in WorkerLabels
  /\ callerLock \in Callers \cup {NoWork}
  /\ mutex \in Callers \cup {NoWork}
  /\ job \in Callers \cup {NoWork}
  /\ next \in Nat /\ chunks \in Nat /\ generation \in Nat
  /\ remaining \in Int /\ active \in Int
  /\ work \in [Workers -> Callers \cup {NoWork}]
  /\ ticket \in [Threads -> Nat]
  /\ seen \in [Workers -> Nat]
  /\ count \in [Callers -> Counts \cup {0}]
  /\ writes \in [Callers -> [RowIndex -> Nat]]
  /\ lookups \in Nat

\* caller_ is held from Serialize to the return of run(), the job from Publish.
Owned ==
  /\ \A c \in Callers : pc[c] \in Published \cup {"publish"} <=> callerLock = c
  /\ \A c \in Callers : pc[c] \in Published <=> job = c
  /\ \A c \in Callers : pc[c] = "block" <=> mutex = c

\* Workers that active_ counts.
Inside == {w \in Workers : pc[w] \in Draining \cup {"leave"}}

\* They work on the job that is published now.
Entered == \A w \in Inside : work[w] = job /\ job # NoWork

\* Threads between drawing a ticket and decrementing remaining_.
Holds(t) == pc[t] \in {"serve", "finish"}

Tickets ==
  /\ job # NoWork => chunks = count[job]
  /\ \A t \in Threads : Holds(t) => ticket[t] < chunks /\ ticket[t] < next
  /\ \A t, u \in Threads : Holds(t) /\ Holds(u) /\ ticket[t] = ticket[u] => t = u

\* Row i of the job has been written when its ticket was drawn and served.
RowDone(i) == i < next /\ \A t \in Threads : pc[t] = "serve" => ticket[t] # i

IdleRows == \A c \in Callers : pc[c] = "idle" =>
  \A i \in 0 .. count[c] - 1 : writes[c][i] = 1
SerialRows == \A c \in Callers : pc[c] = "serial" =>
  \A i \in 0 .. count[c] - 1 : writes[c][i] = IF i < ticket[c] THEN 1 ELSE 0
FreshRows == \A c \in Callers : pc[c] \in {"run", "publish"} =>
  \A i \in 0 .. count[c] - 1 : writes[c][i] = 0
JobRows == job # NoWork => \A i \in 0 .. count[job] - 1 :
  writes[job][i] = IF RowDone(i) THEN 1 ELSE 0

Rows == IdleRows /\ SerialRows /\ FreshRows /\ JobRows

\* Tickets of the job that are not finished.
Pending == {k \in 0 .. chunks - 1 :
              k >= next \/ \E t \in Threads : Holds(t) /\ ticket[t] = k}

ActiveCounts == active = Cardinality(Inside)
RemainingCounts == job # NoWork => remaining = Cardinality(Pending)
QuietCounts == job = NoWork => remaining = 0

Control == Typed /\ Owned /\ Entered /\ Tickets /\ Rows
Counting == ActiveCounts /\ RemainingCounts /\ QuietCounts
Inv == Control /\ Counting

-----------------------------------------------------------------------------
\* With kChunk = 1 a Work has as many tickets as rows, and ticket k is row k.
LEMMA OneRowPerTicket ==
  ASSUME NEW k \in Nat, NEW n \in Nat
  PROVE  /\ Chunks(n) = n
         /\ k < n => RowsOf(k, n) = {k}
  BY DEF Chunks, RowsOf, KChunk

LEMMA RowsIndexed ==
  ASSUME NEW n \in Counts \cup {0}
  PROVE  n \in Nat /\ 0 .. n - 1 \subseteq RowIndex
  BY RowPoolAssumption DEF RowIndex

LEMMA InitControl ==
  ASSUME Init
  PROVE  Control
<1> USE DEF Init
<1>1. Typed
  <2>1. pc \in [Threads -> Labels]
    BY DEF Labels, Draining
  <2>2. /\ \A c \in Callers : pc[c] \in CallerLabels
        /\ \A w \in Workers : pc[w] \in WorkerLabels
    BY RowPoolAssumption DEF CallerLabels, WorkerLabels, Threads
  <2> QED BY <2>1, <2>2 DEF Typed
<1>2. Owned /\ Entered /\ Tickets /\ Rows
  BY RowPoolAssumption DEF Owned, Entered, Tickets, Rows, IdleRows,
         SerialRows, FreshRows, JobRows, Inside, Holds, Published, Draining, Threads
<1> QED BY <1>1, <1>2 DEF Control

LEMMA InitCounting ==
  ASSUME Init
  PROVE  Counting
<1>1. Inside = {}
  BY RowPoolAssumption DEF Init, Inside, Draining, Threads
<1>2. Cardinality(Inside) = 0
  BY <1>1, FS_EmptySet
<1> QED BY <1>2 DEF Init, Counting, ActiveCounts, RemainingCounts, QuietCounts

\* Serving ticket k of the Work of c writes row k of its buffers and no other.
LEMMA WriteRow ==
  ASSUME Typed, NEW c \in Callers, NEW k \in Nat, k < count[c], Write(c, k)
  PROVE  /\ writes' \in [Callers -> [RowIndex -> Nat]]
         /\ \A d \in Callers : \A i \in 0 .. count[d] - 1 :
              writes'[d][i] = IF d = c /\ i = k THEN writes[d][i] + 1 ELSE writes[d][i]
         /\ k \in RowIndex
         /\ \A d \in Callers : \A i \in RowIndex :
              writes'[d][i] = IF d = c /\ i = k THEN writes[d][i] + 1 ELSE writes[d][i]
<1>1. \A d \in Callers : count[d] \in Nat /\ 0 .. count[d] - 1 \subseteq RowIndex
  BY RowsIndexed DEF Typed
<1>2. RowsOf(k, count[c]) = {k}
  BY <1>1, OneRowPerTicket
<1>3. writes' = [writes EXCEPT ![c] =
         [i \in RowIndex |-> IF i \in {k} THEN @[i] + 1 ELSE @[i]]]
  BY <1>2 DEF Write
<1>4. writes \in [Callers -> [RowIndex -> Nat]]
  BY DEF Typed
<1>5. \A d \in Callers : \A i \in RowIndex :
        writes'[d][i] = IF d = c /\ i = k THEN writes[d][i] + 1 ELSE writes[d][i]
  BY <1>3, <1>4
<1>6. writes' \in [Callers -> [RowIndex -> Nat]]
  BY <1>3, <1>4
<1> QED BY <1>1, <1>5, <1>6

\* The rows of the job stand still while no thread starts or ends serving.
LEMMA JobRowsKept ==
  ASSUME JobRows, UNCHANGED <<job, next, count, writes>>,
         \A t \in Threads : pc[t] = "serve" <=> pc'[t] = "serve",
         \A t \in Threads : pc[t] = "serve" => ticket'[t] = ticket[t]
  PROVE  JobRows'
  BY DEF JobRows, RowDone

-----------------------------------------------------------------------------
(***************************************************************************)
(* Each action preserves Control.                                          *)
(***************************************************************************)
LEMMA LookupControl ==
  ASSUME Inv, NEW c \in Callers, Lookup(c)
  PROVE  Control'
<1> USE RowPoolAssumption DEF Inv, Control, Lookup, Goto, locks, jobState
<1>0. PICK n \in Counts : Lookup(c)!(n)
  OBVIOUS
<1>a. n \in Nat /\ 0 .. n - 1 \subseteq RowIndex
  BY RowsIndexed
<1>1. Typed'
  BY DEF Typed, CallerLabels, WorkerLabels, Labels, Draining, Threads
<1>2. Owned'
  BY DEF Typed, Owned, CallerLabels, WorkerLabels, Published, Draining, Threads
<1>3. Entered'
  BY DEF Typed, Owned, Entered, Inside, CallerLabels, WorkerLabels, Published, Draining,
         Threads
<1>4. Tickets'
  BY DEF Typed, Owned, Entered, Inside, Tickets, Holds, Published, Draining, Threads
<1>5. Rows'
  <2>1. IdleRows'
    BY <1>0 DEF Typed, Owned, Rows, IdleRows, SerialRows, Published, Draining, Threads
  <2>2. SerialRows'
    BY <1>0, <1>a DEF Typed, Owned, Rows, SerialRows, Published, Draining, Threads
  <2>3. FreshRows'
    BY <1>0, <1>a DEF Typed, Owned, Rows, FreshRows, Published, Draining, Threads
  <2>4. JobRows'
    <3>1. job # c
      BY DEF Owned, Published, Draining
    <3>2. \A i : RowDone(i) <=> RowDone(i)'
      BY <1>0 DEF Typed, RowDone, Draining, Threads
    <3> QED BY <1>0, <3>1, <3>2 DEF Typed, Rows, JobRows
  <2> QED BY <2>1, <2>2, <2>3, <2>4 DEF Rows
<1> QED BY <1>1, <1>2, <1>3, <1>4, <1>5

LEMMA ServeSerialControl ==
  ASSUME Inv, NEW c \in Callers, ServeSerial(c)
  PROVE  Control'
<1> USE RowPoolAssumption DEF Inv, Control, ServeSerial, Goto, locks, jobState
<1>0. count[c] \in Nat /\ Chunks(count[c]) = count[c] /\ ticket[c] \in Nat
  BY RowsIndexed, OneRowPerTicket DEF Typed, Threads
<1>1. CASE ticket[c] < count[c]
  <2>1. /\ Write(c, ticket[c])
        /\ ticket' = [ticket EXCEPT ![c] = @ + 1]
        /\ UNCHANGED <<pc, callerLock, mutex, job, next, chunks, generation,
                       remaining, active, stop, work, seen, count, lookups>>
    BY <1>0, <1>1
  <2>2. /\ writes' \in [Callers -> [RowIndex -> Nat]]
        /\ \A d \in Callers : \A i \in 0 .. count[d] - 1 :
             writes'[d][i] = IF d = c /\ i = ticket[c] THEN writes[d][i] + 1
                             ELSE writes[d][i]
    BY <1>0, <1>1, <2>1, WriteRow
  <2>3. Typed'
    BY <2>1, <2>2 DEF Typed, Threads
  <2>4. Owned' /\ Entered' /\ Tickets'
    BY <2>1 DEF Typed, Owned, Entered, Inside, Tickets, Holds, Published, Draining,
             Threads
  <2>5. IdleRows' /\ FreshRows'
    BY <2>1, <2>2 DEF Rows, IdleRows, FreshRows
  <2>6. SerialRows'
    <3> SUFFICES ASSUME NEW d \in Callers, pc[d] = "serial",
                        NEW i \in 0 .. count[d] - 1
                 PROVE  writes'[d][i] = IF i < ticket'[d] THEN 1 ELSE 0
      BY <2>1 DEF SerialRows
    <3>1. writes[d][i] = IF i < ticket[d] THEN 1 ELSE 0
      BY DEF Rows, SerialRows
    <3>2. i \in Nat /\ ticket'[d] = IF d = c THEN ticket[d] + 1 ELSE ticket[d]
      BY <2>1, RowsIndexed DEF Typed, Threads
    <3>3. writes'[d][i] = IF d = c /\ i = ticket[c] THEN writes[d][i] + 1
                          ELSE writes[d][i]
      BY <2>2
    <3>4. ticket[d] \in Nat
      BY DEF Typed, Threads
    <3>5. CASE d = c
      BY <1>0, <3>1, <3>2, <3>3, <3>5
    <3>6. CASE d # c
      BY <3>1, <3>2, <3>3, <3>4, <3>6
    <3> QED BY <3>5, <3>6
  <2>7. JobRows'
    <3>1. job # c
      BY DEF Owned, Published, Draining
    <3>2. \A i : RowDone(i) <=> RowDone(i)'
      BY <2>1 DEF Typed, RowDone, Draining, Threads
    <3> QED BY <2>1, <2>2, <3>1, <3>2 DEF Typed, Rows, JobRows
  <2> QED BY <2>3, <2>4, <2>5, <2>6, <2>7 DEF Rows
<1>2. CASE ticket[c] >= count[c]
  <2>1. /\ pc' = [pc EXCEPT ![c] = "idle"]
        /\ UNCHANGED <<ticket, writes, callerLock, mutex, job, next, chunks,
                       generation, remaining, active, stop, work, seen, count,
                       lookups>>
    BY <1>0, <1>2
  <2>2. Typed'
    BY <2>1 DEF Typed, CallerLabels, WorkerLabels, Labels, Draining, Threads
  <2>3. Owned' /\ Entered' /\ Tickets'
    BY <2>1 DEF Typed, Owned, Entered, Inside, Tickets, Holds, Published, Draining,
             Threads
  <2>4. IdleRows'
    BY <1>0, <1>2, <2>1 DEF Typed, Rows, IdleRows, SerialRows, Threads
  <2>5. SerialRows' /\ FreshRows'
    BY <2>1 DEF Typed, Rows, SerialRows, FreshRows, Threads
  <2>6. JobRows'
    BY <2>1, JobRowsKept DEF Typed, Rows, Threads
  <2> QED BY <2>2, <2>3, <2>4, <2>5, <2>6 DEF Rows
<1> QED BY <1>0, <1>1, <1>2

LEMMA SerializeControl ==
  ASSUME Inv, NEW c \in Callers, Serialize(c)
  PROVE  Control'
<1> USE RowPoolAssumption DEF Inv, Control, Serialize, Goto, locks, jobState
<1>1. Typed'
  BY DEF Typed, CallerLabels, WorkerLabels, Labels, Draining, Threads
<1>2. Owned'
  BY DEF Typed, Owned, CallerLabels, WorkerLabels, Published, Draining, Threads
<1>3. Entered'
  BY DEF Typed, Owned, Entered, Inside, CallerLabels, WorkerLabels, Published, Draining,
         Threads
<1>4. Tickets'
  BY DEF Typed, Owned, Entered, Inside, Tickets, Holds, Published, Draining, Threads
<1>5. Rows'
  <2>1. IdleRows'
    BY DEF Typed, Owned, Rows, IdleRows, SerialRows, Published, Draining, Threads
  <2>2. SerialRows'
    BY DEF Typed, Owned, Rows, SerialRows, Published, Draining, Threads
  <2>3. FreshRows'
    BY DEF Typed, Owned, Rows, FreshRows, Published, Draining, Threads
  <2>4. JobRows'
    BY DEF Typed, Owned, Entered, Inside, Tickets, Rows, JobRows, FreshRows, RowDone,
           Holds, Published, Draining, Threads
  <2> QED BY <2>1, <2>2, <2>3, <2>4 DEF Rows
<1> QED BY <1>1, <1>2, <1>3, <1>4, <1>5

LEMMA PublishControl ==
  ASSUME Inv, NEW c \in Callers, Publish(c)
  PROVE  Control'
<1> USE RowPoolAssumption DEF Inv, Control, Publish, Goto, locks, jobState
<1>0. count[c] \in Nat /\ Chunks(count[c]) = count[c]
  BY RowsIndexed, OneRowPerTicket DEF Typed
<1>a. job = NoWork /\ Inside = {}
  BY DEF Typed, Owned, Entered, Published, Draining
<1>1. Typed'
  BY <1>0 DEF Typed, CallerLabels, WorkerLabels, Labels, Draining, Threads
<1>2. Owned'
  BY DEF Typed, Owned, CallerLabels, WorkerLabels, Published, Draining, Threads
<1>3. Entered'
  BY <1>a DEF Typed, Owned, Entered, Inside, CallerLabels, WorkerLabels, Published, Draining,
         Threads
<1>4. Tickets'
  BY <1>0, <1>a DEF Typed, Owned, Entered, Inside, Tickets, Holds, Published, Draining, Threads
<1>5. Rows'
  <2>1. IdleRows'
    BY DEF Typed, Owned, Rows, IdleRows, SerialRows, Published, Draining, Threads
  <2>2. SerialRows'
    BY DEF Typed, Owned, Rows, SerialRows, Published, Draining, Threads
  <2>3. FreshRows'
    BY DEF Typed, Owned, Rows, FreshRows, Published, Draining, Threads
  <2>4. JobRows'
    BY <1>0 DEF Typed, Owned, Entered, Inside, Tickets, Rows, JobRows, FreshRows, RowDone,
           Holds, Published, Draining, Threads
  <2> QED BY <2>1, <2>2, <2>3, <2>4 DEF Rows
<1> QED BY <1>1, <1>2, <1>3, <1>4, <1>5

LEMMA WakeWorkersControl ==
  ASSUME Inv, NEW c \in Callers, WakeWorkers(c)
  PROVE  Control'
<1> USE RowPoolAssumption DEF Inv, Control, WakeWorkers, Goto, locks, jobState
<1>1. Typed'
  BY DEF Typed, CallerLabels, WorkerLabels, Labels, Draining, Threads
<1>2. Owned'
  BY DEF Typed, Owned, CallerLabels, WorkerLabels, Published, Draining, Threads
<1>3. Entered'
  BY DEF Typed, Owned, Entered, Inside, CallerLabels, WorkerLabels, Published, Draining,
         Threads
<1>4. Tickets'
  BY DEF Typed, Owned, Entered, Inside, Tickets, Holds, Published, Draining, Threads
<1>5. Rows'
  <2>1. IdleRows'
    BY DEF Typed, Owned, Rows, IdleRows, SerialRows, Published, Draining, Threads
  <2>2. SerialRows'
    BY DEF Typed, Owned, Rows, SerialRows, Published, Draining, Threads
  <2>3. FreshRows'
    BY DEF Typed, Owned, Rows, FreshRows, Published, Draining, Threads
  <2>4. JobRows'
    BY JobRowsKept DEF Typed, Rows, CallerLabels, WorkerLabels, Draining, Threads
  <2> QED BY <2>1, <2>2, <2>3, <2>4 DEF Rows
<1> QED BY <1>1, <1>2, <1>3, <1>4, <1>5

LEMMA JoinControl ==
  ASSUME Inv, NEW c \in Callers, Join(c)
  PROVE  Control'
<1> USE RowPoolAssumption DEF Inv, Control, Join, Goto, locks, jobState
<1>0. job = c
  BY DEF Owned, Published
<1>a. JobDone => Inside = {}
  <2>1. IsFiniteSet(Inside)
    BY FS_Subset DEF Inside
  <2> QED BY <2>1, FS_EmptySet DEF Counting, ActiveCounts, JobDone
<1>b. JobDone => \A i \in 0 .. count[c] - 1 : RowDone(i)
  <2> SUFFICES ASSUME JobDone, NEW i \in 0 .. count[c] - 1  PROVE RowDone(i)
    OBVIOUS
  <2>1. count[c] \in Nat /\ chunks = count[c]
    BY <1>0, RowsIndexed DEF Typed, Tickets, Threads
  <2>2. IsFiniteSet(Pending)
    <3>1. IsFiniteSet(0 .. chunks - 1)
      BY <2>1, FS_Interval, 0 \in Int, chunks - 1 \in Int
    <3>2. Pending \subseteq 0 .. chunks - 1
      BY DEF Pending
    <3> QED BY <3>1, <3>2, FS_Subset
  <2>3. Pending = {}
    BY <1>0, <2>2, FS_EmptySet DEF Counting, RemainingCounts, JobDone, Threads
  <2> QED BY <2>1, <2>3 DEF Typed, Pending, RowDone, Holds
<1>1. Typed'
  BY DEF Typed, CallerLabels, WorkerLabels, Labels, Draining, Threads
<1>2. Owned'
  BY DEF Typed, Owned, CallerLabels, WorkerLabels, Published, Draining, Threads
<1>3. Entered'
  BY <1>0, <1>a DEF Typed, Owned, Entered, Inside, CallerLabels, WorkerLabels, Published, Draining,
         Threads
<1>4. Tickets'
  BY DEF Typed, Owned, Entered, Inside, Tickets, Holds, Published, Draining, Threads
<1>5. Rows'
  <2>1. IdleRows'
    BY <1>0, <1>b DEF Typed, Owned, Rows, IdleRows, JobRows, Threads
  <2>2. SerialRows'
    BY DEF Typed, Owned, Rows, SerialRows, Published, Draining, Threads
  <2>3. FreshRows'
    BY DEF Typed, Owned, Rows, FreshRows, Published, Draining, Threads
  <2>4. JobRows'
    BY DEF Typed, Owned, Entered, Inside, Tickets, Rows, JobRows, FreshRows, RowDone,
           Holds, Published, Draining, Threads
  <2> QED BY <2>1, <2>2, <2>3, <2>4 DEF Rows
<1> QED BY <1>1, <1>2, <1>3, <1>4, <1>5

LEMMA BlockControl ==
  ASSUME Inv, NEW c \in Callers, Block(c)
  PROVE  Control'
<1> USE RowPoolAssumption DEF Inv, Control, Block, Goto, locks, jobState
<1>1. Typed'
  BY DEF Typed, CallerLabels, WorkerLabels, Labels, Draining, Threads
<1>2. Owned'
  BY DEF Typed, Owned, CallerLabels, WorkerLabels, Published, Draining, Threads
<1>3. Entered'
  BY DEF Typed, Owned, Entered, Inside, CallerLabels, WorkerLabels, Published, Draining,
         Threads
<1>4. Tickets'
  BY DEF Typed, Owned, Entered, Inside, Tickets, Holds, Published, Draining, Threads
<1>5. Rows'
  <2>1. IdleRows'
    BY DEF Typed, Owned, Rows, IdleRows, SerialRows, Published, Draining, Threads
  <2>2. SerialRows'
    BY DEF Typed, Owned, Rows, SerialRows, Published, Draining, Threads
  <2>3. FreshRows'
    BY DEF Typed, Owned, Rows, FreshRows, Published, Draining, Threads
  <2>4. JobRows'
    BY DEF Typed, Owned, Entered, Inside, Tickets, Rows, JobRows, FreshRows, RowDone,
           Holds, Published, Draining, Threads
  <2> QED BY <2>1, <2>2, <2>3, <2>4 DEF Rows
<1> QED BY <1>1, <1>2, <1>3, <1>4, <1>5

LEMMA ClaimControl ==
  ASSUME Inv, NEW t \in Threads, Claim(t)
  PROVE  Control'
<1> USE RowPoolAssumption DEF Inv, Control, Claim, Goto, locks, jobState
<1>1. Typed'
  <2>1. next' \in Nat /\ ticket' \in [Threads -> Nat]
    BY DEF Typed
  <2>2. CASE t \in Callers
    BY <2>1, <2>2 DEF Typed, CallerLabels, WorkerLabels, Labels, Draining, Threads
  <2>3. CASE t \in Workers
    BY <2>1, <2>3 DEF Typed, CallerLabels, WorkerLabels, Labels, Draining, Threads
  <2> QED BY <2>2, <2>3 DEF Threads
<1>2. Owned'
  BY DEF Typed, Owned, CallerLabels, WorkerLabels, Published, Draining, Threads
<1>3. Entered'
  BY DEF Typed, Owned, Entered, Inside, CallerLabels, WorkerLabels, Published, Draining,
         Threads
<1>4. Tickets'
  BY DEF Typed, Owned, Entered, Inside, Tickets, Holds, Published, Draining, Threads
<1>5. Rows'
  <2>1. IdleRows'
    BY DEF Typed, Owned, Rows, IdleRows, SerialRows, Published, Draining, Threads
  <2>2. SerialRows'
    BY DEF Typed, Owned, Rows, SerialRows, Published, Draining, Threads
  <2>3. FreshRows'
    BY DEF Typed, Owned, Rows, FreshRows, Published, Draining, Threads
  <2>4. JobRows'
    <3> SUFFICES ASSUME job # NoWork, NEW i \in 0 .. count[job] - 1
                 PROVE  RowDone(i) <=> RowDone(i)'
      BY DEF Rows, JobRows
    <3>1. i \in Nat /\ i < chunks
      BY RowsIndexed DEF Typed, Tickets
    <3>2. CASE next < chunks
      BY <3>1, <3>2 DEF Typed, RowDone, Threads
    <3>3. CASE ~(next < chunks)
      BY <3>1, <3>3 DEF Typed, RowDone, Threads
    <3> QED BY <3>2, <3>3
  <2> QED BY <2>1, <2>2, <2>3, <2>4 DEF Rows
<1> QED BY <1>1, <1>2, <1>3, <1>4, <1>5

LEMMA ServeControl ==
  ASSUME Inv, NEW t \in Threads, Serve(t)
  PROVE  Control'
<1> USE RowPoolAssumption DEF Inv, Control, Serve, Goto, locks, jobState
<1>0. /\ job \in Callers /\ WorkOf(t) = job
      /\ ticket[t] \in Nat /\ ticket[t] < next /\ ticket[t] < count[job]
  BY DEF Typed, Owned, Entered, Inside, Tickets, Holds, WorkOf, Published, Draining,
         Threads
<1>1. /\ writes' \in [Callers -> [RowIndex -> Nat]]
      /\ \A d \in Callers : \A i \in 0 .. count[d] - 1 :
           writes'[d][i] = IF d = job /\ i = ticket[t] THEN writes[d][i] + 1
                           ELSE writes[d][i]
  BY <1>0, WriteRow
<1>2. pc[t] = "serve" /\ pc' = [pc EXCEPT ![t] = "finish"]
  OBVIOUS
<1>3. UNCHANGED <<ticket, callerLock, mutex, job, next, chunks, generation,
                  remaining, active, stop, work, seen, count, lookups>>
  OBVIOUS
<1> HIDE DEF Serve
<1>4. Typed'
  BY <1>1, <1>2, <1>3 DEF Typed, CallerLabels, WorkerLabels, Labels, Draining, Threads
<1>5. Owned' /\ Entered' /\ Tickets'
  BY <1>2, <1>3 DEF Typed, Owned, Entered, Inside, Tickets, Holds, Published,
           Draining, Threads
<1>6. IdleRows' /\ SerialRows' /\ FreshRows'
  <2>1. pc[job] \in Published
    BY <1>0 DEF Owned
  <2>2. \A c \in Callers : pc'[c] \in {"idle", "serial", "run", "publish"} =>
          pc'[c] = pc[c] /\ c # job
    BY <1>2, <2>1 DEF Typed, Published, Draining, Threads
  <2> QED BY <1>1, <1>3, <2>2 DEF Rows, IdleRows, SerialRows, FreshRows
<1>7. JobRows'
  <2>1. \A i \in 0 .. count[job] - 1 :
          RowDone(i)' <=> RowDone(i) \/ i = ticket[t]
    BY <1>0, <1>2, <1>3 DEF Typed, Tickets, Holds, RowDone, Threads
  <2>2. ~RowDone(ticket[t])
    BY <1>2 DEF RowDone
  <2>3. \A i \in 0 .. count[job] - 1 :
          writes[job][i] = IF RowDone(i) THEN 1 ELSE 0
    BY <1>0, RowPoolAssumption DEF Rows, JobRows, Threads
  <2> QED BY <1>0, <1>1, <1>3, <2>1, <2>2, <2>3 DEF JobRows
<1> QED BY <1>4, <1>5, <1>6, <1>7 DEF Rows

LEMMA FinishControl ==
  ASSUME Inv, NEW t \in Threads, Finish(t)
  PROVE  Control'
<1> USE RowPoolAssumption DEF Inv, Control, Finish, Goto, locks, jobState
<1>1. Typed'
  BY DEF Typed, CallerLabels, WorkerLabels, Labels, Draining, Threads
<1>2. Owned'
  BY DEF Typed, Owned, CallerLabels, WorkerLabels, Published, Draining, Threads
<1>3. Entered'
  BY DEF Typed, Owned, Entered, Inside, CallerLabels, WorkerLabels, Published, Draining,
         Threads
<1>4. Tickets'
  BY DEF Typed, Owned, Entered, Inside, Tickets, Holds, Published, Draining, Threads
<1>5. Rows'
  <2>1. IdleRows'
    BY DEF Typed, Owned, Rows, IdleRows, SerialRows, Published, Draining, Threads
  <2>2. SerialRows'
    BY DEF Typed, Owned, Rows, SerialRows, Published, Draining, Threads
  <2>3. FreshRows'
    BY DEF Typed, Owned, Rows, FreshRows, Published, Draining, Threads
  <2>4. JobRows'
    BY DEF Typed, Owned, Entered, Inside, Tickets, Rows, JobRows, FreshRows, RowDone,
           Holds, Published, Draining, Threads
  <2> QED BY <2>1, <2>2, <2>3, <2>4 DEF Rows
<1> QED BY <1>1, <1>2, <1>3, <1>4, <1>5

LEMMA SignalControl ==
  ASSUME Inv, NEW t \in Threads, Signal(t)
  PROVE  Control'
<1> USE RowPoolAssumption DEF Inv, Control, Signal, NotifyDone, Goto, locks, jobState
<1>1. Typed'
  BY DEF Typed, CallerLabels, WorkerLabels, Labels, Draining, Threads
<1>2. Owned'
  BY DEF Typed, Owned, CallerLabels, WorkerLabels, Published, Draining, Threads
<1>3. Entered'
  BY DEF Typed, Owned, Entered, Inside, CallerLabels, WorkerLabels, Published, Draining,
         Threads
<1>4. Tickets'
  BY DEF Typed, Owned, Entered, Inside, Tickets, Holds, Published, Draining, Threads
<1>5. Rows'
  <2>1. IdleRows'
    BY DEF Typed, Owned, Rows, IdleRows, SerialRows, Published, Draining, Threads
  <2>2. SerialRows'
    BY DEF Typed, Owned, Rows, SerialRows, Published, Draining, Threads
  <2>3. FreshRows'
    BY DEF Typed, Owned, Rows, FreshRows, Published, Draining, Threads
  <2>4. JobRows'
    BY JobRowsKept DEF Typed, Rows, CallerLabels, WorkerLabels, Draining, Threads
  <2> QED BY <2>1, <2>2, <2>3, <2>4 DEF Rows
<1> QED BY <1>1, <1>2, <1>3, <1>4, <1>5

LEMMA LoopControl ==
  ASSUME Inv, NEW w \in Workers, Loop(w)
  PROVE  Control'
<1> USE RowPoolAssumption DEF Inv, Control, Loop, Enter, Goto, locks, jobState
<1>1. Typed'
  <2>1. CASE stop /\ Goto(w, "exited") /\ UNCHANGED <<seen, work, active>>
    BY <2>1 DEF Typed, CallerLabels, WorkerLabels, Labels, Draining, Threads
  <2>2. CASE Enter(w)
    <3>1. seen' \in [Workers -> Nat] /\ work' \in [Workers -> Callers \cup {NoWork}]
      BY <2>2 DEF Typed
    <3>2. CASE job = NoWork
      BY <2>2, <3>1, <3>2 DEF Typed
    <3>3. CASE job # NoWork
      <4>1. active' \in Int /\ pc' = [pc EXCEPT ![w] = "claim"]
        BY <2>2, <3>3 DEF Typed
      <4>2. w \notin Callers
        OBVIOUS
      <4>3. UNCHANGED <<callerLock, mutex, job, next, chunks, generation, remaining,
                        ticket, count, writes, lookups>>
        OBVIOUS
      <4> HIDE DEF Loop, Enter
      <4> QED BY <3>1, <4>1, <4>2, <4>3 DEF Typed, CallerLabels, WorkerLabels, Labels,
                                            Draining, Threads
    <3> QED BY <3>2, <3>3
  <2>3. CASE Goto(w, "asleep") /\ UNCHANGED <<seen, work, active>>
    BY <2>3 DEF Typed, CallerLabels, WorkerLabels, Labels, Draining, Threads
  <2> QED BY <2>1, <2>2, <2>3
<1>2. Owned'
  BY DEF Typed, Owned, CallerLabels, WorkerLabels, Published, Draining, Threads
<1>3. Entered'
  BY DEF Typed, Owned, Entered, Inside, CallerLabels, WorkerLabels, Published, Draining,
         Threads
<1>4. Tickets'
  BY DEF Typed, Owned, Entered, Inside, Tickets, Holds, Published, Draining, Threads
<1>5. Rows'
  <2>1. IdleRows'
    BY DEF Typed, Owned, Rows, IdleRows, SerialRows, Published, Draining, Threads
  <2>2. SerialRows'
    BY DEF Typed, Owned, Rows, SerialRows, Published, Draining, Threads
  <2>3. FreshRows'
    BY DEF Typed, Owned, Rows, FreshRows, Published, Draining, Threads
  <2>4. JobRows'
    BY DEF Typed, Owned, Entered, Inside, Tickets, Rows, JobRows, FreshRows, RowDone,
           Holds, Published, Draining, Threads
  <2> QED BY <2>1, <2>2, <2>3, <2>4 DEF Rows
<1> QED BY <1>1, <1>2, <1>3, <1>4, <1>5

LEMMA LeaveControl ==
  ASSUME Inv, NEW w \in Workers, Leave(w)
  PROVE  Control'
<1> USE RowPoolAssumption DEF Inv, Control, Leave, NotifyDone, Goto, locks, jobState
<1>1. Typed'
  <2>1. CASE \E c \in Callers :
               pc[c] = "blocked" /\ pc' = [pc EXCEPT ![w] = "loop", ![c] = "join"]
    <3>1. PICK c \in Callers :
            pc[c] = "blocked" /\ pc' = [pc EXCEPT ![w] = "loop", ![c] = "join"]
      BY <2>1
    <3>2. c # w
      BY DEF Threads
    <3>3. pc' \in [Threads -> Labels]
      BY <3>1 DEF Typed, Labels
    <3>4. /\ \A d \in Callers : pc'[d] \in CallerLabels
          /\ \A v \in Workers : pc'[v] \in WorkerLabels
      BY <3>1, <3>2 DEF Typed, CallerLabels, WorkerLabels, Threads
    <3> QED BY <3>3, <3>4 DEF Typed
  <2>2. CASE Goto(w, "loop")
    BY <2>2 DEF Typed, CallerLabels, WorkerLabels, Labels, Draining, Threads
  <2> QED BY <2>1, <2>2
<1>2. Owned'
  BY DEF Typed, Owned, CallerLabels, WorkerLabels, Published, Draining, Threads
<1>3. Entered'
  BY DEF Typed, Owned, Entered, Inside, CallerLabels, WorkerLabels, Published, Draining,
         Threads
<1>4. Tickets'
  BY DEF Typed, Owned, Entered, Inside, Tickets, Holds, Published, Draining, Threads
<1>5. Rows'
  <2>1. IdleRows'
    BY DEF Typed, Owned, Rows, IdleRows, SerialRows, Published, Draining, Threads
  <2>2. SerialRows'
    BY DEF Typed, Owned, Rows, SerialRows, Published, Draining, Threads
  <2>3. FreshRows'
    BY DEF Typed, Owned, Rows, FreshRows, Published, Draining, Threads
  <2>4. JobRows'
    BY JobRowsKept DEF Typed, Rows, CallerLabels, WorkerLabels, Draining, Threads
  <2> QED BY <2>1, <2>2, <2>3, <2>4 DEF Rows
<1> QED BY <1>1, <1>2, <1>3, <1>4, <1>5

LEMMA SpuriousWakeupControl ==
  ASSUME Inv, NEW t \in Threads, SpuriousWakeup(t)
  PROVE  Control'
<1> USE RowPoolAssumption DEF Inv, Control, SpuriousWakeup, Goto, locks, jobState
<1>1. Typed'
  BY DEF Typed, CallerLabels, WorkerLabels, Labels, Draining, Threads
<1>2. Owned'
  BY DEF Typed, Owned, CallerLabels, WorkerLabels, Published, Draining, Threads
<1>3. Entered'
  BY DEF Typed, Owned, Entered, Inside, CallerLabels, WorkerLabels, Published, Draining,
         Threads
<1>4. Tickets'
  BY DEF Typed, Owned, Entered, Inside, Tickets, Holds, Published, Draining, Threads
<1>5. Rows'
  <2>1. IdleRows'
    BY DEF Typed, Owned, Rows, IdleRows, SerialRows, Published, Draining, Threads
  <2>2. SerialRows'
    BY DEF Typed, Owned, Rows, SerialRows, Published, Draining, Threads
  <2>3. FreshRows'
    BY DEF Typed, Owned, Rows, FreshRows, Published, Draining, Threads
  <2>4. JobRows'
    BY DEF Typed, Owned, Entered, Inside, Tickets, Rows, JobRows, FreshRows, RowDone,
           Holds, Published, Draining, Threads
  <2> QED BY <2>1, <2>2, <2>3, <2>4 DEF Rows
<1> QED BY <1>1, <1>2, <1>3, <1>4, <1>5

LEMMA DestroyControl ==
  ASSUME Inv, Destroy
  PROVE  Control'
<1> USE RowPoolAssumption DEF Inv, Control, Destroy, Goto, locks, jobState
<1>1. Typed'
  BY DEF Typed, CallerLabels, WorkerLabels, Labels, Draining, Threads
<1>2. Owned'
  BY DEF Typed, Owned, CallerLabels, WorkerLabels, Published, Draining, Threads
<1>3. Entered'
  BY DEF Typed, Owned, Entered, Inside, CallerLabels, WorkerLabels, Published, Draining,
         Threads
<1>4. Tickets'
  BY DEF Typed, Owned, Entered, Inside, Tickets, Holds, Published, Draining, Threads
<1>5. Rows'
  <2>1. IdleRows'
    BY DEF Typed, Owned, Rows, IdleRows, SerialRows, Published, Draining, Threads
  <2>2. SerialRows'
    BY DEF Typed, Owned, Rows, SerialRows, Published, Draining, Threads
  <2>3. FreshRows'
    BY DEF Typed, Owned, Rows, FreshRows, Published, Draining, Threads
  <2>4. JobRows'
    BY DEF Typed, Owned, Entered, Inside, Tickets, Rows, JobRows, FreshRows, RowDone,
           Holds, Published, Draining, Threads
  <2> QED BY <2>1, <2>2, <2>3, <2>4 DEF Rows
<1> QED BY <1>1, <1>2, <1>3, <1>4, <1>5

LEMMA NextControl ==
  ASSUME Inv, [Next]_vars
  PROVE  Control'
<1>1. CASE UNCHANGED vars
  BY <1>1 DEF vars, locks, jobState, Inv, Control, Typed, Owned, Entered, Inside,
              Tickets, Holds, Rows, IdleRows, SerialRows, FreshRows, JobRows, RowDone
<1>2. CASE Finished
  BY <1>1, <1>2 DEF Finished
<1> QED
  BY <1>1, <1>2, LookupControl, ServeSerialControl, SerializeControl, PublishControl,
     WakeWorkersControl, JoinControl, BlockControl, ClaimControl, ServeControl,
     FinishControl, SignalControl, LoopControl, LeaveControl, SpuriousWakeupControl,
     DestroyControl
  DEF Next, CallerStep, DrainStep, WorkerStep, Threads

-----------------------------------------------------------------------------
(***************************************************************************)
(* Each action preserves what the counters count.                          *)
(***************************************************************************)
LEMMA FiniteCounted ==
  ASSUME Typed
  PROVE  IsFiniteSet(Inside) /\ IsFiniteSet(Pending)
<1>1. IsFiniteSet(Inside)
  BY RowPoolAssumption, FS_Subset DEF Inside
<1>2. IsFiniteSet(0 .. chunks - 1)
  BY FS_Interval, 0 \in Int, chunks - 1 \in Int DEF Typed
<1>3. Pending \subseteq 0 .. chunks - 1
  BY DEF Pending
<1> QED BY <1>1, <1>2, <1>3, FS_Subset

LEMMA CountsKept ==
  ASSUME Counting, UNCHANGED <<active, remaining, job>>,
         Inside' = Inside, Pending' = Pending
  PROVE  Counting'
  BY DEF Counting, ActiveCounts, RemainingCounts, QuietCounts

\* Steps that move no thread in or out of drain() and finish no ticket.
LEMMA OtherCounting ==
  ASSUME Inv, NEW t \in Threads,
         \/ t \in Callers /\ (Lookup(t) \/ ServeSerial(t) \/ Serialize(t)
                              \/ WakeWorkers(t) \/ Block(t))
         \/ Serve(t) \/ SpuriousWakeup(t) \/ Destroy
  PROVE  Counting'
<1> USE RowPoolAssumption
        DEF Inv, Control, Typed, Goto, locks, jobState, Lookup, ServeSerial, Serialize,
            WakeWorkers, Block, Serve, SpuriousWakeup, Destroy
<1>1. UNCHANGED <<active, remaining, job, next, chunks>>
  OBVIOUS
<1>2. Inside' = Inside
  BY DEF Inside, CallerLabels, WorkerLabels, Draining, Threads
<1>3. Pending' = Pending
  <2>1. \A u \in Threads : Holds(u)' <=> Holds(u)
    BY DEF Holds, CallerLabels, WorkerLabels, Draining, Threads
  <2>2. \A u \in Threads : Holds(u) => ticket'[u] = ticket[u]
    BY DEF Holds, CallerLabels, WorkerLabels, Draining, Threads
  <2> QED BY <1>1, <2>1, <2>2 DEF Pending
<1> QED BY <1>1, <1>2, <1>3, CountsKept

LEMMA SignalCounting ==
  ASSUME Inv, NEW t \in Threads, Signal(t)
  PROVE  Counting'
<1> USE RowPoolAssumption
        DEF Inv, Control, Typed, Goto, locks, jobState, Signal, NotifyDone
<1>1. Inside' = Inside
  BY DEF Inside, CallerLabels, WorkerLabels, Draining, Threads
<1>2. Pending' = Pending
  BY DEF Pending, Holds, CallerLabels, WorkerLabels, Draining, Threads
<1> QED BY <1>1, <1>2, CountsKept

LEMMA PublishCounting ==
  ASSUME Inv, NEW c \in Callers, Publish(c)
  PROVE  Counting'
<1> USE RowPoolAssumption DEF Inv, Control, Publish, Goto, locks, jobState
<1>1. count[c] \in Nat /\ Chunks(count[c]) = count[c]
  BY RowsIndexed, OneRowPerTicket DEF Typed
<1>2. Inside' = Inside
  BY DEF Typed, Inside, Draining, Threads
<1>3. Pending' = 0 .. count[c] - 1
  BY <1>1 DEF Pending
<1>4. Cardinality(0 .. count[c] - 1) = count[c]
  BY <1>1, FS_Interval, 0 \in Int, count[c] - 1 \in Int
<1> QED
  BY <1>1, <1>2, <1>3, <1>4
  DEF Counting, ActiveCounts, RemainingCounts, QuietCounts, Threads

LEMMA JoinCounting ==
  ASSUME Inv, NEW c \in Callers, Join(c)
  PROVE  Counting'
<1> USE RowPoolAssumption DEF Inv, Control, Join, Goto, locks, jobState
<1>1. Inside' = Inside
  BY DEF Typed, Inside, Draining, Threads
<1>2. Pending' = Pending
  BY DEF Typed, Pending, Holds, Threads
<1>3. CASE JobDone
  BY <1>1, <1>3 DEF JobDone, Counting, ActiveCounts, RemainingCounts, QuietCounts
<1>4. CASE ~JobDone
  BY <1>1, <1>2, <1>4, CountsKept
<1> QED BY <1>3, <1>4

LEMMA ClaimCounting ==
  ASSUME Inv, NEW t \in Threads, Claim(t)
  PROVE  Counting'
<1> USE RowPoolAssumption DEF Inv, Control, Claim, Goto, locks, jobState
<1>1. Inside' = Inside
  BY DEF Typed, Inside, Draining, Threads
<1>2. Pending' = Pending
  <2>1. CASE next < chunks
    <3>1. \A u \in Threads : Holds(u)' <=> Holds(u) \/ u = t
      BY <2>1 DEF Typed, Holds
    <3>2. \A u \in Threads : ticket'[u] = IF u = t THEN next ELSE ticket[u]
      BY <2>1 DEF Typed
    <3>3. ~Holds(t) /\ next' = next + 1 /\ chunks' = chunks
      BY DEF Holds
    <3>4. \A k \in 0 .. chunks - 1 : k >= next <=> k >= next + 1 \/ k = next
      BY DEF Typed
    <3> QED BY <3>1, <3>2, <3>3, <3>4 DEF Pending
  <2>2. CASE ~(next < chunks)
    <3>1. \A u \in Threads : (Holds(u)' <=> Holds(u)) /\ ticket'[u] = ticket[u]
      BY <2>2 DEF Typed, Holds
    <3>2. \A k \in 0 .. chunks - 1 : ~(k >= next) /\ ~(k >= next')
      BY <2>2 DEF Typed
    <3> QED BY <3>1, <3>2 DEF Pending
  <2> QED BY <2>1, <2>2
<1> QED BY <1>1, <1>2, CountsKept

LEMMA FinishCounting ==
  ASSUME Inv, NEW t \in Threads, Finish(t)
  PROVE  Counting'
<1> USE RowPoolAssumption DEF Inv, Control, Finish, Goto, locks, jobState
<1>1. Inside' = Inside
  BY DEF Typed, Inside, Draining, Threads
<1>2. job # NoWork
  BY DEF Typed, Owned, Entered, Inside, Published, Draining, Threads
<1>3. ticket[t] \in Pending
  BY DEF Typed, Tickets, Holds, Pending
<1>4. Pending' = Pending \ {ticket[t]}
  <2>1. \A u \in Threads : Holds(u)' <=> Holds(u) /\ u # t
    BY DEF Typed, Holds
  <2>2. \A u \in Threads : Holds(u) /\ u # t => ticket[u] # ticket[t]
    BY DEF Tickets, Holds
  <2>3. ticket[t] \in Nat /\ ticket[t] < next
    BY DEF Typed, Tickets, Holds
  <2> QED BY <2>1, <2>2, <2>3 DEF Typed, Pending
<1>5. Cardinality(Pending') = Cardinality(Pending) - 1
  BY <1>3, <1>4, FiniteCounted, FS_RemoveElement
<1> QED
  BY <1>1, <1>2, <1>5 DEF Counting, ActiveCounts, RemainingCounts, QuietCounts

LEMMA LoopCounting ==
  ASSUME Inv, NEW w \in Workers, Loop(w)
  PROVE  Counting'
<1> USE RowPoolAssumption DEF Inv, Control, Loop, Enter, Goto, locks, jobState
<1>1. w \in Threads /\ w \notin Inside
  BY DEF Inside, Draining, Threads
<1>2. Pending' = Pending
  BY DEF Typed, Pending, Holds, Threads
<1>3. CASE Enter(w) /\ job # NoWork
  <2>1. pc' = [pc EXCEPT ![w] = "claim"]
    BY <1>3
  <2>2. Inside' = Inside \cup {w}
    BY <1>1, <2>1 DEF Typed, Inside, Draining, Threads
  <2>3. Cardinality(Inside') = Cardinality(Inside) + 1
    BY <1>1, <2>2, FiniteCounted, FS_AddElement
  <2>4. active' = active + 1 /\ UNCHANGED <<remaining, job>>
    BY <1>3
  <2> QED
    BY <1>2, <1>3, <2>3, <2>4 DEF Counting, ActiveCounts, RemainingCounts, QuietCounts
<1>4. CASE Enter(w) /\ job = NoWork
  <2>1. UNCHANGED <<pc, active, remaining, job>>
    BY <1>4
  <2> QED BY <1>2, <2>1, CountsKept DEF Inside
<1>5. CASE \E label \in {"exited", "asleep"} : Goto(w, label) /\ UNCHANGED active
  <2>1. PICK label \in {"exited", "asleep"} :
          pc' = [pc EXCEPT ![w] = label] /\ UNCHANGED active
    BY <1>5
  <2>2. Inside' = Inside
    BY <1>1, <2>1 DEF Typed, Inside, Draining, Threads
  <2> QED BY <1>2, <2>1, <2>2, CountsKept
<1> QED BY <1>3, <1>4, <1>5

LEMMA LeaveCounting ==
  ASSUME Inv, NEW w \in Workers, Leave(w)
  PROVE  Counting'
<1> USE RowPoolAssumption DEF Inv, Control, Leave, NotifyDone, Goto, locks, jobState
<1>1. w \in Inside
  BY DEF Inside
<1>2. Inside' = Inside \ {w}
  BY DEF Typed, Inside, Draining, Threads
<1>3. Pending' = Pending
  BY DEF Typed, Pending, Holds, Draining, Threads
<1>4. Cardinality(Inside') = Cardinality(Inside) - 1
  BY <1>1, <1>2, FiniteCounted, FS_RemoveElement
<1> QED
  BY <1>3, <1>4 DEF Counting, ActiveCounts, RemainingCounts, QuietCounts

LEMMA NextCounting ==
  ASSUME Inv, [Next]_vars
  PROVE  Counting'
<1>1. CASE UNCHANGED vars
  BY <1>1 DEF vars, locks, jobState, Inv, Counting, ActiveCounts, RemainingCounts,
              QuietCounts, Inside, Pending, Holds
<1>2. CASE Finished
  BY <1>1, <1>2 DEF Finished
<1>3. CASE Destroy
  <2>1. CASE Threads = {}
    <3>1. Inside' = {} /\ Inside = {}
      BY <2>1 DEF Inside, Threads
    <3>2. Pending' = Pending
      BY <1>3, <2>1 DEF Destroy, jobState, locks, Pending
    <3> QED BY <1>3, <3>1, <3>2, CountsKept DEF Inv, Destroy, jobState
  <2>2. CASE Threads # {}
    BY <1>3, <2>2, OtherCounting
  <2> QED BY <2>1, <2>2
<1> QED
  BY <1>1, <1>2, <1>3, OtherCounting, SignalCounting, PublishCounting, JoinCounting,
     ClaimCounting, FinishCounting, LoopCounting, LeaveCounting
  DEF Next, CallerStep, DrainStep, WorkerStep, Threads

-----------------------------------------------------------------------------
\* The inductive invariant: who owns the locks and the job, who holds which
\* ticket, which rows are written, and what active_ and remaining_ count.
THEOREM Invariance == Spec => []Inv
<1>1. Init => Inv
  BY InitControl, InitCounting DEF Inv
<1>2. Inv /\ [Next]_vars => Inv'
  BY NextControl, NextCounting DEF Inv
<1> QED BY <1>1, <1>2, PTL DEF Spec

StopIsFlag == stop \in BOOLEAN

LEMMA StopTyped == Spec => []StopIsFlag
<1>1. Init => StopIsFlag
  BY Zenon DEF Init, StopIsFlag
<1>2. StopIsFlag /\ [Next]_vars => StopIsFlag'
  <2> SUFFICES ASSUME StopIsFlag, [Next]_vars PROVE StopIsFlag'
    OBVIOUS
  <2>1. stop' = stop \/ stop' = TRUE
    BY Zenon
    DEF Next, vars, CallerStep, DrainStep, WorkerStep, Lookup, ServeSerial, Serialize,
        Publish, WakeWorkers, Join, Block, Claim, Serve, Finish, Signal, Loop, Leave,
        SpuriousWakeup, Destroy, Finished
  <2> QED BY <2>1, Zenon DEF StopIsFlag
<1> QED BY <1>1, <1>2, PTL DEF Spec

\* Every variable keeps its type for every number of callers, workers, rows and
\* lookups: remaining_ and active_ of Pool are never decremented below zero.
THEOREM TypeCorrect == Spec => []TypeOK
<1>1. Inv /\ StopIsFlag => TypeOK
  <2> SUFFICES ASSUME Inv, StopIsFlag PROVE TypeOK
    OBVIOUS
  <2>1. active \in Nat
    BY FiniteCounted, FS_CardinalityType
    DEF Inv, Control, Counting, ActiveCounts
  <2>2. remaining \in Nat
    BY FiniteCounted, FS_CardinalityType
    DEF Inv, Control, Counting, RemainingCounts, QuietCounts
  <2> QED BY <2>1, <2>2 DEF Inv, Control, Typed, StopIsFlag, TypeOK
<1> QED BY <1>1, Invariance, StopTyped, PTL

\* row_store_lookup never returns with a row missing, served twice, or still to
\* be written by a worker that is late, whatever the number of threads.
THEOREM ReturnsComplete == Spec => []ReturnedComplete
<1>1. Inv => ReturnedComplete
  BY DEF Inv, Control, Rows, IdleRows, ReturnedComplete
<1> QED BY <1>1, Invariance, PTL

\* Pool::run resets chunks_ and the ticket counter only when no thread is in
\* Pool::drain, which reads them without the mutex.
THEOREM PublishesAlone == Spec => []PublishAlone
<1>1. Inv => PublishAlone
  <2> SUFFICES ASSUME Inv, NEW c \in Callers, pc[c] = "publish"
               PROVE  InDrain = {} /\ active = 0
    BY DEF PublishAlone
  <2> USE DEF Inv, Control
  <2>1. job = NoWork /\ \A d \in Callers : pc[d] \notin Published
    BY DEF Typed, Owned, Published, Draining
  <2>2. Inside = {}
    BY <2>1 DEF Entered
  <2>3. InDrain = {}
    BY <2>1, <2>2 DEF InDrain, Inside, Published, Threads
  <2>4. active = 0
    BY <2>2, FS_EmptySet DEF Counting, ActiveCounts
  <2> QED BY <2>3, <2>4
<1> QED BY <1>1, Invariance, PTL

\* A worker inside Pool::drain works on the job of a Pool::run that has not
\* returned, so the Work and the buffers it writes to are alive.
THEOREM WorkOutlivesWorkers == Spec => []WorkIsAlive
<1>1. Inv => WorkIsAlive
  BY DEF Inv, Control, Typed, Owned, Entered, Inside, Published, Draining, WorkIsAlive
<1> QED BY <1>1, Invariance, PTL

\* done_ has at most one waiter, so its notify_one() wakes the right thread.
THEOREM SingleWaiter == Spec => []OneWaiter
<1>1. Inv => OneWaiter
  BY DEF Inv, Control, Owned, Published, OneWaiter
<1> QED BY <1>1, Invariance, PTL

-----------------------------------------------------------------------------
(***************************************************************************)
(* The pool implements RowLookup.                                          *)
(***************************************************************************)
\* Nothing is written past Work::count.
NoOverrun == \A c \in Callers : \A i \in RowIndex :
  i \notin 0 .. count[c] - 1 => writes[c][i] = 0

\* What one step does to the buffers.
Rewrites(c, k) ==
  /\ k \in (0 .. count[c] - 1) \cap RowIndex
  /\ writes[c][k] = 0
  /\ count' = count
  /\ \A d \in Callers : \A i \in RowIndex :
       writes'[d][i] = IF d = c /\ i = k THEN writes[d][i] + 1 ELSE writes[d][i]

LEMMA ServeRewrites ==
  ASSUME Inv, NEW t \in Threads, Serve(t)
  PROVE  /\ job \in Callers /\ pc[job] # "idle" /\ Rewrites(job, ticket[t])
         /\ \A c \in Callers : pc'[c] = "idle" <=> pc[c] = "idle"
<1> USE RowPoolAssumption DEF Inv, Control, Serve, Goto
<1>1. /\ job \in Callers /\ WorkOf(t) = job /\ pc[job] # "idle"
      /\ ticket[t] \in Nat /\ ticket[t] < next /\ ticket[t] < count[job]
  BY DEF Typed, Owned, Entered, Inside, Tickets, Holds, WorkOf, Published, Draining,
         Threads
<1>2. writes[job][ticket[t]] = 0
  <2>1. ~RowDone(ticket[t]) /\ count[job] \in Nat
    BY <1>1, RowsIndexed DEF Typed, RowDone
  <2> QED BY <1>1, <2>1 DEF Rows, JobRows, Threads
<1>3. Rewrites(job, ticket[t])
  <2>1. Write(job, ticket[t]) /\ count' = count
    BY <1>1
  <2>2. count[job] \in Nat
    BY <1>1, RowsIndexed DEF Typed
  <2> HIDE DEF Serve
  <2> QED BY <1>1, <1>2, <2>1, <2>2, WriteRow DEF Rewrites
<1>4. \A c \in Callers : pc'[c] = "idle" <=> pc[c] = "idle"
  BY DEF Typed, Threads
<1> QED BY <1>1, <1>3, <1>4

LEMMA ServeSerialRewrites ==
  ASSUME Inv, NEW c \in Callers, ServeSerial(c)
  PROVE  \/ Rewrites(c, ticket[c]) /\ pc' = pc
         \/ pc' = [pc EXCEPT ![c] = "idle"] /\ UNCHANGED <<count, writes>>
<1> USE DEF Inv, Control, ServeSerial, Goto
<1>1. count[c] \in Nat /\ Chunks(count[c]) = count[c] /\ ticket[c] \in Nat
  BY RowsIndexed, OneRowPerTicket DEF Typed, Threads
<1>2. CASE ticket[c] < count[c]
  <2>1. writes[c][ticket[c]] = 0
    BY <1>1, <1>2 DEF Rows, SerialRows
  <2>2. Write(c, ticket[c]) /\ UNCHANGED <<pc, count>>
    BY <1>1, <1>2
  <2> QED BY <1>1, <1>2, <2>1, <2>2, WriteRow DEF Typed, Rewrites
<1>3. CASE ~(ticket[c] < count[c])
  BY <1>1, <1>3
<1> QED BY <1>2, <1>3

\* Every other step leaves the buffers alone, and starts or ends no lookup
\* unless it is a call or the return of run().
LEMMA OthersLeaveRows ==
  ASSUME Inv, [Next]_vars,
         ~(\E t \in Threads : Serve(t)), ~(\E c \in Callers : ServeSerial(c)),
         ~(\E c \in Callers : Lookup(c))
  PROVE  /\ UNCHANGED <<count, writes>>
         /\ \/ \A c \in Callers : pc'[c] = "idle" <=> pc[c] = "idle"
            \/ \E c \in Callers : Join(c) /\ pc' = [pc EXCEPT ![c] = "idle"]
<1> USE RowPoolAssumption DEF Inv, Control, Goto
<1>1. ASSUME NEW c \in Callers, Join(c)
      PROVE  UNCHANGED <<count, writes>>
             /\ (pc' = [pc EXCEPT ![c] = "idle"]
                 \/ \A d \in Callers : pc'[d] = "idle" <=> pc[d] = "idle")
  BY <1>1 DEF Join, Typed, Threads
<1>2. ASSUME NEW c \in Callers, Serialize(c) \/ Publish(c) \/ WakeWorkers(c) \/ Block(c)
      PROVE  UNCHANGED <<count, writes>>
             /\ \A d \in Callers : pc'[d] = "idle" <=> pc[d] = "idle"
  BY <1>2 DEF Serialize, Publish, WakeWorkers, Block, Typed, Threads, CallerLabels
<1>3. ASSUME NEW t \in Threads, Claim(t) \/ Finish(t) \/ Signal(t) \/ SpuriousWakeup(t)
      PROVE  UNCHANGED <<count, writes>>
             /\ \A d \in Callers : pc'[d] = "idle" <=> pc[d] = "idle"
  BY <1>3 DEF Claim, Finish, Signal, SpuriousWakeup, NotifyDone, Typed, Threads
<1>4. ASSUME NEW w \in Workers, Loop(w) \/ Leave(w)
      PROVE  UNCHANGED <<count, writes>>
             /\ \A d \in Callers : pc'[d] = "idle" <=> pc[d] = "idle"
  BY <1>4 DEF Loop, Enter, Leave, NotifyDone, Typed, Threads
<1>5. ASSUME Destroy \/ Finished \/ UNCHANGED vars
      PROVE  UNCHANGED <<count, writes>>
             /\ \A d \in Callers : pc'[d] = "idle" <=> pc[d] = "idle"
  BY <1>5 DEF Destroy, Finished, vars, Typed, Threads, CallerLabels
<1> QED
  BY <1>1, <1>2, <1>3, <1>4, <1>5 DEF Next, CallerStep, DrainStep, WorkerStep

LEMMA Overruns == Spec => []NoOverrun
<1>1. Init => NoOverrun
  BY DEF Init, NoOverrun
<1>2. Inv /\ NoOverrun /\ [Next]_vars => NoOverrun'
  <2> SUFFICES ASSUME Inv, NoOverrun, [Next]_vars PROVE NoOverrun'
    OBVIOUS
  <2>1. ASSUME NEW c \in Callers, Lookup(c) PROVE NoOverrun'
    BY <2>1 DEF Inv, Control, Typed, Lookup, NoOverrun
  <2>2. ASSUME NEW c \in Callers, NEW k \in Nat, Rewrites(c, k) PROVE NoOverrun'
    BY <2>2 DEF Rewrites, NoOverrun
  <2>3. ASSUME NEW t \in Threads, Serve(t) PROVE NoOverrun'
    BY <2>2, <2>3, ServeRewrites DEF Inv, Control, Typed
  <2>4. ASSUME NEW c \in Callers, ServeSerial(c) PROVE NoOverrun'
    BY <2>2, <2>4, ServeSerialRewrites DEF Inv, Control, Typed, NoOverrun, Threads
  <2> QED BY <2>1, <2>3, <2>4, OthersLeaveRows DEF NoOverrun
<1> QED BY <1>1, <1>2, Invariance, PTL DEF Spec

\* The rows of c that are written, as RowLookup counts them.
Filled(c) == {i \in RowIndex : writes[c][i] > 0}

LEMMA AbstractFill ==
  ASSUME Inv, NEW c \in Callers, NEW k \in Nat, Rewrites(c, k), pc[c] # "idle",
         \A d \in Callers : pc'[d] = "idle" <=> pc[d] = "idle"
  PROVE  Abstract!Fill(c)
<1>1. Filled(c)' = Filled(c) \cup {k} /\ k \notin Filled(c)
  BY DEF Inv, Control, Typed, Rewrites, Filled
<1>2. \A d \in Callers : d # c => Filled(d)' = Filled(d)
  BY DEF Rewrites, Filled
<1>3. k \in (0 .. count[c] - 1) \ Filled(c)
  BY <1>1 DEF Rewrites
<1>4. [d \in Callers |-> Filled(d)]' =
        [[d \in Callers |-> Filled(d)] EXCEPT ![c] = @ \cup {k}]
  BY <1>1, <1>2
<1>5. [d \in Callers |-> pc[d] # "idle"]' = [d \in Callers |-> pc[d] # "idle"]
  OBVIOUS
<1> QED BY <1>3, <1>4, <1>5, Zenon DEF Abstract!Fill, Filled, Rewrites

LEMMA AbstractReturn ==
  ASSUME Inv, NoOverrun, NEW c \in Callers, pc[c] # "idle",
         pc' = [pc EXCEPT ![c] = "idle"], UNCHANGED <<count, writes>>, IdleRows'
  PROVE  Abstract!Return(c)
<1>1. \A i \in 0 .. count[c] - 1 : writes[c][i] = 1
  BY DEF Inv, Control, Typed, IdleRows, Threads
<1>2. 0 .. count[c] - 1 \subseteq RowIndex
  BY RowsIndexed DEF Inv, Control, Typed
<1>3. Filled(c) = 0 .. count[c] - 1
  BY <1>1, <1>2 DEF Filled, NoOverrun
<1>4. [d \in Callers |-> pc[d] # "idle"]' =
        [[d \in Callers |-> pc[d] # "idle"] EXCEPT ![c] = FALSE]
  BY DEF Inv, Control, Typed, Threads
<1> QED BY <1>3, <1>4, Zenon DEF Abstract!Return, Filled

LEMMA AbstractCall ==
  ASSUME Inv, NEW c \in Callers, Lookup(c)
  PROVE  Abstract!Call(c)
<1>1. PICK n \in Counts : Lookup(c)!(n)
  BY DEF Lookup
<1>2. pc[c] = "idle" /\ count' = [count EXCEPT ![c] = n]
  BY <1>1
<1>3. pc'[c] # "idle" /\ \A d \in Callers : d # c => pc'[d] = pc[d]
  BY <1>1 DEF Inv, Control, Typed, Goto, Threads
<1>4. [d \in Callers |-> pc[d] # "idle"]' =
        [[d \in Callers |-> pc[d] # "idle"] EXCEPT ![c] = TRUE]
  BY <1>3
<1>5. Filled(c)' = {} /\ \A d \in Callers : d # c => Filled(d)' = Filled(d)
  BY <1>1 DEF Inv, Control, Typed, Filled
<1>6. [d \in Callers |-> Filled(d)]' =
        [[d \in Callers |-> Filled(d)] EXCEPT ![c] = {}]
  BY <1>5
<1> QED BY <1>2, <1>4, <1>6, Zenon DEF Abstract!Call, Filled

\* The pool implements the row-by-row lookup for every number of threads: the
\* rows of a lookup are filled between its call and its return, each once.
THEOREM Implements == Spec => ImplementsLookup
<1>1. Init => Abstract!Init
  <2> SUFFICES ASSUME Init PROVE Abstract!Init
    OBVIOUS
  <2>1. \A c \in Callers : pc[c] = "idle" /\ Filled(c) = {}
    BY DEF Init, Filled, Threads
  <2> QED BY <2>1 DEF Init, Abstract!Init, Filled
<1>2. Inv /\ NoOverrun /\ [Next]_vars => [Abstract!Next]_(Abstract!vars)
  <2> SUFFICES ASSUME Inv, NoOverrun, [Next]_vars
               PROVE  Abstract!Next \/ UNCHANGED Abstract!vars
    OBVIOUS
  <2>0. IdleRows'
    BY NextControl DEF Control, Rows
  <2>1. ASSUME NEW c \in Callers, Lookup(c) PROVE Abstract!Next
    BY <2>1, AbstractCall DEF Abstract!Next
  <2>2. ASSUME NEW t \in Threads, Serve(t) PROVE Abstract!Next
    BY <2>2, ServeRewrites, AbstractFill
    DEF Inv, Control, Typed, Abstract!Next
  <2>3. ASSUME NEW c \in Callers, ServeSerial(c) PROVE Abstract!Next
    <3>1. pc[c] # "idle" /\ ticket[c] \in Nat
      BY <2>3 DEF ServeSerial, Inv, Control, Typed, Threads
    <3> QED
      BY <2>0, <2>3, <3>1, ServeSerialRewrites, AbstractFill, AbstractReturn
      DEF Abstract!Next
  <2>4. ASSUME NEW c \in Callers, Join(c), pc' = [pc EXCEPT ![c] = "idle"],
               UNCHANGED <<count, writes>>
        PROVE  Abstract!Next
    <3>1. pc[c] # "idle"
      BY <2>4 DEF Join
    <3> QED BY <2>0, <2>4, <3>1, AbstractReturn DEF Abstract!Next
  <2>5. ASSUME UNCHANGED <<count, writes>>,
               \A c \in Callers : pc'[c] = "idle" <=> pc[c] = "idle"
        PROVE  UNCHANGED Abstract!vars
    <3>1. [c \in Callers |-> pc[c] # "idle"]' = [c \in Callers |-> pc[c] # "idle"]
      BY <2>5
    <3> QED BY <2>5, <3>1 DEF Abstract!vars
  <2> QED BY <2>1, <2>2, <2>3, <2>4, <2>5, OthersLeaveRows
<1> QED BY <1>1, <1>2, Invariance, Overruns, PTL DEF Spec, ImplementsLookup, Abstract!Spec
=============================================================================
