------------------------------ MODULE RowPool ------------------------------
(***************************************************************************)
(* The thread pool of adapter/row_store.cpp: row_store_lookup, Pool::run,  *)
(* Pool::drain, Pool::loop and Pool::~Pool.  A caller is a thread that     *)
(* runs the host callback; it owns one Work, so a Work* is the caller's    *)
(* name.  A critical section that neither waits nor shares its data with   *)
(* unlocked code is one step; run()'s wait keeps the mutex between its     *)
(* test and its sleep, because remaining_ is decremented without it.       *)
(***************************************************************************)
EXTENDS Integers, FiniteSets

CONSTANTS Callers,      \* threads that run row_store_lookup
          Workers,      \* DSV41_IO_THREADS - 1 threads; {} is the null pool
          NoWork,       \* nullptr, and the owner of a free lock
          Counts,       \* values of Work::count
          SerialBelow,  \* kSerialBelow
          MaxLookups    \* bound: lookups of one behaviour

Threads == Callers \cup Workers
RowIndex == UNION {0 .. n - 1 : n \in Counts \cup {0}}

ASSUME RowPoolAssumption ==
  /\ IsFiniteSet(Workers)
  /\ Callers \cap Workers = {}
  /\ NoWork \notin Threads
  /\ Counts \subseteq Nat
  /\ SerialBelow \in Nat
  /\ MaxLookups \in Nat

VARIABLES
  pc,                                     \* where each thread is
  callerLock, mutex,                      \* owners of caller_ and mutex_
  job, next, chunks, remaining, active, generation, stop,
  work, ticket, seen,                     \* locals of drain and loop
  count, writes,                          \* Work::count; writes to each row
  lookups                                 \* lookups started, for the bound

locks == <<callerLock, mutex>>
jobState == <<job, next, chunks, generation>>
vars == <<pc, locks, jobState, remaining, active, stop, work, ticket, seen,
          count, writes, lookups>>

KChunk == 1
Chunks(n) == (n + KChunk - 1) \div KChunk
RowsOf(k, n) == {i \in 0 .. n - 1 : k * KChunk <= i /\ i < k * KChunk + KChunk}

\* The Work* a thread passes to drain.
WorkOf(t) == IF t \in Callers THEN t ELSE work[t]

Draining == {"claim", "serve", "finish", "signal"}

Init ==
  /\ pc = [t \in Threads |-> IF t \in Callers THEN "idle" ELSE "loop"]
  /\ callerLock = NoWork /\ mutex = NoWork
  /\ job = NoWork /\ next = 0 /\ chunks = 0 /\ generation = 0
  /\ remaining = 0 /\ active = 0 /\ stop = FALSE
  /\ work = [w \in Workers |-> NoWork]
  /\ ticket = [t \in Threads |-> 0]
  /\ seen = [w \in Workers |-> 0]
  /\ count = [c \in Callers |-> 0]
  /\ writes = [c \in Callers |-> [i \in RowIndex |-> 0]]
  /\ lookups = 0

Goto(t, label) == pc' = [pc EXCEPT ![t] = label]

\* Write the rows of ticket k of the Work of c.
Write(c, k) ==
  writes' = [writes EXCEPT ![c] =
    [i \in RowIndex |-> IF i \in RowsOf(k, count[c]) THEN @[i] + 1 ELSE @[i]]]

(***************************************************************************)
(* row_store_lookup: a small lookup, or one without a pool, is served by   *)
(* the calling thread alone and takes no lock of the pool.                 *)
(***************************************************************************)
Lookup(c) == \E n \in Counts :
  /\ pc[c] = "idle" /\ ~stop /\ lookups < MaxLookups
  /\ count' = [count EXCEPT ![c] = n]
  /\ writes' = [writes EXCEPT ![c] = [i \in RowIndex |-> 0]]
  /\ ticket' = [ticket EXCEPT ![c] = 0]
  /\ lookups' = lookups + 1
  /\ Goto(c, IF Workers = {} \/ n < SerialBelow THEN "serial" ELSE "run")
  /\ UNCHANGED <<locks, jobState, remaining, active, stop, work, seen>>

ServeSerial(c) ==
  /\ pc[c] = "serial"
  /\ \/ /\ ticket[c] < Chunks(count[c])
        /\ Write(c, ticket[c])
        /\ ticket' = [ticket EXCEPT ![c] = @ + 1]
        /\ UNCHANGED pc
     \/ /\ ticket[c] >= Chunks(count[c])
        /\ Goto(c, "idle")
        /\ UNCHANGED <<writes, ticket>>
  /\ UNCHANGED <<locks, jobState, remaining, active, stop, work, seen, count,
                 lookups>>

(***************************************************************************)
(* Pool::run                                                               *)
(***************************************************************************)
Serialize(c) ==
  /\ pc[c] = "run" /\ callerLock = NoWork
  /\ callerLock' = c
  /\ Goto(c, "publish")
  /\ UNCHANGED <<mutex, jobState, remaining, active, stop, work, ticket, seen,
                 count, writes, lookups>>

Publish(c) ==
  /\ pc[c] = "publish" /\ mutex = NoWork
  /\ job' = c
  /\ next' = 0
  /\ chunks' = Chunks(count[c])
  /\ remaining' = Chunks(count[c])
  /\ generation' = generation + 1
  /\ Goto(c, "wake")
  /\ UNCHANGED <<locks, active, stop, work, ticket, seen, count, writes, lookups>>

\* ready_.notify_all(), after the mutex is released.
WakeWorkers(c) ==
  /\ pc[c] = "wake"
  /\ pc' = [t \in Threads |-> IF t = c THEN "claim"
                              ELSE IF pc[t] = "asleep" THEN "loop" ELSE pc[t]]
  /\ UNCHANGED <<locks, jobState, remaining, active, stop, work, ticket, seen,
                 count, writes, lookups>>

\* Mutant: the caller does not wait for the workers to leave drain().
JobDone_RowsOnly == remaining = 0

JobDone == remaining = 0 /\ active = 0

\* done_.wait tests its predicate with the mutex held, and returns with it held.
Join(c) ==
  /\ pc[c] = "join" /\ mutex = NoWork
  /\ IF JobDone
       THEN /\ job' = NoWork /\ callerLock' = NoWork
            /\ Goto(c, "idle")
            /\ UNCHANGED mutex
       ELSE /\ mutex' = c
            /\ Goto(c, "block")
            /\ UNCHANGED <<job, callerLock>>
  /\ UNCHANGED <<next, chunks, generation, remaining, active, stop, work, ticket,
                 seen, count, writes, lookups>>

Block(c) ==
  /\ pc[c] = "block"
  /\ mutex' = NoWork
  /\ Goto(c, "blocked")
  /\ UNCHANGED <<callerLock, jobState, remaining, active, stop, work, ticket,
                 seen, count, writes, lookups>>

\* done_.notify_one() by t, which goes on at label: it wakes one waiter, if any.
NotifyDone(t, label) ==
  \/ \E c \in Callers :
       /\ pc[c] = "blocked"
       /\ pc' = [pc EXCEPT ![t] = label, ![c] = "join"]
  \/ /\ \A c \in Callers : pc[c] # "blocked"
     /\ Goto(t, label)

(***************************************************************************)
(* Pool::drain, in the caller and in the workers                           *)
(***************************************************************************)
Claim(t) ==
  /\ pc[t] = "claim"
  /\ next' = next + 1
  /\ IF next < chunks
       THEN ticket' = [ticket EXCEPT ![t] = next] /\ Goto(t, "serve")
       ELSE /\ Goto(t, IF t \in Callers THEN "join" ELSE "leave")
            /\ UNCHANGED ticket
  /\ UNCHANGED <<locks, job, chunks, generation, remaining, active, stop, work,
                 seen, count, writes, lookups>>

Serve(t) ==
  /\ pc[t] = "serve"
  /\ Write(WorkOf(t), ticket[t])
  /\ Goto(t, "finish")
  /\ UNCHANGED <<locks, jobState, remaining, active, stop, work, ticket, seen,
                 count, lookups>>

Finish(t) ==
  /\ pc[t] = "finish"
  /\ remaining' = remaining - 1
  /\ Goto(t, IF remaining = 1 THEN "signal" ELSE "claim")
  /\ UNCHANGED <<locks, jobState, active, stop, work, ticket, seen, count,
                 writes, lookups>>

Signal(t) ==
  /\ pc[t] = "signal" /\ mutex = NoWork
  /\ NotifyDone(t, "claim")
  /\ UNCHANGED <<locks, jobState, remaining, active, stop, work, ticket, seen,
                 count, writes, lookups>>

(***************************************************************************)
(* Pool::loop                                                              *)
(***************************************************************************)
\* Mutant: a worker enters drain() without being counted.
Enter_NotCounted(w) ==
  /\ generation # seen[w]
  /\ seen' = [seen EXCEPT ![w] = generation]
  /\ work' = [work EXCEPT ![w] = job]
  /\ IF job = NoWork THEN UNCHANGED pc ELSE Goto(w, "claim")
  /\ UNCHANGED active

Enter(w) ==
  /\ generation # seen[w]
  /\ seen' = [seen EXCEPT ![w] = generation]
  /\ work' = [work EXCEPT ![w] = job]
  /\ IF job = NoWork
       THEN UNCHANGED <<pc, active>>
       ELSE active' = active + 1 /\ Goto(w, "claim")

Loop(w) ==
  /\ pc[w] = "loop" /\ mutex = NoWork
  /\ \/ /\ stop
        /\ Goto(w, "exited")
        /\ UNCHANGED <<seen, work, active>>
     \/ ~stop /\ Enter(w)
     \/ /\ ~stop /\ generation = seen[w]
        /\ Goto(w, "asleep")
        /\ UNCHANGED <<seen, work, active>>
  /\ UNCHANGED <<locks, jobState, remaining, stop, ticket, count, writes, lookups>>

\* Mutant: a worker that leaves drain() tells nobody.
Leave_NoNotify(w) ==
  /\ pc[w] = "leave" /\ mutex = NoWork
  /\ active' = active - 1
  /\ Goto(w, "loop")
  /\ UNCHANGED <<locks, jobState, remaining, stop, work, ticket, seen, count,
                 writes, lookups>>

Leave(w) ==
  /\ pc[w] = "leave" /\ mutex = NoWork
  /\ active' = active - 1
  /\ NotifyDone(w, "loop")
  /\ UNCHANGED <<locks, jobState, remaining, stop, work, ticket, seen, count,
                 writes, lookups>>

\* A condition variable may wake a thread nobody notified.
SpuriousWakeup(t) ==
  /\ pc[t] \in {"asleep", "blocked"}
  /\ Goto(t, IF t \in Callers THEN "join" ELSE "loop")
  /\ UNCHANGED <<locks, jobState, remaining, active, stop, work, ticket, seen,
                 count, writes, lookups>>

\* Mutant: the destructor leaves sleeping workers asleep.
Destroy_NoNotify ==
  /\ ~stop /\ mutex = NoWork
  /\ \A c \in Callers : pc[c] \in {"idle", "serial"}
  /\ stop' = TRUE
  /\ generation' = generation + 1
  /\ UNCHANGED <<pc, locks, job, next, chunks, remaining, active, work, ticket,
                 seen, count, writes, lookups>>

\* Pool::~Pool, which C++ allows when no member function is running.
Destroy ==
  /\ ~stop /\ mutex = NoWork
  /\ \A c \in Callers : pc[c] \in {"idle", "serial"}
  /\ stop' = TRUE
  /\ generation' = generation + 1
  /\ pc' = [t \in Threads |-> IF pc[t] = "asleep" THEN "loop" ELSE pc[t]]
  /\ UNCHANGED <<locks, job, next, chunks, remaining, active, work, ticket, seen,
                 count, writes, lookups>>

\* The callers have nothing more to look up and the workers have been joined.
Finished ==
  /\ stop
  /\ \A c \in Callers : pc[c] = "idle"
  /\ \A w \in Workers : pc[w] = "exited"
  /\ UNCHANGED vars

CallerStep(c) == \/ ServeSerial(c) \/ Serialize(c) \/ Publish(c)
                 \/ WakeWorkers(c) \/ Join(c) \/ Block(c)
DrainStep(t) == Claim(t) \/ Serve(t) \/ Finish(t) \/ Signal(t)
WorkerStep(w) == Loop(w) \/ Leave(w)

Next == \/ \E c \in Callers : Lookup(c) \/ CallerStep(c)
        \/ \E t \in Threads : DrainStep(t) \/ SpuriousWakeup(t)
        \/ \E w \in Workers : WorkerStep(w)
        \/ Destroy
        \/ Finished

Spec == Init /\ [][Next]_vars

(***************************************************************************)
(* The operating system runs every thread that can run.  Nothing forces a  *)
(* lookup or the destructor, and caller_ is not a fair lock: Serialize is  *)
(* only weakly fair.  Spurious wakeups may come at any time, but not       *)
(* without end: a waiter that retook the mutex for ever could keep it from *)
(* the thread it waits for.                                                *)
(***************************************************************************)
Fairness ==
  /\ \A c \in Callers : WF_vars(CallerStep(c)) /\ WF_vars(DrainStep(c))
  /\ \A w \in Workers : WF_vars(WorkerStep(w)) /\ WF_vars(DrainStep(w))
  /\ <>[][\A t \in Threads : ~SpuriousWakeup(t)]_vars

FairSpec == Spec /\ Fairness

-----------------------------------------------------------------------------
Labels == {"idle", "serial", "run", "publish", "wake", "join", "block",
           "blocked", "loop", "asleep", "leave", "exited"} \cup Draining

\* Every variable has its type; in particular the two unsigned counters that
\* threads decrement, remaining_ and active_, never wrap below zero.
TypeOK ==
  /\ pc \in [Threads -> Labels]
  /\ callerLock \in Callers \cup {NoWork}
  /\ mutex \in Callers \cup {NoWork}
  /\ job \in Callers \cup {NoWork}
  /\ next \in Nat /\ chunks \in Nat /\ generation \in Nat
  /\ remaining \in Nat /\ active \in Nat /\ stop \in BOOLEAN
  /\ work \in [Workers -> Callers \cup {NoWork}]
  /\ ticket \in [Threads -> Nat]
  /\ seen \in [Workers -> Nat]
  /\ count \in [Callers -> Counts \cup {0}]
  /\ writes \in [Callers -> [RowIndex -> Nat]]
  /\ lookups \in Nat

\* When row_store_lookup has returned to its caller, every row of its Work was
\* served, and served once: no ticket was lost or taken twice while the counter
\* was reset, and no worker is still writing to the buffers of an old job.
ReturnedComplete == \A c \in Callers :
  pc[c] = "idle" => \A i \in 0 .. count[c] - 1 : writes[c][i] = 1

\* Threads that may read chunks_ or draw from next_ without the mutex.
InDrain == {t \in Threads : pc[t] \in Draining}

\* run() resets the ticket counter and chunks_, which drain() reads without the
\* mutex, only while no thread is in drain(): the comment above its wait.
PublishAlone ==
  (\E c \in Callers : pc[c] = "publish") => InDrain = {} /\ active = 0

\* The Work a worker holds inside drain() is the job of a run() that has not
\* returned: the caller's stack frame and buffers are alive.
WorkIsAlive == \A w \in Workers :
  pc[w] \in Draining =>
    work[w] = job /\ job # NoWork /\ pc[job] \notin {"idle", "run", "publish"}

\* At most one thread waits on done_, so notify_one() cannot wake the wrong one.
OneWaiter ==
  \A c, d \in Callers : {pc[c], pc[d]} \subseteq {"block", "blocked"} => c = d

\* A job that was published returns: no wakeup is lost between a decrement of
\* remaining_ or active_ and the caller's wait, however the threads interleave.
PublishedJobReturns ==
  \A c \in Callers : pc[c] = "wake" ~> pc[c] = "idle"

\* The destructor's join() returns: every worker sees stop_ and leaves its loop.
WorkersExit == stop ~> \A w \in Workers : pc[w] = "exited"

Abstract == INSTANCE RowLookup WITH
  busy <- [c \in Callers |-> pc[c] # "idle"],
  size <- count,
  filled <- [c \in Callers |-> {i \in RowIndex : writes[c][i] > 0}]

\* The pool implements the row-by-row lookup: in particular no row is written
\* to a Work whose lookup has returned, and none returns with a row missing.
ImplementsLookup == Abstract!Spec
=============================================================================
