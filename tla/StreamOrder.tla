----------------------------- MODULE StreamOrder -----------------------------
(***************************************************************************)
(* Streams of a device and the memory of its caching allocator, as the     *)
(* model code of models/deepseek_v4.py uses them.  A program is what the   *)
(* host issues for one forward, in host order: kernels on streams, waits   *)
(* between streams, events, and the moments at which the last reference to *)
(* a tensor goes.  The host runs ahead; the device runs a kernel once all  *)
(* that its stream, its waits and its events order before it has run.      *)
(*                                                                         *)
(* A buffer is << name, micro-batch, layer >>.  mem holds for each buffer  *)
(* the kernel that wrote it last, so that a stale or overwritten read is   *)
(* visible.                                                                *)
(***************************************************************************)
EXTENDS Integers, Sequences

CONSTANTS Programs,    \* the forwards
          Persistent   \* names of buffers that are never returned

ASSUME StreamAssumption ==
  \A p \in Programs :
    /\ p \in Seq([k : STRING, s : STRING, t : STRING,
                 in : SUBSET (STRING \X Int \X Int), out : SUBSET (STRING \X Int \X Int)])
    /\ \A i \in DOMAIN p : p[i].s # "host" /\ p[i].k # "kernel" => p[i].in = {} /\ p[i].out = {}

VARIABLES
  prog,   \* the program of the forward that runs
  after,  \* for each of its operations, those it waits for
  done,   \* what the device has run
  mem     \* per buffer: the last kernel that wrote it, or 0

vars == <<prog, after, done, mem>>

-----------------------------------------------------------------------------
(* What the host issues.                                                   *)

Op(k, s, t, in, out) == <<[k |-> k, s |-> s, t |-> t, in |-> in, out |-> out]>>
Kernel(s, in, out) == Op("kernel", s, "", in, out)
Wait(s, t) == Op("wait", s, t, {}, {})            \* s.wait_stream(t)
Record(s, e) == Op("record", s, e, {}, {})        \* e = s.record_event()
WaitEvent(s, e) == Op("wait_event", s, e, {}, {}) \* s.wait_event(e)
RecordStream(b, s) == Op("use", "host", s, {b}, {})  \* b.record_stream(s)
Drop(B) == Op("drop", "host", "", B, {})          \* last references go
When(cond, ops) == IF cond THEN ops ELSE <<>>

Tasks(p) == {i \in DOMAIN p : p[i].s # "host"}
Kernels(p) == {i \in Tasks(p) : p[i].k = "kernel"}

\* What operation i waits for: its stream, and what a wait or an event names.
Waits(p, i) ==
  {j \in Tasks(p) : j < i /\
     (\/ p[j].s = p[i].s
      \/ p[i].k = "wait" /\ p[j].s = p[i].t
      \/ /\ p[i].k = "wait_event" /\ p[j].k = "record" /\ p[j].t = p[i].t
         /\ \A m \in j + 1 .. i - 1 : p[m].k = "record" => p[m].t # p[i].t)}

Touches(p, i) == p[i].in \cup p[i].out
Buffers(p) == UNION {Touches(p, i) : i \in Kernels(p)}

\* The stream a buffer was allocated on is that of its first writer.
Allocates(p, b, i) ==
  b \in p[i].out \ p[i].in /\ \A j \in Kernels(p) : b \in p[j].out => i <= j
Fresh(p, i) == {b \in p[i].out : b[1] \notin Persistent /\ Allocates(p, b, i)}

-----------------------------------------------------------------------------
Ready == {i \in Tasks(prog) \ done : after[i] \subseteq done}

Init ==
  /\ prog \in Programs
  /\ after = [i \in DOMAIN prog |-> Waits(prog, i)]
  /\ done = {}
  /\ mem = [b \in Buffers(prog) |-> 0]

\* The device runs kernel i, or passes a wait or an event.
Run(i) ==
  /\ i \in Ready
  /\ done' = done \cup {i}
  /\ mem' = [b \in DOMAIN mem |-> IF b \in prog[i].out THEN i ELSE mem[b]]
  /\ UNCHANGED <<prog, after>>

\* The forward is over.
Finished == done = Tasks(prog) /\ UNCHANGED vars

Next == (\E i \in Tasks(prog) : Run(i)) \/ Finished

Spec == Init /\ [][Next]_vars

-----------------------------------------------------------------------------
TypeOK ==
  /\ prog \in Programs
  /\ after = [i \in DOMAIN prog |-> Waits(prog, i)]
  /\ done \subseteq Tasks(prog)
  /\ mem \in [Buffers(prog) -> done \cup {0}]

\* A set of tasks that may have run: with each, what it waits for.
Closed(p, D) == \A k \in D : Waits(p, k) \subseteq D

\* chain[j] has only tasks from which a chain of waits leads to task j.
Chains(p, chain) ==
  /\ chain \in [Tasks(p) -> SUBSET Tasks(p)]
  /\ \A j \in Tasks(p) :
       chain[j] \subseteq Waits(p, j) \cup UNION {chain[k] : k \in Waits(p, j)}

\* Two kernels of which one writes what the other touches are ordered by a chain.
Conflict(p, i, j) ==
  p[i].out \cap Touches(p, j) # {} \/ Touches(p, i) \cap p[j].out # {}
Ordered(p, chain) ==
  \A i, j \in Kernels(p) : i < j /\ Conflict(p, i, j) => i \in chain[j]

\* A kernel that may run now finds in every buffer it reads what the host
\* order put there: the writes before it in the program have arrived, and none
\* behind it has (the waits and events of the multi-stream paths).
Serial ==
  \A i \in Ready : \A b \in prog[i].in :
    /\ mem[b] < i
    /\ \A j \in Kernels(prog) : j < i /\ b \in prog[j].out => j <= mem[b]

\* Memory whose last reference has gone is given out again only when every
\* kernel that was issued on it has run.  The allocator hands it to the next
\* allocation on the stream it came from, at once or, after record_stream,
\* when the work the recorded streams had at the drop is done.
Users(p, d, b) == {j \in Kernels(p) : j < d /\ b \in Touches(p, j)}
Recorded(p, d, b) == {p[j].t : j \in {j \in 1 .. d - 1 : p[j].k = "use" /\ b \in p[j].in}}
Released(p, d, b) == \A j \in Kernels(p) : j < d /\ p[j].s \in Recorded(p, d, b) => j \in done
Drops(p, i) == {d \in 1 .. i - 1 : p[d].k = "drop"}
GivenOut(p, d, b, s) == (\E j \in Kernels(p) : p[j].s = s /\ b \in Fresh(p, j)) /\ Released(p, d, b)
NoEarlyReuse ==
  \A i \in Ready : Fresh(prog, i) # {} =>
    \A d \in Drops(prog, i) : \A b \in prog[d].in :
      ~ (Users(prog, d, b) \subseteq done) => ~ GivenOut(prog, d, b, prog[i].s)

\* The rule for tensors that cross streams: whoever used a buffer before its last
\* reference went did so on the stream it came from or on a recorded one, or a
\* chain of waits leads from it to any allocation of that stream behind the drop.
Allocators(p, b) == {p[j].s : j \in {j \in Kernels(p) : b \in Fresh(p, j)}}
Kept(p, chain) ==
  \A i \in Kernels(p) : Fresh(p, i) # {} =>
    \A d \in Drops(p, i) : \A b \in p[d].in : p[i].s \in Allocators(p, b) =>
      \A u \in Users(p, d, b) :
        p[u].s = p[i].s \/ p[u].s \in Recorded(p, d, b) \/ u \in chain[i]

\* When the last kernel of the main stream has run, every side stream has been
\* joined: a capture can end there, and the next forward start.
LastOfMain(p, i) == p[i].s = "main" /\ \A j \in Kernels(p) : p[j].s = "main" => j <= i
MainEndsLast == \A i \in done : LastOfMain(prog, i) => done = Tasks(prog)

\* The rule for streams that fork: a chain of waits leads from every other task to
\* the end of the main stream.
Joined(p, chain) ==
  \A i \in Tasks(p) : LastOfMain(p, i) => Tasks(p) \subseteq chain[i] \cup {i}
==============================================================================
