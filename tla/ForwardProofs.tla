-------------------------- MODULE ForwardProofs --------------------------
(***************************************************************************)
(* A forward whose conflicting kernels are ordered by its streams, waits   *)
(* and events computes what it would on one stream, however the device     *)
(* interleaves it; one that keeps the rules for memory and for its end     *)
(* reuses nothing early and ends with its main stream.                     *)
(*                                                                         *)
(* A captured graph, replayed whenever and after whatever, touches only    *)
(* memory that is still held: no copy, refresh or plan in between lets go  *)
(* of a tensor whose address it was recorded with.                         *)
(***************************************************************************)
EXTENDS ModelStreams, GraphMetadata, WellFoundedInduction, TLAPS

\* What has run is closed under waiting; mem names the latest writer that has
\* run; a kernel has run only after all it conflicts with.
InOrder ==
  \A j \in done \cap Kernels(prog) : \A i \in Kernels(prog) :
    i < j /\ Conflict(prog, i, j) => i \in done
Latest ==
  \A b \in Buffers(prog) :
    /\ mem[b] # 0 => mem[b] \in done \cap Kernels(prog) /\ b \in prog[mem[b]].out
    /\ \A j \in done \cap Kernels(prog) : b \in prog[j].out => j <= mem[b]
IInv == TypeOK /\ Closed(prog, done) /\ InOrder /\ Latest

\* Positions of a program are positive, and only kernels touch buffers.
LEMMA TaskPlaces ==
  ASSUME NEW p \in Programs, NEW i \in Tasks(p)
  PROVE  /\ i \in Nat /\ i > 0
         /\ i \notin Kernels(p) => p[i].in = {} /\ p[i].out = {}
         /\ i \in Kernels(p) => Touches(p, i) \subseteq Buffers(p)
  BY StreamAssumption DEF Tasks, Kernels, Touches, Buffers

\* What a task waits for comes before it in the program.
LEMMA WaitsBefore ==
  ASSUME NEW p \in Programs, NEW i \in Tasks(p)
  PROVE  \A j \in Waits(p, i) : j \in Tasks(p) /\ j < i
  BY DEF Waits

\* A set of naturals has a least element.
LEMMA Least ==
  ASSUME NEW S \in SUBSET Nat, S # {}
  PROVE  \E x \in S : \A y \in S : ~ (y < x)
<1>1. PICK x \in S : \A y \in S : ~ (<<y, x>> \in OpToRel(<, Nat))
  BY NatLessThanWellFounded, WFMin
<1> QED BY <1>1 DEF OpToRel

\* Whatever is closed under waiting and lets a task run holds all from which a
\* chain leads to the task: the least task for which it did not would have a
\* link to an earlier one.
LEMMA ChainHolds ==
  ASSUME NEW p \in Programs, NEW chain, Chains(p, chain),
         NEW D \in SUBSET Tasks(p), Closed(p, D),
         NEW j \in Tasks(p), Waits(p, j) \subseteq D
  PROVE  chain[j] \subseteq D
<1> DEFINE Bad == {k \in Tasks(p) : Waits(p, k) \subseteq D /\ ~ (chain[k] \subseteq D)}
<1> SUFFICES ASSUME Bad # {}  PROVE FALSE
  OBVIOUS
<1>1. Bad \in SUBSET Nat
  BY TaskPlaces
<1>2. PICK k \in Bad : \A m \in Bad : ~ (m < k)
  <2> HIDE DEF Bad
  <2> QED BY <1>1, Least
<1>3. k \in Tasks(p) /\ Waits(p, k) \subseteq D
  BY <1>2
<1>4. PICK x \in chain[k] : x \notin D
  BY <1>2
<1>5. PICK m \in Waits(p, k) : x \in chain[m]
  BY <1>3, <1>4 DEF Chains
<1>6. m \in Tasks(p) /\ m < k /\ m \in D
  BY <1>3, <1>5, WaitsBefore
<1>7. Waits(p, m) \subseteq D
  BY <1>6 DEF Closed
<1>8. m \in Bad
  BY <1>4, <1>5, <1>6, <1>7
<1> QED BY <1>2, <1>6, <1>8

\* Nothing has run at the start.
LEMMA InitHolds == Init => IInv
  BY DEF Init, IInv, TypeOK, Closed, InOrder, Latest, Tasks

\* A step of the device keeps the invariant.
LEMMA StepHolds ==
  ASSUME NEW chain, \A p \in Programs : Chains(p, chain[p]) /\ Ordered(p, chain[p]),
         IInv, [Next]_vars
  PROVE  IInv'
<1>1. CASE UNCHANGED vars
  BY <1>1 DEF IInv, TypeOK, Closed, InOrder, Latest, vars, Waits, Tasks, Kernels, Buffers, Touches, Conflict
<1>2. CASE Finished
  BY <1>1, <1>2 DEF Finished
<1>3. ASSUME NEW i \in Tasks(prog), Run(i) PROVE IInv'
  <2>1. prog' = prog /\ after' = after /\ done' = done \cup {i} /\ i \notin done
        /\ Waits(prog, i) \subseteq done /\ prog \in Programs /\ i \in DOMAIN prog
    BY <1>3 DEF Run, Ready, IInv, TypeOK, Tasks
  <2>2. mem' = [b \in DOMAIN mem |-> IF b \in prog[i].out THEN i ELSE mem[b]]
        /\ mem \in [Buffers(prog) -> done \cup {0}]
    BY <1>3 DEF Run, IInv, TypeOK
  <2>3. TypeOK'
    BY <2>1, <2>2, <1>3 DEF IInv, TypeOK
  <2>4. Closed(prog, done)'
    BY <2>1 DEF IInv, Closed
  <2>5. InOrder'
    <3>1. ASSUME NEW k \in Kernels(prog), k < i, i \in Kernels(prog), Conflict(prog, k, i)
          PROVE  k \in done
      <4>1. done \in SUBSET Tasks(prog) /\ Closed(prog, done)
        BY DEF IInv, TypeOK
      <4>2. chain[prog][i] \subseteq done
        BY <2>1, <4>1, ChainHolds
      <4> QED BY <3>1, <4>2, <2>1 DEF Ordered
    <3> QED BY <3>1, <2>1 DEF IInv, InOrder
  <2>6. Latest'
    <3> SUFFICES ASSUME NEW b \in Buffers(prog)
                 PROVE  /\ mem'[b] # 0 => mem'[b] \in done' \cap Kernels(prog) /\ b \in prog[mem'[b]].out
                        /\ \A j \in done' \cap Kernels(prog) : b \in prog[j].out => j <= mem'[b]
      BY <2>1 DEF Latest
    <3>1. i \in Nat /\ i > 0 /\ (b \in prog[i].out => i \in Kernels(prog))
      BY TaskPlaces, <2>1, <1>3
    <3>2. mem'[b] = IF b \in prog[i].out THEN i ELSE mem[b]
      BY <2>2
    <3>3. CASE b \notin prog[i].out
      BY <3>2, <3>3, <2>1 DEF IInv, Latest
    <3>4. CASE b \in prog[i].out
      <4>1. ASSUME NEW j \in done' \cap Kernels(prog), b \in prog[j].out PROVE j <= i
        <5>1. j \in Nat
          BY TaskPlaces, <2>1 DEF Kernels
        <5>2. ASSUME j > i PROVE FALSE
          <6>1. j \in done /\ Conflict(prog, i, j)
            BY <5>2, <4>1, <3>4, <2>1, <3>1, <5>1 DEF Conflict, Touches
          <6> QED BY <6>1, <5>2, <5>1, <3>1, <3>4, <2>1 DEF IInv, InOrder
        <5> QED BY <5>1, <5>2, <3>1
      <4> QED BY <4>1, <3>1, <3>2, <3>4, <2>1
    <3> QED BY <3>3, <3>4
  <2> QED BY <2>3, <2>4, <2>5, <2>6 DEF IInv
<1> QED BY <1>1, <1>2, <1>3 DEF Next

\* The invariant gives every kernel that may run the values of the host order.
LEMMA SerialFollows ==
  ASSUME NEW chain, \A p \in Programs : Chains(p, chain[p]) /\ Ordered(p, chain[p]), IInv
  PROVE  Serial
<1> SUFFICES ASSUME NEW i \in Ready, NEW b \in prog[i].in
             PROVE  /\ mem[b] < i
                    /\ \A j \in Kernels(prog) : j < i /\ b \in prog[j].out => j <= mem[b]
  BY DEF Serial
<1>1. /\ prog \in Programs /\ i \in Tasks(prog) /\ i \notin done
      /\ Waits(prog, i) \subseteq done /\ i \in DOMAIN prog
  BY DEF Ready, IInv, TypeOK, Tasks
<1>2. i \in Nat /\ i > 0 /\ i \in Kernels(prog) /\ b \in Buffers(prog)
  BY <1>1, TaskPlaces DEF Touches
<1>3. mem[b] < i
  <2>1. CASE mem[b] = 0
    BY <2>1, <1>2
  <2>2. CASE mem[b] # 0
    <3>1. mem[b] \in done \cap Kernels(prog) /\ b \in prog[mem[b]].out
      BY <2>2, <1>2 DEF IInv, Latest
    <3>2. mem[b] \in Nat /\ mem[b] # i
      BY <3>1, <1>1, TaskPlaces DEF Kernels
    <3>3. Conflict(prog, i, mem[b])
      BY <3>1 DEF Conflict, Touches
    <3> QED BY <3>1, <3>2, <3>3, <1>1, <1>2 DEF IInv, InOrder
  <2> QED BY <2>1, <2>2
<1>4. ASSUME NEW j \in Kernels(prog), j < i, b \in prog[j].out PROVE j <= mem[b]
  <2>1. Conflict(prog, j, i)
    BY <1>4 DEF Conflict, Touches
  <2>2. j \in done
    <3>1. done \in SUBSET Tasks(prog) /\ Closed(prog, done)
      BY DEF IInv, TypeOK
    <3>2. chain[prog][i] \subseteq done
      BY <1>1, <3>1, ChainHolds
    <3> QED BY <2>1, <3>2, <1>1, <1>2, <1>4 DEF Ordered
  <2> QED BY <2>2, <1>2, <1>4 DEF IInv, Latest
<1> QED BY <1>3, <1>4

\* For every set of programs whose conflicting kernels are ordered: each kernel
\* reads what the host order put there, in every interleaving of the streams.
THEOREM SerialHolds ==
  ASSUME NEW chain, \A p \in Programs : Chains(p, chain[p]) /\ Ordered(p, chain[p])
  PROVE  Spec => []Serial
<1>1. Init => IInv
  BY InitHolds
<1>2. IInv /\ [Next]_vars => IInv'
  BY StepHolds
<1>3. IInv => Serial
  BY SerialFollows
<1> QED BY <1>1, <1>2, <1>3, PTL DEF Spec

-----------------------------------------------------------------------------
(* Memory and the end need no order of conflicts: what has run is closed   *)
(* under waiting whatever the kernels touch.                               *)

Progress == TypeOK /\ Closed(prog, done)

LEMMA ProgressHolds == Spec => []Progress
<1>1. Init => Progress
  BY DEF Init, Progress, TypeOK, Closed, Tasks
<1>2. Progress /\ [Next]_vars => Progress'
  <2> SUFFICES ASSUME Progress, [Next]_vars  PROVE Progress'
    OBVIOUS
  <2>1. CASE UNCHANGED vars
    BY <2>1 DEF Progress, TypeOK, Closed, vars
  <2>2. CASE Finished
    BY <2>1, <2>2 DEF Finished
  <2>3. ASSUME NEW i \in Tasks(prog), Run(i) PROVE Progress'
    <3>1. prog' = prog /\ after' = after /\ done' = done \cup {i}
          /\ Waits(prog, i) \subseteq done /\ i \in DOMAIN prog
      BY <2>3 DEF Run, Ready, Progress, TypeOK, Tasks
    <3>2. mem' = [b \in DOMAIN mem |-> IF b \in prog[i].out THEN i ELSE mem[b]]
          /\ mem \in [Buffers(prog) -> done \cup {0}]
      BY <2>3 DEF Run, Progress, TypeOK
    <3>3. TypeOK'
      BY <3>1, <3>2, <2>3 DEF Progress, TypeOK
    <3>4. Closed(prog, done)'
      BY <3>1 DEF Progress, Closed
    <3> QED BY <3>3, <3>4 DEF Progress
  <2> QED BY <2>1, <2>2, <2>3 DEF Next
<1> QED BY <1>1, <1>2, PTL DEF Spec

\* Memory is not given out under a kernel that still uses it, if every tensor
\* that crosses streams is recorded or joined before the next allocation
\* (record_stream, wait_stream and the events of models/deepseek_v4.py).
THEOREM NoEarlyReuseHolds ==
  ASSUME NEW chain, \A p \in Programs : Chains(p, chain[p]) /\ Kept(p, chain[p])
  PROVE  Spec => []NoEarlyReuse
<1>1. ASSUME Progress, NEW i \in Ready, Fresh(prog, i) # {}, NEW d \in Drops(prog, i),
             NEW b \in prog[d].in, GivenOut(prog, d, b, prog[i].s),
             NEW u \in Users(prog, d, b)
      PROVE  u \in done
  <2>1. /\ prog \in Programs /\ i \in Tasks(prog) /\ Waits(prog, i) \subseteq done
        /\ i \in DOMAIN prog
    BY <1>1 DEF Ready, Progress, TypeOK, Tasks
  <2>2. i \in Kernels(prog) /\ i \in Nat
    BY <1>1, <2>1, TaskPlaces DEF Fresh, Allocates
  <2>3. prog[i].s \in Allocators(prog, b)
    BY <1>1 DEF GivenOut, Allocators
  <2>4. u \in Tasks(prog) /\ u \in Kernels(prog) /\ u \in Nat /\ u < d
    BY <1>1, <2>1, TaskPlaces DEF Users, Kernels
  <2>5. d \in Nat /\ d < i
    BY <1>1, <2>2 DEF Drops
  <2>6. \/ prog[u].s = prog[i].s
        \/ prog[u].s \in Recorded(prog, d, b)
        \/ u \in chain[prog][i]
    BY <1>1, <2>1, <2>2, <2>3 DEF Kept
  <2>7. CASE prog[u].s = prog[i].s
    BY <2>1, <2>2, <2>4, <2>5, <2>7 DEF Waits
  <2>8. CASE prog[u].s \in Recorded(prog, d, b)
    BY <1>1, <2>4, <2>8 DEF GivenOut, Released
  <2>9. CASE u \in chain[prog][i]
    <3>1. done \in SUBSET Tasks(prog) /\ Closed(prog, done)
      BY <1>1 DEF Progress, TypeOK
    <3>2. chain[prog][i] \subseteq done
      BY <2>1, <3>1, ChainHolds
    <3> QED BY <2>9, <3>2
  <2> QED BY <2>6, <2>7, <2>8, <2>9
<1>2. Progress => NoEarlyReuse
  BY <1>1 DEF NoEarlyReuse
<1> QED BY <1>2, ProgressHolds, PTL

\* When the main stream has run its last kernel nothing is under way on a side
\* stream, if all of them are joined: a capture can end there.
THEOREM MainEndsLastHolds ==
  ASSUME NEW chain, \A p \in Programs : Chains(p, chain[p]) /\ Joined(p, chain[p])
  PROVE  Spec => []MainEndsLast
<1>1. ASSUME Progress, NEW i \in done, LastOfMain(prog, i)
      PROVE  done = Tasks(prog)
  <2>1. /\ prog \in Programs /\ i \in Tasks(prog) /\ done \in SUBSET Tasks(prog)
        /\ Closed(prog, done) /\ Waits(prog, i) \subseteq done
    BY <1>1 DEF Progress, TypeOK, Closed
  <2>2. chain[prog][i] \subseteq done
    BY <2>1, ChainHolds
  <2>3. Tasks(prog) \subseteq chain[prog][i] \cup {i}
    BY <1>1, <2>1 DEF Joined
  <2> QED BY <1>1, <2>1, <2>2, <2>3
<1>2. Progress => MainEndsLast
  BY <1>1 DEF MainEndsLast
<1> QED BY <1>2, ProgressHolds, PTL

-----------------------------------------------------------------------------
(* CapturedAlive.  A captured graph may rely on the tensors that outlive a *)
(* forward, on the projection buffers, and on those fields of its bucket's *)
(* metadata that no later copy, refresh or plan replaces.                  *)

Bucketed(g) == IF g[1] = "pgraph" THEN g[2] ELSE g[1]
RawBuckets == {"decode", "verify"}
FullBuckets == {"block", "dextend", "small", "big"}
Lasting(b) ==
  IF b \in RawBuckets THEN RawFields
  ELSE IF b = "block" THEN Fields \ {"swa", "swaloc", "sched"}
  ELSE IF b = "dextend" THEN Fields \ {"swaloc", "sched"}
  ELSE Fields \ {"pages", "swa", "sched"}
Relied(backend, objects, g) ==
  Permanent \cup {backend.proj[i].addr : i \in DOMAIN backend.proj}
    \cup {objects[backend.bucket[Bucketed(g)]].f[x] : x \in Lasting(Bucketed(g))}
Permits(pool, relied, a) == a = None \/ a \in relied \/ (a[1] \in Nat /\ a[1] >= pool)

LayerKinds == {"sources", "store", "attend"} \X (0 .. 3)
OpKept(pool, relied, o) ==
  /\ \A a \in o.from : a # None /\ Permits(pool, relied, a)
  /\ Permits(pool, relied, o.to)
  /\ o.step \in {<<>>, <<"mark", 0>>} \cup LayerKinds
Listed(s) == s \in Seq(ToSet(s))
Over(pool, relied, ops) == Listed(ops) /\ \A i \in DOMAIN ops : OpKept(pool, relied, ops[i])
GraphKinds == {"decode", "verify", "block", "dextend", "pgraph"}
GraphNames == GraphKinds \X {"filtered", "all", "small", "big"}
GraphsKept ==
  \A g \in DOMAIN graphs :
    /\ g \in GraphNames
    /\ DOMAIN graphs[g] = {"pool", "ops"} /\ graphs[g].pool \in Nat
    /\ Bucketed(g) \in DOMAIN be.bucket
    /\ Over(graphs[g].pool, Relied(be, objs, g), graphs[g].ops)

ObjOK(o) ==
  /\ DOMAIN o = {"kind", "f", "sparse", "snapped", "tail"}
  /\ o.kind \in {"full", "raw"}
  /\ DOMAIN o.f = IF o.kind = "full" THEN Fields ELSE RawFields
HostOK ==
  /\ DOMAIN host = {"todo", "n", "step", "at", "kind", "variant", "graph", "eager", "capture",
                    "record", "serving", "inp"}
  /\ host.step \in Nat /\ host.at \in Nat /\ host.record \in BOOLEAN /\ host.capture \in BOOLEAN
  /\ Listed(host.todo)
BackendOK ==
  /\ DOMAIN be = {"fm", "tail", "raw", "masks", "saved", "bucket", "proj"}
  /\ Listed(be.proj)
ObjectsOK == Listed(objs) /\ \A i \in DOMAIN objs : ObjOK(objs[i])

\* The object of a bucket is its own, and of the kind the bucket is for.
Bucketing ==
  /\ DOMAIN be.bucket \subseteq RawBuckets \cup FullBuckets
  /\ \A b \in DOMAIN be.bucket : be.bucket[b] \in DOMAIN objs
  /\ \A b, c \in DOMAIN be.bucket : be.bucket[b] = be.bucket[c] => b = c
  /\ \A b \in DOMAIN be.bucket : objs[be.bucket[b]].kind = IF b \in RawBuckets THEN "raw" ELSE "full"
  /\ \A b \in DOMAIN be.bucket \cap RawBuckets :
       /\ objs[be.bucket[b]].f["ext"] = IF b = "verify" THEN ExtBuffer ELSE None
       /\ objs[be.bucket[b]].f["plan"] = None <=> ~ (b = "verify" /\ cfg.online)

\* Where a session that captures stands: p is the place of its next step.
From(P, p) == SubSeq(P, p, Len(P))
Program == CaptureSteps(host.kind)
Depth == Len(Layers(FALSE))
RecordAt == IF host.kind = "pgraph" THEN 3 + Depth ELSE 6 + Depth
StopAt == IF host.kind = "pgraph" THEN 4 + 2 * Depth ELSE 9 + 2 * Depth
Allowed(a) == Permits(graphs[host.graph].pool, Relied(be, objs, host.graph), a)
CaptureAt(p) ==
  LET b == Bucketed(host.graph) IN
  /\ host.record <=> p \in RecordAt + 1 .. StopAt
  /\ p <= RecordAt => host.graph \notin DOMAIN graphs
  /\ p > RecordAt => host.graph \in DOMAIN graphs /\ graphs[host.graph].pool <= host.step
  /\ p >= 3 => /\ b \in DOMAIN be.bucket /\ be.fm \in DOMAIN objs
               /\ b \in FullBuckets => be.fm = be.bucket[b]
               /\ host.kind # "pgraph" => be.raw = IF b \in RawBuckets THEN be.bucket[b] ELSE 0
               /\ host.kind = "pgraph" /\ LowRatioGraph => be.proj # <<>>
  /\ p \in {3, RecordAt, RecordAt + 1} => be.fm = be.bucket[b]
  /\ p \in {RecordAt, RecordAt + 1} /\ b \in {"block", "dextend"} => objs[be.fm].f["sched"] = None
  /\ host.kind # "pgraph" /\ p \in RecordAt + 2 .. StopAt =>
       /\ objs[be.fm].kind = "full" /\ \A x \in Fields : Allowed(objs[be.fm].f[x])
       /\ (\E j \in RecordAt + 2 .. p - 1 : Program[j] = <<"sources", 1>>) /\ ~ Skipped =>
            Allowed(be.masks.addr)
Capturing ==
  host.capture =>
    /\ host.kind \in GraphKinds
    /\ host.variant \in Variants(host.kind)
    /\ host.graph = <<host.kind, host.variant>> /\ host.inp = Static
    /\ \E p \in 1 .. Len(Program) + 1 : host.todo = From(Program, p) /\ CaptureAt(p)

EagerKinds == {"decode", "verify", "block", "dextend", "prefill"}
OutKinds == {"decode", "idle", "verify", "verify_idle", "block", "dextend"}
ServingSteps ==
  {<<s, 0>> : s \in {"load", "out", "prep", "publish", "replay", "done", "init", "snap", "enter", "exit"}}
    \cup LayerKinds
ServingOnly ==
  ~ host.capture =>
    /\ ~ host.record
    /\ ToSet(host.todo) \subseteq ServingSteps
    /\ <<"out", 0>> \in ToSet(host.todo) => host.kind \in OutKinds
    /\ <<"init", 0>> \in ToSet(host.todo) => host.kind \in EagerKinds
    /\ <<"prep", 0>> \in ToSet(host.todo) => host.kind = "pgraph" /\ <<"pgraph", host.variant>> \in DOMAIN graphs
    /\ <<"replay", 0>> \in ToSet(host.todo) => host.graph \in DOMAIN graphs

Framed == cfg \in Configs /\ HostOK /\ BackendOK /\ ObjectsOK
AliveInv == Framed /\ Bucketing /\ GraphsKept /\ Capturing /\ ServingOnly
\* A finite sequence, whatever its elements are.
LEMMA ListedIn ==
  ASSUME NEW S, NEW s \in Seq(S)
  PROVE  /\ Listed(s) /\ Len(s) \in Nat /\ DOMAIN s = 1 .. Len(s)
         /\ \A i \in DOMAIN s : s[i] \in ToSet(s) /\ s[i] \in S
<1>1. \A i \in 1 .. Len(s) : s[i] \in ToSet(s)  BY DEF ToSet
<1>2. s \in [1 .. Len(s) -> ToSet(s)]  BY <1>1
<1>3. Len(s) \in Nat  OBVIOUS
<1> HIDE DEF ToSet
<1>4. s \in Seq(ToSet(s))  BY <1>2, <1>3
<1> QED  BY <1>1, <1>4 DEF Listed

\* ... and over every set that holds them.
LEMMA ListedWider ==
  ASSUME NEW s, Listed(s), NEW S, ToSet(s) \subseteq S
  PROVE  s \in Seq(S)
BY DEF Listed

\* What Append leaves and adds.
LEMMA ListedAppend ==
  ASSUME NEW s, Listed(s), NEW x
  PROVE  /\ Listed(Append(s, x)) /\ Len(s) \in Nat
         /\ DOMAIN Append(s, x) = 1 .. Len(s) + 1 /\ Len(Append(s, x)) = Len(s) + 1
         /\ \A i \in DOMAIN s : Append(s, x)[i] = s[i]
         /\ Append(s, x)[Len(s) + 1] = x
<1> DEFINE S == ToSet(s) \cup {x}
<1>1. s \in Seq(S)  BY ListedWider
<1> HIDE DEF S
<1>2. x \in S  BY DEF S
<1>3. Append(s, x) \in Seq(S)  BY <1>1, <1>2
<1>4. Listed(Append(s, x))  BY <1>3, ListedIn
<1>5. Len(s) \in Nat /\ DOMAIN s = 1 .. Len(s)  BY <1>1
<1> QED  BY ONLY <1>1, <1>2, <1>3, <1>4, <1>5

\* Where the elements of a concatenation come from.
LEMMA ListedConcat ==
  ASSUME NEW s, Listed(s), NEW t, Listed(t)
  PROVE  /\ Listed(s \o t) /\ Len(s) \in Nat /\ Len(t) \in Nat
         /\ DOMAIN (s \o t) = 1 .. Len(s) + Len(t) /\ Len(s \o t) = Len(s) + Len(t)
         /\ \A i \in DOMAIN s : (s \o t)[i] = s[i]
         /\ \A i \in DOMAIN t : (s \o t)[Len(s) + i] = t[i]
         /\ \A i \in DOMAIN (s \o t) : \/ i \in DOMAIN s /\ (s \o t)[i] = s[i]
                                       \/ i - Len(s) \in DOMAIN t /\ (s \o t)[i] = t[i - Len(s)]
<1> DEFINE S == ToSet(s) \cup ToSet(t)
<1>1. s \in Seq(S) /\ t \in Seq(S)  BY ListedWider
<1> HIDE DEF S
<1>2. s \o t \in Seq(S)  BY <1>1
<1>3. Listed(s \o t)  BY <1>2, ListedIn
<1>4. /\ Len(s) \in Nat /\ DOMAIN s = 1 .. Len(s)
      /\ Len(t) \in Nat /\ DOMAIN t = 1 .. Len(t)
  BY <1>1
<1>5. /\ DOMAIN (s \o t) = 1 .. Len(s) + Len(t) /\ Len(s \o t) = Len(s) + Len(t)
      /\ \A i \in 1 .. Len(s) : (s \o t)[i] = s[i]
      /\ \A i \in 1 .. Len(t) : (s \o t)[Len(s) + i] = t[i]
  BY ONLY <1>1, <1>4
<1> QED  BY ONLY <1>3, <1>4, <1>5

\* Replacing an element keeps a sequence a sequence.
LEMMA ListedExcept ==
  ASSUME NEW s, Listed(s), NEW i \in DOMAIN s, NEW x
  PROVE  /\ Listed([s EXCEPT ![i] = x]) /\ Len([s EXCEPT ![i] = x]) = Len(s)
<1> DEFINE S == ToSet(s) \cup {x}
<1>1. s \in Seq(S)  BY ListedWider
<1> HIDE DEF S
<1>2. x \in S  BY DEF S
<1>3. [s EXCEPT ![i] = x] \in Seq(S)  BY <1>1, <1>2
<1>4. Listed([s EXCEPT ![i] = x])  BY <1>3, ListedIn
<1> QED  BY ONLY <1>1, <1>2, <1>3, <1>4

\* The empty sequence and those of one element.
LEMMA ListedFew ==
  /\ Listed(<<>>)
  /\ \A x : Listed(<<x>>) /\ Len(<<x>>) = 1 /\ DOMAIN <<x>> = {1} /\ <<x>>[1] = x
<1>1. <<>> \in Seq({})  OBVIOUS
<1>2. ASSUME NEW x  PROVE Listed(<<x>>) /\ Len(<<x>>) = 1 /\ DOMAIN <<x>> = {1} /\ <<x>>[1] = x
  <2>1. <<x>> \in Seq({x})  OBVIOUS
  <2>2. Listed(<<x>>)  BY <2>1, ListedIn
  <2> QED  BY <2>2
<1>3. Listed(<<>>)  BY <1>1, ListedIn
<1> QED  BY <1>2, <1>3

-----------------------------------------------------------------------------
(* The programs of the sessions that capture.                              *)

CaptureKinds == {"load", "out", "in", "mark", "warm", "record", "stop", "bcg"}
CaptureOnly == {<<s, 0>> : s \in CaptureKinds}
AllSteps == CaptureOnly \cup LayerKinds

\* The places of a program made of two parts.
LEMMA TwoParts ==
  ASSUME NEW A, NEW a \in Seq(A), NEW b \in Seq(A), NEW P, P = a \o b
  PROVE  /\ P \in Seq(A) /\ Len(a) \in Nat /\ Len(b) \in Nat /\ Len(P) = Len(a) + Len(b)
         /\ \A i \in 1 .. Len(a) : P[i] = a[i]
         /\ \A i \in 1 .. Len(b) : P[Len(a) + i] = b[i]
<1>1. Listed(a) /\ Listed(b)  BY ListedIn
<1>2. DOMAIN a = 1 .. Len(a) /\ DOMAIN b = 1 .. Len(b)  OBVIOUS
<1>3. a \o b \in Seq(A)  OBVIOUS
<1> QED  BY ONLY <1>1, <1>2, <1>3, P = a \o b, ListedConcat

\* ... and of the five parts of a capture, whose second and fourth are the layers.
LEMMA FiveParts ==
  ASSUME NEW A, NEW a \in Seq(A), NEW b \in Seq(A), NEW c \in Seq(A), NEW d \in Seq(A),
         NEW p, p = a \o b, NEW q, q = p \o c, NEW r, r = q \o b, NEW P, P = r \o d
  PROVE  /\ P \in Seq(A) /\ Len(P) = Len(a) + Len(b) + Len(c) + Len(b) + Len(d)
         /\ \A i \in 1 .. Len(a) : P[i] = a[i]
         /\ \A i \in 1 .. Len(b) : P[Len(a) + i] = b[i]
         /\ \A i \in 1 .. Len(c) : P[Len(a) + Len(b) + i] = c[i]
         /\ \A i \in 1 .. Len(b) : P[Len(a) + Len(b) + Len(c) + i] = b[i]
         /\ \A i \in 1 .. Len(d) : P[Len(a) + Len(b) + Len(c) + Len(b) + i] = d[i]
<1> DEFINE x == Len(a)  y == Len(b)  z == Len(c)
<1>0. a \in Seq(A) /\ b \in Seq(A) /\ c \in Seq(A) /\ d \in Seq(A)  OBVIOUS
<1>1. x \in Nat /\ y \in Nat /\ z \in Nat /\ Len(d) \in Nat  OBVIOUS
<1>2. /\ p \in Seq(A) /\ Len(p) = x + y
      /\ \A i \in 1 .. x : p[i] = a[i]
      /\ \A i \in 1 .. y : p[x + i] = b[i]
  BY TwoParts
<1>3. /\ q \in Seq(A) /\ Len(q) = x + y + z
      /\ \A i \in 1 .. x + y : q[i] = p[i]
      /\ \A i \in 1 .. z : q[x + y + i] = c[i]
  <2>1. /\ q \in Seq(A) /\ Len(q) = Len(p) + z
        /\ \A i \in 1 .. Len(p) : q[i] = p[i]
        /\ \A i \in 1 .. z : q[Len(p) + i] = c[i]
    <3>1. p \in Seq(A)  BY <1>2
    <3> HIDE DEF x, y, z
    <3>2. z = Len(c) /\ y = Len(b)  BY DEF y, z
    <3> QED  BY ONLY <1>0, <3>1, <3>2, q = p \o c, TwoParts
  <2> QED  BY ONLY <1>1, <1>2, <2>1
<1>4. /\ r \in Seq(A) /\ Len(r) = x + y + z + y
      /\ \A i \in 1 .. x + y + z : r[i] = q[i]
      /\ \A i \in 1 .. y : r[x + y + z + i] = b[i]
  <2>1. /\ r \in Seq(A) /\ Len(r) = Len(q) + y
        /\ \A i \in 1 .. Len(q) : r[i] = q[i]
        /\ \A i \in 1 .. y : r[Len(q) + i] = b[i]
    <3>1. q \in Seq(A)  BY <1>3
    <3> HIDE DEF x, y, z
    <3>2. z = Len(c) /\ y = Len(b)  BY DEF y, z
    <3> QED  BY ONLY <1>0, <3>1, <3>2, r = q \o b, TwoParts
  <2> QED  BY ONLY <1>1, <1>3, <2>1
<1>5. /\ P \in Seq(A) /\ Len(P) = x + y + z + y + Len(d)
      /\ \A i \in 1 .. x + y + z + y : P[i] = r[i]
      /\ \A i \in 1 .. Len(d) : P[x + y + z + y + i] = d[i]
  <2>1. /\ P \in Seq(A) /\ Len(P) = Len(r) + Len(d)
        /\ \A i \in 1 .. Len(r) : P[i] = r[i]
        /\ \A i \in 1 .. Len(d) : P[Len(r) + i] = d[i]
    <3>1. r \in Seq(A)  BY <1>4
    <3> HIDE DEF x, y, z
    <3>2. z = Len(c) /\ y = Len(b)  BY DEF y, z
    <3> QED  BY ONLY <1>0, <3>1, <3>2, P = r \o d, TwoParts
  <2> QED  BY ONLY <1>1, <1>4, <2>1
<1> HIDE DEF x, y, z
<1>7. \A i \in 1 .. x : P[i] = a[i]  BY <1>1, <1>2, <1>3, <1>4, <1>5
<1>8. \A i \in 1 .. y : P[x + i] = b[i]
  <2> SUFFICES ASSUME NEW i \in 1 .. y  PROVE P[x + i] = b[i]  OBVIOUS
  <2>1. x + i \in 1 .. x + y /\ x + i \in 1 .. x + y + z /\ x + i \in 1 .. x + y + z + y  BY <1>1
  <2> QED  BY <2>1, <1>2, <1>3, <1>4, <1>5
<1>9. \A i \in 1 .. z : P[x + y + i] = c[i]
  <2> SUFFICES ASSUME NEW i \in 1 .. z  PROVE P[x + y + i] = c[i]  OBVIOUS
  <2>1. x + y + i \in 1 .. x + y + z /\ x + y + i \in 1 .. x + y + z + y  BY <1>1
  <2> QED  BY <2>1, <1>3, <1>4, <1>5
<1>10. \A i \in 1 .. y : P[x + y + z + i] = b[i]
  <2> SUFFICES ASSUME NEW i \in 1 .. y  PROVE P[x + y + z + i] = b[i]  OBVIOUS
  <2>1. x + y + z + i \in 1 .. x + y + z + y  BY <1>1
  <2> QED  BY <2>1, <1>4, <1>5
<1> QED  BY <1>5, <1>7, <1>8, <1>9, <1>10 DEF x, y, z

\* The parts of a capture that are not layers.
LEMMA Few ==
  /\ Steps(<<"load", "bcg">>) = <<<<"load", 0>>, <<"bcg", 0>>>>
  /\ Steps(<<"load", "out", "in", "mark">>) = <<<<"load", 0>>, <<"out", 0>>, <<"in", 0>>, <<"mark", 0>>>>
  /\ Steps(<<"warm", "record", "in", "mark">>) = <<<<"warm", 0>>, <<"record", 0>>, <<"in", 0>>, <<"mark", 0>>>>
  /\ Steps(<<"record">>) = <<<<"record", 0>>>>
  /\ Steps(<<"stop">>) = <<<<"stop", 0>>>>
BY DEF Steps

\* The layers of a capture: they begin with the source that publishes candidates, or
\* select from none.
LEMMA LayerPlan ==
  /\ Layers(FALSE) \in Seq(LayerKinds) /\ Depth \in Nat /\ Depth > 0
  /\ \/ Layers(FALSE)[1] = <<"sources", 1>>
     \/ \A j \in 1 .. Depth : Layers(FALSE)[j] # <<"sources", 3>>
<1> DEFINE K == LayerKinds
<1>1. ASSUME NEW k \in 0 .. 3
      PROVE  /\ LayerSteps(k) \in Seq(K) /\ Len(LayerSteps(k)) = 2
             /\ \A j \in 1 .. 2 : LayerSteps(k)[j] # <<"sources", 3>>
  BY DEF LayerSteps, LayerKinds
<1>2. /\ <<<<"sources", 1>>>> \in Seq(K) /\ Len(<<<<"sources", 1>>>>) = 1
      /\ <<<<"sources", 1>>>>[1] = <<"sources", 1>>
      /\ <<<<"sources", 3>>>> \in Seq(K)
      /\ <<>> \in Seq(K)
  BY DEF LayerKinds
<1>3. ASSUME NEW a \in Seq(K), Len(a) > 0, a[1] = <<"sources", 1>>, NEW b \in Seq(K)
      PROVE  a \o b \in Seq(K) /\ Len(a \o b) > 0 /\ (a \o b)[1] = <<"sources", 1>>
  <2>1. /\ a \o b \in Seq(K) /\ Len(a) \in Nat /\ Len(b) \in Nat /\ Len(a \o b) = Len(a) + Len(b)
        /\ \A i \in 1 .. Len(a) : (a \o b)[i] = a[i]
    BY TwoParts
  <2> QED  BY ONLY <1>3, <2>1
<1> HIDE DEF K
<1> DEFINE L == Layers(FALSE)
<1>13. ASSUME L \in Seq(K), Len(L) > 0, L[1] = <<"sources", 1>> \/ \A j \in 1 .. Len(L) : L[j] # <<"sources", 3>>
       PROVE  /\ Layers(FALSE) \in Seq(LayerKinds) /\ Depth \in Nat /\ Depth > 0
              /\ \/ Layers(FALSE)[1] = <<"sources", 1>>
                 \/ \A j \in 1 .. Depth : Layers(FALSE)[j] # <<"sources", 3>>
  <2> HIDE DEF L
  <2>1. Len(L) \in Nat  BY <1>13
  <2> QED  BY <1>13, <2>1 DEF Depth, K, L
<1>4. CASE cfg.role = "draft"
  <2>1. L = LayerSteps(0)  BY <1>4 DEF Layers
  <2>2. /\ LayerSteps(0) \in Seq(K) /\ Len(LayerSteps(0)) = 2
        /\ \A j \in 1 .. 2 : LayerSteps(0)[j] # <<"sources", 3>>
    BY <1>1
  <2> HIDE DEF L
  <2>3. L \in Seq(K) /\ Len(L) > 0 /\ \A j \in 1 .. Len(L) : L[j] # <<"sources", 3>>  BY ONLY <2>1, <2>2
  <2> QED  BY <2>3, <1>13
<1> DEFINE l1 == <<<<"sources", 1>>>>  a == l1 \o LayerSteps(1)  b == a \o <<>>  c == b \o LayerSteps(2)
           d == c \o <<<<"sources", 3>>>>  e == d \o LayerSteps(3)  f == e \o <<>>
<1>5. a \in Seq(K) /\ Len(a) > 0 /\ a[1] = <<"sources", 1>>  BY <1>1, <1>2, <1>3
<1> HIDE DEF a
<1>6. b \in Seq(K) /\ Len(b) > 0 /\ b[1] = <<"sources", 1>>  BY <1>5, <1>2, <1>3
<1> HIDE DEF b
<1>7. c \in Seq(K) /\ Len(c) > 0 /\ c[1] = <<"sources", 1>>  BY <1>6, <1>1, <1>3
<1> HIDE DEF c
<1>8. d \in Seq(K) /\ Len(d) > 0 /\ d[1] = <<"sources", 1>>  BY <1>7, <1>2, <1>3
<1> HIDE DEF d
<1>9. e \in Seq(K) /\ Len(e) > 0 /\ e[1] = <<"sources", 1>>  BY <1>8, <1>1, <1>3
<1> HIDE DEF e
<1>10. f \in Seq(K) /\ Len(f) > 0 /\ f[1] = <<"sources", 1>>  BY <1>9, <1>2, <1>3
<1> HIDE DEF f
<1>11. CASE cfg.role # "draft" /\ ~ V41
  <2>1. L = a  BY <1>11 DEF Layers, a
  <2> HIDE DEF L
  <2> QED  BY <2>1, <1>5, <1>13
<1>12. CASE cfg.role # "draft" /\ V41
  <2>1. L = f  BY <1>12 DEF Layers, a, b, c, d, e, f
  <2> HIDE DEF L
  <2> QED  BY <2>1, <1>10, <1>13
<1> QED  BY <1>4, <1>11, <1>12

\* Where the steps of a capture stand: warm-up, recording, end.
LEMMA GraphPlan ==
  ASSUME host.kind # "pgraph"
  PROVE  /\ Program \in Seq(AllSteps) /\ Len(Program) = StopAt
         /\ Program[1] = <<"load", 0>> /\ Program[2] = <<"out", 0>>
         /\ Program[3] = <<"in", 0>> /\ Program[4] = <<"mark", 0>>
         /\ Program[RecordAt - 1] = <<"warm", 0>> /\ Program[RecordAt] = <<"record", 0>>
         /\ Program[RecordAt + 1] = <<"in", 0>> /\ Program[RecordAt + 2] = <<"mark", 0>>
         /\ Program[StopAt] = <<"stop", 0>>
         /\ \A j \in 1 .. Depth : /\ Program[4 + j] = Layers(FALSE)[j]
                                  /\ Program[RecordAt + 2 + j] = Layers(FALSE)[j]
<1> DEFINE A == AllSteps
           a == <<<<"load", 0>>, <<"out", 0>>, <<"in", 0>>, <<"mark", 0>>>>
           b == Layers(FALSE)
           c == <<<<"warm", 0>>, <<"record", 0>>, <<"in", 0>>, <<"mark", 0>>>>
           d == <<<<"stop", 0>>>>
           p == a \o b  q == p \o c  r == q \o b  P == r \o d
<1>1. Program = P
  <2>1. Program = Steps(<<"load", "out", "in", "mark">>) \o b \o Steps(<<"warm", "record", "in", "mark">>)
                    \o b \o Steps(<<"stop">>)
    BY DEF Program, CaptureSteps
  <2> HIDE DEF b
  <2> QED  BY <2>1, Few
<1>2. a \in Seq(A) /\ c \in Seq(A) /\ d \in Seq(A)  BY DEF AllSteps, CaptureOnly, CaptureKinds
<1>3. b \in Seq(A) /\ Len(b) = Depth /\ Depth \in Nat
  <2>1. b \in Seq(LayerKinds) /\ Depth \in Nat /\ Len(b) = Depth  BY LayerPlan DEF Depth
  <2>2. LayerKinds \subseteq A  BY DEF AllSteps
  <2> HIDE DEF b, A
  <2> QED  BY <2>1, <2>2
<1>p. p = a \o b /\ q = p \o c /\ r = q \o b /\ P = r \o d  OBVIOUS
<1>4. /\ Len(a) = 4 /\ a[1] = <<"load", 0>> /\ a[2] = <<"out", 0>> /\ a[3] = <<"in", 0>> /\ a[4] = <<"mark", 0>>
      /\ Len(c) = 4 /\ c[1] = <<"warm", 0>> /\ c[2] = <<"record", 0>> /\ c[3] = <<"in", 0>> /\ c[4] = <<"mark", 0>>
      /\ Len(d) = 1 /\ d[1] = <<"stop", 0>>
  OBVIOUS
<1> HIDE DEF a, b, c, d, A, p, q, r, P
<1>5. /\ P \in Seq(A) /\ Len(P) = Len(a) + Len(b) + Len(c) + Len(b) + Len(d)
      /\ \A i \in 1 .. Len(a) : P[i] = a[i]
      /\ \A i \in 1 .. Len(b) : P[Len(a) + i] = b[i]
      /\ \A i \in 1 .. Len(c) : P[Len(a) + Len(b) + i] = c[i]
      /\ \A i \in 1 .. Len(b) : P[Len(a) + Len(b) + Len(c) + i] = b[i]
      /\ \A i \in 1 .. Len(d) : P[Len(a) + Len(b) + Len(c) + Len(b) + i] = d[i]
  <2>1. b \in Seq(A)  BY <1>3
  <2>2. p = a \o b  BY <1>p
  <2>3. q = p \o c  BY <1>p
  <2>4. r = q \o b  BY <1>p
  <2>5. P = r \o d  BY <1>p
  <2>6. P \in Seq(A) /\ Len(P) = Len(a) + Len(b) + Len(c) + Len(b) + Len(d)
    BY ONLY <1>2, <2>1, <2>2, <2>3, <2>4, <2>5, FiveParts
  <2>7. \A i \in 1 .. Len(a) : P[i] = a[i]
    BY ONLY <1>2, <2>1, <2>2, <2>3, <2>4, <2>5, FiveParts
  <2>8. \A i \in 1 .. Len(b) : P[Len(a) + i] = b[i]
    BY ONLY <1>2, <2>1, <2>2, <2>3, <2>4, <2>5, FiveParts
  <2>9. \A i \in 1 .. Len(c) : P[Len(a) + Len(b) + i] = c[i]
    BY ONLY <1>2, <2>1, <2>2, <2>3, <2>4, <2>5, FiveParts
  <2>10. \A i \in 1 .. Len(b) : P[Len(a) + Len(b) + Len(c) + i] = b[i]
    BY ONLY <1>2, <2>1, <2>2, <2>3, <2>4, <2>5, FiveParts
  <2>11. \A i \in 1 .. Len(d) : P[Len(a) + Len(b) + Len(c) + Len(b) + i] = d[i]
    BY ONLY <1>2, <2>1, <2>2, <2>3, <2>4, <2>5, FiveParts
  <2> QED  BY <2>6, <2>7, <2>8, <2>9, <2>10, <2>11
<1> DEFINE n == Depth
<1>6. /\ n \in Nat /\ Len(P) = 9 + 2 * n
      /\ P[1] = a[1] /\ P[2] = a[2] /\ P[3] = a[3] /\ P[4] = a[4]
      /\ P[5 + n] = c[1] /\ P[6 + n] = c[2] /\ P[7 + n] = c[3] /\ P[8 + n] = c[4]
      /\ P[9 + 2 * n] = d[1]
      /\ \A j \in 1 .. n : P[4 + j] = b[j] /\ P[8 + n + j] = b[j]
  <2> HIDE DEF n
  <2>1. Len(a) = 4 /\ Len(c) = 4 /\ Len(d) = 1 /\ Len(b) = n /\ n \in Nat  BY <1>3, <1>4 DEF n
  <2>2. /\ P[4 + n + 1] = c[1] /\ P[4 + n + 2] = c[2] /\ P[4 + n + 3] = c[3] /\ P[4 + n + 4] = c[4]
        /\ P[4 + n + 4 + n + 1] = d[1] /\ P[1] = a[1] /\ P[2] = a[2] /\ P[3] = a[3] /\ P[4] = a[4]
    BY ONLY <1>5, <2>1
  <2>3. \A j \in 1 .. n : P[4 + j] = b[j] /\ P[4 + n + 4 + j] = b[j]  BY ONLY <1>5, <2>1
  <2>4. Len(P) = 9 + 2 * n  BY ONLY <1>5, <2>1
  <2>5. /\ 4 + n + 1 = 5 + n /\ 4 + n + 2 = 6 + n /\ 4 + n + 3 = 7 + n /\ 4 + n + 4 = 8 + n
        /\ 4 + n + 4 + n + 1 = 9 + 2 * n
        /\ \A j \in 1 .. n : 4 + n + 4 + j = 8 + n + j
    BY <2>1
  <2> QED  BY ONLY <2>1, <2>2, <2>3, <2>4, <2>5
<1>7. RecordAt = 6 + n /\ StopAt = 9 + 2 * n  BY DEF RecordAt, StopAt
<1>8. RecordAt - 1 = 5 + n /\ RecordAt + 1 = 7 + n /\ RecordAt + 2 = 8 + n  BY <1>6, <1>7
<1> HIDE DEF n
<1> QED  BY <1>1, <1>4, <1>5, <1>6, <1>7, <1>8 DEF n, A, b

\* The same for the capture of a breakable prefill graph.
LEMMA BreakPlan ==
  ASSUME host.kind = "pgraph"
  PROVE  /\ Program \in Seq(AllSteps) /\ Len(Program) = StopAt
         /\ Program[1] = <<"load", 0>> /\ Program[2] = <<"bcg", 0>>
         /\ Program[RecordAt] = <<"record", 0>> /\ Program[StopAt] = <<"stop", 0>>
         /\ \A j \in 1 .. Depth : /\ Program[2 + j] = Layers(FALSE)[j]
                                  /\ Program[RecordAt + j] = Layers(FALSE)[j]
<1> DEFINE A == AllSteps
           a == <<<<"load", 0>>, <<"bcg", 0>>>>
           b == Layers(FALSE)
           c == <<<<"record", 0>>>>
           d == <<<<"stop", 0>>>>
           p == a \o b  q == p \o c  r == q \o b  P == r \o d
<1>1. Program = P
  <2>1. Program = Steps(<<"load", "bcg">>) \o b \o Steps(<<"record">>) \o b \o Steps(<<"stop">>)
    BY DEF Program, CaptureSteps
  <2> HIDE DEF b
  <2> QED  BY <2>1, Few
<1>2. a \in Seq(A) /\ c \in Seq(A) /\ d \in Seq(A)  BY DEF AllSteps, CaptureOnly, CaptureKinds
<1>3. b \in Seq(A) /\ Len(b) = Depth /\ Depth \in Nat
  <2>1. b \in Seq(LayerKinds) /\ Depth \in Nat /\ Len(b) = Depth  BY LayerPlan DEF Depth
  <2>2. LayerKinds \subseteq A  BY DEF AllSteps
  <2> HIDE DEF b, A
  <2> QED  BY <2>1, <2>2
<1>p. p = a \o b /\ q = p \o c /\ r = q \o b /\ P = r \o d  OBVIOUS
<1>4. /\ Len(a) = 2 /\ a[1] = <<"load", 0>> /\ a[2] = <<"bcg", 0>>
      /\ Len(c) = 1 /\ c[1] = <<"record", 0>> /\ Len(d) = 1 /\ d[1] = <<"stop", 0>>
  OBVIOUS
<1> HIDE DEF a, b, c, d, A, p, q, r, P
<1>5. /\ P \in Seq(A) /\ Len(P) = Len(a) + Len(b) + Len(c) + Len(b) + Len(d)
      /\ \A i \in 1 .. Len(a) : P[i] = a[i]
      /\ \A i \in 1 .. Len(b) : P[Len(a) + i] = b[i]
      /\ \A i \in 1 .. Len(c) : P[Len(a) + Len(b) + i] = c[i]
      /\ \A i \in 1 .. Len(b) : P[Len(a) + Len(b) + Len(c) + i] = b[i]
      /\ \A i \in 1 .. Len(d) : P[Len(a) + Len(b) + Len(c) + Len(b) + i] = d[i]
  <2>1. b \in Seq(A)  BY <1>3
  <2>2. p = a \o b  BY <1>p
  <2>3. q = p \o c  BY <1>p
  <2>4. r = q \o b  BY <1>p
  <2>5. P = r \o d  BY <1>p
  <2>6. P \in Seq(A) /\ Len(P) = Len(a) + Len(b) + Len(c) + Len(b) + Len(d)
    BY ONLY <1>2, <2>1, <2>2, <2>3, <2>4, <2>5, FiveParts
  <2>7. \A i \in 1 .. Len(a) : P[i] = a[i]
    BY ONLY <1>2, <2>1, <2>2, <2>3, <2>4, <2>5, FiveParts
  <2>8. \A i \in 1 .. Len(b) : P[Len(a) + i] = b[i]
    BY ONLY <1>2, <2>1, <2>2, <2>3, <2>4, <2>5, FiveParts
  <2>9. \A i \in 1 .. Len(c) : P[Len(a) + Len(b) + i] = c[i]
    BY ONLY <1>2, <2>1, <2>2, <2>3, <2>4, <2>5, FiveParts
  <2>10. \A i \in 1 .. Len(b) : P[Len(a) + Len(b) + Len(c) + i] = b[i]
    BY ONLY <1>2, <2>1, <2>2, <2>3, <2>4, <2>5, FiveParts
  <2>11. \A i \in 1 .. Len(d) : P[Len(a) + Len(b) + Len(c) + Len(b) + i] = d[i]
    BY ONLY <1>2, <2>1, <2>2, <2>3, <2>4, <2>5, FiveParts
  <2> QED  BY <2>6, <2>7, <2>8, <2>9, <2>10, <2>11
<1> DEFINE n == Depth
<1>6. /\ n \in Nat /\ Len(P) = 4 + 2 * n
      /\ P[1] = a[1] /\ P[2] = a[2] /\ P[3 + n] = c[1] /\ P[4 + 2 * n] = d[1]
      /\ \A j \in 1 .. n : P[2 + j] = b[j] /\ P[3 + n + j] = b[j]
  <2> HIDE DEF n
  <2>1. Len(a) = 2 /\ Len(c) = 1 /\ Len(d) = 1 /\ Len(b) = n /\ n \in Nat  BY <1>3, <1>4 DEF n
  <2>2. /\ P[2 + n + 1] = c[1] /\ P[2 + n + 1 + n + 1] = d[1] /\ P[1] = a[1] /\ P[2] = a[2]
    BY ONLY <1>5, <2>1
  <2>3. \A j \in 1 .. n : P[2 + j] = b[j] /\ P[2 + n + 1 + j] = b[j]  BY ONLY <1>5, <2>1
  <2>4. Len(P) = 4 + 2 * n  BY ONLY <1>5, <2>1
  <2>5. 2 + n + 1 = 3 + n /\ 2 + n + 1 + n + 1 = 4 + 2 * n /\ \A j \in 1 .. n : 2 + n + 1 + j = 3 + n + j
    BY <2>1
  <2> QED  BY ONLY <2>1, <2>2, <2>3, <2>4, <2>5
<1>7. RecordAt = 3 + n /\ StopAt = 4 + 2 * n  BY DEF RecordAt, StopAt
<1> HIDE DEF n
<1> QED  BY <1>1, <1>4, <1>5, <1>6, <1>7 DEF n, A, b

-----------------------------------------------------------------------------
(* Where a session that captures stands.                                   *)

\* What is left of a program after its first steps.
LEMMA Suffix ==
  ASSUME NEW P, Listed(P), NEW p \in 1 .. Len(P) + 1
  PROVE  /\ Listed(From(P, p))
         /\ From(P, p) # <<>> => /\ p \in 1 .. Len(P)
                                 /\ Head(From(P, p)) = P[p]
                                 /\ Tail(From(P, p)) = From(P, p + 1)
         /\ p = Len(P) + 1 => From(P, p) = <<>>
<1> DEFINE S == ToSet(P)
<1>1. P \in Seq(S)  BY DEF Listed
<1> HIDE DEF S
<1>2. Len(P) \in Nat /\ \A i \in 1 .. Len(P) : P[i] \in S  BY <1>1
<1>3. \A q \in 1 .. Len(P) + 1 : From(P, q) = [i \in 1 .. Len(P) - q + 1 |-> P[i + q - 1]]
  BY <1>1, <1>2 DEF From
<1>4. \A q \in 1 .. Len(P) + 1 : From(P, q) \in Seq(S) /\ Len(From(P, q)) = Len(P) - q + 1
  <2> SUFFICES ASSUME NEW q \in 1 .. Len(P) + 1
               PROVE From(P, q) \in Seq(S) /\ Len(From(P, q)) = Len(P) - q + 1
    OBVIOUS
  <2>1. Len(P) - q + 1 \in Nat  BY <1>2
  <2>2. \A i \in 1 .. Len(P) - q + 1 : i + q - 1 \in 1 .. Len(P)  BY <1>2
  <2>3. From(P, q) \in [1 .. Len(P) - q + 1 -> S]  BY <1>2, <1>3, <2>2
  <2> QED  BY ONLY <2>1, <2>3
<1>5. Listed(From(P, p))  BY <1>4, ListedIn
<1>6. ASSUME From(P, p) # <<>>
      PROVE  /\ p \in 1 .. Len(P) /\ Head(From(P, p)) = P[p] /\ Tail(From(P, p)) = From(P, p + 1)
  <2> DEFINE s == From(P, p)  t == From(P, p + 1)
  <2>1. s \in Seq(S) /\ Len(s) = Len(P) - p + 1  BY <1>4
  <2>2. p \in 1 .. Len(P)
    <3> HIDE DEF s
    <3>1. Len(s) # 0  BY <2>1, <1>6 DEF s
    <3> QED  BY <3>1, <2>1, <1>2
  <2>3. t \in Seq(S) /\ Len(t) = Len(P) - (p + 1) + 1  BY <1>4, <1>2, <2>2
  <2>4. \A i \in 1 .. Len(s) : s[i] = P[i + p - 1]  BY <1>2, <1>3, <2>1
  <2>5. \A i \in 1 .. Len(t) : t[i] = P[i + (p + 1) - 1]
    <3>1. p + 1 \in 1 .. Len(P) + 1  BY <1>2, <2>2
    <3>2. t = [i \in 1 .. Len(P) - (p + 1) + 1 |-> P[i + (p + 1) - 1]]  BY <1>3, <3>1, Zenon
    <3>3. ASSUME NEW i \in 1 .. Len(t)  PROVE t[i] = P[i + (p + 1) - 1]
      <4>1. i \in 1 .. Len(P) - (p + 1) + 1  BY ONLY <2>3, i \in 1 .. Len(t)
      <4> HIDE DEF t
      <4> QED  BY ONLY <3>2, <4>1, Zenon
    <3> QED  BY ONLY <3>3
  <2> HIDE DEF s, t
  <2>6. Len(s) = Len(t) + 1 /\ Len(t) \in Nat /\ Len(s) \in Nat  BY <1>2, <2>1, <2>2, <2>3
  <2>7. Head(s) = P[p]
    <3>1. Head(s) = s[1]  BY <2>1, <2>6
    <3>2. 1 \in 1 .. Len(s) /\ 1 + p - 1 = p  BY <2>6
    <3> QED  BY ONLY <2>4, <3>1, <3>2
  <2>8. Tail(s) = t
    <3>1. Tail(s) \in Seq(S) /\ Len(Tail(s)) = Len(t) /\ \A i \in 1 .. Len(t) : Tail(s)[i] = s[i + 1]
      BY ONLY <2>1, <2>6
    <3>2. \A i \in 1 .. Len(t) : s[i + 1] = t[i]
      <4> SUFFICES ASSUME NEW i \in 1 .. Len(t)  PROVE s[i + 1] = t[i]  OBVIOUS
      <4>1. i + 1 \in 1 .. Len(s) /\ (i + 1) + p - 1 = i + p /\ i + (p + 1) - 1 = i + p  BY <2>6
      <4>2. s[i + 1] = P[(i + 1) + p - 1] /\ t[i] = P[i + (p + 1) - 1]  BY <4>1, <2>4, <2>5
      <4> QED  BY ONLY <4>1, <4>2
    <3>3. \A i \in 1 .. Len(t) : Tail(s)[i] = t[i]  BY <3>1, <3>2
    <3> DEFINE u == Tail(s)
    <3>4. u \in Seq(S) /\ Len(u) = Len(t) /\ t \in Seq(S)  BY <3>1, <2>3
    <3>5. \A i \in 1 .. Len(t) : u[i] = t[i]  BY <3>3
    <3> HIDE DEF u
    <3>6. u = t  BY ONLY <3>4, <3>5
    <3> QED  BY <3>6 DEF u
  <2> QED  BY <2>2, <2>7, <2>8 DEF s, t
<1>7. p = Len(P) + 1 => From(P, p) = <<>>
  <2> SUFFICES ASSUME p = Len(P) + 1  PROVE From(P, p) = <<>>  OBVIOUS
  <2>1. From(P, p) \in Seq(S) /\ Len(From(P, p)) = 0  BY <1>2, <1>4
  <2> QED  BY ONLY <2>1
<1> QED  BY <1>5, <1>6, <1>7

\* Both kinds of captures.
LEMMA ProgramListed == Listed(Program) /\ Program \in Seq(AllSteps) /\ Len(Program) = StopAt
<1>1. Program \in Seq(AllSteps) /\ Len(Program) = StopAt
  <2>1. CASE host.kind # "pgraph"  BY <2>1, GraphPlan
  <2>2. CASE host.kind = "pgraph"  BY <2>2, BreakPlan
  <2> QED  BY <2>1, <2>2
<1> HIDE DEF Program, AllSteps
<1> QED  BY <1>1, ListedIn

\* A capture that is not over stands at a place of its program.
LEMMA Standing ==
  ASSUME Capturing, host.capture, host.todo # <<>>
  PROVE  \E p \in 1 .. Len(Program) :
           /\ CaptureAt(p) /\ Head(host.todo) = Program[p]
           /\ Tail(host.todo) = From(Program, p + 1) /\ Listed(Tail(host.todo))
<1>1. PICK p \in 1 .. Len(Program) + 1 : host.todo = From(Program, p) /\ CaptureAt(p)  BY DEF Capturing
<1> DEFINE P == Program
<1>2. Listed(P) /\ Len(P) \in Nat
  <2>1. Listed(P) /\ P \in Seq(AllSteps)  BY ProgramListed
  <2> HIDE DEF P
  <2> QED  BY <2>1
<1> HIDE DEF P
<1>3. From(P, p) # <<>> => /\ p \in 1 .. Len(P) /\ Head(From(P, p)) = P[p]
                           /\ Tail(From(P, p)) = From(P, p + 1)
  BY <1>1, <1>2, Suffix DEF P
<1>4. p \in 1 .. Len(P) /\ Head(host.todo) = P[p] /\ Tail(host.todo) = From(P, p + 1)
  BY <1>1, <1>3 DEF P
<1>5. Listed(From(P, p + 1))
  <2>1. p + 1 \in 1 .. Len(P) + 1  BY <1>2, <1>4
  <2> QED  BY <2>1, <1>2, Suffix
<1> QED  BY <1>1, <1>4, <1>5 DEF P

\* The places of the steps of a program.
LEMMA GraphPlaces ==
  ASSUME host.kind # "pgraph", NEW p \in 1 .. StopAt
  PROVE  /\ Program[p] = <<"load", 0>> => p = 1
         /\ Program[p] = <<"out", 0>> => p = 2
         /\ Program[p] = <<"in", 0>> => p \in {3, RecordAt + 1}
         /\ Program[p] = <<"mark", 0>> => p \in {4, RecordAt + 2}
         /\ Program[p] = <<"warm", 0>> => p = RecordAt - 1
         /\ Program[p] = <<"record", 0>> => p = RecordAt
         /\ Program[p] = <<"stop", 0>> => p = StopAt
         /\ Program[p] \in LayerKinds => p \in 5 .. RecordAt - 2 \/ p \in RecordAt + 3 .. StopAt - 1
         /\ Program[p] # <<"bcg", 0>>
<1> DEFINE n == Depth
<1>1. n \in Nat /\ n > 0 /\ RecordAt = 6 + n /\ StopAt = 9 + 2 * n
  BY LayerPlan DEF RecordAt, StopAt
<1>2. /\ Program[1] = <<"load", 0>> /\ Program[2] = <<"out", 0>>
      /\ Program[3] = <<"in", 0>> /\ Program[4] = <<"mark", 0>>
      /\ Program[RecordAt - 1] = <<"warm", 0>> /\ Program[RecordAt] = <<"record", 0>>
      /\ Program[RecordAt + 1] = <<"in", 0>> /\ Program[RecordAt + 2] = <<"mark", 0>>
      /\ Program[StopAt] = <<"stop", 0>>
      /\ \A j \in 1 .. n : Program[4 + j] \in LayerKinds /\ Program[RecordAt + 2 + j] \in LayerKinds
  <2>1. \A j \in 1 .. n : Layers(FALSE)[j] \in LayerKinds
    <3> DEFINE L == Layers(FALSE)
    <3>1. L \in Seq(LayerKinds) /\ Len(L) = n  BY LayerPlan DEF Depth
    <3> HIDE DEF n, L
    <3>2. \A j \in 1 .. n : L[j] \in LayerKinds  BY ONLY <3>1
    <3> QED  BY <3>2 DEF L
  <2> QED  BY <2>1, GraphPlan
<1>3. \A s \in LayerKinds : s \notin {<<"load", 0>>, <<"out", 0>>, <<"in", 0>>, <<"mark", 0>>, <<"warm", 0>>,
                                      <<"record", 0>>, <<"stop", 0>>, <<"bcg", 0>>}
  BY DEF LayerKinds
<1> HIDE DEF n
<1>4. \/ p = 1 \/ p = 2 \/ p = 3 \/ p = 4
      \/ p \in 5 .. 4 + n \/ p = 5 + n \/ p = 6 + n \/ p = 7 + n \/ p = 8 + n
      \/ p \in 9 + n .. 8 + 2 * n \/ p = 9 + 2 * n
  BY <1>1
<1>5. RecordAt - 1 = 5 + n /\ RecordAt + 1 = 7 + n /\ RecordAt + 2 = 8 + n /\ RecordAt - 2 = 4 + n
      /\ RecordAt + 3 = 9 + n /\ StopAt - 1 = 8 + 2 * n
  BY <1>1
<1>6. CASE p \in 5 .. 4 + n
  <2>1. p - 4 \in 1 .. n /\ 4 + (p - 4) = p  BY <1>1, <1>6
  <2>2. Program[p] \in LayerKinds  BY <1>2, <2>1
  <2> QED  BY <2>2, <1>3, <1>5, <1>6
<1>7. CASE p \in 9 + n .. 8 + 2 * n
  <2>1. p - (8 + n) \in 1 .. n /\ (8 + n) + (p - (8 + n)) = p  BY <1>1, <1>7
  <2>2. Program[p] \in LayerKinds  BY <1>2, <1>5, <2>1
  <2> QED  BY <2>2, <1>3, <1>5, <1>7
<1>8. CASE p \in {1, 2, 3, 4}
  <2>1. Program[p] \notin LayerKinds  BY <1>2, <1>3, <1>8
  <2> QED  BY <1>2, <1>8, <2>1
<1>9. CASE p \in {5 + n, 6 + n, 7 + n, 8 + n, 9 + 2 * n}
  <2>1. Program[p] \notin LayerKinds  BY <1>1, <1>2, <1>3, <1>5, <1>9
  <2> QED  BY <1>1, <1>2, <1>5, <1>9, <2>1
<1> QED  BY <1>4, <1>6, <1>7, <1>8, <1>9

\* ... and in that of a breakable graph.
LEMMA BreakPlaces ==
  ASSUME host.kind = "pgraph", NEW p \in 1 .. StopAt
  PROVE  /\ Program[p] = <<"load", 0>> => p = 1
         /\ Program[p] = <<"bcg", 0>> => p = 2
         /\ Program[p] = <<"record", 0>> => p = RecordAt
         /\ Program[p] = <<"stop", 0>> => p = StopAt
         /\ Program[p] \in LayerKinds => p \in 3 .. RecordAt - 1 \/ p \in RecordAt + 1 .. StopAt - 1
         /\ Program[p] \notin {<<"out", 0>>, <<"in", 0>>, <<"mark", 0>>, <<"warm", 0>>}
<1> DEFINE n == Depth
<1>1. n \in Nat /\ n > 0 /\ RecordAt = 3 + n /\ StopAt = 4 + 2 * n
  BY LayerPlan DEF RecordAt, StopAt
<1>2. /\ Program[1] = <<"load", 0>> /\ Program[2] = <<"bcg", 0>>
      /\ Program[RecordAt] = <<"record", 0>> /\ Program[StopAt] = <<"stop", 0>>
      /\ \A j \in 1 .. n : Program[2 + j] \in LayerKinds /\ Program[RecordAt + j] \in LayerKinds
  <2>1. \A j \in 1 .. n : Layers(FALSE)[j] \in LayerKinds
    <3> DEFINE L == Layers(FALSE)
    <3>1. L \in Seq(LayerKinds) /\ Len(L) = n  BY LayerPlan DEF Depth
    <3> HIDE DEF n, L
    <3>2. \A j \in 1 .. n : L[j] \in LayerKinds  BY ONLY <3>1
    <3> QED  BY <3>2 DEF L
  <2> QED  BY <2>1, BreakPlan
<1>3. \A s \in LayerKinds : s \notin {<<"load", 0>>, <<"out", 0>>, <<"in", 0>>, <<"mark", 0>>, <<"warm", 0>>,
                                      <<"record", 0>>, <<"stop", 0>>, <<"bcg", 0>>}
  BY DEF LayerKinds
<1> HIDE DEF n
<1>4. \/ p = 1 \/ p = 2 \/ p \in 3 .. 2 + n \/ p = 3 + n \/ p \in 4 + n .. 3 + 2 * n \/ p = 4 + 2 * n
  BY <1>1
<1>5. RecordAt - 1 = 2 + n /\ RecordAt + 1 = 4 + n /\ StopAt - 1 = 3 + 2 * n  BY <1>1
<1>6. CASE p \in 3 .. 2 + n
  <2>1. p - 2 \in 1 .. n /\ 2 + (p - 2) = p  BY <1>1, <1>6
  <2>2. Program[p] \in LayerKinds  BY <1>2, <2>1
  <2> QED  BY <2>2, <1>3, <1>5, <1>6
<1>7. CASE p \in 4 + n .. 3 + 2 * n
  <2>1. p - (3 + n) \in 1 .. n /\ (3 + n) + (p - (3 + n)) = p  BY <1>1, <1>7
  <2>2. Program[p] \in LayerKinds  BY <1>1, <1>2, <2>1
  <2> QED  BY <2>2, <1>3, <1>5, <1>7
<1>8. CASE p \in {1, 2, 3 + n, 4 + 2 * n}
  <2>1. Program[p] \notin LayerKinds  BY <1>1, <1>2, <1>3, <1>8
  <2> QED  BY <1>1, <1>2, <1>8, <2>1
<1> QED  BY <1>4, <1>6, <1>7, <1>8

\* A recorded layer that selects among candidates comes after the one that publishes them.
LEMMA Published ==
  ASSUME host.kind # "pgraph", NEW p \in RecordAt + 3 .. StopAt - 1, Program[p] = <<"sources", 3>>
  PROVE  \E j \in RecordAt + 2 .. p - 1 : Program[j] = <<"sources", 1>>
<1> DEFINE n == Depth
<1>1. n \in Nat /\ n > 0 /\ RecordAt = 6 + n /\ StopAt = 9 + 2 * n
  BY LayerPlan DEF RecordAt, StopAt
<1>2. \A j \in 1 .. n : Program[RecordAt + 2 + j] = Layers(FALSE)[j]  BY GraphPlan
<1>3. Layers(FALSE)[1] = <<"sources", 1>> \/ \A j \in 1 .. n : Layers(FALSE)[j] # <<"sources", 3>>
  BY LayerPlan
<1> HIDE DEF n
<1>4. p - (RecordAt + 2) \in 1 .. n /\ RecordAt + 2 + (p - (RecordAt + 2)) = p  BY <1>1
<1>5. Layers(FALSE)[p - (RecordAt + 2)] = <<"sources", 3>>  BY <1>2, <1>4
<1>6. Layers(FALSE)[1] = <<"sources", 1>>  BY <1>3, <1>4, <1>5
<1>7. 1 \in 1 .. n /\ RecordAt + 2 + 1 = RecordAt + 3  BY <1>1
<1>8. Program[RecordAt + 3] = <<"sources", 1>>  BY <1>2, <1>6, <1>7
<1>9. p # RecordAt + 3
  <2>1. <<"sources", 1>> # <<"sources", 3>>  OBVIOUS
  <2> QED  BY <1>8, <2>1
<1>10. RecordAt + 3 \in RecordAt + 2 .. p - 1  BY <1>1, <1>9
<1> QED  BY <1>8, <1>10

-----------------------------------------------------------------------------
(* Sequences of kernels that keep to what a graph may rely on.             *)

\* Recordings are built of parts that keep to what is permitted.
LEMMA OverNone ==
  ASSUME NEW pool, NEW relied
  PROVE  Over(pool, relied, <<>>)
<1>1. Listed(<<>>)  BY ListedFew
<1>2. DOMAIN <<>> = {}  OBVIOUS
<1> QED  BY <1>1, <1>2 DEF Over

\* A recording of one kernel.
LEMMA OverOne ==
  ASSUME NEW pool, NEW relied, NEW o, OpKept(pool, relied, o)
  PROVE  Over(pool, relied, <<o>>)
<1>1. Listed(<<o>>) /\ DOMAIN <<o>> = {1} /\ <<o>>[1] = o  BY ListedFew
<1> QED  BY <1>1, Zenon DEF Over

\* A recording that goes on.
LEMMA OverJoin ==
  ASSUME NEW pool, NEW relied, NEW s, Over(pool, relied, s), NEW t, Over(pool, relied, t)
  PROVE  Over(pool, relied, s \o t)
<1>1. Listed(s) /\ Listed(t)  BY DEF Over
<1>2. /\ Listed(s \o t)
      /\ \A i \in DOMAIN (s \o t) : \/ i \in DOMAIN s /\ (s \o t)[i] = s[i]
                                    \/ i - Len(s) \in DOMAIN t /\ (s \o t)[i] = t[i - Len(s)]
  BY <1>1, ListedConcat
<1> DEFINE r == s \o t
<1> HIDE DEF r
<1>3. Listed(r) /\ \A i \in DOMAIN r : \/ i \in DOMAIN s /\ r[i] = s[i]
                                       \/ i - Len(s) \in DOMAIN t /\ r[i] = t[i - Len(s)]
  BY <1>2 DEF r
<1>4. Over(pool, relied, r)  BY <1>3 DEF Over
<1> QED  BY <1>4 DEF r

\* What may be relied on only grows.
LEMMA OverWider ==
  ASSUME NEW pool, NEW relied, NEW wider, relied \subseteq wider, NEW s, Over(pool, relied, s)
  PROVE  Over(pool, wider, s)
<1>1. \A a : Permits(pool, relied, a) => Permits(pool, wider, a)  BY DEF Permits
<1>2. \A o : OpKept(pool, relied, o) => OpKept(pool, wider, o)  BY <1>1 DEF OpKept
<1> QED  BY <1>2 DEF Over

\* No address at all is permitted.
LEMMA PermitsNone ==
  ASSUME NEW pool, NEW relied
  PROVE  Permits(pool, relied, None)
BY DEF Permits

\* A launch from and to permitted addresses.
LEMMA LaunchKept ==
  ASSUME NEW pool, NEW relied, NEW to, NEW from, NEW tab, NEW rows,
         Permits(pool, relied, to), \A a \in from : Permits(pool, relied, a)
  PROVE  /\ OpKept(pool, relied, Launch(to, from, tab, rows))
         /\ Over(pool, relied, <<Launch(to, from, tab, rows)>>)
<1> DEFINE o == Launch(to, from, tab, rows)
<1>1. o.from = from \ {None} /\ o.to = to /\ o.step = <<>>  BY DEF Launch
<1> HIDE DEF o
<1>2. OpKept(pool, relied, o)  BY <1>1 DEF OpKept
<1>3. Over(pool, relied, <<o>>)  BY <1>2, OverOne
<1> QED  BY <1>2, <1>3 DEF o

\* A fill of a permitted address.
LEMMA FillKept ==
  ASSUME NEW pool, NEW relied, NEW to, NEW tag, Permits(pool, relied, to)
  PROVE  Over(pool, relied, Fill(to, tag))
<1> DEFINE o == [Launch(to, {}, FALSE, All) EXCEPT !.tags = {tag}]
<1>1. o.from = {} /\ o.to = to /\ o.step = <<>>  BY DEF Launch
<1> HIDE DEF o
<1>2. OpKept(pool, relied, o)  BY <1>1 DEF OpKept
<1>3. Over(pool, relied, <<o>>)  BY <1>2, OverOne
<1> QED  BY <1>3 DEF o, Fill

\* Reads of permitted addresses.
LEMMA ReadsKept ==
  ASSUME NEW pool, NEW relied, NEW from, NEW tab, NEW rowwise, NEW q,
         \A a \in from : Permits(pool, relied, a)
  PROVE  /\ Over(pool, relied, <<Reads(from, tab, rowwise, q)>>)
         /\ \A pairs : Over(pool, relied, <<[Reads(from, tab, rowwise, q) EXCEPT !.pairs = pairs]>>)
<1>1. ASSUME NEW o, o.from = from \ {None}, o.to = None, o.step = <<>>
      PROVE Over(pool, relied, <<o>>)
  <2>1. OpKept(pool, relied, o)  BY <1>1, PermitsNone DEF OpKept
  <2> QED  BY <2>1, OverOne
<1>2. Over(pool, relied, <<Reads(from, tab, rowwise, q)>>)
  <2> DEFINE o == Reads(from, tab, rowwise, q)
  <2>1. o.from = from \ {None} /\ o.to = None /\ o.step = <<>>  BY DEF Reads, Launch
  <2> HIDE DEF o
  <2>2. Over(pool, relied, <<o>>)  BY <1>1, <2>1
  <2> QED  BY <2>2 DEF o
<1>3. ASSUME NEW pairs  PROVE Over(pool, relied, <<[Reads(from, tab, rowwise, q) EXCEPT !.pairs = pairs]>>)
  <2> DEFINE o == [Reads(from, tab, rowwise, q) EXCEPT !.pairs = pairs]
  <2>1. o.from = from \ {None} /\ o.to = None /\ o.step = <<>>  BY DEF Reads, Launch
  <2> HIDE DEF o
  <2>2. Over(pool, relied, <<o>>)  BY <1>1, <2>1
  <2> QED  BY <2>2 DEF o
<1> QED  BY <1>2, <1>3

\* Marks and breaks touch nothing.
LEMMA StopsKept ==
  ASSUME NEW pool, NEW relied
  PROVE  /\ Over(pool, relied, <<Mark>>)
         /\ \A s \in LayerKinds : Over(pool, relied, <<Break(s)>>)
<1>1. ASSUME NEW o, o.from = {}, o.to = None, o.step \in {<<"mark", 0>>} \cup LayerKinds
      PROVE Over(pool, relied, <<o>>)
  <2>1. OpKept(pool, relied, o)  BY <1>1, PermitsNone DEF OpKept
  <2> QED  BY <2>1, OverOne
<1>2. Over(pool, relied, <<Mark>>)
  <2> DEFINE o == Mark
  <2>1. o.from = {} /\ o.to = None /\ o.step = <<"mark", 0>>  BY DEF Mark, Launch
  <2> HIDE DEF o
  <2>2. Over(pool, relied, <<o>>)  BY <1>1, <2>1
  <2> QED  BY <2>2 DEF o
<1>3. ASSUME NEW s \in LayerKinds  PROVE Over(pool, relied, <<Break(s)>>)
  <2> DEFINE o == Break(s)
  <2>1. o.from = {} /\ o.to = None /\ o.step = s  BY DEF Break, Launch
  <2> HIDE DEF o
  <2>2. Over(pool, relied, <<o>>)  BY <1>1, <1>3, <2>1
  <2> QED  BY <2>2 DEF o
<1> QED  BY <1>2, <1>3

\* Metadata built in permitted tensors from permitted inputs.
LEMMA BuildKept ==
  ASSUME NEW pool, NEW relied, NEW f, NEW src, NEW global, NEW local,
         \A x \in Fields : Permits(pool, relied, f[x]),
         \A a \in src : Permits(pool, relied, a)
  PROVE  Over(pool, relied, Build(f, src, global, local))
<1> DEFINE op(to, from, tab, rows) == IF f[to] = None THEN <<>> ELSE <<Launch(f[to], from, tab, rows)>>
           fill == IF f["topk"] = None THEN <<>> ELSE Fill(f["topk"], <<"unfilled", 0>>)
           Good(s) == Over(pool, relied, s)
<1>1. Build(f, src, global, local) =
        op("loc", src, FALSE, global)
          \o op("len", src, FALSE, local)
          \o op("pages", src, TRUE, local)
          \o op("swa", src, TRUE, local)
          \o op("toplen", {f["len"]}, FALSE, local)
          \o fill
          \o op("idx", {f["len"], f["pages"]}, FALSE, local)
          \o op("comp", src, TRUE, global)
          \o op("req", src, FALSE, global)
  BY DEF Build
<1>2. ASSUME NEW to \in Fields, NEW from, \A a \in from : Permits(pool, relied, a), NEW tab, NEW rows
      PROVE Good(op(to, from, tab, rows))
  <2>1. Good(<<>>)  BY OverNone
  <2>2. Permits(pool, relied, f[to])  OBVIOUS
  <2>3. Good(<<Launch(f[to], from, tab, rows)>>)  BY <1>2, <2>2, LaunchKept
  <2> QED  BY <2>1, <2>3
<1>3. Good(fill)
  <2>1. Good(<<>>)  BY OverNone
  <2>2. Permits(pool, relied, f["topk"])  BY DEF Fields
  <2>3. Good(Fill(f["topk"], <<"unfilled", 0>>))  BY <2>2, FillKept
  <2> QED  BY <2>1, <2>3
<1>4. {"loc", "len", "pages", "swa", "toplen", "idx", "comp", "req"} \subseteq Fields  BY DEF Fields
<1>5. \A a \in {f["len"]} \cup {f["len"], f["pages"]} : Permits(pool, relied, a)  BY <1>4
<1>6. \A s, t : Good(s) /\ Good(t) => Good(s \o t)  BY OverJoin
<1> DEFINE a1 == op("loc", src, FALSE, global)
           a2 == op("len", src, FALSE, local)
           a3 == op("pages", src, TRUE, local)
           a4 == op("swa", src, TRUE, local)
           a5 == op("toplen", {f["len"]}, FALSE, local)
           a7 == op("idx", {f["len"], f["pages"]}, FALSE, local)
           a8 == op("comp", src, TRUE, global)
           a9 == op("req", src, FALSE, global)
<1>7. Good(a1) /\ Good(a2) /\ Good(a3) /\ Good(a4)  BY <1>2, <1>4
<1>8. Good(a5) /\ Good(a7)  BY <1>2, <1>4, <1>5
<1>9. Good(a8) /\ Good(a9)  BY <1>2, <1>4
<1>10. Build(f, src, global, local) = a1 \o a2 \o a3 \o a4 \o a5 \o fill \o a7 \o a8 \o a9  BY <1>1
<1> HIDE DEF a1, a2, a3, a4, a5, fill, a7, a8, a9, Good
<1>11. Good(a1 \o a2 \o a3 \o a4)  BY <1>6, <1>7
<1>12. Good(a1 \o a2 \o a3 \o a4 \o a5 \o fill)  BY <1>3, <1>6, <1>8, <1>11
<1>13. Good(a1 \o a2 \o a3 \o a4 \o a5 \o fill \o a7 \o a8 \o a9)  BY <1>6, <1>8, <1>9, <1>12
<1> QED  BY <1>10, <1>13 DEF Good

-----------------------------------------------------------------------------
(* What every step keeps.                                                  *)

\* The metadata of the buckets that graphs were captured on lasts.
Keeps ==
  /\ \A g \in DOMAIN graphs :
       /\ Bucketed(g) \in DOMAIN be'.bucket /\ be'.bucket[Bucketed(g)] = be.bucket[Bucketed(g)]
       /\ \A x \in Lasting(Bucketed(g)) :
            objs'[be.bucket[Bucketed(g)]].f[x] = objs[be.bucket[Bucketed(g)]].f[x]
  /\ \A i \in DOMAIN be.proj : \E j \in DOMAIN be'.proj : be'.proj[j].addr = be.proj[i].addr
SameBuckets ==
  \A b \in DOMAIN be.bucket :
    /\ be.bucket[b] \in DOMAIN objs' /\ objs'[be.bucket[b]].kind = objs[be.bucket[b]].kind
    /\ \A x \in Lasting(b) : objs'[be.bucket[b]].f[x] = objs[be.bucket[b]].f[x]

\* What graphs rely on is still there after the step.
LEMMA ReliedStays ==
  ASSUME Keeps, NEW g \in DOMAIN graphs
  PROVE  Relied(be, objs, g) \subseteq Relied(be', objs', g)
<1> SUFFICES ASSUME NEW a \in Relied(be, objs, g)  PROVE a \in Relied(be', objs', g)
  OBVIOUS
<1> DEFINE b == Bucketed(g)
<1>1. CASE a \in Permanent  BY <1>1 DEF Relied
<1>2. CASE a \in {be.proj[i].addr : i \in DOMAIN be.proj}
  <2>1. PICK i \in DOMAIN be.proj : a = be.proj[i].addr  BY <1>2
  <2>2. PICK j \in DOMAIN be'.proj : be'.proj[j].addr = a  BY <2>1 DEF Keeps
  <2>3. a \in {be'.proj[k].addr : k \in DOMAIN be'.proj}  BY <2>2
  <2> QED  BY <2>3, Zenon DEF Relied
<1>3. CASE a \in {objs[be.bucket[b]].f[x] : x \in Lasting(b)}
  <2>1. PICK x \in Lasting(b) : a = objs[be.bucket[b]].f[x]  BY <1>3
  <2>2. be'.bucket[b] = be.bucket[b] /\ objs'[be.bucket[b]].f[x] = objs[be.bucket[b]].f[x]
    BY <2>1 DEF Keeps
  <2>3. objs'[be'.bucket[b]].f[x] = a  BY <2>1, <2>2
  <2>4. a \in {objs'[be'.bucket[b]].f[y] : y \in Lasting(b)}  BY <2>3
  <2> QED  BY <2>4, Zenon DEF Relied
<1> QED  BY <1>1, <1>2, <1>3, Zenon DEF Relied

\* A step that records nothing keeps the graphs' condition.
LEMMA GraphsStep ==
  ASSUME GraphsKept, Keeps, graphs' = graphs
  PROVE  GraphsKept'
<1> SUFFICES ASSUME NEW g \in DOMAIN graphs
             PROVE  /\ g \in GraphNames
                    /\ DOMAIN graphs[g] = {"pool", "ops"} /\ graphs[g].pool \in Nat
                    /\ Bucketed(g) \in DOMAIN be'.bucket
                    /\ Over(graphs[g].pool, Relied(be', objs', g), graphs[g].ops)
  BY DEF GraphsKept
<1>1. Over(graphs[g].pool, Relied(be, objs, g), graphs[g].ops)  BY DEF GraphsKept
<1>2. Over(graphs[g].pool, Relied(be', objs', g), graphs[g].ops)  BY <1>1, ReliedStays, OverWider
<1>3. Bucketed(g) \in DOMAIN be'.bucket  BY DEF Keeps
<1> QED  BY <1>2, <1>3 DEF GraphsKept

\* A step that may record: the kernels it adds must be permitted.
LEMMA IssueKept ==
  ASSUME GraphsKept, Keeps, NEW ops, Issue(ops),
         host.record => /\ host.graph \in DOMAIN graphs
                        /\ Over(graphs[host.graph].pool, Relied(be', objs', host.graph), ops)
  PROVE  /\ GraphsKept' /\ DOMAIN graphs' = DOMAIN graphs
         /\ \A g \in DOMAIN graphs : graphs'[g].pool = graphs[g].pool
<1>1. CASE ~ host.record
  <2>1. graphs' = graphs  BY <1>1 DEF Issue
  <2> QED  BY <2>1, GraphsStep
<1>2. CASE host.record
  <2> DEFINE h == host.graph
  <2>1. /\ h \in DOMAIN graphs
        /\ graphs' = [graphs EXCEPT ![h].ops = graphs[h].ops \o ops]
    BY <1>2 DEF Issue
  <2>2. Over(graphs[h].pool, Relied(be', objs', h), ops)  BY <1>2
  <2>3. DOMAIN graphs[h] = {"pool", "ops"}  BY <2>1 DEF GraphsKept
  <2> HIDE DEF h
  <2>4. DOMAIN graphs' = DOMAIN graphs /\ \A g \in DOMAIN graphs : g # h => graphs'[g] = graphs[g]
    BY <2>1
  <2>5. graphs'[h] = [graphs[h] EXCEPT !.ops = graphs[h].ops \o ops]  BY <2>1
  <2>6. /\ DOMAIN graphs'[h] = {"pool", "ops"} /\ graphs'[h].pool = graphs[h].pool
        /\ graphs'[h].ops = graphs[h].ops \o ops
    BY <2>3, <2>5
  <2>7. \A g \in DOMAIN graphs : DOMAIN graphs'[g] = {"pool", "ops"} /\ graphs'[g].pool = graphs[g].pool
    BY <2>4, <2>6 DEF GraphsKept
  <2>8. \A g \in DOMAIN graphs : Over(graphs[g].pool, Relied(be', objs', g), graphs[g].ops)
    <3> SUFFICES ASSUME NEW g \in DOMAIN graphs
                 PROVE Over(graphs[g].pool, Relied(be', objs', g), graphs[g].ops)
      OBVIOUS
    <3>1. Over(graphs[g].pool, Relied(be, objs, g), graphs[g].ops)  BY DEF GraphsKept
    <3> QED  BY <3>1, ReliedStays, OverWider
  <2>9. Over(graphs[h].pool, Relied(be', objs', h), graphs'[h].ops)
    <3>1. Over(graphs[h].pool, Relied(be', objs', h), graphs[h].ops)  BY <2>1, <2>8
    <3>2. Over(graphs[h].pool, Relied(be', objs', h), graphs[h].ops \o ops)  BY <2>2, <3>1, OverJoin
    <3> QED  BY <2>6, <3>2
  <2>10. \A g \in DOMAIN graphs : Over(graphs'[g].pool, Relied(be', objs', g), graphs'[g].ops)
    <3> SUFFICES ASSUME NEW g \in DOMAIN graphs
                 PROVE Over(graphs'[g].pool, Relied(be', objs', g), graphs'[g].ops)
      OBVIOUS
    <3>1. CASE g = h  BY <3>1, <2>6, <2>9
    <3>2. CASE g # h  BY <3>2, <2>4, <2>8
    <3> QED  BY <3>1, <3>2
  <2>11. \A g \in DOMAIN graphs : g \in GraphNames /\ graphs[g].pool \in Nat  BY DEF GraphsKept
  <2>12. \A g \in DOMAIN graphs : Bucketed(g) \in DOMAIN be'.bucket  BY DEF Keeps
  <2>13. GraphsKept'  BY <2>4, <2>7, <2>10, <2>11, <2>12 DEF GraphsKept
  <2> QED  BY <2>4, <2>7, <2>13
<1> QED  BY <1>1, <1>2

\* A step that leaves the buckets and the lasting fields of their metadata.
LEMMA BucketsStay ==
  ASSUME Bucketing, GraphsKept, SameBuckets,
         cfg' = cfg, be'.bucket = be.bucket, be'.proj = be.proj
  PROVE  Bucketing' /\ Keeps
<1>1. Keeps
  <2>1. \A g \in DOMAIN graphs : Bucketed(g) \in DOMAIN be.bucket  BY DEF GraphsKept
  <2> QED  BY <2>1, Zenon DEF Keeps, SameBuckets
<1>2. \A b \in DOMAIN be.bucket \cap RawBuckets :
        /\ objs'[be.bucket[b]].f["ext"] = objs[be.bucket[b]].f["ext"]
        /\ objs'[be.bucket[b]].f["plan"] = objs[be.bucket[b]].f["plan"]
  <2>1. \A b \in RawBuckets : Lasting(b) = RawFields  BY DEF Lasting
  <2>2. "ext" \in RawFields /\ "plan" \in RawFields  BY DEF RawFields
  <2> QED  BY <2>1, <2>2 DEF SameBuckets
<1>3. Bucketing'
  <2>1. /\ DOMAIN be'.bucket \subseteq RawBuckets \cup FullBuckets
        /\ \A b, c \in DOMAIN be'.bucket : be'.bucket[b] = be'.bucket[c] => b = c
    BY DEF Bucketing
  <2>2. \A b \in DOMAIN be'.bucket : be'.bucket[b] \in DOMAIN objs'  BY DEF SameBuckets
  <2>3. \A b \in DOMAIN be'.bucket : objs'[be'.bucket[b]].kind = IF b \in RawBuckets THEN "raw" ELSE "full"
    BY DEF Bucketing, SameBuckets
  <2>4. \A b \in DOMAIN be'.bucket \cap RawBuckets :
          /\ objs'[be'.bucket[b]].f["ext"] = IF b = "verify" THEN ExtBuffer ELSE None
          /\ objs'[be'.bucket[b]].f["plan"] = None <=> ~ (b = "verify" /\ cfg'.online)
    BY <1>2 DEF Bucketing
  <2> QED  BY <2>1, <2>2, <2>3, <2>4 DEF Bucketing
<1> QED  BY <1>1, <1>3

\* New metadata comes after the old.
LEMMA ObjectsAppend ==
  ASSUME ObjectsOK, NEW o, ObjOK(o), objs' = Append(objs, o)
  PROVE  /\ ObjectsOK' /\ Len(objs) \in Nat /\ DOMAIN objs = 1 .. Len(objs)
         /\ DOMAIN objs' = 1 .. Len(objs) + 1 /\ objs'[Len(objs) + 1] = o
         /\ \A i \in DOMAIN objs : i \in DOMAIN objs' /\ objs'[i] = objs[i]
<1>1. Listed(objs)  BY DEF ObjectsOK
<1>2. Len(objs) \in Nat /\ DOMAIN objs = 1 .. Len(objs)
  <2> DEFINE S == ToSet(objs)
  <2>1. objs \in Seq(S)  BY <1>1 DEF Listed
  <2> HIDE DEF S
  <2> QED  BY <2>1
<1>3. /\ Listed(objs') /\ DOMAIN objs' = 1 .. Len(objs) + 1
      /\ \A i \in DOMAIN objs : objs'[i] = objs[i]
      /\ objs'[Len(objs) + 1] = o
  BY <1>1, ListedAppend
<1>4. \A i \in DOMAIN objs' : ObjOK(objs'[i])
  <2> SUFFICES ASSUME NEW i \in DOMAIN objs'  PROVE ObjOK(objs'[i])  OBVIOUS
  <2>1. i \in DOMAIN objs \/ i = Len(objs) + 1  BY <1>2, <1>3
  <2> QED  BY <2>1, <1>3 DEF ObjectsOK
<1>5. \A i \in DOMAIN objs : i \in DOMAIN objs'  BY <1>2, <1>3
<1> QED  BY <1>2, <1>3, <1>4, <1>5 DEF ObjectsOK

\* One object changes.
LEMMA ObjectsExcept ==
  ASSUME ObjectsOK, NEW k \in DOMAIN objs, NEW o, ObjOK(o), objs' = [objs EXCEPT ![k] = o]
  PROVE  /\ ObjectsOK' /\ DOMAIN objs' = DOMAIN objs /\ objs'[k] = o
         /\ \A i \in DOMAIN objs : i # k => objs'[i] = objs[i]
<1>1. Listed(objs)  BY DEF ObjectsOK
<1>2. Listed(objs')  BY <1>1, ListedExcept
<1>3. /\ DOMAIN objs' = DOMAIN objs /\ objs'[k] = o
      /\ \A i \in DOMAIN objs : i # k => objs'[i] = objs[i]
  OBVIOUS
<1> QED  BY <1>2, <1>3 DEF ObjectsOK

\* A capture's program depends on the deployment and the kind only.
LEMMA ProgramStays ==
  ASSUME cfg' = cfg, host'.kind = host.kind
  PROVE  /\ Program' = Program /\ Depth' = Depth /\ RecordAt' = RecordAt /\ StopAt' = StopAt
         /\ LowRatioGraph' = LowRatioGraph
<1>1. V41' = V41 /\ Blackwell' = Blackwell  BY DEF V41, Blackwell
<1>2. Layers(FALSE)' = Layers(FALSE)  BY <1>1 DEF Layers
<1>3. Depth' = Depth  BY <1>2 DEF Depth
<1>4. RecordAt' = RecordAt /\ StopAt' = StopAt  BY <1>3 DEF RecordAt, StopAt
<1>5. Program' = Program  BY <1>2 DEF Program, CaptureSteps
<1>6. LowRatioGraph' = LowRatioGraph  BY <1>1 DEF LowRatioGraph
<1> QED  BY <1>3, <1>4, <1>5, <1>6

\* A step of a session: its kind, its variant and its graph are those it began with.
Session ==
  /\ cfg' = cfg /\ host'.kind = host.kind /\ host'.variant = host.variant
  /\ host'.graph = host.graph /\ host'.inp = host.inp /\ host'.capture = host.capture

\* From one place of a capture to the next.
LEMMA CapturingStep ==
  ASSUME Capturing, Session,
         host.capture => \E p \in 1 .. Len(Program) : host'.todo = From(Program, p + 1) /\ CaptureAt(p + 1)'
  PROVE  Capturing'
<1> SUFFICES ASSUME host'.capture
             PROVE  /\ host.kind \in GraphKinds
                    /\ host'.variant \in Variants(host.kind)'
                    /\ host.graph = <<host.kind, host.variant>> /\ host.inp = Static
                    /\ \E p \in 1 .. Len(Program') + 1 : host'.todo = From(Program', p) /\ CaptureAt(p)'
  BY DEF Capturing, Session
<1>1. host.capture /\ cfg' = cfg /\ host'.kind = host.kind  BY DEF Session
<1>2. PICK p \in 1 .. Len(Program) : host'.todo = From(Program, p + 1) /\ CaptureAt(p + 1)'  BY <1>1
<1>3. Program' = Program  BY <1>1, ProgramStays
<1>4. p + 1 \in 1 .. Len(Program) + 1
  <2> DEFINE P == Program
  <2>1. P \in Seq(AllSteps)  BY ProgramListed
  <2> HIDE DEF P
  <2>2. Len(P) \in Nat  BY <2>1
  <2>3. p \in 1 .. Len(P)  BY DEF P
  <2>4. p + 1 \in 1 .. Len(P) + 1  BY <2>2, <2>3
  <2> QED  BY <2>4 DEF P
<1>5. \E q \in 1 .. Len(Program') + 1 : host'.todo = From(Program', q) /\ CaptureAt(q)'
  <2>1. From(Program', p + 1) = From(Program, p + 1)  BY <1>3
  <2> QED  BY <1>2, <1>3, <1>4, <2>1
<1>6. Variants(host.kind)' = Variants(host.kind)
  <2>1. V41' = V41  BY <1>1 DEF V41
  <2> QED  BY <1>1, <2>1 DEF Variants
<1> QED  BY <1>1, <1>5, <1>6 DEF Capturing, Session

\* What the tail of the host's steps still holds.
LEMMA TailListed ==
  ASSUME NEW s, Listed(s), s # <<>>
  PROVE  Listed(Tail(s)) /\ ToSet(Tail(s)) \subseteq ToSet(s) /\ Head(s) \in ToSet(s)
<1> DEFINE S == ToSet(s)
<1>1. s \in Seq(S) /\ Len(s) \in Nat /\ Len(s) # 0
  <2>1. s \in Seq(S)  BY DEF Listed
  <2> HIDE DEF S
  <2> QED  BY <2>1
<1> HIDE DEF S
<1>2. Tail(s) \in Seq(S) /\ Head(s) = s[1] /\ 1 \in 1 .. Len(s) /\ s[1] \in S  BY <1>1
<1>3. Listed(Tail(s)) /\ \A i \in DOMAIN Tail(s) : Tail(s)[i] \in S  BY <1>2, ListedIn
<1> DEFINE t == Tail(s)
<1> HIDE DEF t
<1>4. \A i \in DOMAIN t : t[i] \in S  BY <1>3 DEF t
<1>5. ToSet(t) \subseteq S  BY <1>4 DEF ToSet
<1> QED  BY <1>2, <1>3, <1>5 DEF S, t

\* Next1: the first step is taken from the session.
LEMMA HostStep ==
  ASSUME HostOK, host.todo # <<>>, host' = Next1
  PROVE  /\ HostOK' /\ host'.todo = Tail(host.todo) /\ host'.step = host.step + 1
         /\ host'.record = host.record /\ host'.step \in Nat /\ host.step \in Nat
         /\ ToSet(host'.todo) \subseteq ToSet(host.todo) \cup LayerKinds
         /\ cfg' = cfg => Session
<1>1. Listed(Tail(host.todo)) /\ ToSet(Tail(host.todo)) \subseteq ToSet(host.todo)
  BY TailListed DEF HostOK
<1>2. /\ DOMAIN host' = DOMAIN host /\ host'.todo = Tail(host.todo) /\ host'.step = host.step + 1
      /\ host'.record = host.record /\ host'.capture = host.capture /\ host'.kind = host.kind
      /\ host'.variant = host.variant /\ host'.graph = host.graph /\ host'.inp = host.inp
      /\ host'.at = host.at
  BY DEF HostOK, Next1
<1>3. host.step + 1 \in Nat /\ host.step \in Nat  BY DEF HostOK
<1>4. HostOK'  BY <1>1, <1>2, <1>3 DEF HostOK
<1> QED  BY <1>1, <1>2, <1>3, <1>4 DEF Session

\* The steps of a serving forward only get fewer, or are those a graph breaks for.
LEMMA ServingStep ==
  ASSUME ServingOnly, Session, ~ host.capture => ~ host'.record,
         ToSet(host'.todo) \subseteq ToSet(host.todo) \cup LayerKinds, DOMAIN graphs \subseteq DOMAIN graphs'
  PROVE  ServingOnly'
<1>1. \A s \in LayerKinds : s \notin {<<"out", 0>>, <<"init", 0>>, <<"prep", 0>>, <<"replay", 0>>}
  BY DEF LayerKinds
<1>2. LayerKinds \subseteq ServingSteps  BY DEF ServingSteps
<1>3. \A s \in {<<"out", 0>>, <<"init", 0>>, <<"prep", 0>>, <<"replay", 0>>} :
        s \in ToSet(host'.todo) => s \in ToSet(host.todo)
  BY <1>1
<1> SUFFICES ASSUME ~ host.capture
             PROVE  /\ ~ host'.record
                    /\ ToSet(host'.todo) \subseteq ServingSteps
                    /\ <<"out", 0>> \in ToSet(host'.todo) =>
                         host'.kind \in OutKinds
                    /\ <<"init", 0>> \in ToSet(host'.todo) => host'.kind \in EagerKinds
                    /\ <<"prep", 0>> \in ToSet(host'.todo) =>
                         host'.kind = "pgraph" /\ <<"pgraph", host'.variant>> \in DOMAIN graphs'
                    /\ <<"replay", 0>> \in ToSet(host'.todo) => host'.graph \in DOMAIN graphs'
  BY DEF ServingOnly, Session
<1>4. ~ host'.record /\ ToSet(host'.todo) \subseteq ServingSteps  BY <1>2 DEF ServingOnly
<1>5. <<"out", 0>> \in ToSet(host'.todo) => host'.kind \in OutKinds
  BY <1>3 DEF ServingOnly, Session
<1>6. <<"init", 0>> \in ToSet(host'.todo) => host'.kind \in EagerKinds
  BY <1>3 DEF ServingOnly, Session
<1>7. <<"prep", 0>> \in ToSet(host'.todo) =>
         host'.kind = "pgraph" /\ <<"pgraph", host'.variant>> \in DOMAIN graphs'
  BY <1>3 DEF ServingOnly, Session
<1>8. <<"replay", 0>> \in ToSet(host'.todo) => host'.graph \in DOMAIN graphs'
  BY <1>3 DEF ServingOnly, Session
<1> QED  BY <1>4, <1>5, <1>6, <1>7, <1>8

\* Which steps belong to the sessions that capture, and which to those that serve.
LEMMA Sides ==
  ASSUME AliveInv, host.todo # <<>>
  PROVE  /\ Head(host.todo) \in CaptureOnly /\ Head(host.todo) \notin {<<"load", 0>>, <<"out", 0>>} => host.capture
         /\ Head(host.todo) \notin AllSteps => ~ host.capture
         /\ ~ host.capture => Head(host.todo) \in ToSet(host.todo) /\ ~ host.record
<1>1. Head(host.todo) \in ToSet(host.todo)  BY TailListed DEF AliveInv, Framed, HostOK
<1>2. ASSUME Head(host.todo) \in CaptureOnly, Head(host.todo) \notin {<<"load", 0>>, <<"out", 0>>}, ~ host.capture
      PROVE FALSE
  <2>1. Head(host.todo) \in ServingSteps  BY <1>1, <1>2 DEF AliveInv, ServingOnly
  <2> DEFINE s == Head(host.todo)
  <2>2. s \in ServingSteps /\ s \in CaptureOnly /\ s \notin {<<"load", 0>>, <<"out", 0>>}  BY <1>2, <2>1
  <2> HIDE DEF s
  <2>3. s \notin LayerKinds  BY <2>2 DEF CaptureOnly, CaptureKinds, LayerKinds
  <2> QED  BY <2>2, <2>3 DEF CaptureOnly, CaptureKinds, ServingSteps
<1>3. ASSUME Head(host.todo) \notin AllSteps, host.capture
      PROVE FALSE
  <2>1. PICK p \in 1 .. Len(Program) : Head(host.todo) = Program[p]  BY <1>3, Standing DEF AliveInv
  <2> DEFINE P == Program
  <2>2. P \in Seq(AllSteps)  BY ProgramListed
  <2> HIDE DEF P
  <2>3. p \in 1 .. Len(P)  BY DEF P
  <2>4. P[p] \in AllSteps  BY ONLY <2>2, <2>3
  <2> QED  BY <1>3, <2>1, <2>4 DEF P
<1>4. ~ host.capture => ~ host.record  BY DEF AliveInv, ServingOnly
<1> QED  BY <1>1, <1>2, <1>3, <1>4

\* A captured graph is named by the session that captures it.
LEMMA SessionGraph ==
  ASSUME Capturing, host.capture
  PROVE  /\ host.graph \in GraphNames /\ host.kind \in GraphKinds
         /\ host.kind = "pgraph" => Bucketed(host.graph) = host.variant /\ host.variant \in {"small", "big"}
         /\ host.kind # "pgraph" => /\ Bucketed(host.graph) = host.kind
                                    /\ host.kind \in {"decode", "verify", "block", "dextend"}
         /\ Bucketed(host.graph) \in RawBuckets \cup FullBuckets
         /\ Bucketed(host.graph) = Bucket(host.kind)
<1>1. host.kind \in GraphKinds /\ host.variant \in Variants(host.kind) /\ host.graph = <<host.kind, host.variant>>
  BY DEF Capturing
<1>2. host.variant \in {"filtered", "all", "small", "big"}  BY <1>1 DEF Variants
<1>3. host.kind = "pgraph" => host.variant \in {"small", "big"}  BY <1>1 DEF Variants
<1> DEFINE k == host.kind  v == host.variant
<1>4. host.graph = <<k, v>> /\ k \in GraphKinds /\ v \in {"filtered", "all", "small", "big"}
  BY <1>1, <1>2
<1>5. <<k, v>>[1] = k /\ <<k, v>>[2] = v  OBVIOUS
<1> HIDE DEF k, v
<1>6. host.graph \in GraphNames  BY <1>4 DEF GraphNames
<1>7. Bucketed(host.graph) = IF k = "pgraph" THEN v ELSE k  BY <1>4, <1>5 DEF Bucketed
<1>8. k # "pgraph" => k \in {"decode", "verify", "block", "dextend"}  BY <1>4 DEF GraphKinds
<1>9. k = host.kind /\ v = host.variant  BY DEF k, v
<1>10. Bucket(host.kind) = IF k = "pgraph" THEN v ELSE k  BY <1>8, <1>9 DEF Bucket, Runs
<1> QED  BY <1>3, <1>4, <1>6, <1>7, <1>8, <1>9, <1>10 DEF RawBuckets, FullBuckets

\* A step that leaves the metadata where it is: from place p to the next.
Walking(p) ==
  IF host.kind = "pgraph"
  THEN p = 1 \/ p \in 3 .. RecordAt - 1 \/ p \in RecordAt + 1 .. StopAt - 1
  ELSE p \in {1, 4, RecordAt + 2} \/ p \in 5 .. RecordAt - 2 \/ p \in RecordAt + 3 .. StopAt - 1
Settled(p) ==
  LET kept(a) == Permits(graphs'[host'.graph].pool, Relied(be', objs', host'.graph), a)
  IN /\ objs'[be'.fm].kind = "full" /\ \A x \in Fields : kept(objs'[be'.fm].f[x])
     /\ (\E j \in RecordAt + 2 .. p : Program[j] = <<"sources", 1>>) /\ ~ Skipped => kept(be'.masks.addr)

\* How far apart the places of a capture are.
LEMMA Places ==
  /\ Depth \in Nat /\ Depth > 0 /\ RecordAt \in Nat /\ StopAt \in Nat
  /\ host.kind = "pgraph" => RecordAt = 3 + Depth /\ StopAt = 4 + 2 * Depth
  /\ host.kind # "pgraph" => RecordAt = 6 + Depth /\ StopAt = 9 + 2 * Depth
BY LayerPlan DEF RecordAt, StopAt

\* A capture goes to its next place while its metadata stays where it is.
LEMMA Walk ==
  ASSUME AliveInv, host.capture, Session, NEW p \in 1 .. StopAt, CaptureAt(p), Walking(p),
         host'.record = host.record, host'.step = host.step + 1,
         be'.fm = be.fm, be'.raw = be.raw, be'.bucket = be.bucket, be'.proj = be.proj,
         DOMAIN objs \subseteq DOMAIN objs', DOMAIN graphs' = DOMAIN graphs,
         \A g \in DOMAIN graphs : graphs'[g].pool = graphs[g].pool,
         host.kind # "pgraph" /\ p \in RecordAt + 2 .. StopAt - 1 => Settled(p)
  PROVE  CaptureAt(p + 1)'
<1> DEFINE b == Bucketed(host.graph)  R == RecordAt  T == StopAt  g == host.graph
<1>0. /\ cfg' = cfg /\ host'.kind = host.kind /\ host'.variant = host.variant /\ host'.graph = g
      /\ RecordAt' = R /\ StopAt' = T /\ Program' = Program /\ LowRatioGraph' = LowRatioGraph
      /\ Skipped' = Skipped
  BY ProgramStays DEF Session, Skipped
<1>1. /\ R \in Nat /\ T \in Nat
      /\ host.kind = "pgraph" => R >= 4 /\ T > R + 1
      /\ host.kind # "pgraph" => R >= 7 /\ T > R + 3
  <2> DEFINE n == Depth
  <2>1. /\ n \in Nat /\ n > 0
        /\ host.kind = "pgraph" => R = 3 + n /\ T = 4 + 2 * n
        /\ host.kind # "pgraph" => R = 6 + n /\ T = 9 + 2 * n
    BY Places
  <2> HIDE DEF n, R, T
  <2> QED  BY <2>1
<1>2. host.kind = "pgraph" => b \in {"small", "big"}  BY SessionGraph DEF AliveInv
<1> HIDE DEF b, R, T, g
<1>3. /\ p + 1 <= R <=> p <= R - 1
      /\ p # R /\ p # T
      /\ host.kind # "pgraph" => p + 1 \notin {3, R, R + 1, R + 2}
      /\ host.kind = "pgraph" => p + 1 \notin {3, R + 1}
      /\ p + 1 >= 3 => p >= 3
      /\ p \in 1 .. T
  <2>1. CASE host.kind = "pgraph"
    <3>1. p = 1 \/ p \in 3 .. R - 1 \/ p \in R + 1 .. T - 1  BY <2>1 DEF Walking, R, T
    <3> QED  BY <1>1, <2>1, <3>1
  <2>2. CASE host.kind # "pgraph"
    <3>1. p \in {1, 4, R + 2} \/ p \in 5 .. R - 2 \/ p \in R + 3 .. T - 1  BY <2>2 DEF Walking, R, T
    <3> QED  BY <1>1, <2>2, <3>1
  <2> QED  BY <2>1, <2>2
<1>4. host'.record <=> p + 1 \in R + 1 .. T
  <2>1. host.record <=> p \in R + 1 .. T  BY DEF CaptureAt, R, T
  <2>2. p \in R + 1 .. T <=> p + 1 \in R + 1 .. T  BY <1>1, <1>3
  <2> QED  BY <2>1, <2>2
<1>5. p + 1 <= R => g \notin DOMAIN graphs'
  <2>1. p <= R => g \notin DOMAIN graphs  BY DEF CaptureAt, R, g
  <2> QED  BY <1>1, <2>1
<1>6. p + 1 > R => g \in DOMAIN graphs' /\ graphs'[g].pool <= host'.step
  <2>1. p > R => g \in DOMAIN graphs /\ graphs[g].pool <= host.step  BY DEF CaptureAt, R, g
  <2>2. p + 1 > R => p > R  BY <1>1, <1>3
  <2>3. host.step \in Nat  BY DEF AliveInv, Framed, HostOK
  <2>4. g \in DOMAIN graphs => graphs[g].pool \in Nat  BY DEF AliveInv, GraphsKept
  <2> HIDE DEF AliveInv
  <2>5. p > R => graphs'[g].pool <= host.step + 1  BY <2>1, <2>3, <2>4
  <2> QED  BY <2>1, <2>2, <2>5
<1>7. p + 1 >= 3 => /\ b \in DOMAIN be'.bucket /\ be'.fm \in DOMAIN objs'
                    /\ b \in FullBuckets => be'.fm = be'.bucket[b]
                    /\ host.kind # "pgraph" => be'.raw = IF b \in RawBuckets THEN be'.bucket[b] ELSE 0
                    /\ host.kind = "pgraph" /\ LowRatioGraph => be'.proj # <<>>
  <2>1. p >= 3 => /\ b \in DOMAIN be.bucket /\ be.fm \in DOMAIN objs
                  /\ b \in FullBuckets => be.fm = be.bucket[b]
                  /\ host.kind # "pgraph" => be.raw = IF b \in RawBuckets THEN be.bucket[b] ELSE 0
                  /\ host.kind = "pgraph" /\ LowRatioGraph => be.proj # <<>>
    BY DEF CaptureAt, b
  <2> QED  BY <1>3, <2>1
<1>8. p + 1 \in {3, R, R + 1} => be'.fm = be'.bucket[b]
  <2>1. p + 1 \in {3, R, R + 1} => host.kind = "pgraph" /\ p + 1 >= 3  BY <1>1, <1>3
  <2> QED  BY <1>2, <1>7, <2>1 DEF FullBuckets
<1>9. ~ (p + 1 \in {R, R + 1} /\ b \in {"block", "dextend"})
  BY <1>2, <1>3
<1>10. host.kind # "pgraph" /\ p + 1 \in R + 2 .. T =>
         /\ objs'[be'.fm].kind = "full"
         /\ \A x \in Fields : Permits(graphs'[g].pool, Relied(be', objs', g), objs'[be'.fm].f[x])
         /\ (\E j \in R + 2 .. (p + 1) - 1 : Program[j] = <<"sources", 1>>) /\ ~ Skipped =>
              Permits(graphs'[g].pool, Relied(be', objs', g), be'.masks.addr)
  <2> SUFFICES ASSUME host.kind # "pgraph", p + 1 \in R + 2 .. T
               PROVE /\ objs'[be'.fm].kind = "full"
                     /\ \A x \in Fields : Permits(graphs'[g].pool, Relied(be', objs', g), objs'[be'.fm].f[x])
                     /\ (\E j \in R + 2 .. (p + 1) - 1 : Program[j] = <<"sources", 1>>) /\ ~ Skipped =>
                          Permits(graphs'[g].pool, Relied(be', objs', g), be'.masks.addr)
    OBVIOUS
  <2>1. p \in R + 2 .. T - 1 /\ (p + 1) - 1 = p  BY <1>1, <1>3
  <2>2. Settled(p)  BY <2>1 DEF R, T
  <2> QED  BY <1>0, <2>1, <2>2 DEF Settled, R
<1>11. Program' = Program /\ host'.graph = g /\ Bucketed(host'.graph) = b  BY <1>0 DEF b, g
<1> QED  BY <1>0, <1>4, <1>5, <1>6, <1>7, <1>8, <1>9, <1>10, <1>11 DEF CaptureAt, Allowed

\* From one place of a session to the next.
LEMMA Moved ==
  ASSUME AliveInv, host.todo # <<>>, HostOK', Session, host'.todo = Tail(host.todo),
         ~ host.capture => ~ host'.record,
         BackendOK', ObjectsOK', Bucketing', GraphsKept', DOMAIN graphs \subseteq DOMAIN graphs',
         host.capture => \A p \in 1 .. StopAt :
                           CaptureAt(p) /\ Program[p] = Head(host.todo) => CaptureAt(p + 1)'
  PROVE  AliveInv'
<1>1. ToSet(host'.todo) \subseteq ToSet(host.todo)  BY TailListed DEF AliveInv, Framed, HostOK
<1>2. ServingOnly'  BY <1>1, ServingStep DEF AliveInv
<1>3. Capturing'
  <2>1. ASSUME host.capture
        PROVE \E p \in 1 .. Len(Program) : host'.todo = From(Program, p + 1) /\ CaptureAt(p + 1)'
    <3>1. PICK p \in 1 .. Len(Program) :
            /\ CaptureAt(p) /\ Head(host.todo) = Program[p] /\ Tail(host.todo) = From(Program, p + 1)
      BY <2>1, Standing DEF AliveInv
    <3>2. p \in 1 .. StopAt  BY ProgramListed
    <3>3. CaptureAt(p + 1)'  BY <2>1, <3>1, <3>2
    <3> QED  BY <1>1, <3>1, <3>3
  <2> QED  BY <1>1, <2>1, CapturingStep DEF AliveInv
<1>4. Framed'  BY DEF Framed, AliveInv, Session
<1> QED  BY <1>2, <1>3, <1>4 DEF AliveInv

\* A step of the host that is not a replay.
LEMMA Advance ==
  ASSUME AliveInv, host.todo # <<>>, host' = Next1, cfg' = cfg,
         BackendOK', ObjectsOK', Bucketing', GraphsKept', DOMAIN graphs \subseteq DOMAIN graphs',
         host.capture => \A p \in 1 .. StopAt :
                           CaptureAt(p) /\ Program[p] = Head(host.todo) => CaptureAt(p + 1)'
  PROVE  AliveInv'
<1>1. HostOK' /\ host'.todo = Tail(host.todo) /\ host'.record = host.record /\ Session
  BY HostStep DEF AliveInv, Framed
<1>2. ~ host.capture => ~ host'.record  BY <1>1, Sides
<1> QED  BY <1>1, <1>2, Moved

\* Loading, marks and layers are such steps.
LEMMA WalkingPlaces ==
  ASSUME Capturing, host.capture, NEW p \in 1 .. StopAt,
         Program[p] \in {<<"load", 0>>, <<"mark", 0>>} \cup LayerKinds
  PROVE  Walking(p)
<1>1. CASE host.kind = "pgraph"
  <2>1. p = 1 \/ p \in 3 .. RecordAt - 1 \/ p \in RecordAt + 1 .. StopAt - 1  BY <1>1, BreakPlaces
  <2> QED  BY <1>1, <2>1 DEF Walking
<1>2. CASE host.kind # "pgraph"
  <2>1. p = 1 \/ p \in {4, RecordAt + 2} \/ p \in 5 .. RecordAt - 2 \/ p \in RecordAt + 3 .. StopAt - 1
    BY <1>2, GraphPlaces
  <2> QED  BY <1>2, <2>1 DEF Walking
<1> QED  BY <1>1, <1>2

\* All the invariant over such a step.
LEMMA WalkOn ==
  ASSUME AliveInv, host.todo # <<>>, host' = Next1, cfg' = cfg,
         BackendOK', be'.fm = be.fm, be'.raw = be.raw, be'.bucket = be.bucket, be'.proj = be.proj,
         ObjectsOK', DOMAIN objs \subseteq DOMAIN objs', SameBuckets,
         GraphsKept', DOMAIN graphs' = DOMAIN graphs,
         \A g \in DOMAIN graphs : graphs'[g].pool = graphs[g].pool,
         host.capture => Head(host.todo) \in {<<"load", 0>>, <<"mark", 0>>} \cup LayerKinds,
         host.capture /\ host.kind # "pgraph" => \A p \in RecordAt + 2 .. StopAt - 1 :
           CaptureAt(p) /\ Program[p] = Head(host.todo) => Settled(p)
  PROVE  AliveInv'
<1>1. Bucketing'  BY BucketsStay DEF AliveInv
<1>2. host'.record = host.record /\ host'.step = host.step + 1 /\ Session
  BY HostStep DEF AliveInv, Framed
<1>3. ASSUME host.capture, NEW p \in 1 .. StopAt, CaptureAt(p), Program[p] = Head(host.todo)
      PROVE CaptureAt(p + 1)'
  <2>1. Walking(p)
    <3>1. Program[p] \in {<<"load", 0>>, <<"mark", 0>>} \cup LayerKinds  BY <1>3
    <3> QED  BY <1>3, <3>1, WalkingPlaces DEF AliveInv
  <2>2. host.kind # "pgraph" /\ p \in RecordAt + 2 .. StopAt - 1 => Settled(p)  BY <1>3
  <2> QED  BY <1>2, <1>3, <2>1, <2>2, Walk
<1> QED  BY <1>1, <1>3, Advance

\* A step that leaves objects, buckets and graphs alone.
LEMMA Unmoved ==
  ASSUME AliveInv, objs' = objs, graphs' = graphs, cfg' = cfg,
         be'.bucket = be.bucket, be'.proj = be.proj, DOMAIN be' = DOMAIN be
  PROVE  BackendOK' /\ ObjectsOK' /\ SameBuckets /\ GraphsKept' /\ Bucketing'
<1>1. ObjectsOK'  BY DEF AliveInv, Framed, ObjectsOK
<1>2. SameBuckets  BY DEF AliveInv, Bucketing, SameBuckets
<1>3. BackendOK'  BY DEF AliveInv, Framed, BackendOK
<1>4. Bucketing' /\ Keeps  BY <1>2, BucketsStay DEF AliveInv
<1> QED  BY <1>1, <1>2, <1>3, <1>4, GraphsStep DEF AliveInv

\* The batch is loaded.
LEMMA LoadAlive ==
  ASSUME AliveInv, LoadBatch
  PROVE  AliveInv'
<1>1. /\ host.todo # <<>> /\ Head(host.todo) = <<"load", 0>> /\ host' = Next1
      /\ cfg' = cfg /\ be' = be /\ objs' = objs /\ graphs' = graphs
  BY DEF LoadBatch, Head1
<1>2. BackendOK' /\ ObjectsOK' /\ SameBuckets /\ GraphsKept'  BY <1>1, Unmoved
<1>3. \A p \in RecordAt + 2 .. StopAt - 1 : CaptureAt(p) /\ Program[p] = Head(host.todo)
        /\ host.kind # "pgraph" => Settled(p)
  <2> SUFFICES ASSUME NEW p \in RecordAt + 2 .. StopAt - 1, Program[p] = <<"load", 0>>, host.kind # "pgraph"
               PROVE FALSE
    BY <1>1
  <2>1. RecordAt \in Nat /\ StopAt \in Nat  BY Places
  <2>2. p \in 1 .. StopAt /\ p # 1  BY <2>1
  <2> QED  BY <2>2, GraphPlaces
<1> QED  BY <1>1, <1>2, <1>3, WalkOn

\* Steps of a forward that leave the metadata and the graphs alone.
LEMMA ServedAlive ==
  ASSUME AliveInv, host.todo # <<>>, host' = Next1, cfg' = cfg, objs' = objs, graphs' = graphs,
         be'.bucket = be.bucket, be'.proj = be.proj, DOMAIN be' = DOMAIN be,
         Head(host.todo) \notin AllSteps
  PROVE  AliveInv'
<1>1. BackendOK' /\ ObjectsOK' /\ GraphsKept' /\ Bucketing'  BY Unmoved
<1>2. ~ host.capture  BY Sides
<1> QED  BY <1>1, <1>2, Advance

\* Steps that no capture has.
LEMMA NotCapturing ==
  \A s \in {"prep", "publish", "replay", "done", "init", "snap", "enter", "exit"} : <<s, 0>> \notin AllSteps
<1>1. \A s \in {"prep", "publish", "replay", "done", "init", "snap", "enter", "exit"} : <<s, 0>> \notin LayerKinds
  BY DEF LayerKinds
<1> QED  BY <1>1 DEF AllSteps, CaptureOnly, CaptureKinds

\* The scheduler is told, the forward ends.
LEMMA PublishAlive ==
  ASSUME AliveInv, Publish \/ Done
  PROVE  AliveInv'
<1>1. /\ host.todo # <<>> /\ Head(host.todo) \in {<<"publish", 0>>, <<"done", 0>>} /\ host' = Next1
      /\ cfg' = cfg /\ be' = be /\ objs' = objs /\ graphs' = graphs
  BY DEF Publish, Done, Head1
<1>2. Head(host.todo) \notin AllSteps  BY <1>1, NotCapturing
<1> QED  BY <1>1, <1>2, ServedAlive

\* The late layers' tail is entered and left.
LEMMA TailAlive ==
  ASSUME AliveInv, EnterTail \/ ExitTail
  PROVE  AliveInv'
<1>1. /\ host.todo # <<>> /\ Head(host.todo) \in {<<"enter", 0>>, <<"exit", 0>>} /\ host' = Next1
      /\ cfg' = cfg /\ objs' = objs /\ graphs' = graphs
  BY DEF EnterTail, ExitTail, Head1
<1>2. be'.bucket = be.bucket /\ be'.proj = be.proj /\ DOMAIN be' = DOMAIN be
  <2>1. DOMAIN be = {"fm", "tail", "raw", "masks", "saved", "bucket", "proj"}  BY DEF AliveInv, Framed, BackendOK
  <2>2. CASE EnterTail
    <3>1. \E a, b, c : be' = [be EXCEPT !.fm = a, !.masks = b, !.saved = c]  BY <2>2, Zenon DEF EnterTail
    <3> QED  BY <2>1, <3>1
  <2>3. CASE ExitTail
    <3>1. \E a, b : be' = [be EXCEPT !.fm = a, !.masks = b]  BY <2>3, Zenon DEF ExitTail
    <3> QED  BY <2>1, <3>1
  <2> QED  BY <2>2, <2>3
<1>3. Head(host.todo) \notin AllSteps  BY <1>1, NotCapturing
<1> QED  BY <1>1, <1>2, <1>3, ServedAlive

\* Nothing but the device moves.
LEMMA StillAlive ==
  ASSUME AliveInv, UNCHANGED <<cfg, host, be, objs, graphs>>
  PROVE  AliveInv'
<1>1. Framed'  BY DEF AliveInv, Framed, HostOK, BackendOK, ObjectsOK
<1>2. GraphsKept' /\ Bucketing'  BY Unmoved
<1>3. ServingOnly'  BY DEF AliveInv, ServingOnly
<1>4. Capturing'
  <2>1. \A p : CaptureAt(p)' <=> CaptureAt(p)
    <3>1. /\ Program' = Program /\ RecordAt' = RecordAt /\ StopAt' = StopAt /\ LowRatioGraph' = LowRatioGraph
          /\ Skipped' = Skipped
      BY ProgramStays DEF Skipped
    <3>2. \A a : Permits(graphs'[host'.graph].pool, Relied(be', objs', host'.graph), a)
                   <=> Permits(graphs[host.graph].pool, Relied(be, objs, host.graph), a)
      OBVIOUS
    <3> QED  BY <3>1, <3>2 DEF CaptureAt, Allowed
  <2>2. Program' = Program  BY ProgramStays
  <2>3. Variants(host.kind)' = Variants(host.kind)  BY DEF Variants, V41
  <2>4. AliveInv => Capturing  BY DEF AliveInv
  <2> QED  BY <2>1, <2>2, <2>3, <2>4 DEF Capturing
<1> QED  BY <1>1, <1>2, <1>3, <1>4 DEF AliveInv

\* Replay takes the recorded kernels up to the next stop: never past the graph.
LEMMA NextStopIn ==
  ASSUME AliveInv, host.graph \in DOMAIN graphs, host.at < Len(RecordedOps)
  PROVE  /\ NextStop \in DOMAIN RecordedOps /\ NextStop \in Nat
         /\ RecordedOps[NextStop].step \in {<<>>, <<"mark", 0>>} \cup LayerKinds
<1> DEFINE s == RecordedOps
           S == {i \in host.at + 1 .. Len(s) : s[i].step # <<>> \/ i = Len(s)}
<1>1. Listed(s) /\ \A i \in DOMAIN s : s[i].step \in {<<>>, <<"mark", 0>>} \cup LayerKinds
  <2>1. Over(graphs[host.graph].pool, Relied(be, objs, host.graph), s)  BY DEF AliveInv, GraphsKept, RecordedOps
  <2> HIDE DEF s
  <2> QED  BY <2>1 DEF Over, OpKept
<1>2. NextStop = CHOOSE x \in S : \A y \in S : x <= y  BY DEF NextStop, Min
<1> HIDE DEF s
<1>3. Len(s) \in Nat /\ DOMAIN s = 1 .. Len(s)
  <2> DEFINE W == ToSet(s)
  <2>1. s \in Seq(W)  BY <1>1 DEF Listed
  <2> HIDE DEF W
  <2> QED  BY <2>1
<1>4. host.at \in Nat  BY DEF AliveInv, Framed, HostOK
<1>5. Len(s) \in S /\ S \subseteq 1 .. Len(s)  BY <1>3, <1>4 DEF s
<1>6. \E x \in S : \A y \in S : x <= y
  <2>1. S \subseteq Nat /\ S # {}  BY <1>3, <1>5
  <2> HIDE DEF S
  <2>2. PICK x \in S : \A y \in S : ~ (y < x)  BY <2>1, Least
  <2>3. \A y \in S : x <= y  BY <2>1, <2>2
  <2> QED  BY <2>3
<1> HIDE DEF S
<1>7. NextStop \in S  BY <1>2, <1>6
<1>8. NextStop \in 1 .. Len(s)  BY <1>5, <1>7
<1> QED  BY <1>1, <1>3, <1>8 DEF s

\* A part of a graph is replayed; a break goes to the host.
LEMMA ReplayAlive ==
  ASSUME AliveInv, Replay
  PROVE  AliveInv'
<1>1. /\ host.todo # <<>> /\ Head(host.todo) = <<"replay", 0>> /\ host.at < Len(RecordedOps)
      /\ cfg' = cfg /\ be' = be /\ objs' = objs /\ graphs' = graphs
  BY DEF Replay, Head1
<1> DEFINE stop == RecordedOps[NextStop].step
           rest == IF stop \in {<<>>, <<"mark", 0>>} THEN host.todo ELSE <<stop>> \o host.todo
<1>2. host' = [host EXCEPT !.at = NextStop, !.step = host.step + 1, !.todo = rest]
  BY DEF Replay
<1>3. ~ host.capture  BY <1>1, NotCapturing, Sides
<1>4. host.graph \in DOMAIN graphs
  <2>1. <<"replay", 0>> \in ToSet(host.todo)  BY <1>1, <1>3, Sides
  <2> QED  BY <1>3, <2>1 DEF AliveInv, ServingOnly
<1>5. NextStop \in Nat /\ stop \in {<<>>, <<"mark", 0>>} \cup LayerKinds  BY <1>1, <1>4, NextStopIn
<1> HIDE DEF stop
<1>6. Listed(rest) /\ ToSet(rest) \subseteq ToSet(host.todo) \cup LayerKinds
  <2>1. Listed(host.todo)  BY DEF AliveInv, Framed, HostOK
  <2>2. CASE stop \in {<<>>, <<"mark", 0>>}  BY <2>1, <2>2
  <2>3. CASE stop \in LayerKinds /\ stop \notin {<<>>, <<"mark", 0>>}
    <3> DEFINE one == <<stop>>  r == one \o host.todo
    <3>1. rest = r  BY <2>3
    <3>2. Listed(one) /\ Len(one) = 1 /\ DOMAIN one = {1} /\ one[1] = stop  BY ListedFew
    <3> HIDE DEF one
    <3>3. /\ Listed(r)
          /\ \A i \in DOMAIN r : \/ i \in DOMAIN one /\ r[i] = one[i]
                                 \/ i - Len(one) \in DOMAIN host.todo /\ r[i] = host.todo[i - Len(one)]
      BY <2>1, <3>2, ListedConcat
    <3> HIDE DEF r
    <3>4. \A i \in DOMAIN r : r[i] = stop \/ \E k \in DOMAIN host.todo : r[i] = host.todo[k]
      BY <3>2, <3>3
    <3>5. ToSet(r) \subseteq ToSet(host.todo) \cup {stop}  BY <3>4 DEF ToSet
    <3> HIDE DEF rest
    <3> QED  BY <2>3, <3>1, <3>3, <3>5
  <2> QED  BY <1>5, <2>2, <2>3
<1> HIDE DEF rest
<1>7. /\ DOMAIN host' = DOMAIN host /\ host'.at = NextStop /\ host'.step = host.step + 1 /\ host'.todo = rest
      /\ host'.record = host.record /\ Session
  BY <1>1, <1>2 DEF AliveInv, Framed, HostOK, Session
<1>8. HostOK'
  <2>1. host.step + 1 \in Nat  BY DEF AliveInv, Framed, HostOK
  <2> QED  BY <1>5, <1>6, <1>7, <2>1 DEF AliveInv, Framed, HostOK, Session
<1>9. BackendOK' /\ ObjectsOK' /\ GraphsKept' /\ Bucketing'  BY <1>1, Unmoved
<1>10. ServingOnly'
  <2>1. ~ host.capture => ~ host'.record  BY <1>7, Sides, <1>1
  <2> QED  BY <1>1, <1>6, <1>7, <2>1, ServingStep DEF AliveInv
<1>11. Capturing'  BY <1>3, <1>7 DEF Capturing, Session
<1> QED  BY <1>1, <1>8, <1>9, <1>10, <1>11 DEF AliveInv, Framed

\* The replay is over.
LEMMA ReplayDoneAlive ==
  ASSUME AliveInv, ReplayDone
  PROVE  AliveInv'
<1>1. /\ host.todo # <<>> /\ Head(host.todo) = <<"replay", 0>>
      /\ cfg' = cfg /\ be' = be /\ objs' = objs /\ graphs' = graphs
      /\ host' = [Next1 EXCEPT !.at = 0]
  BY DEF ReplayDone, Head1
<1>2. ~ host.capture  BY <1>1, NotCapturing, Sides
<1>3. BackendOK' /\ ObjectsOK' /\ GraphsKept' /\ Bucketing'  BY <1>1, Unmoved
<1>4. /\ DOMAIN host' = DOMAIN host /\ host'.at = 0 /\ host'.step = host.step + 1
      /\ host'.todo = Tail(host.todo) /\ host'.record = host.record /\ Session
  BY <1>1 DEF AliveInv, Framed, HostOK, Session, Next1
<1>5. HostOK'
  <2>1. host.step + 1 \in Nat  BY DEF AliveInv, Framed, HostOK
  <2>2. Listed(Tail(host.todo))  BY <1>1, TailListed DEF AliveInv, Framed, HostOK
  <2> QED  BY <1>4, <2>1, <2>2 DEF AliveInv, Framed, HostOK, Session
<1>6. ~ host.capture => ~ host'.record  BY <1>1, <1>4, Sides
<1> QED  BY <1>1, <1>2, <1>3, <1>4, <1>5, <1>6, Moved

\* A place of the capture, from what holds after the step.
LEMMA Placed ==
  ASSUME Session, NEW q,
         host'.record <=> q \in RecordAt + 1 .. StopAt,
         q <= RecordAt => host.graph \notin DOMAIN graphs',
         q > RecordAt => host.graph \in DOMAIN graphs' /\ graphs'[host.graph].pool <= host'.step,
         q >= 3 => /\ Bucketed(host.graph) \in DOMAIN be'.bucket /\ be'.fm \in DOMAIN objs'
                   /\ Bucketed(host.graph) \in FullBuckets => be'.fm = be'.bucket[Bucketed(host.graph)]
                   /\ host.kind # "pgraph" =>
                        be'.raw = IF Bucketed(host.graph) \in RawBuckets THEN be'.bucket[Bucketed(host.graph)] ELSE 0
                   /\ host.kind = "pgraph" /\ LowRatioGraph => be'.proj # <<>>,
         q \in {3, RecordAt, RecordAt + 1} => be'.fm = be'.bucket[Bucketed(host.graph)],
         q \in {RecordAt, RecordAt + 1} /\ Bucketed(host.graph) \in {"block", "dextend"} =>
           objs'[be'.fm].f["sched"] = None,
         host.kind # "pgraph" /\ q \in RecordAt + 2 .. StopAt =>
           /\ objs'[be'.fm].kind = "full"
           /\ \A x \in Fields : Permits(graphs'[host.graph].pool, Relied(be', objs', host.graph), objs'[be'.fm].f[x])
           /\ (\E j \in RecordAt + 2 .. q - 1 : Program[j] = <<"sources", 1>>) /\ ~ Skipped =>
                Permits(graphs'[host.graph].pool, Relied(be', objs', host.graph), be'.masks.addr)
  PROVE  CaptureAt(q)'
<1>1. /\ cfg' = cfg /\ host'.kind = host.kind /\ host'.graph = host.graph
      /\ RecordAt' = RecordAt /\ StopAt' = StopAt /\ Program' = Program /\ LowRatioGraph' = LowRatioGraph
      /\ Skipped' = Skipped
  BY ProgramStays DEF Session, Skipped
<1> QED  BY <1>1 DEF CaptureAt, Allowed

\* The host's step at the ends of a recording.
LEMMA RecordStep ==
  ASSUME HostOK, host.todo # <<>>, NEW r \in BOOLEAN, host' = [Next1 EXCEPT !.record = r]
  PROVE  /\ HostOK' /\ host'.todo = Tail(host.todo) /\ host'.step = host.step + 1
         /\ host'.record = r /\ host.step \in Nat
         /\ cfg' = cfg => Session
<1>1. Listed(Tail(host.todo))  BY TailListed DEF HostOK
<1>2. /\ DOMAIN host' = DOMAIN host /\ host'.todo = Tail(host.todo) /\ host'.step = host.step + 1
      /\ host'.record = r /\ host'.capture = host.capture /\ host'.kind = host.kind
      /\ host'.variant = host.variant /\ host'.graph = host.graph /\ host'.inp = host.inp
      /\ host'.at = host.at
  BY DEF HostOK, Next1
<1>3. host.step + 1 \in Nat /\ host.step \in Nat  BY DEF HostOK
<1>4. HostOK'  BY <1>1, <1>2, <1>3 DEF HostOK
<1> QED  BY <1>1, <1>2, <1>3, <1>4 DEF Session

\* The recording begins: its pool is new, and nothing is recorded yet.
LEMMA BeginAlive ==
  ASSUME AliveInv, BeginRecording
  PROVE  AliveInv'
<1> DEFINE h == host.graph  new == [pool |-> host.step, ops |-> <<>>]
<1>1. /\ host.todo # <<>> /\ Head(host.todo) = <<"record", 0>>
      /\ cfg' = cfg /\ be' = be /\ objs' = objs
      /\ graphs' = Put(graphs, h, new)
      /\ host' = [Next1 EXCEPT !.record = TRUE]
  BY DEF BeginRecording, Head1
<1>2. /\ HostOK' /\ host'.todo = Tail(host.todo) /\ host'.step = host.step + 1 /\ host'.record = TRUE
      /\ host.step \in Nat /\ Session
  BY <1>1, RecordStep DEF AliveInv, Framed
<1>3. host.capture
  <2>1. <<"record", 0>> \in CaptureOnly /\ <<"record", 0>> \notin {<<"load", 0>>, <<"out", 0>>}
    BY DEF CaptureOnly, CaptureKinds
  <2> QED  BY <1>1, <2>1, Sides
<1>4. \A p \in 1 .. StopAt : Program[p] = <<"record", 0>> => p = RecordAt  BY GraphPlaces, BreakPlaces
<1>5. PICK p \in 1 .. Len(Program) : CaptureAt(p) /\ Head(host.todo) = Program[p]
  BY <1>1, <1>3, Standing DEF AliveInv
<1>6. p = RecordAt /\ CaptureAt(RecordAt)  BY <1>1, <1>4, <1>5, ProgramListed
<1>7. RecordAt \in Nat /\ RecordAt > 3 /\ StopAt \in Nat /\ StopAt > RecordAt  BY Places
<1>8. /\ h \notin DOMAIN graphs /\ Bucketed(h) \in DOMAIN be.bucket /\ be.fm \in DOMAIN objs
      /\ Bucketed(h) \in FullBuckets => be.fm = be.bucket[Bucketed(h)]
      /\ host.kind # "pgraph" => be.raw = IF Bucketed(h) \in RawBuckets THEN be.bucket[Bucketed(h)] ELSE 0
      /\ host.kind = "pgraph" /\ LowRatioGraph => be.proj # <<>>
      /\ be.fm = be.bucket[Bucketed(h)]
      /\ Bucketed(h) \in {"block", "dextend"} => objs[be.fm].f["sched"] = None
  BY <1>6, <1>7 DEF CaptureAt
<1>9. h \in GraphNames  BY <1>3, SessionGraph DEF AliveInv
<1> HIDE DEF h, new
<1>10. /\ DOMAIN graphs' = DOMAIN graphs \cup {h} /\ graphs'[h] = new
       /\ \A g \in DOMAIN graphs : graphs'[g] = graphs[g]
  BY <1>1, <1>8 DEF Put
<1>11. DOMAIN new = {"pool", "ops"} /\ new.pool = host.step /\ new.ops = <<>>  BY DEF new
<1>12. GraphsKept'
  <2> SUFFICES ASSUME NEW g \in DOMAIN graphs'
               PROVE /\ g \in GraphNames /\ DOMAIN graphs'[g] = {"pool", "ops"} /\ graphs'[g].pool \in Nat
                     /\ Bucketed(g) \in DOMAIN be.bucket
                     /\ Over(graphs'[g].pool, Relied(be, objs, g), graphs'[g].ops)
    BY <1>1 DEF GraphsKept
  <2>1. CASE g = h  BY <2>1, <1>2, <1>8, <1>9, <1>10, <1>11, OverNone
  <2>2. CASE g # h
    <3>1. g \in DOMAIN graphs /\ graphs'[g] = graphs[g]  BY <2>2, <1>10
    <3> QED  BY <3>1 DEF AliveInv, GraphsKept
  <2> QED  BY <2>1, <2>2
<1>13. BackendOK' /\ ObjectsOK' /\ Bucketing'
  BY <1>1 DEF AliveInv, Framed, BackendOK, ObjectsOK, Bucketing
<1>14. ASSUME NEW q \in 1 .. StopAt, Program[q] = Head(host.todo)
       PROVE CaptureAt(q + 1)'
  <2>0. q = RecordAt  BY <1>1, <1>4, <1>14
  <2>1. q + 1 \in RecordAt + 1 .. StopAt /\ ~ (q + 1 <= RecordAt) /\ q + 1 > RecordAt
        /\ q + 1 >= 3 /\ q + 1 \notin RecordAt + 2 .. StopAt
    BY <1>7, <2>0
  <2>2. h \in DOMAIN graphs' /\ graphs'[h].pool <= host'.step  BY <1>2, <1>10, <1>11
  <2> QED  BY <1>1, <1>2, <1>8, <2>1, <2>2, Placed DEF h
<1>16. DOMAIN graphs \subseteq DOMAIN graphs'  BY <1>10
<1> QED  BY <1>1, <1>2, <1>3, <1>12, <1>13, <1>14, <1>16, Moved

\* The recording ends.
LEMMA EndAlive ==
  ASSUME AliveInv, EndCapture
  PROVE  AliveInv'
<1>1. /\ host.todo # <<>> /\ Head(host.todo) = <<"stop", 0>>
      /\ cfg' = cfg /\ be' = be /\ objs' = objs /\ graphs' = graphs
      /\ host' = [Next1 EXCEPT !.record = FALSE]
  BY DEF EndCapture, Head1
<1>2. /\ HostOK' /\ host'.todo = Tail(host.todo) /\ host'.step = host.step + 1 /\ host'.record = FALSE
      /\ host.step \in Nat /\ Session
  BY <1>1, RecordStep DEF AliveInv, Framed
<1>3. host.capture
  <2>1. <<"stop", 0>> \in CaptureOnly /\ <<"stop", 0>> \notin {<<"load", 0>>, <<"out", 0>>}
    BY DEF CaptureOnly, CaptureKinds
  <2> QED  BY <1>1, <2>1, Sides
<1>4. \A p \in 1 .. StopAt : Program[p] = <<"stop", 0>> => p = StopAt  BY GraphPlaces, BreakPlaces
<1>5. PICK p \in 1 .. Len(Program) : CaptureAt(p) /\ Head(host.todo) = Program[p]
  BY <1>1, <1>3, Standing DEF AliveInv
<1>6. CaptureAt(StopAt)  BY <1>1, <1>4, <1>5, ProgramListed
<1>7. RecordAt \in Nat /\ RecordAt > 3 /\ StopAt \in Nat /\ StopAt > RecordAt  BY Places
<1>8. /\ host.graph \in DOMAIN graphs /\ graphs[host.graph].pool <= host.step
      /\ Bucketed(host.graph) \in DOMAIN be.bucket /\ be.fm \in DOMAIN objs
      /\ Bucketed(host.graph) \in FullBuckets => be.fm = be.bucket[Bucketed(host.graph)]
      /\ host.kind # "pgraph" =>
           be.raw = IF Bucketed(host.graph) \in RawBuckets THEN be.bucket[Bucketed(host.graph)] ELSE 0
      /\ host.kind = "pgraph" /\ LowRatioGraph => be.proj # <<>>
  BY <1>6, <1>7 DEF CaptureAt
<1>9. BackendOK' /\ ObjectsOK' /\ GraphsKept' /\ Bucketing'  BY <1>1, Unmoved
<1>10. ASSUME NEW q \in 1 .. StopAt, Program[q] = Head(host.todo)
       PROVE CaptureAt(q + 1)'
  <2>0. q = StopAt  BY <1>1, <1>4, <1>10
  <2>1. q + 1 \notin RecordAt + 1 .. StopAt /\ ~ (q + 1 <= RecordAt) /\ q + 1 > RecordAt
        /\ q + 1 >= 3 /\ q + 1 \notin RecordAt + 2 .. StopAt
        /\ q + 1 \notin {3, RecordAt, RecordAt + 1} /\ q + 1 \notin {RecordAt, RecordAt + 1}
    BY <1>7, <2>0
  <2>2. graphs'[host.graph].pool <= host'.step
    <3>1. graphs[host.graph].pool \in Nat  BY <1>8 DEF AliveInv, GraphsKept
    <3> QED  BY <1>1, <1>2, <1>8, <3>1
  <2> QED  BY <1>1, <1>2, <1>8, <2>1, <2>2, Placed
<1> QED  BY <1>1, <1>2, <1>3, <1>9, <1>10, Moved

\* An object that changes in its schedule, or outside of its fields, only.
LEMMA Touched1 ==
  ASSUME AliveInv, NEW k, NEW o, objs' = [objs EXCEPT ![k] = o],
         k \in DOMAIN objs => /\ DOMAIN o = DOMAIN objs[k] /\ o.kind = objs[k].kind
                              /\ DOMAIN o.f = DOMAIN objs[k].f
                              /\ \A x \in DOMAIN o.f : x # "sched" => o.f[x] = objs[k].f[x]
  PROVE  /\ ObjectsOK' /\ SameBuckets /\ DOMAIN objs' = DOMAIN objs
         /\ \A i \in DOMAIN objs : i # k => objs'[i] = objs[i]
         /\ k \in DOMAIN objs => objs'[k] = o
<1>1. CASE k \notin DOMAIN objs
  <2>1. objs' = objs
    <3>1. Listed(objs)  BY DEF AliveInv, Framed, ObjectsOK
    <3> DEFINE S == ToSet(objs)
    <3>2. objs \in Seq(S)  BY <3>1 DEF Listed
    <3> HIDE DEF S
    <3>3. objs = [i \in DOMAIN objs |-> objs[i]]  BY <3>2
    <3>4. objs' = [i \in DOMAIN objs |-> objs[i]]  BY <1>1
    <3> QED  BY <3>3, <3>4
  <2>2. ObjectsOK'  BY <2>1 DEF AliveInv, Framed, ObjectsOK
  <2>3. SameBuckets  BY <2>1 DEF AliveInv, Bucketing, SameBuckets
  <2> QED  BY <1>1, <2>1, <2>2, <2>3
<1>2. CASE k \in DOMAIN objs
  <2>1. ObjOK(objs[k])  BY <1>2 DEF AliveInv, Framed, ObjectsOK
  <2>2. ObjOK(o)  BY <1>2, <2>1 DEF ObjOK
  <2>3. /\ ObjectsOK' /\ DOMAIN objs' = DOMAIN objs /\ objs'[k] = o
        /\ \A i \in DOMAIN objs : i # k => objs'[i] = objs[i]
    BY <1>2, <2>2, ObjectsExcept DEF AliveInv, Framed
  <2>4. SameBuckets
    <3> SUFFICES ASSUME NEW b \in DOMAIN be.bucket
                 PROVE /\ be.bucket[b] \in DOMAIN objs' /\ objs'[be.bucket[b]].kind = objs[be.bucket[b]].kind
                       /\ \A x \in Lasting(b) : objs'[be.bucket[b]].f[x] = objs[be.bucket[b]].f[x]
      BY DEF SameBuckets
    <3>1. be.bucket[b] \in DOMAIN objs  BY DEF AliveInv, Bucketing
    <3>2. CASE be.bucket[b] # k  BY <2>3, <3>1, <3>2
    <3>3. CASE be.bucket[b] = k
      <4>1. o.kind = (IF b \in RawBuckets THEN "raw" ELSE "full")  BY <1>2, <3>3 DEF AliveInv, Bucketing
      <4>2. DOMAIN o.f = IF b \in RawBuckets THEN RawFields ELSE Fields  BY <2>2, <4>1 DEF ObjOK
      <4>3. "sched" \notin Lasting(b)  BY DEF Lasting, RawFields
      <4>4. Lasting(b) \subseteq DOMAIN o.f  BY <4>2 DEF Lasting
      <4>5. \A x \in Lasting(b) : o.f[x] = objs[k].f[x]  BY <1>2, <4>3, <4>4
      <4> QED  BY <1>2, <2>3, <3>1, <3>3, <4>5
    <3> QED  BY <3>2, <3>3
  <2> QED  BY <2>3, <2>4
<1> QED  BY <1>1, <1>2

\* After the warm-up the capture is back at its bucket's metadata, without a schedule.
LEMMA WarmAlive ==
  ASSUME AliveInv, AfterWarmup
  PROVE  AliveInv'
<1> DEFINE h == host.graph  b == Bucketed(h)
           o == [objs[be.fm] EXCEPT !.f = [objs[be.fm].f EXCEPT !["sched"] = None]]
<1>1. /\ host.todo # <<>> /\ Head(host.todo) = <<"warm", 0>> /\ host' = Next1
      /\ cfg' = cfg /\ graphs' = graphs
      /\ objs' = IF be.fm # 0 /\ objs[be.fm].kind = "full" THEN [objs EXCEPT ![be.fm] = o] ELSE objs
      /\ be' = [be EXCEPT !.fm = IF be.raw # 0 THEN be.raw ELSE be.fm]
  BY DEF AfterWarmup, Head1, Full, Obj
<1>2. /\ HostOK' /\ host'.step = host.step + 1 /\ host'.record = host.record /\ Session
  BY <1>1, HostStep DEF AliveInv, Framed
<1>3. host.capture
  <2>1. <<"warm", 0>> \in CaptureOnly /\ <<"warm", 0>> \notin {<<"load", 0>>, <<"out", 0>>}
    BY DEF CaptureOnly, CaptureKinds
  <2> QED  BY <1>1, <2>1, Sides
<1>4. \A p \in 1 .. StopAt : Program[p] = <<"warm", 0>> => host.kind # "pgraph" /\ p = RecordAt - 1
  BY GraphPlaces, BreakPlaces
<1>5. PICK p \in 1 .. Len(Program) : CaptureAt(p) /\ Head(host.todo) = Program[p]
  BY <1>1, <1>3, Standing DEF AliveInv
<1>6. host.kind # "pgraph" /\ p = RecordAt - 1  BY <1>1, <1>4, <1>5, ProgramListed
<1>7. RecordAt \in Nat /\ RecordAt > 6 /\ StopAt \in Nat /\ StopAt > RecordAt  BY <1>6, Places
<1>8. /\ h \notin DOMAIN graphs /\ b \in DOMAIN be.bucket /\ be.fm \in DOMAIN objs /\ ~ host.record
      /\ b \in FullBuckets => be.fm = be.bucket[b]
      /\ be.raw = IF b \in RawBuckets THEN be.bucket[b] ELSE 0
  BY <1>5, <1>6, <1>7 DEF CaptureAt
<1>9. b \in RawBuckets \cup FullBuckets  BY <1>3, SessionGraph DEF AliveInv
<1>10. be.bucket[b] \in DOMAIN objs /\ be.bucket[b] # 0 /\ be.fm # 0
  <2>1. be.bucket[b] \in DOMAIN objs  BY <1>8 DEF AliveInv, Bucketing
  <2>2. 0 \notin DOMAIN objs
    <3>1. Listed(objs)  BY DEF AliveInv, Framed, ObjectsOK
    <3> DEFINE S == ToSet(objs)
    <3>2. objs \in Seq(S)  BY <3>1 DEF Listed
    <3> HIDE DEF S
    <3> QED  BY <3>2
  <2> QED  BY <1>8, <2>1, <2>2
<1>11. /\ be'.fm = be.bucket[b] /\ be'.raw = be.raw /\ be'.bucket = be.bucket /\ be'.proj = be.proj
       /\ DOMAIN be' = DOMAIN be
  <2>1. (IF be.raw # 0 THEN be.raw ELSE be.fm) = be.bucket[b]  BY <1>8, <1>9, <1>10
  <2>2. DOMAIN be = {"fm", "tail", "raw", "masks", "saved", "bucket", "proj"}  BY DEF AliveInv, Framed, BackendOK
  <2> HIDE DEF b
  <2> QED  BY <1>1, <2>1, <2>2
<1>12. /\ ObjectsOK' /\ SameBuckets /\ DOMAIN objs' = DOMAIN objs
       /\ objs[be.fm].kind = "full" => objs'[be.fm].f["sched"] = None
  <2>1. CASE objs[be.fm].kind = "full"
    <3>1. ObjOK(objs[be.fm])  BY <1>8 DEF AliveInv, Framed, ObjectsOK
    <3>2. /\ DOMAIN o = DOMAIN objs[be.fm] /\ o.kind = objs[be.fm].kind /\ DOMAIN o.f = DOMAIN objs[be.fm].f
          /\ \A x \in DOMAIN o.f : x # "sched" => o.f[x] = objs[be.fm].f[x]
          /\ o.f["sched"] = None
      BY <2>1, <3>1 DEF ObjOK, Fields
    <3> HIDE DEF o
    <3>3. objs' = [objs EXCEPT ![be.fm] = o]  BY <1>1, <1>10, <2>1
    <3> QED  BY <1>8, <3>2, <3>3, Touched1
  <2>2. CASE objs[be.fm].kind # "full"
    <3>1. objs' = objs  BY <1>1, <2>2
    <3> QED  BY <2>2, <3>1 DEF AliveInv, Framed, ObjectsOK, Bucketing, SameBuckets
  <2> QED  BY <2>1, <2>2
<1>13. b \in {"block", "dextend"} => objs'[be'.fm].f["sched"] = None
  <2> SUFFICES ASSUME b \in {"block", "dextend"}  PROVE objs'[be'.fm].f["sched"] = None
    OBVIOUS
  <2>1. b \in FullBuckets /\ b \notin RawBuckets  BY DEF FullBuckets, RawBuckets
  <2>2. be.fm = be.bucket[b] /\ objs[be.fm].kind = "full"  BY <1>8, <2>1 DEF AliveInv, Bucketing
  <2> QED  BY <1>11, <1>12, <2>2
<1> HIDE DEF b, h, o
<1>14. Bucketing' /\ Keeps /\ GraphsKept' /\ BackendOK'
  <2>1. Bucketing' /\ Keeps  BY <1>1, <1>11, <1>12, BucketsStay DEF AliveInv
  <2> QED  BY <1>1, <1>11, <2>1, GraphsStep DEF AliveInv, Framed, BackendOK
<1>15. ASSUME NEW q \in 1 .. StopAt, Program[q] = Head(host.todo)
       PROVE CaptureAt(q + 1)'
  <2>1. q = RecordAt - 1  BY <1>1, <1>4, <1>15
  <2>2. q + 1 \notin RecordAt + 1 .. StopAt /\ q + 1 <= RecordAt /\ ~ (q + 1 > RecordAt)
        /\ q + 1 >= 3 /\ q + 1 \notin RecordAt + 2 .. StopAt
    BY <1>7, <2>1
  <2>3. be'.fm \in DOMAIN objs'  BY <1>10, <1>11, <1>12
  <2> QED  BY <1>1, <1>2, <1>6, <1>8, <1>11, <1>13, <2>2, <2>3, Placed DEF b, h
<1> QED  BY <1>1, <1>2, <1>3, <1>12, <1>14, <1>15, Advance

-----------------------------------------------------------------------------
(* Steps that are recorded.                                                *)

\* While a graph is recorded: new tensors and the static inputs are permitted.
LEMMA Recording ==
  ASSUME AliveInv, host.record, host.todo # <<>>
  PROVE  /\ host.capture /\ host.graph \in DOMAIN graphs
         /\ graphs[host.graph].pool \in Nat /\ host.step \in Nat /\ graphs[host.graph].pool <= host.step
         /\ \A a, x : Allowed(New(a, x))
         /\ Allowed(None) /\ Allowed(Static) /\ Allowed(host.inp)
         /\ be.fm \in DOMAIN objs
         /\ \E p \in RecordAt + 1 .. StopAt : CaptureAt(p) /\ Head(host.todo) = Program[p]
<1> DEFINE pool == graphs[host.graph].pool
<1>1. host.capture  BY Sides
<1>2. PICK p \in 1 .. Len(Program) : CaptureAt(p) /\ Head(host.todo) = Program[p]
  BY <1>1, Standing DEF AliveInv
<1>3. p \in RecordAt + 1 .. StopAt  BY <1>2 DEF CaptureAt
<1>4. RecordAt \in Nat /\ RecordAt > 3  BY Places
<1>5. p > RecordAt /\ p >= 3  BY <1>3, <1>4
<1>6. host.graph \in DOMAIN graphs /\ pool <= host.step /\ be.fm \in DOMAIN objs  BY <1>2, <1>5 DEF CaptureAt
<1>7. pool \in Nat /\ host.step \in Nat  BY <1>6 DEF AliveInv, GraphsKept, Framed, HostOK
<1>8. \A a, x : Allowed(New(a, x))
  <2>1. \A a, x : New(a, x)[1] = host.step  BY DEF New
  <2> HIDE DEF pool
  <2>2. \A a, x : New(a, x)[1] \in Nat /\ New(a, x)[1] >= pool  BY <1>6, <1>7, <2>1
  <2> QED  BY <2>2 DEF Allowed, Permits, pool
<1>9. Static \in Permanent  BY DEF Permanent
<1>10. Allowed(Static) /\ Allowed(None)  BY <1>9 DEF Allowed, Permits, Relied
<1>11. host.inp = Static  BY <1>1 DEF AliveInv, Capturing
<1> QED  BY <1>1, <1>2, <1>3, <1>6, <1>7, <1>8, <1>10, <1>11

\* What the layers find in the metadata while they are recorded.
LEMMA FieldsAllowed ==
  ASSUME AliveInv, host.record, host.todo # <<>>, Head(host.todo) \in LayerKinds
  PROVE  /\ host.kind # "pgraph" =>
              /\ objs[be.fm].kind = "full" /\ \A x \in Fields : Allowed(objs[be.fm].f[x])
              /\ \E p \in RecordAt + 3 .. StopAt - 1 : CaptureAt(p) /\ Head(host.todo) = Program[p]
         /\ host.kind = "pgraph" => \A x \in Fields \ {"pages", "swa", "sched"} : Allowed(objs[be.fm].f[x])
         /\ host.kind = "pgraph" /\ LowRatioGraph => be.proj # <<>>
<1>1. host.capture  BY Recording
<1>2. PICK p \in RecordAt + 1 .. StopAt : CaptureAt(p) /\ Head(host.todo) = Program[p]  BY Recording
<1>3. /\ RecordAt \in Nat /\ RecordAt > 3 /\ StopAt \in Nat
      /\ host.kind # "pgraph" => RecordAt > 6
  BY Places
<1>4. p \in 1 .. StopAt  BY <1>2, <1>3
<1>5. ASSUME host.kind # "pgraph"
      PROVE  /\ objs[be.fm].kind = "full" /\ \A x \in Fields : Allowed(objs[be.fm].f[x])
             /\ p \in RecordAt + 3 .. StopAt - 1
  <2>1. p \in 5 .. RecordAt - 2 \/ p \in RecordAt + 3 .. StopAt - 1  BY <1>2, <1>4, <1>5, GraphPlaces
  <2>2. p \in RecordAt + 3 .. StopAt - 1 /\ p \in RecordAt + 2 .. StopAt  BY <1>2, <1>3, <2>1
  <2> QED  BY <1>2, <1>5, <2>2 DEF CaptureAt
<1>6. ASSUME host.kind = "pgraph"
      PROVE  /\ \A x \in Fields \ {"pages", "swa", "sched"} : Allowed(objs[be.fm].f[x])
             /\ LowRatioGraph => be.proj # <<>>
  <2> DEFINE h == host.graph  b == Bucketed(h)
  <2>1. b \in {"small", "big"}  BY <1>1, <1>6, SessionGraph DEF AliveInv
  <2>2. p >= 3  BY <1>2, <1>3
  <2>3. be.fm = be.bucket[b] /\ (LowRatioGraph => be.proj # <<>>)
    BY <1>2, <1>6, <2>1, <2>2 DEF CaptureAt, FullBuckets
  <2>4. Lasting(b) = Fields \ {"pages", "swa", "sched"}
    <3> HIDE DEF b
    <3> QED  BY <2>1 DEF Lasting, RawBuckets
  <2>5. \A x \in Lasting(b) : objs[be.fm].f[x] \in Relied(be, objs, h)  BY <2>3 DEF Relied
  <2> QED  BY <2>3, <2>4, <2>5 DEF Allowed, Permits
<1>7. host.kind # "pgraph" =>
        \E q \in RecordAt + 3 .. StopAt - 1 : CaptureAt(q) /\ Head(host.todo) = Program[q]
  BY <1>2, <1>5
<1> QED  BY <1>5, <1>6, <1>7

\* What the layers of a forward launch, recorded or not.
LEMMA Issued ==
  ASSUME AliveInv, Keeps, NEW ops, Issue(ops), host.todo # <<>>,
         host.record => Over(graphs[host.graph].pool, Relied(be, objs, host.graph), ops)
  PROVE  /\ GraphsKept' /\ DOMAIN graphs' = DOMAIN graphs
         /\ \A g \in DOMAIN graphs : graphs'[g].pool = graphs[g].pool
<1>1. ASSUME host.record
      PROVE  /\ host.graph \in DOMAIN graphs
             /\ Over(graphs[host.graph].pool, Relied(be', objs', host.graph), ops)
  <2>1. host.graph \in DOMAIN graphs  BY <1>1, Recording
  <2>2. Relied(be, objs, host.graph) \subseteq Relied(be', objs', host.graph)  BY <2>1, ReliedStays
  <2> QED  BY <1>1, <2>1, <2>2, OverWider
<1> QED  BY <1>1, IssueKept DEF AliveInv

\* The capture's metadata and masks stay permitted over a step.
LEMMA SettledBy ==
  ASSUME AliveInv, Session, Keeps, host.capture, host.todo # <<>>,
         \A g \in DOMAIN graphs : graphs'[g].pool = graphs[g].pool,
         NEW p \in RecordAt + 2 .. StopAt - 1, CaptureAt(p), Program[p] = Head(host.todo), host.kind # "pgraph",
         objs'[be'.fm].kind = "full",
         \A x \in Fields : Permits(graphs[host.graph].pool, Relied(be, objs, host.graph), objs'[be'.fm].f[x]),
         \/ Program[p] # <<"sources", 1>> /\ be'.masks = be.masks
         \/ Skipped
         \/ Permits(graphs[host.graph].pool, Relied(be, objs, host.graph), be'.masks.addr)
  PROVE  Settled(p)
<1> DEFINE h == host.graph  kept(a) == Permits(graphs'[h].pool, Relied(be', objs', h), a)
           was(a) == Permits(graphs[h].pool, Relied(be, objs, h), a)
<1>1. RecordAt \in Nat /\ StopAt \in Nat  BY Places
<1>2. p > RecordAt /\ p \in RecordAt + 2 .. StopAt  BY <1>1
<1>3. h \in DOMAIN graphs  BY <1>2 DEF CaptureAt
<1>4. \A a : was(a) => kept(a)
  <2>1. Relied(be, objs, h) \subseteq Relied(be', objs', h) /\ graphs'[h].pool = graphs[h].pool
    BY <1>3, ReliedStays
  <2> QED  BY <2>1 DEF Permits
<1>5. objs'[be'.fm].kind = "full" /\ \A x \in Fields : kept(objs'[be'.fm].f[x])  BY <1>4
<1>6. ASSUME \E j \in RecordAt + 2 .. p : Program[j] = <<"sources", 1>>, ~ Skipped
      PROVE  kept(be'.masks.addr)
  <2>1. CASE was(be'.masks.addr)  BY <1>4, <2>1
  <2>2. CASE Program[p] # <<"sources", 1>> /\ be'.masks = be.masks
    <3>1. PICK j \in RecordAt + 2 .. p : Program[j] = <<"sources", 1>>  BY <1>6
    <3>2. j # p  BY <2>2, <3>1
    <3>3. j \in RecordAt + 2 .. p - 1  BY <1>1, <3>2
    <3>4. \E i \in RecordAt + 2 .. p - 1 : Program[i] = <<"sources", 1>>  BY <3>1, <3>3
    <3>5. Allowed(be.masks.addr)  BY <1>2, <1>6, <3>4 DEF CaptureAt
    <3>6. was(be'.masks.addr)  BY <2>2, <3>5 DEF Allowed
    <3> QED  BY <1>4, <3>6
  <2> QED  BY <1>6, <2>1, <2>2
<1>7. host'.graph = h  BY DEF Session
<1> HIDE DEF kept, was
<1> QED  BY <1>5, <1>6, <1>7 DEF Settled, kept

\* The runner's marker.
LEMMA MarkAlive ==
  ASSUME AliveInv, InGraphDone
  PROVE  AliveInv'
<1>1. /\ host.todo # <<>> /\ Head(host.todo) = <<"mark", 0>> /\ host' = Next1
      /\ cfg' = cfg /\ be' = be /\ objs' = objs /\ Issue(<<Mark>>)
  BY DEF InGraphDone, Head1
<1>2. BackendOK' /\ ObjectsOK' /\ SameBuckets
  BY <1>1 DEF AliveInv, Framed, BackendOK, ObjectsOK, Bucketing, SameBuckets
<1>3. Keeps /\ Session  BY <1>1, <1>2, BucketsStay, HostStep DEF AliveInv, Framed
<1>4. /\ GraphsKept' /\ DOMAIN graphs' = DOMAIN graphs
      /\ \A g \in DOMAIN graphs : graphs'[g].pool = graphs[g].pool
  <2>1. Over(graphs[host.graph].pool, Relied(be, objs, host.graph), <<Mark>>)  BY StopsKept
  <2> QED  BY <1>1, <1>3, <2>1, Issued
<1>5. ASSUME host.capture, host.kind # "pgraph", NEW p \in RecordAt + 2 .. StopAt - 1,
             CaptureAt(p), Program[p] = Head(host.todo)
      PROVE  Settled(p)
  <2>1. RecordAt \in Nat /\ StopAt \in Nat  BY Places
  <2>2. p \in RecordAt + 2 .. StopAt  BY <2>1
  <2>3. objs[be.fm].kind = "full" /\ \A x \in Fields : Allowed(objs[be.fm].f[x])  BY <1>5, <2>2 DEF CaptureAt
  <2>4. Program[p] # <<"sources", 1>>  BY <1>1, <1>5
  <2> QED  BY <1>1, <1>3, <1>4, <1>5, <2>3, <2>4, SettledBy DEF Allowed
<1> QED  BY <1>1, <1>2, <1>4, <1>5, WalkOn

\* A layer stores its keys.
LEMMA StoreAlive ==
  ASSUME AliveInv, NEW k \in 0 .. 3, Store(k)
  PROVE  AliveInv'
<1> DEFINE ops == IF M.f["swaloc"] # None
                  THEN <<Reads({M.f["swaloc"]}, FALSE, {M.f["swaloc"]}, KeyRows)>>
                  ELSE <<Reads({host.inp}, TRUE, {}, <<>>)>>
<1>1. /\ host.todo # <<>> /\ Head(host.todo) = <<"store", k>> /\ host' = Next1
      /\ cfg' = cfg /\ be' = be /\ objs' = objs /\ Issue(ops)
  BY DEF Store
<1>2. BackendOK' /\ ObjectsOK' /\ SameBuckets
  BY <1>1 DEF AliveInv, Framed, BackendOK, ObjectsOK, Bucketing, SameBuckets
<1>3. Keeps /\ Session  BY <1>1, <1>2, BucketsStay, HostStep DEF AliveInv, Framed
<1>4. Head(host.todo) \in LayerKinds /\ Head(host.todo) # <<"sources", 1>>
  <2>1. <<"store", k>> \in LayerKinds /\ <<"store", k>> # <<"sources", 1>>  BY DEF LayerKinds
  <2> QED  BY <1>1, <2>1
<1>5. host.record => Over(graphs[host.graph].pool, Relied(be, objs, host.graph), ops)
  <2> SUFFICES ASSUME host.record
               PROVE  Over(graphs[host.graph].pool, Relied(be, objs, host.graph), ops)
    OBVIOUS
  <2>1. "swaloc" \in Fields \ {"pages", "swa", "sched"}  BY DEF Fields
  <2>2. Allowed(M.f["swaloc"]) /\ Allowed(host.inp)
    BY <1>1, <1>4, <2>1, FieldsAllowed, Recording DEF M, Obj
  <2>3. Over(graphs[host.graph].pool, Relied(be, objs, host.graph),
             <<Reads({M.f["swaloc"]}, FALSE, {M.f["swaloc"]}, KeyRows)>>)
    BY <2>2, ReadsKept DEF Allowed
  <2>4. Over(graphs[host.graph].pool, Relied(be, objs, host.graph), <<Reads({host.inp}, TRUE, {}, <<>>)>>)
    BY <2>2, ReadsKept DEF Allowed
  <2> QED  BY <2>3, <2>4
<1> HIDE DEF ops
<1>6. /\ GraphsKept' /\ DOMAIN graphs' = DOMAIN graphs
      /\ \A g \in DOMAIN graphs : graphs'[g].pool = graphs[g].pool
  BY <1>1, <1>3, <1>5, Issued
<1>7. ASSUME host.capture, host.kind # "pgraph", NEW p \in RecordAt + 2 .. StopAt - 1,
             CaptureAt(p), Program[p] = Head(host.todo)
      PROVE  Settled(p)
  <2>1. RecordAt \in Nat /\ StopAt \in Nat  BY Places
  <2>2. p \in RecordAt + 2 .. StopAt  BY <2>1
  <2>3. objs[be.fm].kind = "full" /\ \A x \in Fields : Allowed(objs[be.fm].f[x])  BY <1>7, <2>2 DEF CaptureAt
  <2>4. Program[p] # <<"sources", 1>>  BY <1>4, <1>7
  <2> QED  BY <1>1, <1>3, <1>6, <1>7, <2>3, <2>4, SettledBy DEF Allowed
<1> QED  BY <1>1, <1>2, <1>4, <1>6, <1>7, WalkOn

\* Attention under capture: the schedule it may plan is new, and the chunk cache is not used.
LEMMA AttendAlive ==
  ASSUME AliveInv, NEW k \in 0 .. 3, Attend(k)
  PROVE  AliveInv'
<1> DEFINE plans == cfg.arch # "sm120" /\ ~UsesSparse
           sched == IF ~plans THEN None ELSE IF M.f["sched"] # None THEN M.f["sched"] ELSE New("plan", "sched")
           cache == IF ~UsesSparse THEN None ELSE IF M.sparse # None THEN M.sparse ELSE New("lazy", "sparse")
           rowwise == {M.f[x] : x \in AttendFields}
           plan == IF plans /\ M.f["sched"] = None THEN <<Launch(sched, rowwise, FALSE, QueryRows)>> ELSE <<>>
           chunk == IF UsesSparse /\ M.sparse = None THEN SparseOps(cache) ELSE <<>>
           read == <<Reads(rowwise \cup {sched, cache}, FALSE, rowwise, QueryRows)>>
           broken == host.record /\ host.kind = "pgraph"
           ops == IF broken THEN <<Break(<<"attend", k>>)>> ELSE plan \o chunk \o read
           s == IF plans THEN sched ELSE objs[be.fm].f["sched"]
           c == IF UsesSparse THEN cache ELSE objs[be.fm].sparse
           o == [[objs[be.fm] EXCEPT !.f = [objs[be.fm].f EXCEPT !["sched"] = s]] EXCEPT !.sparse = c]
           h == host.graph
<1>1. /\ host.todo # <<>> /\ Head(host.todo) = <<"attend", k>> /\ host' = Next1
      /\ cfg' = cfg /\ be' = be /\ Issue(ops)
  BY DEF Attend
<1>2. /\ broken => objs' = objs
      /\ ~ broken => objs' = [objs EXCEPT ![be.fm].f["sched"] = IF plans THEN sched ELSE @,
                                          ![be.fm].sparse = IF UsesSparse THEN cache ELSE @]
  BY DEF Attend
<1>3. Head(host.todo) \in LayerKinds /\ Head(host.todo) # <<"sources", 1>>
  <2>1. <<"attend", k>> \in LayerKinds /\ <<"attend", k>> # <<"sources", 1>>  BY DEF LayerKinds
  <2> QED  BY <1>1, <2>1
<1>4. Session  BY <1>1, HostStep DEF AliveInv, Framed
<1>5. ~ broken => objs' = [objs EXCEPT ![be.fm] = o]
  <2> HIDE DEF plans, sched, cache, broken
  <2> QED  BY <1>2
<1>6. be.fm \in DOMAIN objs =>
        /\ DOMAIN o = DOMAIN objs[be.fm] /\ o.kind = objs[be.fm].kind /\ DOMAIN o.f = DOMAIN objs[be.fm].f
        /\ \A x \in DOMAIN o.f : x # "sched" => o.f[x] = objs[be.fm].f[x]
        /\ "sched" \in DOMAIN o.f => o.f["sched"] = s
  <2> SUFFICES ASSUME be.fm \in DOMAIN objs
               PROVE /\ DOMAIN o = DOMAIN objs[be.fm] /\ o.kind = objs[be.fm].kind
                     /\ DOMAIN o.f = DOMAIN objs[be.fm].f
                     /\ \A x \in DOMAIN o.f : x # "sched" => o.f[x] = objs[be.fm].f[x]
                     /\ "sched" \in DOMAIN o.f => o.f["sched"] = s
    OBVIOUS
  <2>1. ObjOK(objs[be.fm])  BY DEF AliveInv, Framed, ObjectsOK
  <2> HIDE DEF s, c
  <2> QED  BY <2>1 DEF ObjOK
<1>7. ASSUME host.record, host.kind # "pgraph"
      PROVE  /\ Over(graphs[h].pool, Relied(be, objs, h), ops)
             /\ plans => Allowed(sched)
             /\ \A x \in Fields : Allowed(objs[be.fm].f[x])
  <2> DEFINE Good(q) == Over(graphs[h].pool, Relied(be, objs, h), q)
  <2>1. \A x \in Fields : Allowed(objs[be.fm].f[x])  BY <1>1, <1>3, <1>7, FieldsAllowed
  <2>2. \A x \in AttendFields : Allowed(M.f[x])
    <3>1. AttendFields \subseteq Fields  BY DEF AttendFields, Fields
    <3> QED  BY <2>1, <3>1 DEF M, Obj
  <2>3. ~ UsesSparse
    <3>1. host.kind \in GraphKinds  BY <1>1, <1>7, Recording DEF AliveInv, Capturing
    <3>2. host.kind \notin {"prefill", "pgraph"}  BY <1>7, <3>1 DEF GraphKinds
    <3> QED  BY <3>2 DEF UsesSparse
  <2>4. Allowed(sched)
    <3>1. Allowed(None) /\ Allowed(New("plan", "sched"))  BY <1>1, <1>7, Recording
    <3>2. Allowed(M.f["sched"])  BY <2>1 DEF M, Obj, Fields
    <3> QED  BY <3>1, <3>2
  <2>5. cache = None /\ chunk = <<>> /\ Allowed(None)  BY <1>1, <1>7, <2>3, Recording
  <2>6. \A a \in rowwise : Allowed(a)  BY <2>2
  <2>7. \A a \in rowwise \cup {sched, cache} : Allowed(a)  BY <2>4, <2>5, <2>6
  <2>8. ops = plan \o chunk \o read  BY <1>7
  <2> HIDE DEF sched, cache, rowwise, ops
  <2>9. Good(plan)  BY <2>4, <2>6, LaunchKept, OverNone DEF Allowed
  <2>10. Good(read)  BY <2>7, ReadsKept DEF Allowed
  <2>11. Good(chunk)  BY <2>5, OverNone
  <2> HIDE DEF plan, chunk, read, Good
  <2>12. \A p, q : Good(p) /\ Good(q) => Good(p \o q)  BY OverJoin DEF Good
  <2>13. Good(plan \o chunk \o read)  BY <2>9, <2>10, <2>11, <2>12
  <2> QED  BY <2>1, <2>4, <2>8, <2>13 DEF Good
<1>8. host.record => Over(graphs[h].pool, Relied(be, objs, h), ops)
  <2>1. CASE host.kind = "pgraph" /\ host.record
    <3>1. ops = <<Break(<<"attend", k>>)>>  BY <2>1
    <3>2. <<"attend", k>> \in LayerKinds  BY <1>1, <1>3
    <3> QED  BY <3>1, <3>2, StopsKept
  <2> QED  BY <1>7, <2>1
<1>9. ObjectsOK' /\ SameBuckets /\ DOMAIN objs' = DOMAIN objs
  <2>1. CASE broken
    <3>1. objs' = objs  BY <1>2, <2>1
    <3> QED  BY <3>1 DEF AliveInv, Framed, ObjectsOK, Bucketing, SameBuckets
  <2>2. CASE ~ broken
    <3> HIDE DEF o
    <3>1. objs' = [objs EXCEPT ![be.fm] = o]  BY <1>5, <2>2
    <3> QED  BY <1>6, <3>1, Touched1
  <2> QED  BY <2>1, <2>2
<1>10. Keeps /\ BackendOK'  BY <1>1, <1>9, BucketsStay DEF AliveInv, Framed, BackendOK
<1> HIDE DEF ops
<1>11. /\ GraphsKept' /\ DOMAIN graphs' = DOMAIN graphs
       /\ \A g \in DOMAIN graphs : graphs'[g].pool = graphs[g].pool
  BY <1>1, <1>8, <1>10, Issued
<1>12. ASSUME host.capture, host.kind # "pgraph", NEW p \in RecordAt + 2 .. StopAt - 1,
              CaptureAt(p), Program[p] = Head(host.todo)
       PROVE  Settled(p)
  <2>1. RecordAt \in Nat /\ StopAt \in Nat  BY Places
  <2>2. host.record /\ p \in RecordAt + 2 .. StopAt  BY <1>12, <2>1 DEF CaptureAt
  <2>3. objs[be.fm].kind = "full" /\ be.fm \in DOMAIN objs
    BY <1>1, <1>3, <1>12, <2>2, FieldsAllowed, Recording
  <2>4. plans => Allowed(sched)  BY <1>7, <1>12, <2>2
  <2>5. \A x \in Fields : Allowed(objs[be.fm].f[x])  BY <1>7, <1>12, <2>2
  <2>6. objs'[be.fm] = o
    <3> HIDE DEF o
    <3>1. objs' = [objs EXCEPT ![be.fm] = o]  BY <1>5, <1>12
    <3> QED  BY <2>3, <3>1
  <2>7. DOMAIN objs[be.fm].f = Fields  BY <2>3 DEF AliveInv, Framed, ObjectsOK, ObjOK
  <2>8. Allowed(s)  BY <2>4, <2>5 DEF Fields
  <2> HIDE DEF s, o
  <2>9. objs'[be'.fm].kind = "full" /\ \A x \in Fields : Allowed(objs'[be'.fm].f[x])
    <3>1. o.kind = "full" /\ \A x \in Fields : x # "sched" => o.f[x] = objs[be.fm].f[x]
      BY <1>6, <2>3, <2>7
    <3>2. o.f["sched"] = s  BY <1>6, <2>3, <2>7 DEF Fields
    <3>3. \A x \in Fields : Allowed(o.f[x])  BY <2>5, <2>8, <3>1, <3>2
    <3> QED  BY <1>1, <2>6, <3>1, <3>3
  <2>10. Program[p] # <<"sources", 1>> /\ be'.masks = be.masks  BY <1>1, <1>3, <1>12
  <2> QED  BY <1>1, <1>4, <1>10, <1>11, <1>12, <2>9, <2>10, SettledBy DEF Allowed
<1> QED  BY <1>1, <1>3, <1>9, <1>10, <1>11, <1>12, WalkOn

\* The chunk cache is taken before the layers run.
LEMMA SnapshotAlive ==
  ASSUME AliveInv, Snapshot
  PROVE  AliveInv'
<1> DEFINE cache == IF Snapshots /\ UsesSparse THEN New("snap", "sparse") ELSE M.sparse
           o == [[objs[be.fm] EXCEPT !.snapped = Snapshots] EXCEPT !.sparse = cache]
<1>1. /\ host.todo # <<>> /\ Head(host.todo) = <<"snap", 0>> /\ host' = Next1
      /\ cfg' = cfg /\ be' = be /\ graphs' = graphs
      /\ objs' = [objs EXCEPT ![be.fm].snapped = Snapshots, ![be.fm].sparse = cache]
  BY DEF Snapshot, Head1
<1>2. objs' = [objs EXCEPT ![be.fm] = o]
  <2> HIDE DEF cache
  <2> QED  BY <1>1
<1>3. be.fm \in DOMAIN objs =>
        /\ DOMAIN o = DOMAIN objs[be.fm] /\ o.kind = objs[be.fm].kind /\ o.f = objs[be.fm].f
  <2> SUFFICES ASSUME be.fm \in DOMAIN objs
               PROVE DOMAIN o = DOMAIN objs[be.fm] /\ o.kind = objs[be.fm].kind /\ o.f = objs[be.fm].f
    OBVIOUS
  <2>1. ObjOK(objs[be.fm])  BY DEF AliveInv, Framed, ObjectsOK
  <2> HIDE DEF cache
  <2> QED  BY <2>1 DEF ObjOK
<1> HIDE DEF o
<1>4. ObjectsOK' /\ SameBuckets /\ DOMAIN objs' = DOMAIN objs  BY <1>2, <1>3, Touched1
<1>5. Bucketing' /\ GraphsKept' /\ BackendOK'
  <2>1. Bucketing' /\ Keeps  BY <1>1, <1>4, BucketsStay DEF AliveInv
  <2> QED  BY <1>1, <2>1, GraphsStep DEF AliveInv, Framed, BackendOK
<1>6. ~ host.capture  BY <1>1, NotCapturing, Sides
<1> QED  BY <1>1, <1>4, <1>5, <1>6, Advance

-----------------------------------------------------------------------------
(* The kernels of the source layers.                                       *)

\* The paged indexer touches what it is given.
LEMMA PagedKept ==
  ASSUME NEW pool, NEW relied, NEW k, NEW masks,
         Permits(pool, relied, M.f["idx"]), Permits(pool, relied, Positions),
         Permits(pool, relied, M.f["topk"]), Permits(pool, relied, masks)
  PROVE  Over(pool, relied, PagedOps(k, masks))
<1> DEFINE Good(q) == Over(pool, relied, q)
           keys == <<Reads({M.f["idx"], Positions}, FALSE, {M.f["idx"]}, QueryRows)>>
           cut == IF k = 3 /\ masks # None THEN <<Reads({masks}, FALSE, {masks}, QueryRows)>> ELSE <<>>
           new == IF k = 1 /\ masks # None THEN <<Launch(masks, {M.f["idx"]}, FALSE, QueryRows)>> ELSE <<>>
           top == <<Launch(M.f["topk"], {M.f["idx"]}, FALSE, QueryRows)>>
<1>1. Good(keys)  BY ReadsKept
<1>2. Good(cut)  BY ReadsKept, OverNone
<1>3. Good(new)  BY LaunchKept, OverNone
<1>4. Good(top)  BY LaunchKept
<1>5. PagedOps(k, masks) = keys \o cut \o new \o top  BY DEF PagedOps
<1> HIDE DEF Good, keys, cut, new, top
<1>6. \A p, q : Good(p) /\ Good(q) => Good(p \o q)  BY OverJoin DEF Good
<1>7. Good(keys \o cut \o new \o top)  BY <1>1, <1>2, <1>3, <1>4, <1>6
<1> QED  BY <1>5, <1>7 DEF Good

\* The dense indexer touches what it is given.
LEMMA DenseKept ==
  ASSUME NEW pool, NEW relied, NEW k, NEW masks,
         Permits(pool, relied, host.inp), Permits(pool, relied, Positions),
         Permits(pool, relied, M.f["topk"]), Permits(pool, relied, masks.addr)
  PROVE  Over(pool, relied, DenseOps(k, masks))
<1> DEFINE Good(q) == Over(pool, relied, q)
           rows(b) == Sliced(QueryRows, QLens, b)
           asked == {<<rows(b), OfRequest(cfg.lens, QueryRows, b)>> : b \in DOMAIN cfg.lens}
           cutting == {<<masks.rows[b], rows(b)>> : b \in DOMAIN cfg.lens}
           keys == <<[Reads({host.inp, Positions}, TRUE, {}, <<>>) EXCEPT !.pairs = asked]>>
           cut == <<[Reads({masks.addr}, FALSE, {}, <<>>) EXCEPT !.pairs = cutting]>>
           new == <<Launch(masks.addr, {host.inp}, TRUE, <<>>)>>
           list == IF k = 3 THEN cut ELSE new
           top == <<Launch(M.f["topk"], {host.inp}, TRUE, QueryRows)>>
<1>5. DenseOps(k, masks) = keys \o list \o top  BY DEF DenseOps
<1> HIDE DEF asked, cutting
<1>1. Good(keys)  BY ReadsKept
<1>2. Good(cut)  BY ReadsKept
<1>3. Good(new)  BY LaunchKept
<1>4. Good(top)  BY LaunchKept
<1>8. Good(list)
  <2> HIDE DEF Good, cut, new
  <2> QED  BY <1>2, <1>3
<1> HIDE DEF Good, keys, list, top
<1>6. \A p, q : Good(p) /\ Good(q) => Good(p \o q)  BY OverJoin DEF Good
<1>7. Good(keys \o list \o top)  BY <1>1, <1>4, <1>6, <1>8
<1> QED  BY <1>5, <1>7 DEF Good

\* The projection buffers, where the graph has them.
LEMMA ProjectKept ==
  ASSUME NEW pool, NEW relied, Permits(pool, relied, Projection), Permits(pool, relied, host.inp)
  PROVE  Over(pool, relied, ProjectOps)
<1> DEFINE Good(q) == Over(pool, relied, q)
           fill == Launch(Projection, {host.inp}, FALSE, All)
           read == Reads({Projection}, FALSE, {Projection}, QueryRows)
<1>1. OpKept(pool, relied, fill)  BY LaunchKept
<1>2. Over(pool, relied, <<read>>)  BY ReadsKept
<1>3. OpKept(pool, relied, read)
  <2> HIDE DEF read
  <2>1. \A i \in DOMAIN <<read>> : OpKept(pool, relied, <<read>>[i])  BY <1>2 DEF Over
  <2> HIDE DEF OpKept
  <2> QED  BY <2>1
<1>4. ProjectOps = <<fill, read>>  BY DEF ProjectOps
<1> HIDE DEF fill, read
<1> DEFINE both == <<fill, read>>
<1>5. both \in Seq({fill, read}) /\ DOMAIN both = 1 .. 2 /\ both[1] = fill /\ both[2] = read  OBVIOUS
<1> HIDE DEF both
<1>6. Listed(both)
  <2>1. ToSet(both) = {fill, read}  BY <1>5 DEF ToSet
  <2> QED  BY <1>5, <2>1 DEF Listed
<1>7. \A i \in DOMAIN both : OpKept(pool, relied, both[i])
  <2> HIDE DEF OpKept
  <2> QED  BY <1>1, <1>3, <1>5
<1>8. Over(pool, relied, both)  BY <1>6, <1>7 DEF Over
<1> QED  BY <1>4, <1>8 DEF both

\* The compressor reads slots, positions and its plan.
LEMMA CompressKept ==
  ASSUME NEW pool, NEW relied,
         Permits(pool, relied, M.f["loc"]), Permits(pool, relied, Positions), Permits(pool, relied, M.f["comp"])
  PROVE  Over(pool, relied, CompressOps)
<1>1. Over(pool, relied, <<Reads({M.f["loc"], Positions}, FALSE, {M.f["loc"]}, KeyRows)>>)  BY ReadsKept
<1>2. Over(pool, relied, <<Reads({M.f["loc"], M.f["comp"]}, FALSE, {M.f["loc"]}, KeyRows)>>)  BY ReadsKept
<1> QED  BY <1>1, <1>2 DEF CompressOps

\* A source layer, recorded, broken for, or run.
LEMMA SourcesAlive ==
  ASSUME AliveInv, NEW k \in 0 .. 3, Sources(k)
  PROVE  AliveInv'
<1> DEFINE masks == IF k = 3 THEN be.masks
                    ELSE IF Paged THEN IF TwoLevel THEN [addr |-> New("masks", "tensor"), rows |-> <<>>] ELSE NoMasks
                    ELSE [addr |-> New("masks", "list"),
                          rows |-> [b \in DOMAIN cfg.lens |-> Sliced(QueryRows, QLens, b)]]
           paged == PagedOps(k, IF TwoLevel THEN masks.addr ELSE None)
           dense == DenseOps(k, masks)
           index == IF Skipped THEN <<>> ELSE IF Paged THEN paged ELSE dense
           project == IF host.kind = "pgraph" /\ LowRatioGraph THEN ProjectOps ELSE <<>>
           compress == IF k = 1 THEN CompressOps ELSE <<>>
           broken == host.record /\ host.kind = "pgraph" /\ V41 /\ ~LowRatioGraph
           ops == IF broken THEN <<Break(<<"sources", k>>)>> ELSE project \o compress \o index
           h == host.graph
           Good(q) == Over(graphs[h].pool, Relied(be, objs, h), q)
<1>1. /\ host.todo # <<>> /\ Head(host.todo) = <<"sources", k>> /\ host' = Next1
      /\ cfg' = cfg /\ objs' = objs /\ Issue(ops)
  BY DEF Sources
<1>2. be' = IF ~ broken /\ k = 1 /\ ~Skipped THEN [be EXCEPT !.masks = masks] ELSE be
  BY DEF Sources
<1>3. Head(host.todo) \in LayerKinds
  <2>1. <<"sources", k>> \in LayerKinds  BY DEF LayerKinds
  <2> QED  BY <1>1, <2>1
<1>4. /\ be'.fm = be.fm /\ be'.raw = be.raw /\ be'.bucket = be.bucket /\ be'.proj = be.proj
      /\ DOMAIN be' = DOMAIN be
      /\ be' = be \/ be'.masks = masks
  <2>1. DOMAIN be = {"fm", "tail", "raw", "masks", "saved", "bucket", "proj"}  BY DEF AliveInv, Framed, BackendOK
  <2> HIDE DEF masks, broken
  <2> QED  BY <1>2, <2>1
<1>5. BackendOK' /\ ObjectsOK' /\ SameBuckets
  BY <1>1, <1>4 DEF AliveInv, Framed, BackendOK, ObjectsOK, Bucketing, SameBuckets
<1>6. Keeps /\ Session  BY <1>1, <1>4, <1>5, BucketsStay, HostStep DEF AliveInv, Framed
<1>7. ASSUME host.record
      PROVE  /\ Allowed(M.f["loc"]) /\ Allowed(M.f["comp"]) /\ Allowed(M.f["idx"]) /\ Allowed(M.f["topk"])
             /\ Allowed(Positions) /\ Allowed(host.inp) /\ Allowed(None) /\ \A a, x : Allowed(New(a, x))
  <2>1. Allowed(host.inp) /\ Allowed(None) /\ \A a, x : Allowed(New(a, x))  BY <1>1, <1>7, Recording
  <2>2. \A x \in Fields \ {"pages", "swa", "sched"} : Allowed(M.f[x])
    <3>1. host.kind = "pgraph" => \A x \in Fields \ {"pages", "swa", "sched"} : Allowed(objs[be.fm].f[x])
      BY <1>1, <1>3, <1>7, FieldsAllowed
    <3>2. host.kind # "pgraph" => \A x \in Fields : Allowed(objs[be.fm].f[x])
      BY <1>1, <1>3, <1>7, FieldsAllowed
    <3> QED  BY <3>1, <3>2 DEF M, Obj
  <2>3. {"loc", "comp", "idx", "topk", "req"} \subseteq Fields \ {"pages", "swa", "sched"}  BY DEF Fields
  <2> QED  BY <2>1, <2>2, <2>3 DEF Positions
<1>8. ASSUME host.record, host.kind # "pgraph", ~ Skipped
      PROVE  Allowed(masks.addr)
  <2>1. CASE k = 3
    <3>1. PICK p \in RecordAt + 3 .. StopAt - 1 : CaptureAt(p) /\ Head(host.todo) = Program[p]
      BY <1>1, <1>3, <1>8, FieldsAllowed
    <3>2. Program[p] = <<"sources", 3>>  BY <1>1, <2>1, <3>1
    <3>3. \E j \in RecordAt + 2 .. p - 1 : Program[j] = <<"sources", 1>>  BY <1>8, <3>2, Published
    <3>4. p \in RecordAt + 2 .. StopAt
      <4>1. RecordAt \in Nat /\ StopAt \in Nat  BY Places
      <4> QED  BY <4>1
    <3>5. Allowed(be.masks.addr)  BY <1>8, <3>1, <3>3, <3>4 DEF CaptureAt
    <3> QED  BY <2>1, <3>5
  <2>2. CASE k # 3
    <3>1. masks.addr = New("masks", "tensor") \/ masks.addr = New("masks", "list") \/ masks.addr = None
      BY <2>2 DEF NoMasks
    <3> QED  BY <1>7, <1>8, <3>1
  <2> QED  BY <2>1, <2>2
<1>9. ASSUME host.record, ~ broken, ~ Skipped
      PROVE  Good(IF Paged THEN paged ELSE dense)
  <2>1. CASE host.kind = "pgraph"
    <3>1. Paged /\ ~ TwoLevel  BY <1>9, <2>1 DEF Paged, TwoLevel, LowRatioGraph
    <3>2. paged = PagedOps(k, None)  BY <3>1
    <3>3. Good(PagedOps(k, None))  BY <1>7, <1>9, PagedKept DEF Allowed
    <3> QED  BY <3>1, <3>2, <3>3
  <2>2. CASE host.kind # "pgraph"
    <3>1. Allowed(masks.addr)  BY <1>8, <1>9, <2>2
    <3> HIDE DEF masks
    <3>2. Allowed(IF TwoLevel THEN masks.addr ELSE None)  BY <1>7, <1>9, <3>1
    <3>3. Good(paged)  BY <1>7, <1>9, <3>2, PagedKept DEF Allowed
    <3>4. Good(dense)  BY <1>7, <1>9, <3>1, DenseKept DEF Allowed
    <3> QED  BY <3>3, <3>4
  <2> QED  BY <2>1, <2>2
<1>10. ASSUME host.record, ~ broken
       PROVE  Good(project \o compress \o index)
  <2>1. Good(project)
    <3>1. CASE host.kind = "pgraph" /\ LowRatioGraph
      <4>1. be.proj # <<>>  BY <1>1, <1>3, <1>10, <3>1, FieldsAllowed
      <4>2. 1 \in DOMAIN be.proj
        <5>1. Listed(be.proj)  BY DEF AliveInv, Framed, BackendOK
        <5> DEFINE S == ToSet(be.proj)  s == be.proj
        <5>2. s \in Seq(S) /\ s # <<>>  BY <4>1, <5>1 DEF Listed
        <5> HIDE DEF S, s
        <5>3. 1 \in DOMAIN s  BY <5>2
        <5> QED  BY <5>3 DEF s
      <4>3. Projection \in Relied(be, objs, h)  BY <4>2 DEF Relied, Projection
      <4>4. Allowed(Projection)  BY <4>3 DEF Allowed, Permits
      <4> QED  BY <1>7, <1>10, <3>1, <4>4, ProjectKept DEF Allowed
    <3>2. CASE ~ (host.kind = "pgraph" /\ LowRatioGraph)  BY <3>2, OverNone
    <3> QED  BY <3>1, <3>2
  <2>2. Good(compress)  BY <1>7, <1>10, CompressKept, OverNone DEF Allowed
  <2>3. Good(index)
    <3>1. CASE Skipped  BY <3>1, OverNone
    <3>2. CASE ~ Skipped
      <4>1. index = IF Paged THEN paged ELSE dense  BY <3>2
      <4> QED  BY <1>9, <1>10, <3>2, <4>1
    <3> QED  BY <3>1, <3>2
  <2> HIDE DEF project, compress, index, Good
  <2>4. \A p, q : Good(p) /\ Good(q) => Good(p \o q)  BY OverJoin DEF Good
  <2> QED  BY <2>1, <2>2, <2>3, <2>4
<1>11. host.record => Good(ops)
  <2>1. CASE broken
    <3>1. ops = <<Break(<<"sources", k>>)>>  BY <2>1
    <3>2. <<"sources", k>> \in LayerKinds  BY <1>1, <1>3
    <3>3. Good(<<Break(<<"sources", k>>)>>)  BY <3>2, StopsKept
    <3> QED  BY <3>1, <3>3
  <2>2. CASE ~ broken
    <3>1. ops = project \o compress \o index  BY <2>2
    <3> QED  BY <1>10, <2>2, <3>1
  <2> QED  BY <2>1, <2>2
<1> HIDE DEF ops
<1>12. /\ GraphsKept' /\ DOMAIN graphs' = DOMAIN graphs
       /\ \A g \in DOMAIN graphs : graphs'[g].pool = graphs[g].pool
  BY <1>1, <1>6, <1>11, Issued
<1>13. ASSUME host.capture, host.kind # "pgraph", NEW p \in RecordAt + 2 .. StopAt - 1,
              CaptureAt(p), Program[p] = Head(host.todo)
       PROVE  Settled(p)
  <2>1. RecordAt \in Nat /\ StopAt \in Nat  BY Places
  <2>2. p \in RecordAt + 2 .. StopAt /\ p \in RecordAt + 1 .. StopAt  BY <2>1
  <2>3. host.record  BY <1>13, <2>2 DEF CaptureAt
  <2>4. objs[be.fm].kind = "full" /\ \A x \in Fields : Allowed(objs[be.fm].f[x])
    BY <1>13, <2>2 DEF CaptureAt
  <2>5. \/ Program[p] # <<"sources", 1>> /\ be'.masks = be.masks
        \/ Skipped
        \/ Allowed(be'.masks.addr)
    <3>1. CASE Skipped  BY <3>1
    <3>2. CASE k # 1 /\ ~ Skipped
      <4>1. be' = be  BY <1>2, <3>2
      <4>2. Program[p] # <<"sources", 1>>  BY <1>1, <1>13, <3>2
      <4> QED  BY <4>1, <4>2
    <3>3. CASE k = 1 /\ ~ Skipped
      <4>1. ~ broken  BY <1>13
      <4>2. be' = [be EXCEPT !.masks = masks]  BY <1>2, <3>3, <4>1
      <4>3. "masks" \in DOMAIN be  BY DEF AliveInv, Framed, BackendOK
      <4> HIDE DEF masks
      <4>4. be'.masks = masks  BY <4>2, <4>3
      <4> QED  BY <1>8, <1>13, <2>3, <3>3, <4>4
    <3> QED  BY <3>1, <3>2, <3>3
  <2> HIDE DEF masks
  <2> QED  BY <1>1, <1>4, <1>6, <1>12, <1>13, <2>4, <2>5, SettledBy DEF Allowed
<1> QED  BY <1>1, <1>3, <1>4, <1>5, <1>12, <1>13, WalkOn

-----------------------------------------------------------------------------
(* The upgrade of metadata inside of the graph.                            *)

\* An object that changes outside of what its bucket's graphs rely on.
LEMMA Touched2 ==
  ASSUME AliveInv, NEW k \in DOMAIN objs, NEW o, ObjOK(o), o.kind = objs[k].kind, objs' = [objs EXCEPT ![k] = o],
         \A b \in DOMAIN be.bucket : be.bucket[b] = k => \A x \in Lasting(b) : o.f[x] = objs[k].f[x]
  PROVE  ObjectsOK' /\ SameBuckets /\ DOMAIN objs' = DOMAIN objs /\ objs'[k] = o
<1>1. /\ ObjectsOK' /\ DOMAIN objs' = DOMAIN objs /\ objs'[k] = o
      /\ \A i \in DOMAIN objs : i # k => objs'[i] = objs[i]
  BY ObjectsExcept DEF AliveInv, Framed
<1>2. SameBuckets
  <2> SUFFICES ASSUME NEW b \in DOMAIN be.bucket
               PROVE /\ be.bucket[b] \in DOMAIN objs' /\ objs'[be.bucket[b]].kind = objs[be.bucket[b]].kind
                     /\ \A x \in Lasting(b) : objs'[be.bucket[b]].f[x] = objs[be.bucket[b]].f[x]
    BY DEF SameBuckets
  <2>1. be.bucket[b] \in DOMAIN objs  BY DEF AliveInv, Bucketing
  <2>2. CASE be.bucket[b] # k  BY <1>1, <2>1, <2>2
  <2>3. CASE be.bucket[b] = k  BY <1>1, <2>1, <2>3
  <2> QED  BY <2>2, <2>3
<1> QED  BY <1>1, <1>2

Live == InGraphFields(None)

\* The upgraded metadata, field by field.
LEMMA InGraphShape ==
  ASSUME NEW obj, ObjOK(obj)
  PROVE  /\ ObjOK(InGraphObject(obj)) /\ InGraphObject(obj).kind = "full"
         /\ \A x \in Fields : InGraphObject(obj).f[x] =
              IF x \in Live THEN New("live", x)
              ELSE IF obj.kind = "raw" THEN FromRaw(obj).f[x] ELSE obj.f[x]
<1> DEFINE full == UpgradedRaw(obj)
           g == [x \in Fields |-> IF x \in Live THEN New("live", x) ELSE full.f[x]]
<1>1. \A f : InGraphFields(f) = Live  BY DEF InGraphFields, Live
<1>2. /\ DOMAIN full = {"kind", "f", "sparse", "snapped", "tail"} /\ full.kind = "full"
      /\ full.f = IF obj.kind = "raw" THEN FromRaw(obj).f ELSE obj.f
  <2>1. CASE obj.kind = "raw"
    <3>1. full = Object(FromRaw(obj).f)  BY <2>1 DEF UpgradedRaw
    <3> DEFINE F == FromRaw(obj).f
    <3> HIDE DEF full, F
    <3>2. full = Object(F)  BY <3>1 DEF F
    <3> QED  BY <2>1, <3>2 DEF Object, F
  <2>2. CASE obj.kind # "raw"
    <3>1. full = obj  BY <2>2 DEF UpgradedRaw
    <3> QED  BY <2>2, <3>1 DEF ObjOK
  <2> QED  BY <2>1, <2>2
<1>3. InGraphObject(obj) = [full EXCEPT !.f = g]  BY <1>1 DEF InGraphObject
<1> HIDE DEF full
<1>4. /\ DOMAIN InGraphObject(obj) = {"kind", "f", "sparse", "snapped", "tail"}
      /\ InGraphObject(obj).kind = "full" /\ InGraphObject(obj).f = g
  BY <1>2, <1>3
<1>5. DOMAIN InGraphObject(obj).f = Fields  BY <1>4
<1>6. \A x \in Fields : g[x] = IF x \in Live THEN New("live", x) ELSE full.f[x]  OBVIOUS
<1>7. \A x \in Fields : g[x] = IF x \in Live THEN New("live", x)
                               ELSE IF obj.kind = "raw" THEN FromRaw(obj).f[x] ELSE obj.f[x]
  BY <1>2, <1>6
<1> QED  BY <1>4, <1>5, <1>7 DEF ObjOK

\* Metadata made from raw tensors that last.
LEMMA FromRawKept ==
  ASSUME NEW pool, NEW relied, NEW obj, \A x \in RawFields : Permits(pool, relied, obj.f[x]),
         \A x : Permits(pool, relied, New("full", x))
  PROVE  /\ \A x \in Fields : Permits(pool, relied, FromRaw(obj).f[x])
         /\ Over(pool, relied, FromRaw(obj).ops)
<1> DEFINE fields == IF obj.f["plan"] = None THEN Compressed ELSE Compressed \ {"comp"}
           own == Built("full", fields)
           src == {obj.f["reqs"], obj.f["lens"], obj.f["loc"], obj.f["ext"]} \ {None}
           plan == obj.f["plan"]
           f == IF plan = None THEN own ELSE [own EXCEPT !["comp"] = plan]
<1>1. FromRaw(obj).f = f /\ FromRaw(obj).ops = Build(own, src, All, All)  BY DEF FromRaw
<1>2. DOMAIN own = Fields /\ \A x \in Fields : own[x] = New("full", x) \/ own[x] = None
  <2> HIDE DEF fields
  <2> QED  BY DEF Built
<1>3. \A x \in Fields : Permits(pool, relied, own[x])  BY <1>2, PermitsNone
<1>4. \A a \in src : Permits(pool, relied, a)  BY DEF RawFields
<1>5. Permits(pool, relied, plan)  BY DEF RawFields
<1>6. Over(pool, relied, Build(own, src, All, All))
  <2> HIDE DEF own, src
  <2> QED  BY <1>3, <1>4, BuildKept
<1>7. \A x \in Fields : Permits(pool, relied, f[x])
  <2> HIDE DEF own, plan
  <2> SUFFICES ASSUME NEW x \in Fields  PROVE Permits(pool, relied, f[x])  OBVIOUS
  <2>1. f[x] = own[x] \/ f[x] = plan  BY <1>2
  <2> QED  BY <1>3, <1>5, <2>1
<1> QED  BY <1>1, <1>6, <1>7

\* What the upgrade launches, when the metadata it makes is permitted.
LEMMA InGraphKept ==
  ASSUME NEW pool, NEW relied, NEW obj, NEW inp, Permits(pool, relied, inp),
         \A x \in Fields : Permits(pool, relied, InGraphObject(obj).f[x]),
         obj.kind = "raw" => Over(pool, relied, FromRaw(obj).ops)
  PROVE  Over(pool, relied, InGraphOps(obj, inp))
<1> DEFINE f == InGraphObject(obj).f
           live == InGraphFields(f)
           Good(q) == Over(pool, relied, q)
           up == IF obj.kind = "raw" THEN FromRaw(obj).ops ELSE <<>>
           every == IF host.variant = "all" THEN <<Launch(f["topk"], {f["pages"], f["toplen"]}, FALSE, All)>> ELSE <<>>
           swaloc == <<Launch(f["swaloc"], {inp}, TRUE, All)>>
           req == IF "req" \in live THEN <<Launch(f["req"], {inp}, FALSE, All)>> ELSE <<>>
           swa == IF "swa" \in live THEN <<Launch(f["swa"], {inp}, TRUE, All)>> ELSE <<>>
<1>1. InGraphOps(obj, inp) = up \o every \o swaloc \o req \o swa  BY DEF InGraphOps
<1>2. {"topk", "pages", "toplen", "swaloc", "req", "swa"} \subseteq Fields  BY DEF Fields
<1>3. /\ Permits(pool, relied, f["topk"]) /\ Permits(pool, relied, f["pages"]) /\ Permits(pool, relied, f["toplen"])
      /\ Permits(pool, relied, f["swaloc"]) /\ Permits(pool, relied, f["req"]) /\ Permits(pool, relied, f["swa"])
  BY <1>2
<1> HIDE DEF f, live
<1>4. Good(up)  BY OverNone
<1>5. Good(every)  BY <1>3, LaunchKept, OverNone
<1>6. Good(swaloc)  BY <1>3, LaunchKept
<1>7. Good(req)  BY <1>3, LaunchKept, OverNone
<1>8. Good(swa)  BY <1>3, LaunchKept, OverNone
<1> HIDE DEF Good, up, every, swaloc, req, swa
<1>9. \A p, q : Good(p) /\ Good(q) => Good(p \o q)  BY OverJoin DEF Good
<1>10. Good(up \o every \o swaloc \o req \o swa)  BY <1>4, <1>5, <1>6, <1>7, <1>8, <1>9
<1> QED  BY <1>1, <1>10 DEF Good

\* The upgrade in the warm-up and in the recording: raw metadata gives a new object,
\* full metadata changes in fields that no graph of its bucket relies on.
LEMMA InGraphAlive ==
  ASSUME AliveInv, InGraph
  PROVE  AliveInv'
<1> DEFINE h == host.graph  b == Bucketed(h)  o == InGraphObject(M)  n == Len(objs) + 1
           israw == M.kind = "raw"
           ops == InGraphOps(M, Static)
           was(a) == Permits(graphs[h].pool, Relied(be, objs, h), a)
           kept(a) == Permits(graphs'[h].pool, Relied(be', objs', h), a)
<1>1. /\ host.todo # <<>> /\ Head(host.todo) = <<"in", 0>> /\ host' = Next1 /\ cfg' = cfg /\ Issue(ops)
      /\ israw => objs' = Append(objs, o) /\ be' = [be EXCEPT !.fm = n]
      /\ ~ israw => objs' = [objs EXCEPT ![be.fm] = o] /\ be' = be
  BY DEF InGraph, Head1
<1>2. /\ HostOK' /\ host'.step = host.step + 1 /\ host'.record = host.record /\ Session
  BY <1>1, HostStep DEF AliveInv, Framed
<1>3. host.capture
  <2>1. <<"in", 0>> \in CaptureOnly /\ <<"in", 0>> \notin {<<"load", 0>>, <<"out", 0>>}
    BY DEF CaptureOnly, CaptureKinds
  <2> QED  BY <1>1, <2>1, Sides
<1>4. \A p \in 1 .. StopAt : Program[p] = <<"in", 0>> => host.kind # "pgraph" /\ p \in {3, RecordAt + 1}
  <2> SUFFICES ASSUME NEW p \in 1 .. StopAt, Program[p] = <<"in", 0>>
               PROVE host.kind # "pgraph" /\ p \in {3, RecordAt + 1}
    OBVIOUS
  <2>1. host.kind # "pgraph"  BY BreakPlaces
  <2> QED  BY <2>1, GraphPlaces
<1>5. PICK p \in 1 .. Len(Program) : CaptureAt(p) /\ Head(host.todo) = Program[p]
  BY <1>1, <1>3, Standing DEF AliveInv
<1>6. host.kind # "pgraph" /\ p \in {3, RecordAt + 1}
  <2>1. p \in 1 .. StopAt  BY <1>5, ProgramListed
  <2> QED  BY <1>1, <1>4, <1>5, <2>1
<1>7. RecordAt \in Nat /\ RecordAt > 6 /\ StopAt \in Nat /\ StopAt > RecordAt + 3  BY <1>6, Places
<1>8. /\ b \in DOMAIN be.bucket /\ be.fm \in DOMAIN objs /\ be.fm = be.bucket[b]
      /\ be.raw = IF b \in RawBuckets THEN be.bucket[b] ELSE 0
      /\ host.record <=> p = RecordAt + 1
      /\ p = 3 => h \notin DOMAIN graphs
      /\ p = RecordAt + 1 => h \in DOMAIN graphs /\ graphs[h].pool <= host.step
      /\ p = RecordAt + 1 /\ b \in {"block", "dextend"} => objs[be.fm].f["sched"] = None
  <2>1. p >= 3 /\ (p = 3 => p <= RecordAt) /\ (p = RecordAt + 1 => p > RecordAt)
        /\ (p \in RecordAt + 1 .. StopAt <=> p = RecordAt + 1)
    BY <1>6, <1>7
  <2> QED  BY <1>5, <1>6, <2>1 DEF CaptureAt
<1>9. b \in {"decode", "verify", "block", "dextend"} /\ b = host.kind  BY <1>3, <1>6, SessionGraph DEF AliveInv
<1>10. ObjOK(objs[be.fm]) /\ M = objs[be.fm]  BY <1>8 DEF AliveInv, Framed, ObjectsOK, M, Obj
<1>11. israw <=> b \in RawBuckets
  <2>1. objs[be.fm].kind = IF b \in RawBuckets THEN "raw" ELSE "full"  BY <1>8 DEF AliveInv, Bucketing
  <2> QED  BY <1>10, <2>1
<1>12. /\ ObjOK(o) /\ o.kind = "full"
       /\ \A x \in Fields : o.f[x] = IF x \in Live THEN New("live", x)
                                     ELSE IF israw THEN FromRaw(M).f[x] ELSE M.f[x]
  BY <1>10, InGraphShape
<1>13. ~ israw => \A x \in Lasting(b) : x \notin Live /\ x \in Fields /\ x # "sched"
  <2> SUFFICES ASSUME ~ israw  PROVE \A x \in Lasting(b) : x \notin Live /\ x \in Fields /\ x # "sched"
    OBVIOUS
  <2>1. b \in {"block", "dextend"} /\ b \notin RawBuckets  BY <1>9, <1>11 DEF RawBuckets
  <2>2. CASE b = "block"
    <3>1. Lasting(b) = Fields \ {"swa", "swaloc", "sched"}  BY <2>1, <2>2 DEF Lasting
    <3>2. Live = {"swaloc", "swa"}  BY <1>9, <2>2 DEF Live, InGraphFields
    <3> QED  BY <3>1, <3>2
  <2>3. CASE b = "dextend"
    <3>1. Lasting(b) = Fields \ {"swaloc", "sched"}  BY <2>1, <2>3 DEF Lasting
    <3>2. Live = {"swaloc"}  BY <1>9, <2>3 DEF Live, InGraphFields
    <3> QED  BY <3>1, <3>2
  <2> QED  BY <2>1, <2>2, <2>3
<1>14. /\ be'.raw = be.raw /\ be'.bucket = be.bucket /\ be'.proj = be.proj
       /\ DOMAIN be' = DOMAIN be /\ be'.fm = IF israw THEN n ELSE be.fm
  <2>1. DOMAIN be = {"fm", "tail", "raw", "masks", "saved", "bucket", "proj"}  BY DEF AliveInv, Framed, BackendOK
  <2> HIDE DEF israw, n
  <2> QED  BY <1>1, <2>1
<1>15. ObjectsOK' /\ SameBuckets /\ DOMAIN objs \subseteq DOMAIN objs' /\ be'.fm \in DOMAIN objs' /\ objs'[be'.fm] = o
  <2>1. CASE israw
    <3>1. objs' = Append(objs, o)  BY <1>1, <2>1
    <3> HIDE DEF o
    <3>2. /\ ObjectsOK' /\ Len(objs) \in Nat /\ DOMAIN objs' = 1 .. n /\ objs'[n] = o
          /\ \A i \in DOMAIN objs : i \in DOMAIN objs' /\ objs'[i] = objs[i]
      BY <1>12, <3>1, ObjectsAppend DEF AliveInv, Framed
    <3>3. n \in DOMAIN objs'  BY <3>2
    <3>4. SameBuckets
      <4>1. \A c \in DOMAIN be.bucket : be.bucket[c] \in DOMAIN objs  BY DEF AliveInv, Bucketing
      <4> QED  BY <3>2, <4>1 DEF SameBuckets
    <3> QED  BY <1>14, <2>1, <3>2, <3>3, <3>4
  <2>2. CASE ~ israw
    <3>1. objs' = [objs EXCEPT ![be.fm] = o]  BY <1>1, <2>2
    <3>2. o.kind = objs[be.fm].kind
      <4>1. objs[be.fm].kind = "full"  BY <1>10, <2>2 DEF ObjOK
      <4> QED  BY <1>12, <4>1
    <3>3. \A c \in DOMAIN be.bucket : be.bucket[c] = be.fm => c = b  BY <1>8 DEF AliveInv, Bucketing
    <3>4. \A x \in Lasting(b) : o.f[x] = objs[be.fm].f[x]  BY <1>10, <1>12, <1>13, <2>2
    <3> HIDE DEF o, b
    <3>5. \A c \in DOMAIN be.bucket : be.bucket[c] = be.fm => \A x \in Lasting(c) : o.f[x] = objs[be.fm].f[x]
      BY <3>3, <3>4
    <3>6. ObjectsOK' /\ SameBuckets /\ DOMAIN objs' = DOMAIN objs /\ objs'[be.fm] = o
      BY <1>8, <1>12, <3>1, <3>2, <3>5, Touched2
    <3> QED  BY <1>8, <1>14, <2>2, <3>6
  <2> QED  BY <2>1, <2>2
<1>16. Bucketing' /\ Keeps /\ BackendOK'
  BY <1>1, <1>14, <1>15, BucketsStay DEF AliveInv, Framed, BackendOK
<1>17. ASSUME host.record
       PROVE  was(Static) /\ (\A a, x : was(New(a, x))) /\ \A x \in Lasting(b) : was(objs[be.fm].f[x])
  <2>1. was(Static) /\ \A a, x : was(New(a, x))  BY <1>1, <1>17, Recording DEF Allowed
  <2>2. \A x \in Lasting(b) : objs[be.fm].f[x] \in Relied(be, objs, h)  BY <1>8 DEF Relied
  <2>3. \A x \in Lasting(b) : was(objs[be.fm].f[x])  BY <2>2 DEF Permits
  <2> QED  BY <2>1, <2>3
<1>18. ASSUME host.record
       PROVE  /\ \A x \in Fields : was(o.f[x])
              /\ israw => Over(graphs[h].pool, Relied(be, objs, h), FromRaw(M).ops)
  <2>1. ASSUME israw
        PROVE  /\ \A x \in Fields : was(FromRaw(M).f[x])
               /\ Over(graphs[h].pool, Relied(be, objs, h), FromRaw(M).ops)
    <3>1. Lasting(b) = RawFields  BY <1>11, <2>1 DEF Lasting
    <3>2. \A x \in RawFields : was(M.f[x])  BY <1>10, <1>17, <1>18, <3>1
    <3> QED  BY <1>17, <1>18, <3>2, FromRawKept
  <2>2. ASSUME ~ israw, NEW x \in Fields, x \notin Live
        PROVE  was(M.f[x])
    <3>1. b \in {"block", "dextend"} /\ b \notin RawBuckets  BY <1>9, <1>11, <2>2 DEF RawBuckets
    <3>2. CASE x = "sched"
      <4>1. objs[be.fm].f["sched"] = None  BY <1>8, <1>18, <3>1
      <4> QED  BY <1>10, <3>2, <4>1, PermitsNone
    <3>3. CASE x # "sched"
      <4>1. x \in Lasting(b)
        <5>1. "swaloc" \in Live /\ (b = "block" => "swa" \in Live)  BY <1>9 DEF Live, InGraphFields
        <5> QED  BY <2>2, <3>1, <3>3, <5>1 DEF Lasting
      <4> QED  BY <1>10, <1>17, <1>18, <4>1
    <3> QED  BY <3>2, <3>3
  <2> HIDE DEF was, o, israw
  <2>3. \A x \in Fields : was(o.f[x])
    <3> SUFFICES ASSUME NEW x \in Fields  PROVE was(o.f[x])  OBVIOUS
    <3>1. CASE x \in Live
      <4>1. o.f[x] = New("live", x)  BY <1>12, <3>1
      <4> QED  BY <1>17, <1>18, <4>1
    <3>2. CASE x \notin Live
      <4>1. o.f[x] = IF israw THEN FromRaw(M).f[x] ELSE M.f[x]  BY <1>12, <3>2
      <4> QED  BY <2>1, <2>2, <3>2, <4>1
    <3> QED  BY <3>1, <3>2
  <2> QED  BY <2>1, <2>3 DEF israw
<1>19. host.record => Over(graphs[h].pool, Relied(be, objs, h), ops)
  BY <1>17, <1>18, InGraphKept
<1> HIDE DEF ops
<1>20. /\ GraphsKept' /\ DOMAIN graphs' = DOMAIN graphs
       /\ \A g \in DOMAIN graphs : graphs'[g].pool = graphs[g].pool
  BY <1>1, <1>16, <1>19, Issued
<1>21. host.record => \A x \in Fields : kept(o.f[x])
  <2> SUFFICES ASSUME host.record, NEW x \in Fields  PROVE kept(o.f[x])  OBVIOUS
  <2>1. h \in DOMAIN graphs  BY <1>8
  <2>2. Relied(be, objs, h) \subseteq Relied(be', objs', h) /\ graphs'[h].pool = graphs[h].pool
    BY <1>16, <1>20, <2>1, ReliedStays
  <2>3. was(o.f[x])  BY <1>18
  <2> HIDE DEF o
  <2> QED  BY <2>2, <2>3 DEF Permits
<1>22. b \in FullBuckets => be'.fm = be'.bucket[b]
  <2>1. b \in FullBuckets => b \notin RawBuckets  BY DEF FullBuckets, RawBuckets
  <2> QED  BY <1>8, <1>11, <1>14, <2>1
<1> HIDE DEF b, o, was, kept, israw, n
<1>23. ASSUME NEW q \in 1 .. StopAt, Program[q] = Head(host.todo), CaptureAt(q)
       PROVE CaptureAt(q + 1)'
  <2>1. q \in {3, RecordAt + 1}  BY <1>1, <1>4, <1>23
  <2>2. q = p
    <3>1. host.record <=> q \in RecordAt + 1 .. StopAt  BY <1>23 DEF CaptureAt
    <3>2. q \in RecordAt + 1 .. StopAt <=> q = RecordAt + 1  BY <1>7, <2>1
    <3>3. 3 # RecordAt + 1  BY <1>7
    <3> QED  BY <1>6, <1>8, <2>1, <3>1, <3>2, <3>3
  <2>3. CASE q = 3
    <3>1. /\ q + 1 \notin RecordAt + 1 .. StopAt /\ q + 1 <= RecordAt /\ ~ (q + 1 > RecordAt)
          /\ q + 1 >= 3 /\ q + 1 \notin {3, RecordAt, RecordAt + 1} /\ q + 1 \notin {RecordAt, RecordAt + 1}
          /\ q + 1 \notin RecordAt + 2 .. StopAt /\ q # RecordAt + 1
      BY <1>7, <2>3
    <3> QED
      BY <1>2, <1>6, <1>8, <1>14, <1>15, <1>20, <1>22, <2>2, <2>3, <3>1, Placed DEF b
  <2>4. CASE q = RecordAt + 1
    <3>1. /\ q + 1 \in RecordAt + 1 .. StopAt /\ ~ (q + 1 <= RecordAt) /\ q + 1 > RecordAt
          /\ q + 1 >= 3 /\ q + 1 \notin {3, RecordAt, RecordAt + 1} /\ q + 1 \notin {RecordAt, RecordAt + 1}
          /\ RecordAt + 2 .. (q + 1) - 1 = {}
      BY <1>7, <2>4
    <3>2. host.record  BY <1>8, <2>2, <2>4
    <3>3. h \in DOMAIN graphs' /\ graphs'[h].pool <= host'.step
      <4>1. h \in DOMAIN graphs /\ graphs[h].pool <= host.step  BY <1>8, <2>2, <2>4
      <4>2. graphs[h].pool \in Nat /\ host.step \in Nat  BY <4>1 DEF AliveInv, GraphsKept, Framed, HostOK
      <4> QED  BY <1>2, <1>20, <4>1, <4>2
    <3>4. objs'[be'.fm].kind = "full"  BY <1>12, <1>15
    <3>5. \A x \in Fields : Permits(graphs'[h].pool, Relied(be', objs', h), objs'[be'.fm].f[x])
      BY <1>15, <1>21, <3>2 DEF kept
    <3>6. ~ (\E j \in RecordAt + 2 .. (q + 1) - 1 : Program[j] = <<"sources", 1>>)  BY <3>1
    <3> QED
      BY <1>2, <1>6, <1>8, <1>14, <1>15, <1>22, <3>1, <3>2, <3>3, <3>4, <3>5, <3>6, Placed DEF b
  <2> QED  BY <2>1, <2>3, <2>4
<1>24. DOMAIN graphs \subseteq DOMAIN graphs'  BY <1>20
<1> QED  BY <1>1, <1>15, <1>16, <1>20, <1>23, <1>24, Advance

-----------------------------------------------------------------------------
(* The metadata the backend builds, copies and keeps for a bucket.         *)

\* Raw metadata holds the buffer and the plan of a verify, and of no other kind.
LEMMA RawShape ==
  ASSUME NEW kind, NEW inp
  PROVE  /\ ObjOK(Raw(RawOf(kind, inp))) /\ Raw(RawOf(kind, inp)).kind = "raw"
         /\ Raw(RawOf(kind, inp)).f["ext"] = IF kind \in VerifyKinds THEN ExtBuffer ELSE None
         /\ Raw(RawOf(kind, inp)).f["plan"] = None <=> ~ (kind \in VerifyKinds /\ cfg.online)
<1> DEFINE F == RawOf(kind, inp)
<1>1. DOMAIN F = RawFields  BY DEF RawOf
<1>2. F["ext"] = IF kind \in VerifyKinds THEN ExtBuffer ELSE None
  <2>1. "ext" \in RawFields  BY DEF RawFields
  <2> QED  BY <2>1 DEF RawOf
<1>3. F["plan"] = IF kind \in VerifyKinds /\ cfg.online THEN New("raw", "plan") ELSE None
  <2>1. "plan" \in RawFields  BY DEF RawFields
  <2> QED  BY <2>1 DEF RawOf
<1>4. New("raw", "plan") # None  BY DEF New, None
<1> HIDE DEF F
<1>5. /\ DOMAIN Raw(F) = {"kind", "f", "sparse", "snapped", "tail"} /\ Raw(F).kind = "raw" /\ Raw(F).f = F
  BY DEF Raw
<1>6. ObjOK(Raw(F))  BY <1>1, <1>5 DEF ObjOK
<1>7. ObjOK(Raw(F)) /\ Raw(F).kind = "raw"
      /\ Raw(F).f["ext"] = (IF kind \in VerifyKinds THEN ExtBuffer ELSE None)
      /\ (Raw(F).f["plan"] = None <=> ~ (kind \in VerifyKinds /\ cfg.online))
  BY <1>2, <1>3, <1>4, <1>5, <1>6
<1> QED  BY <1>7 DEF F

\* Metadata built from its fields.
LEMMA ObjectShape ==
  ASSUME NEW F, DOMAIN F = Fields
  PROVE  ObjOK(Object(F)) /\ Object(F).kind = "full" /\ Object(F).f = F
<1>1. /\ DOMAIN Object(F) = {"kind", "f", "sparse", "snapped", "tail"}
      /\ Object(F).kind = "full" /\ Object(F).f = F
  BY DEF Object
<1> QED  BY <1>1 DEF ObjOK

\* What the builders of full metadata return.
LEMMA FullShapes ==
  ASSUME NEW inp
  PROVE  /\ \A lent : ObjOK(Object(DraftBlock(inp, lent).f)) /\ Object(DraftBlock(inp, lent).f).kind = "full"
         /\ \A capture, buffered : /\ ObjOK(Object(DraftExtend(inp, capture, buffered).f))
                                   /\ Object(DraftExtend(inp, capture, buffered).f).kind = "full"
         /\ \A use : ObjOK(PrefillObject(use)) /\ PrefillObject(use).kind = "full"
         /\ ObjOK(TailObject)
<1>1. \A name, fields : DOMAIN Built(name, fields) = Fields  BY DEF Built
<1>2. \A lent : DOMAIN DraftBlock(inp, lent).f = Fields
  <2> SUFFICES ASSUME NEW lent  PROVE DOMAIN DraftBlock(inp, lent).f = Fields  OBVIOUS
  <2> DEFINE own == Built("block", IF lent = None THEN Core ELSE Core \ {"swa"})
             f == IF lent = None THEN own ELSE [own EXCEPT !["swa"] = lent]
  <2>1. DraftBlock(inp, lent).f = f  BY DEF DraftBlock
  <2>2. DOMAIN own = Fields  BY <1>1
  <2> HIDE DEF own
  <2> QED  BY <2>1, <2>2
<1>3. \A capture, buffered : DOMAIN DraftExtend(inp, capture, buffered).f = Fields
  <2> SUFFICES ASSUME NEW capture, NEW buffered  PROVE DOMAIN DraftExtend(inp, capture, buffered).f = Fields
    OBVIOUS
  <2> DEFINE own == Built("dextend", Core)
             loc == IF capture THEN None ELSE IF buffered THEN SwaBuffer ELSE New("dextend", "swaloc")
             f == [own EXCEPT !["swaloc"] = loc]
  <2>1. DraftExtend(inp, capture, buffered).f = f  BY DEF DraftExtend
  <2>2. DOMAIN own = Fields  BY <1>1
  <2> HIDE DEF own, loc
  <2> QED  BY <2>1, <2>2
<1>4. \A use : ObjOK(PrefillObject(use)) /\ PrefillObject(use).kind = "full"
  BY <1>1, ObjectShape DEF PrefillObject
<1>5. ObjOK(TailObject)
  <2> DEFINE o == Object(Built("tail", PrefillFields(FALSE) \cup {"swaloc", "req"}))
  <2>1. ObjOK(o)  BY <1>1, ObjectShape
  <2> HIDE DEF o
  <2>2. \A t : DOMAIN [o EXCEPT !.tail = t] = DOMAIN o
               /\ [o EXCEPT !.tail = t].kind = o.kind /\ [o EXCEPT !.tail = t].f = o.f
    BY <2>1 DEF ObjOK
  <2>3. \A t : ObjOK([o EXCEPT !.tail = t])
    <3> SUFFICES ASSUME NEW t  PROVE ObjOK([o EXCEPT !.tail = t])  OBVIOUS
    <3> DEFINE u == [o EXCEPT !.tail = t]
    <3>1. DOMAIN u = DOMAIN o /\ u.kind = o.kind /\ u.f = o.f  BY <2>2
    <3> HIDE DEF u
    <3>2. ObjOK(u)  BY <2>1, <3>1 DEF ObjOK
    <3> QED  BY <3>2 DEF u
  <2>4. \E t : TailObject = [o EXCEPT !.tail = t]  BY Zenon DEF TailObject, o
  <2> QED  BY <2>3, <2>4
<1> QED  BY <1>2, <1>3, <1>4, <1>5, ObjectShape

\* copy_ of raw metadata keeps every tensor of the bucket's.
LEMMA CopiedRaw ==
  ASSUME NEW dst, ObjOK(dst), dst.kind = "raw", NEW src, ObjOK(src), src.kind = "raw",
         src.f["ext"] = dst.f["ext"], src.f["plan"] = None <=> dst.f["plan"] = None
  PROVE  /\ ObjOK(CopyRaw(dst, src).obj) /\ CopyRaw(dst, src).obj.kind = "raw"
         /\ \A x \in RawFields : CopyRaw(dst, src).obj.f[x] = dst.f[x]
<1> DEFINE replaced == IF dst.f["plan"] = None \/ src.f["plan"] = None THEN {"plan"} ELSE {}
           F == Assigned(dst.f, src.f, {"ext"} \cup replaced)
           o == [dst EXCEPT !.f = F]
<1>1. CopyRaw(dst, src).obj = o  BY DEF CopyRaw
<1>2. DOMAIN dst.f = RawFields  BY DEF ObjOK
<1>3. DOMAIN F = RawFields /\ \A x \in RawFields : F[x] = dst.f[x]
  <2>1. \A x \in RawFields : x \in {"ext"} \cup replaced => src.f[x] = dst.f[x]  OBVIOUS
  <2> HIDE DEF replaced
  <2> QED  BY <1>2, <2>1 DEF Assigned
<1> HIDE DEF F
<1>4. DOMAIN o = DOMAIN dst /\ o.kind = "raw" /\ o.f = F  BY DEF ObjOK
<1> HIDE DEF o
<1>5. ObjOK(o)  BY <1>3, <1>4 DEF ObjOK
<1> QED  BY <1>1, <1>3, <1>4, <1>5

\* copy_ and the refresh of full metadata keep all but what they assign.
LEMMA CopiedFull ==
  ASSUME NEW dst, ObjOK(dst), dst.kind = "full", NEW src
  PROVE  /\ ObjOK(CopyFull(dst, src).obj) /\ CopyFull(dst, src).obj.kind = "full"
         /\ \A x \in Fields \ {"swaloc", "sched"} : CopyFull(dst, src).obj.f[x] = dst.f[x]
         /\ ObjOK(Refresh(dst, src).obj) /\ Refresh(dst, src).obj.kind = "full"
         /\ \A x \in Fields \ {"pages", "swa", "sched"} : Refresh(dst, src).obj.f[x] = dst.f[x]
<1> DEFINE F == Assigned(dst.f, src.f, AssignFields)
           o == [[[dst EXCEPT !.f = F] EXCEPT !.sparse = None] EXCEPT !.snapped = FALSE]
           G == Assigned(dst.f, src.f, RefreshReplaced)
           p == [[[dst EXCEPT !.f = G] EXCEPT !.sparse = None] EXCEPT !.snapped = FALSE]
<1>1. CopyFull(dst, src).obj = o  BY DEF CopyFull
<1>2. Refresh(dst, src).obj = p  BY DEF Refresh
<1>3. DOMAIN dst.f = Fields  BY DEF ObjOK
<1>4. DOMAIN F = Fields /\ \A x \in Fields \ {"swaloc", "sched"} : F[x] = dst.f[x]
  BY <1>3 DEF Assigned, AssignFields
<1>5. DOMAIN G = Fields /\ \A x \in Fields \ {"pages", "swa", "sched"} : G[x] = dst.f[x]
  BY <1>3 DEF Assigned, RefreshReplaced
<1> HIDE DEF F, G
<1>6. DOMAIN o = DOMAIN dst /\ o.kind = "full" /\ o.f = F  BY DEF ObjOK
<1>7. DOMAIN p = DOMAIN dst /\ p.kind = "full" /\ p.f = G  BY DEF ObjOK
<1> HIDE DEF o, p
<1>8. ObjOK(o) /\ ObjOK(p)  BY <1>4, <1>5, <1>6, <1>7 DEF ObjOK
<1> QED  BY <1>1, <1>2, <1>4, <1>5, <1>6, <1>7, <1>8

\* The first metadata of a bucket that no graph relies on.
LEMMA NewBucket ==
  ASSUME AliveInv, NEW b \in RawBuckets \cup FullBuckets, NEW o, ObjOK(o),
         o.kind = IF b \in RawBuckets THEN "raw" ELSE "full",
         b \in RawBuckets => /\ o.f["ext"] = IF b = "verify" THEN ExtBuffer ELSE None
                             /\ o.f["plan"] = None <=> ~ (b = "verify" /\ cfg.online),
         objs' = Append(objs, o), be'.bucket = Put(be.bucket, b, Len(objs) + 1),
         cfg' = cfg, graphs' = graphs, \A g \in DOMAIN graphs : Bucketed(g) # b,
         \A i \in DOMAIN be.proj : \E j \in DOMAIN be'.proj : be'.proj[j].addr = be.proj[i].addr
  PROVE  /\ ObjectsOK' /\ Bucketing' /\ GraphsKept'
         /\ b \in DOMAIN be'.bucket /\ be'.bucket[b] = Len(objs) + 1 /\ Len(objs) + 1 \in DOMAIN objs'
         /\ Len(objs) \in Nat
<1> DEFINE n == Len(objs) + 1
<1>1. /\ ObjectsOK' /\ Len(objs) \in Nat /\ DOMAIN objs = 1 .. Len(objs)
      /\ DOMAIN objs' = 1 .. n /\ objs'[n] = o
      /\ \A i \in DOMAIN objs : i \in DOMAIN objs' /\ objs'[i] = objs[i]
  BY ObjectsAppend DEF AliveInv, Framed
<1>2. n \in DOMAIN objs' /\ n \notin DOMAIN objs  BY <1>1
<1> HIDE DEF n
<1>3. /\ DOMAIN be'.bucket = DOMAIN be.bucket \cup {b} /\ be'.bucket[b] = n
      /\ \A c \in DOMAIN be.bucket : c # b => be'.bucket[c] = be.bucket[c]
  BY DEF Put, n
<1>4. \A c \in DOMAIN be.bucket : be.bucket[c] \in DOMAIN objs  BY DEF AliveInv, Bucketing
<1>5. \A c \in DOMAIN be'.bucket : c # b => /\ c \in DOMAIN be.bucket /\ be'.bucket[c] = be.bucket[c]
                                            /\ be.bucket[c] \in DOMAIN objs /\ be.bucket[c] # n
                                            /\ objs'[be.bucket[c]] = objs[be.bucket[c]]
  BY <1>1, <1>2, <1>3, <1>4
<1>6. Bucketing'
  <2>1. DOMAIN be'.bucket \subseteq RawBuckets \cup FullBuckets  BY <1>3 DEF AliveInv, Bucketing
  <2>2. \A c \in DOMAIN be'.bucket : be'.bucket[c] \in DOMAIN objs'  BY <1>1, <1>2, <1>3, <1>5
  <2>3. \A c, d \in DOMAIN be'.bucket : be'.bucket[c] = be'.bucket[d] => c = d
    <3> SUFFICES ASSUME NEW c \in DOMAIN be'.bucket, NEW d \in DOMAIN be'.bucket, be'.bucket[c] = be'.bucket[d]
                 PROVE c = d
      OBVIOUS
    <3>1. CASE c # b /\ d # b  BY <1>5, <3>1 DEF AliveInv, Bucketing
    <3>2. CASE c = b \/ d = b  BY <1>3, <1>5, <3>2
    <3> QED  BY <3>1, <3>2
  <2>4. \A c \in DOMAIN be'.bucket : objs'[be'.bucket[c]].kind = IF c \in RawBuckets THEN "raw" ELSE "full"
    <3> SUFFICES ASSUME NEW c \in DOMAIN be'.bucket
                 PROVE objs'[be'.bucket[c]].kind = IF c \in RawBuckets THEN "raw" ELSE "full"
      OBVIOUS
    <3>1. CASE c = b  BY <1>1, <1>3, <3>1
    <3>2. CASE c # b  BY <1>5, <3>2 DEF AliveInv, Bucketing
    <3> QED  BY <3>1, <3>2
  <2>5. \A c \in DOMAIN be'.bucket \cap RawBuckets :
          /\ objs'[be'.bucket[c]].f["ext"] = IF c = "verify" THEN ExtBuffer ELSE None
          /\ objs'[be'.bucket[c]].f["plan"] = None <=> ~ (c = "verify" /\ cfg.online)
    <3> SUFFICES ASSUME NEW c \in DOMAIN be'.bucket \cap RawBuckets
                 PROVE /\ objs'[be'.bucket[c]].f["ext"] = IF c = "verify" THEN ExtBuffer ELSE None
                       /\ objs'[be'.bucket[c]].f["plan"] = None <=> ~ (c = "verify" /\ cfg.online)
      OBVIOUS
    <3>1. CASE c = b  BY <1>1, <1>3, <3>1
    <3>2. CASE c # b
      <4>1. c \in DOMAIN be.bucket \cap RawBuckets  BY <1>5, <3>2
      <4> QED  BY <1>5, <3>2, <4>1 DEF AliveInv, Bucketing
    <3> QED  BY <3>1, <3>2
  <2> QED  BY <2>1, <2>2, <2>3, <2>4, <2>5 DEF Bucketing
<1>7. Keeps
  <2>1. \A g \in DOMAIN graphs : Bucketed(g) \in DOMAIN be.bucket /\ Bucketed(g) # b
    BY DEF AliveInv, GraphsKept
  <2>2. \A g \in DOMAIN graphs : /\ Bucketed(g) \in DOMAIN be'.bucket
                                 /\ be'.bucket[Bucketed(g)] = be.bucket[Bucketed(g)]
                                 /\ objs'[be.bucket[Bucketed(g)]] = objs[be.bucket[Bucketed(g)]]
    BY <1>3, <1>5, <2>1
  <2> QED  BY <2>2 DEF Keeps
<1>8. GraphsKept'  BY <1>7, GraphsStep DEF AliveInv
<1> QED  BY <1>1, <1>2, <1>3, <1>6, <1>8 DEF n

\* The metadata before the graph: the first of its bucket, or copied into it.
LEMMA ReplaceAlive ==
  ASSUME AliveInv, OutGraph, ~ Unprepared
  PROVE  AliveInv'
<1> DEFINE b == Bucket(host.kind)
           id == Chosen(b)
           capture == host.capture
           raw == RawOf(host.kind, Static)
           lent == IF capture \/ id = 0 THEN None ELSE Obj(id).f["swa"]
           temp == CASE b \in {"decode", "verify"} -> [obj |-> Raw(raw), ops |-> RawOps(raw, host.kind, Static)]
                     [] b = "block" -> [obj |-> Object(DraftBlock(Static, lent).f), ops |-> DraftBlock(Static, lent).ops]
                     [] b = "dextend" -> [obj |-> Object(DraftExtend(Static, capture, TRUE).f),
                                          ops |-> DraftExtend(Static, capture, TRUE).ops]
           o == temp.obj
           copied == IF o.kind = "raw" THEN CopyRaw(Obj(id), o) ELSE CopyFull(Obj(id), o)
           c == copied.obj
           fm == IF id = 0 THEN Len(objs) + 1 ELSE id
           h == host.graph
<1>1. /\ host.todo # <<>> /\ Head(host.todo) = <<"out", 0>> /\ host' = Next1
      /\ cfg' = cfg /\ graphs' = graphs
      /\ objs' = IF id = 0 THEN Append(objs, o) ELSE [objs EXCEPT ![id] = c]
      /\ be' = [be EXCEPT !.fm = fm,
                          !.bucket = IF id = 0 THEN Put(@, b, fm) ELSE @,
                          !.raw = IF ~capture THEN @ ELSE IF o.kind = "raw" THEN fm ELSE 0]
  BY Zenon DEF OutGraph, ReplaceMetadata, Head1
<1>2. /\ HostOK' /\ host'.step = host.step + 1 /\ host'.record = host.record /\ Session
  BY <1>1, HostStep DEF AliveInv, Framed
<1>3. \A p \in 1 .. StopAt : Program[p] = <<"out", 0>> => host.kind # "pgraph" /\ p = 2
  <2> SUFFICES ASSUME NEW p \in 1 .. StopAt, Program[p] = <<"out", 0>>
               PROVE host.kind # "pgraph" /\ p = 2
    OBVIOUS
  <2>1. host.kind # "pgraph"  BY BreakPlaces
  <2> QED  BY <2>1, GraphPlaces
<1>4. ASSUME host.capture
      PROVE  /\ CaptureAt(2) /\ b = Bucketed(h) /\ host.kind # "pgraph"
             /\ host.kind \in {"decode", "verify", "block", "dextend"}
  <2>1. PICK p \in 1 .. Len(Program) : CaptureAt(p) /\ Head(host.todo) = Program[p]
    BY <1>1, <1>4, Standing DEF AliveInv
  <2>2. p = 2 /\ host.kind # "pgraph"
    <3>1. p \in 1 .. StopAt  BY <2>1, ProgramListed
    <3> QED  BY <1>1, <1>3, <2>1, <3>1
  <2> QED  BY <1>4, <2>1, <2>2, SessionGraph DEF AliveInv
<1>5. /\ host.kind \in OutKinds
      /\ b \in {"decode", "verify", "block", "dextend"}
      /\ b = "verify" <=> host.kind \in VerifyKinds
  <2>1. host.kind \in OutKinds
    <3>1. CASE host.capture  BY <1>4, <3>1 DEF OutKinds
    <3>2. CASE ~ host.capture
      <4>1. <<"out", 0>> \in ToSet(host.todo)  BY <1>1, <3>2, Sides
      <4> QED  BY <3>2, <4>1 DEF AliveInv, ServingOnly
    <3> QED  BY <3>1, <3>2
  <2> QED  BY <2>1 DEF Bucket, Runs, OutKinds, VerifyKinds
<1>6. /\ b \in RawBuckets \cup FullBuckets
      /\ b \in RawBuckets <=> b \in {"decode", "verify"}
      /\ b \in FullBuckets <=> b \in {"block", "dextend"}
  <2> HIDE DEF b
  <2> QED  BY <1>5 DEF RawBuckets, FullBuckets
<1>7. /\ ObjOK(o) /\ o.kind = IF b \in RawBuckets THEN "raw" ELSE "full"
      /\ b \in RawBuckets => /\ o.f["ext"] = IF b = "verify" THEN ExtBuffer ELSE None
                             /\ o.f["plan"] = None <=> ~ (b = "verify" /\ cfg.online)
  <2>1. CASE b \in {"decode", "verify"}
    <3>1. o = Raw(raw)
      <4> HIDE DEF b, raw, lent
      <4> QED  BY <2>1
    <3> HIDE DEF b, o
    <3> QED  BY <1>5, <1>6, <2>1, <3>1, RawShape
  <2>2. CASE b = "block"
    <3>1. o = Object(DraftBlock(Static, lent).f)
      <4> HIDE DEF b, raw, lent
      <4> QED  BY <2>2
    <3> HIDE DEF b, o, lent
    <3> QED  BY <1>6, <2>2, <3>1, FullShapes
  <2>3. CASE b = "dextend"
    <3>1. o = Object(DraftExtend(Static, capture, TRUE).f)
      <4> HIDE DEF b, raw, lent
      <4> QED  BY <2>3
    <3> HIDE DEF b, o, capture
    <3> QED  BY <1>6, <2>3, <3>1, FullShapes
  <2> QED  BY <1>5, <2>1, <2>2, <2>3
<1> HIDE DEF temp, raw, lent, o
<1>8. DOMAIN be = {"fm", "tail", "raw", "masks", "saved", "bucket", "proj"} /\ DOMAIN be' = DOMAIN be
  <2>1. DOMAIN be = {"fm", "tail", "raw", "masks", "saved", "bucket", "proj"}  BY DEF AliveInv, Framed, BackendOK
  <2> HIDE DEF fm, id, b, capture
  <2> QED  BY <1>1, <2>1
<1>9. /\ be'.fm = fm /\ be'.proj = be.proj
      /\ be'.bucket = IF id = 0 THEN Put(be.bucket, b, fm) ELSE be.bucket
      /\ capture => be'.raw = IF o.kind = "raw" THEN fm ELSE 0
  <2> HIDE DEF fm, id, b, capture
  <2> QED  BY <1>1, <1>8
<1>10. id = IF b \in DOMAIN be.bucket THEN be.bucket[b] ELSE 0  BY DEF Chosen
<1>11. \A e \in DOMAIN be.bucket : be.bucket[e] \in DOMAIN objs /\ be.bucket[e] # 0
  <2>1. 0 \notin DOMAIN objs
    <3>1. Listed(objs)  BY DEF AliveInv, Framed, ObjectsOK
    <3> DEFINE S == ToSet(objs)
    <3>2. objs \in Seq(S)  BY <3>1 DEF Listed
    <3> HIDE DEF S
    <3> QED  BY <3>2
  <2> QED  BY <2>1 DEF AliveInv, Bucketing
<1> HIDE DEF copied, c, fm, id, b
<1>12. /\ ObjectsOK' /\ Bucketing' /\ GraphsKept'
       /\ b \in DOMAIN be'.bucket /\ be'.bucket[b] = fm /\ fm \in DOMAIN objs'
  <2>1. CASE id = 0
    <3>1. b \notin DOMAIN be.bucket  BY <1>10, <1>11, <2>1
    <3>2. \A g \in DOMAIN graphs : Bucketed(g) # b  BY <3>1 DEF AliveInv, GraphsKept
    <3>3. fm = Len(objs) + 1 /\ be'.bucket = Put(be.bucket, b, Len(objs) + 1)  BY <1>9, <2>1 DEF fm
    <3>4. objs' = Append(objs, o)  BY <1>1, <2>1
    <3> QED  BY <1>1, <1>6, <1>7, <1>9, <3>2, <3>3, <3>4, NewBucket
  <2>2. CASE id # 0
    <3>1. b \in DOMAIN be.bucket /\ id = be.bucket[b]  BY <1>10, <2>2
    <3>2. fm = id /\ be'.bucket = be.bucket /\ objs' = [objs EXCEPT ![id] = c]  BY <1>1, <1>9, <2>2 DEF fm
    <3>3. /\ id \in DOMAIN objs /\ ObjOK(objs[id]) /\ objs[id].kind = o.kind
          /\ b \in RawBuckets => /\ o.f["ext"] = objs[id].f["ext"]
                                 /\ o.f["plan"] = None <=> objs[id].f["plan"] = None
      BY <1>7, <1>11, <3>1 DEF AliveInv, Framed, ObjectsOK, Bucketing
    <3>4. ObjOK(c) /\ c.kind = objs[id].kind /\ \A x \in Lasting(b) : c.f[x] = objs[id].f[x]
      <4>1. CASE b \in RawBuckets
        <5>1. o.kind = "raw" /\ c = CopyRaw(objs[id], o).obj  BY <1>7, <4>1 DEF c, copied, Obj
        <5>2. Lasting(b) = RawFields  BY <4>1 DEF Lasting
        <5> QED  BY <1>7, <3>3, <4>1, <5>1, <5>2, CopiedRaw
      <4>2. CASE b \notin RawBuckets
        <5>1. o.kind = "full" /\ c = CopyFull(objs[id], o).obj  BY <1>7, <4>2 DEF c, copied, Obj
        <5>2. b \in {"block", "dextend"}  BY <1>6, <4>2
        <5>3. Lasting(b) \subseteq Fields \ {"swaloc", "sched"}  BY <4>2, <5>2 DEF Lasting
        <5> QED  BY <3>3, <5>1, <5>3, CopiedFull
      <4> QED  BY <4>1, <4>2
    <3>5. \A e \in DOMAIN be.bucket : be.bucket[e] = id => e = b  BY <3>1 DEF AliveInv, Bucketing
    <3>6. \A e \in DOMAIN be.bucket : be.bucket[e] = id => \A x \in Lasting(e) : c.f[x] = objs[id].f[x]
      BY <3>4, <3>5
    <3>7. ObjectsOK' /\ SameBuckets /\ DOMAIN objs' = DOMAIN objs
      BY <3>2, <3>3, <3>4, <3>6, Touched2
    <3>8. Bucketing' /\ Keeps  BY <1>1, <1>9, <3>2, <3>7, BucketsStay DEF AliveInv
    <3> QED  BY <1>1, <3>1, <3>2, <3>3, <3>7, <3>8, GraphsStep DEF AliveInv
  <2> QED  BY <2>1, <2>2
<1>13. BackendOK'  BY <1>8, <1>9 DEF AliveInv, Framed, BackendOK
<1>14. ASSUME host.capture, NEW q \in 1 .. StopAt, Program[q] = Head(host.todo)
       PROVE CaptureAt(q + 1)'
  <2>1. q = 2 /\ host.kind # "pgraph"  BY <1>1, <1>3, <1>14
  <2>2. RecordAt \in Nat /\ RecordAt > 6 /\ StopAt \in Nat  BY <2>1, Places
  <2>3. ~ host.record /\ h \notin DOMAIN graphs
    <3>1. 2 \notin RecordAt + 1 .. StopAt /\ 2 <= RecordAt  BY <2>2
    <3> QED  BY <1>4, <1>14, <3>1 DEF CaptureAt
  <2>4. /\ q + 1 \notin RecordAt + 1 .. StopAt /\ q + 1 <= RecordAt /\ ~ (q + 1 > RecordAt)
        /\ q + 1 >= 3 /\ q + 1 \notin {RecordAt, RecordAt + 1}
        /\ q + 1 \notin RecordAt + 2 .. StopAt
    BY <2>1, <2>2
  <2>5. b = Bucketed(h)  BY <1>4, <1>14
  <2>6. be'.raw = IF b \in RawBuckets THEN fm ELSE 0  BY <1>7, <1>9, <1>14
  <2> QED
    BY <1>1, <1>2, <1>9, <1>12, <2>1, <2>3, <2>4, <2>5, <2>6, Placed
<1> QED  BY <1>1, <1>12, <1>13, <1>14, Advance

\* The metadata before the graph, that of an idle rank's verify included: it is
\* left as it was, and no capture is under way.
LEMMA OutGraphAlive ==
  ASSUME AliveInv, OutGraph
  PROVE  AliveInv'
<1>1. CASE ~ Unprepared  BY <1>1, ReplaceAlive
<1>2. CASE Unprepared
  <2>1. /\ host.todo # <<>> /\ Head(host.todo) = <<"out", 0>> /\ host' = Next1
        /\ cfg' = cfg /\ objs' = objs /\ graphs' = graphs
        /\ be' = [be EXCEPT !.fm = Chosen(Bucket(host.kind))]
    BY <1>2, Zenon DEF OutGraph, KeepMetadata, Head1
  <2>2. DOMAIN be = {"fm", "tail", "raw", "masks", "saved", "bucket", "proj"}  BY DEF AliveInv, Framed, BackendOK
  <2>3. be'.bucket = be.bucket /\ be'.proj = be.proj /\ DOMAIN be' = DOMAIN be  BY <2>1, <2>2
  <2>4. BackendOK' /\ ObjectsOK' /\ GraphsKept' /\ Bucketing'  BY <2>1, <2>3, Unmoved
  <2>5. ~ host.capture
    <3>1. host.kind \notin GraphKinds  BY <1>2 DEF Unprepared, GraphKinds
    <3> QED  BY <3>1 DEF AliveInv, Capturing
  <2> QED  BY <2>1, <2>4, <2>5, Advance
<1> QED  BY <1>1, <1>2

\* Projection buffers that were captured stay in the list.
LEMMA GrownKeeps ==
  ASSUME NEW s, Listed(s)
  PROVE  /\ Listed(Grown(s)) /\ Grown(s) # <<>>
         /\ \A i \in DOMAIN s : \E j \in DOMAIN Grown(s) : Grown(s)[j] = s[i]
<1> DEFINE x == [addr |-> New("proj", "bufs"), size |-> Size(host.variant)]
           one == <<x>>
           fits == ~ (s = <<>> \/ s[1].size < Size(host.variant))
<1>1. Grown(s) = IF fits THEN s ELSE one \o s  BY DEF Grown
<1>2. Listed(one) /\ Len(one) = 1 /\ DOMAIN one = {1}  BY ListedFew
<1>3. fits => s # <<>>  OBVIOUS
<1> HIDE DEF one, fits
<1>4. CASE fits  BY <1>1, <1>3, <1>4
<1>5. CASE ~ fits
  <2> DEFINE t == one \o s
  <2>1. DOMAIN s = 1 .. Len(s)
    <3> DEFINE S == ToSet(s)
    <3>1. s \in Seq(S)  BY DEF Listed
    <3> HIDE DEF S
    <3> QED  BY <3>1
  <2>2. /\ Listed(t) /\ Len(s) \in Nat /\ DOMAIN t = 1 .. Len(one) + Len(s)
        /\ \A i \in DOMAIN t : \/ i \in DOMAIN one /\ t[i] = one[i]
                               \/ i - Len(one) \in DOMAIN s /\ t[i] = s[i - Len(one)]
    BY <1>2, ListedConcat
  <2> HIDE DEF t
  <2>3. DOMAIN t = 1 .. 1 + Len(s) /\ \A i \in DOMAIN s : t[1 + i] = s[i]
    <3>1. DOMAIN t = 1 .. 1 + Len(s)  BY <1>2, <2>2
    <3>2. ASSUME NEW i \in DOMAIN s  PROVE t[1 + i] = s[i]
      <4> DEFINE j == 1 + i
      <4>1. j \in DOMAIN t /\ j # 1 /\ j - 1 = i  BY <2>1, <2>2, <3>1
      <4> HIDE DEF j
      <4>2. j \notin DOMAIN one  BY <1>2, <4>1
      <4>3. t[j] = s[j - 1]  BY <1>2, <2>2, <4>1, <4>2
      <4>4. t[j] = s[i]  BY <4>1, <4>3
      <4> QED  BY <4>4 DEF j
    <3> QED  BY <3>1, <3>2
  <2>4. t # <<>>
    <3>1. 1 \in DOMAIN t  BY <2>2, <2>3
    <3> QED  BY <3>1
  <2>5. \A i \in DOMAIN s : \E j \in DOMAIN t : t[j] = s[i]
    <3>1. \A i \in DOMAIN s : 1 + i \in DOMAIN t  BY <2>1, <2>2, <2>3
    <3> QED  BY <2>3, <3>1
  <2>6. Grown(s) = t  BY <1>1, <1>5 DEF t
  <2> QED  BY <2>2, <2>4, <2>5, <2>6
<1> QED  BY <1>4, <1>5

\* The capture of a breakable graph gives its bucket new metadata; no graph was
\* captured on the old.
LEMMA BreakableCaptureAlive ==
  ASSUME AliveInv, BreakableCapture
  PROVE  AliveInv'
<1> DEFINE h == host.graph  b == Bucket("pgraph")  o == PrefillObject(TRUE)
           grown == IF LowRatioGraph THEN Grown(be.proj) ELSE be.proj
<1>1. /\ host.todo # <<>> /\ Head(host.todo) = <<"bcg", 0>> /\ host' = Next1
      /\ cfg' = cfg /\ graphs' = graphs /\ objs' = Append(objs, o)
      /\ be' = [be EXCEPT !.fm = Len(objs) + 1, !.bucket = Put(@, b, Len(objs) + 1),
                          !.proj = IF LowRatioGraph THEN Grown(@) ELSE @]
  BY DEF BreakableCapture, Head1
<1>2. /\ HostOK' /\ host'.step = host.step + 1 /\ host'.record = host.record /\ Session
  BY <1>1, HostStep DEF AliveInv, Framed
<1>3. host.capture
  <2>1. <<"bcg", 0>> \in CaptureOnly /\ <<"bcg", 0>> \notin {<<"load", 0>>, <<"out", 0>>}
    BY DEF CaptureOnly, CaptureKinds
  <2> QED  BY <1>1, <2>1, Sides
<1>4. \A p \in 1 .. StopAt : Program[p] = <<"bcg", 0>> => host.kind = "pgraph" /\ p = 2
  BY GraphPlaces, BreakPlaces
<1>5. PICK p \in 1 .. Len(Program) : CaptureAt(p) /\ Head(host.todo) = Program[p]
  BY <1>1, <1>3, Standing DEF AliveInv
<1>6. host.kind = "pgraph" /\ p = 2  BY <1>1, <1>4, <1>5, ProgramListed
<1>7. RecordAt \in Nat /\ RecordAt > 3 /\ StopAt \in Nat /\ StopAt > RecordAt  BY Places
<1>8. ~ host.record /\ h \notin DOMAIN graphs
  <2>1. 2 \notin RecordAt + 1 .. StopAt /\ 2 <= RecordAt  BY <1>7
  <2> QED  BY <1>5, <1>6, <2>1 DEF CaptureAt
<1>9. b \in {"small", "big"} /\ b = Bucketed(h) /\ b = host.variant /\ h = <<"pgraph", b>>
  BY <1>3, <1>6, SessionGraph DEF AliveInv, Capturing, Bucket
<1>10. \A g \in DOMAIN graphs : Bucketed(g) # b
  <2> SUFFICES ASSUME NEW g \in DOMAIN graphs, Bucketed(g) = b  PROVE FALSE  OBVIOUS
  <2>1. g \in GraphNames  BY DEF AliveInv, GraphsKept
  <2>2. PICK k \in GraphKinds, v \in {"filtered", "all", "small", "big"} : g = <<k, v>>  BY <2>1 DEF GraphNames
  <2>3. k = "pgraph" /\ v = b  BY <1>9, <2>2 DEF Bucketed, GraphKinds
  <2> QED  BY <1>8, <1>9, <2>2, <2>3
<1>11. /\ Listed(grown) /\ (LowRatioGraph => grown # <<>>)
       /\ \A i \in DOMAIN be.proj : \E j \in DOMAIN grown : grown[j] = be.proj[i]
  BY GrownKeeps DEF AliveInv, Framed, BackendOK
<1>12. /\ DOMAIN be' = DOMAIN be /\ be'.fm = Len(objs) + 1 /\ be'.proj = grown
       /\ be'.bucket = Put(be.bucket, b, Len(objs) + 1)
  <2>1. DOMAIN be = {"fm", "tail", "raw", "masks", "saved", "bucket", "proj"}  BY DEF AliveInv, Framed, BackendOK
  <2> HIDE DEF b
  <2> QED  BY <1>1, <2>1
<1>13. b \in FullBuckets /\ b \notin RawBuckets /\ b \notin {"block", "dextend"}
  BY <1>9 DEF FullBuckets, RawBuckets
<1>14. ObjOK(o) /\ o.kind = "full"  BY FullShapes
<1> HIDE DEF b, o, grown
<1>15. /\ ObjectsOK' /\ Bucketing' /\ GraphsKept'
       /\ b \in DOMAIN be'.bucket /\ be'.bucket[b] = Len(objs) + 1 /\ Len(objs) + 1 \in DOMAIN objs'
  <2>1. \A i \in DOMAIN be.proj : \E j \in DOMAIN be'.proj : be'.proj[j].addr = be.proj[i].addr
    <3> SUFFICES ASSUME NEW i \in DOMAIN be.proj
                 PROVE \E j \in DOMAIN be'.proj : be'.proj[j].addr = be.proj[i].addr
      OBVIOUS
    <3>1. PICK j \in DOMAIN grown : grown[j] = be.proj[i]  BY <1>11
    <3>2. j \in DOMAIN be'.proj /\ be'.proj[j].addr = be.proj[i].addr  BY <1>12, <3>1
    <3> QED  BY <3>2
  <2> QED  BY <1>1, <1>10, <1>12, <1>13, <1>14, <2>1, NewBucket
<1>16. BackendOK'  BY <1>11, <1>12 DEF AliveInv, Framed, BackendOK
<1>17. ASSUME NEW q \in 1 .. StopAt, Program[q] = Head(host.todo)
       PROVE CaptureAt(q + 1)'
  <2>1. q = 2  BY <1>1, <1>4, <1>17
  <2>2. /\ q + 1 \notin RecordAt + 1 .. StopAt /\ q + 1 <= RecordAt /\ ~ (q + 1 > RecordAt)
        /\ q + 1 >= 3 /\ q + 1 \notin RecordAt + 2 .. StopAt
    BY <1>7, <2>1
  <2> QED  BY <1>1, <1>2, <1>6, <1>8, <1>9, <1>11, <1>12, <1>13, <1>15, <2>2, Placed
<1> QED  BY <1>1, <1>3, <1>15, <1>16, <1>17, Advance

\* Its replay refreshes the bucket's metadata.
LEMMA BreakableReplayAlive ==
  ASSUME AliveInv, BreakableReplay
  PROVE  AliveInv'
<1> DEFINE b == Bucket("pgraph")  id == be.bucket[b]  c == Refresh(Obj(id), PrefillObject(TRUE)).obj
<1>1. /\ host.todo # <<>> /\ Head(host.todo) = <<"prep", 0>> /\ host' = Next1
      /\ cfg' = cfg /\ graphs' = graphs /\ objs' = [objs EXCEPT ![id] = c]
      /\ be' = [be EXCEPT !.fm = id]
  BY DEF BreakableReplay, Head1
<1>2. ~ host.capture  BY <1>1, NotCapturing, Sides
<1>3. <<"pgraph", host.variant>> \in DOMAIN graphs
  <2>1. <<"prep", 0>> \in ToSet(host.todo)  BY <1>1, <1>2, Sides
  <2> QED  BY <1>2, <2>1 DEF AliveInv, ServingOnly
<1>4. b \in DOMAIN be.bucket /\ b \in {"small", "big"}
  <2>1. b = host.variant /\ Bucketed(<<"pgraph", host.variant>>) = host.variant  BY DEF Bucket, Bucketed
  <2>2. b \in DOMAIN be.bucket  BY <1>3, <2>1 DEF AliveInv, GraphsKept
  <2>3. <<"pgraph", host.variant>> \in GraphNames  BY <1>3 DEF AliveInv, GraphsKept
  <2>4. host.variant \in {"filtered", "all", "small", "big"}  BY <2>3 DEF GraphNames
  <2>5. b \in RawBuckets \cup FullBuckets  BY <2>2 DEF AliveInv, Bucketing
  <2> QED  BY <2>1, <2>2, <2>4, <2>5 DEF RawBuckets, FullBuckets
<1> HIDE DEF b
<1>5. id \in DOMAIN objs /\ ObjOK(objs[id]) /\ objs[id].kind = "full"
  <2>1. b \notin RawBuckets  BY <1>4 DEF RawBuckets
  <2> QED  BY <1>4, <2>1 DEF AliveInv, Bucketing, Framed, ObjectsOK
<1>6. /\ ObjOK(c) /\ c.kind = objs[id].kind
      /\ \A x \in Fields \ {"pages", "swa", "sched"} : c.f[x] = objs[id].f[x]
  BY <1>5, CopiedFull DEF Obj
<1>7. Lasting(b) = Fields \ {"pages", "swa", "sched"}  BY <1>4 DEF Lasting, RawBuckets
<1>8. \A e \in DOMAIN be.bucket : be.bucket[e] = id => e = b  BY <1>4 DEF AliveInv, Bucketing
<1>9. \A e \in DOMAIN be.bucket : be.bucket[e] = id => \A x \in Lasting(e) : c.f[x] = objs[id].f[x]
  BY <1>6, <1>7, <1>8
<1> HIDE DEF c, id
<1>10. ObjectsOK' /\ SameBuckets /\ DOMAIN objs' = DOMAIN objs
  BY <1>1, <1>5, <1>6, <1>9, Touched2
<1>11. be'.bucket = be.bucket /\ be'.proj = be.proj /\ DOMAIN be' = DOMAIN be
  <2>1. DOMAIN be = {"fm", "tail", "raw", "masks", "saved", "bucket", "proj"}  BY DEF AliveInv, Framed, BackendOK
  <2> QED  BY <1>1, <2>1
<1>12. Bucketing' /\ GraphsKept' /\ BackendOK'
  <2>1. Bucketing' /\ Keeps  BY <1>1, <1>10, <1>11, BucketsStay DEF AliveInv
  <2> QED  BY <1>1, <1>11, <2>1, GraphsStep DEF AliveInv, Framed, BackendOK
<1> QED  BY <1>1, <1>2, <1>10, <1>12, Advance

\* Several new objects.
LEMMA ObjectsJoin ==
  ASSUME ObjectsOK, NEW t, Listed(t), \A i \in DOMAIN t : ObjOK(t[i]), objs' = objs \o t
  PROVE  ObjectsOK' /\ \A i \in DOMAIN objs : i \in DOMAIN objs' /\ objs'[i] = objs[i]
<1>1. Listed(objs)  BY DEF ObjectsOK
<1>2. /\ Listed(objs') /\ Len(objs) \in Nat /\ Len(t) \in Nat
      /\ DOMAIN objs' = 1 .. Len(objs) + Len(t)
      /\ \A i \in DOMAIN objs : objs'[i] = objs[i]
      /\ \A i \in DOMAIN objs' : \/ i \in DOMAIN objs /\ objs'[i] = objs[i]
                                 \/ i - Len(objs) \in DOMAIN t /\ objs'[i] = t[i - Len(objs)]
  BY <1>1, ListedConcat
<1>3. DOMAIN objs = 1 .. Len(objs)
  <2> DEFINE S == ToSet(objs)
  <2>1. objs \in Seq(S)  BY <1>1 DEF Listed
  <2> HIDE DEF S
  <2> QED  BY <2>1
<1>4. \A i \in DOMAIN objs' : ObjOK(objs'[i])
  <2> SUFFICES ASSUME NEW i \in DOMAIN objs'  PROVE ObjOK(objs'[i])  OBVIOUS
  <2>1. CASE i \in DOMAIN objs /\ objs'[i] = objs[i]  BY <2>1 DEF ObjectsOK
  <2>2. CASE i - Len(objs) \in DOMAIN t /\ objs'[i] = t[i - Len(objs)]  BY <2>2
  <2> QED  BY <1>2, <2>1, <2>2
<1>5. \A i \in DOMAIN objs : i \in DOMAIN objs'  BY <1>2, <1>3
<1> QED  BY <1>2, <1>4, <1>5 DEF ObjectsOK

\* An eager forward brings metadata of its own.
LEMMA InitAlive ==
  ASSUME AliveInv, InitForwardMetadata
  PROVE  AliveInv'
<1> DEFINE raw == RawOf(host.kind, host.inp)
           base == CASE host.kind \in {"decode", "verify"} -> Raw(raw)
                     [] host.kind = "block" -> Object(DraftBlock(host.inp, None).f)
                     [] host.kind = "dextend" -> Object(DraftExtend(host.inp, FALSE, FALSE).f)
                     [] host.kind = "prefill" -> PrefillObject(FALSE)
           first == <<InGraphObject(base)>>
           tail == IF HasTail THEN <<TailObject>> ELSE <<>>
           new == first \o tail
<1>1. /\ host.todo # <<>> /\ Head(host.todo) = <<"init", 0>> /\ host' = Next1
      /\ cfg' = cfg /\ graphs' = graphs /\ objs' = objs \o new
      /\ be' = [be EXCEPT !.fm = Len(objs) + 1, !.tail = IF HasTail THEN Len(objs) + 2 ELSE 0]
  BY DEF InitForwardMetadata, Head1
<1>2. ~ host.capture  BY <1>1, NotCapturing, Sides
<1>3. host.kind \in EagerKinds
  <2>1. <<"init", 0>> \in ToSet(host.todo)  BY <1>1, <1>2, Sides
  <2> QED  BY <1>2, <2>1 DEF AliveInv, ServingOnly
<1>4. ObjOK(base)
  <2>1. CASE host.kind \in {"decode", "verify"}
    <3>1. base = Raw(raw)
      <4> HIDE DEF raw
      <4> QED  BY <2>1
    <3> QED  BY <3>1, RawShape
  <2>2. CASE host.kind \in {"block", "dextend", "prefill"}
    <3> HIDE DEF raw
    <3> QED  BY <2>2, FullShapes
  <2> QED  BY <1>3, <2>1, <2>2 DEF EagerKinds
<1>5. /\ Listed(first) /\ \A i \in DOMAIN first : ObjOK(first[i])
      /\ Listed(tail) /\ \A i \in DOMAIN tail : ObjOK(tail[i])
  <2>1. ObjOK(InGraphObject(base))  BY <1>4, InGraphShape
  <2>2. ObjOK(TailObject)  BY FullShapes
  <2> DEFINE x == InGraphObject(base)  y == TailObject
  <2> HIDE DEF x, y
  <2>3. Listed(<<x>>) /\ DOMAIN <<x>> = {1} /\ <<x>>[1] = x
        /\ Listed(<<y>>) /\ DOMAIN <<y>> = {1} /\ <<y>>[1] = y /\ Listed(<<>>)
    BY ListedFew
  <2>4. Listed(<<x>>) /\ \A i \in DOMAIN <<x>> : ObjOK(<<x>>[i])
    <3>1. ObjOK(x)  BY <2>1 DEF x
    <3> HIDE DEF ObjOK
    <3> QED  BY <2>3, <3>1
  <2>5. Listed(<<y>>) /\ \A i \in DOMAIN <<y>> : ObjOK(<<y>>[i])
    <3>1. ObjOK(y)  BY <2>2 DEF y
    <3> HIDE DEF ObjOK
    <3> QED  BY <2>3, <3>1
  <2>6. Listed(first) /\ \A i \in DOMAIN first : ObjOK(first[i])  BY <2>4 DEF x
  <2>7. Listed(tail) /\ \A i \in DOMAIN tail : ObjOK(tail[i])
    <3>1. CASE HasTail
      <4>1. tail = <<y>>  BY <3>1 DEF y
      <4> HIDE DEF tail
      <4> QED  BY <2>5, <4>1
    <3>2. CASE ~ HasTail
      <4>1. tail = <<>>  BY <3>2
      <4>2. DOMAIN tail = {}  BY <4>1
      <4> HIDE DEF tail
      <4> QED  BY <2>3, <4>1, <4>2
    <3> QED  BY <3>1, <3>2
  <2> QED  BY <2>6, <2>7
<1> HIDE DEF base, first, tail
<1>6. Listed(new) /\ \A i \in DOMAIN new : ObjOK(new[i])
  <2>1. /\ Listed(new)
        /\ \A i \in DOMAIN new : \/ i \in DOMAIN first /\ new[i] = first[i]
                                 \/ i - Len(first) \in DOMAIN tail /\ new[i] = tail[i - Len(first)]
    BY <1>5, ListedConcat
  <2> HIDE DEF new
  <2> QED  BY <1>5, <2>1
<1> HIDE DEF new
<1>7. ObjectsOK' /\ \A i \in DOMAIN objs : i \in DOMAIN objs' /\ objs'[i] = objs[i]
  BY <1>1, <1>6, ObjectsJoin DEF AliveInv, Framed
<1>8. SameBuckets  BY <1>7 DEF SameBuckets, AliveInv, Bucketing
<1>9. be'.bucket = be.bucket /\ be'.proj = be.proj /\ DOMAIN be' = DOMAIN be
  <2>1. DOMAIN be = {"fm", "tail", "raw", "masks", "saved", "bucket", "proj"}  BY DEF AliveInv, Framed, BackendOK
  <2> QED  BY <1>1, <2>1
<1>10. Bucketing' /\ GraphsKept' /\ BackendOK'
  <2>1. Bucketing' /\ Keeps  BY <1>1, <1>8, <1>9, BucketsStay DEF AliveInv
  <2> QED  BY <1>1, <1>9, <2>1, GraphsStep DEF AliveInv, Framed, BackendOK
<1> QED  BY <1>1, <1>2, <1>7, <1>10, Advance

-----------------------------------------------------------------------------
(* A session begins.                                                       *)

\* A program before its first step.
LEMMA WholeProgram ==
  ASSUME NEW P, Listed(P)
  PROVE  From(P, 1) = P /\ Len(P) \in Nat /\ \A p \in 1 .. Len(P) : From(P, p) # <<>>
<1> DEFINE S == ToSet(P)
<1>1. P \in Seq(S)  BY DEF Listed
<1> HIDE DEF S
<1>2. Len(P) \in Nat /\ \A i \in 1 .. Len(P) : P[i] \in S  BY <1>1
<1>3. From(P, 1) = P
  <2>1. From(P, 1) = [i \in 1 .. Len(P) |-> P[i]]  BY <1>1, <1>2 DEF From
  <2> QED  BY <1>1, <2>1
<1>4. ASSUME NEW p \in 1 .. Len(P)  PROVE From(P, p) # <<>>
  <2>1. From(P, p) = [i \in 1 .. Len(P) - p + 1 |-> P[i + p - 1]]  BY <1>1, <1>2 DEF From
  <2>2. 1 \in 1 .. Len(P) - p + 1  BY <1>2
  <2>3. 1 \in DOMAIN From(P, p)  BY <2>1, <2>2
  <2> QED  BY <2>3
<1> QED  BY <1>2, <1>3, <1>4

\* Between sessions nothing is recorded.
LEMMA NotRecording ==
  ASSUME AliveInv, host.todo = <<>>
  PROVE  ~ host.record
<1>1. CASE ~ host.capture  BY <1>1 DEF AliveInv, ServingOnly
<1>2. CASE host.capture
  <2>1. PICK p \in 1 .. Len(Program) + 1 : host.todo = From(Program, p) /\ CaptureAt(p)
    BY <1>2 DEF AliveInv, Capturing
  <2>2. Len(Program) = StopAt /\ StopAt \in Nat /\ RecordAt \in Nat  BY ProgramListed, Places
  <2>3. p \notin 1 .. Len(Program)
    <3>1. \A q \in 1 .. Len(Program) : From(Program, q) # <<>>  BY WholeProgram, ProgramListed
    <3> QED  BY <2>1, <3>1
  <2>4. p \notin RecordAt + 1 .. StopAt  BY <2>1, <2>2, <2>3
  <2> QED  BY <2>1, <2>4 DEF CaptureAt
<1> QED  BY <1>1, <1>2

\* A session begins.
LEMMA Begun ==
  ASSUME AliveInv, NEW kind, NEW variant, NEW todo, NEW eager, NEW capture \in BOOLEAN,
         Begin(kind, variant, todo, eager, capture), Listed(todo)
  PROVE  /\ Framed' /\ Bucketing' /\ GraphsKept'
         /\ cfg' = cfg /\ be' = be /\ objs' = objs /\ graphs' = graphs
         /\ host'.todo = todo /\ host'.kind = kind /\ host'.variant = variant
         /\ host'.graph = GraphOf(kind, variant) /\ host'.capture = capture /\ ~ host'.record
         /\ host'.inp = IF eager THEN New("batch", "inputs") ELSE Static
<1>1. /\ host.todo = <<>> /\ cfg' = cfg /\ be' = be /\ objs' = objs /\ graphs' = graphs
      /\ host' = [host EXCEPT !.todo = todo, !.n = @ + 1, !.step = @ + 1, !.kind = kind, !.variant = variant,
                              !.graph = GraphOf(kind, variant), !.eager = eager, !.capture = capture,
                              !.serving = ~capture, !.inp = IF eager THEN New("batch", "inputs") ELSE Static]
  BY DEF Begin
<1>2. HostOK  BY DEF AliveInv, Framed
<1>3. /\ DOMAIN host' = DOMAIN host /\ host'.todo = todo /\ host'.kind = kind /\ host'.variant = variant
      /\ host'.graph = GraphOf(kind, variant) /\ host'.capture = capture /\ host'.record = host.record
      /\ host'.inp = (IF eager THEN New("batch", "inputs") ELSE Static)
      /\ host'.step = host.step + 1 /\ host'.at = host.at
  BY <1>1, <1>2 DEF HostOK
<1>4. ~ host.record  BY <1>1, NotRecording
<1>5. host.step + 1 \in Nat  BY <1>2 DEF HostOK
<1>6. HostOK'  BY <1>2, <1>3, <1>5 DEF HostOK
<1>7. Framed'  BY <1>1, <1>6 DEF AliveInv, Framed, BackendOK, ObjectsOK
<1>8. Bucketing'  BY <1>1 DEF AliveInv, Bucketing
<1>9. GraphsKept'  BY <1>1 DEF AliveInv, GraphsKept
<1> QED  BY <1>1, <1>3, <1>4, <1>7, <1>8, <1>9

\* The program of a capture is a sequence of its steps.
LEMMA CaptureListed ==
  ASSUME NEW kind
  PROVE  CaptureSteps(kind) \in Seq(AllSteps)
<1> DEFINE A == AllSteps  b == Layers(FALSE)
           a1 == <<<<"load", 0>>, <<"bcg", 0>>>>  c1 == <<<<"record", 0>>>>
           a2 == <<<<"load", 0>>, <<"out", 0>>, <<"in", 0>>, <<"mark", 0>>>>
           c2 == <<<<"warm", 0>>, <<"record", 0>>, <<"in", 0>>, <<"mark", 0>>>>
           d == <<<<"stop", 0>>>>
<1>1. a1 \in Seq(A) /\ c1 \in Seq(A)  BY DEF AllSteps, CaptureOnly, CaptureKinds
<1>2. a2 \in Seq(A) /\ c2 \in Seq(A) /\ d \in Seq(A)  BY DEF AllSteps, CaptureOnly, CaptureKinds
<1>3. b \in Seq(A)
  <2>1. b \in Seq(LayerKinds)  BY LayerPlan
  <2>2. LayerKinds \subseteq A  BY DEF AllSteps
  <2> HIDE DEF b, A
  <2> QED  BY <2>1, <2>2
<1>4. CaptureSteps(kind) = IF kind = "pgraph" THEN a1 \o b \o c1 \o b \o d ELSE a2 \o b \o c2 \o b \o d
  <2> HIDE DEF b
  <2> QED  BY Few DEF CaptureSteps, b
<1> HIDE DEF A, a1, a2, b, c1, c2, d
<1>5. \A s, t : s \in Seq(A) /\ t \in Seq(A) => s \o t \in Seq(A)  OBVIOUS
<1>6. a1 \o b \o c1 \o b \o d \in Seq(A)  BY <1>1, <1>2, <1>3, <1>5
<1>7. a2 \o b \o c2 \o b \o d \in Seq(A)  BY <1>2, <1>3, <1>5
<1> QED  BY <1>4, <1>6, <1>7 DEF A

\* A capture begins, of a graph that is not there yet.
LEMMA CaptureAlive ==
  ASSUME AliveInv, MetadataAssumption, NEW kind \in cfg.kinds, NEW variant \in Variants(kind), Capture(kind, variant)
  PROVE  AliveInv'
<1> DEFINE P == CaptureSteps(kind)
<1>1. /\ kind \notin {"prefill"} \cup IdleKinds /\ GraphOf(kind, variant) \notin DOMAIN graphs
      /\ Begin(kind, variant, P, FALSE, TRUE)
  BY DEF Capture
<1>2. P \in Seq(AllSteps) /\ Listed(P)  BY CaptureListed, ListedIn
<1>3. /\ Framed' /\ Bucketing' /\ GraphsKept'
      /\ cfg' = cfg /\ be' = be /\ objs' = objs /\ graphs' = graphs
      /\ host'.todo = P /\ host'.kind = kind /\ host'.variant = variant
      /\ host'.graph = GraphOf(kind, variant) /\ host'.capture = TRUE /\ ~ host'.record
      /\ host'.inp = Static
  BY <1>1, <1>2, Begun
<1>4. kind \in GraphKinds
  <2>1. cfg \in Configs  BY DEF AliveInv, Framed
  <2>2. kind \in Kinds  BY <2>1 DEF MetadataAssumption
  <2> QED  BY <1>1, <2>2 DEF Kinds, GraphKinds, IdleKinds
<1>5. GraphOf(kind, variant) = <<kind, variant>>  BY <1>1 DEF GraphOf, Runs, IdleKinds
<1>6. V41' = V41  BY <1>3 DEF V41
<1>7. Variants(kind)' = Variants(kind)  BY <1>6 DEF Variants
<1>8. Depth' = Depth /\ Program' = P
  <2>1. Layers(FALSE)' = Layers(FALSE)  BY <1>3, <1>6 DEF Layers
  <2> QED  BY <1>3, <2>1 DEF Depth, Program, CaptureSteps
<1>9. RecordAt' \in Nat /\ RecordAt' > 2 /\ StopAt' \in Nat
  <2>1. /\ RecordAt' = IF kind = "pgraph" THEN 3 + Depth ELSE 6 + Depth
        /\ StopAt' = IF kind = "pgraph" THEN 4 + 2 * Depth ELSE 9 + 2 * Depth
    BY <1>3, <1>8 DEF RecordAt, StopAt
  <2>2. Depth \in Nat /\ Depth > 0  BY LayerPlan
  <2> QED  BY <2>1, <2>2
<1>10. ASSUME NEW q, q = 1  PROVE CaptureAt(q)'
  <2>1. /\ q \notin RecordAt' + 1 .. StopAt' /\ q <= RecordAt' /\ ~ (q > RecordAt') /\ ~ (q >= 3)
        /\ q \notin {3, RecordAt', RecordAt' + 1} /\ q \notin {RecordAt', RecordAt' + 1}
        /\ q \notin RecordAt' + 2 .. StopAt'
    <3> DEFINE R == RecordAt'  T == StopAt'
    <3>1. R \in Nat /\ R > 2 /\ T \in Nat  BY <1>9
    <3> HIDE DEF R, T
    <3>2. /\ q \notin R + 1 .. T /\ q <= R /\ ~ (q > R) /\ ~ (q >= 3)
          /\ q \notin {3, R, R + 1} /\ q \notin {R, R + 1} /\ q \notin R + 2 .. T
      BY <1>10, <3>1
    <3> QED  BY <3>2 DEF R, T
  <2>2. host'.graph \notin DOMAIN graphs'  BY <1>1, <1>3
  <2> QED  BY <1>3, <2>1, <2>2 DEF CaptureAt
<1> HIDE DEF P
<1>11. From(P, 1) = P /\ Len(P) \in Nat  BY <1>2, WholeProgram
<1>12. \E q \in 1 .. Len(Program') + 1 : host'.todo = From(Program', q) /\ CaptureAt(q)'
  <2>1. PICK q \in 1 .. Len(Program') + 1 : q = 1  BY <1>8, <1>11
  <2>2. CaptureAt(q)'  BY <1>10, <2>1
  <2>3. host'.todo = From(Program', q)  BY <1>3, <1>8, <1>11, <2>1
  <2> QED  BY <2>2, <2>3
<1>13. Capturing'  BY <1>3, <1>4, <1>5, <1>7, <1>12 DEF Capturing
<1>14. ServingOnly'  BY <1>3 DEF ServingOnly
<1> QED  BY <1>3, <1>13, <1>14 DEF AliveInv

\* The steps of eager forwards and of replays.
LEMMA ServedSteps ==
  ASSUME NEW kind
  PROVE  /\ EagerSteps(kind) \in
              Seq({<<s, 0>> : s \in {"load", "init", "snap", "publish", "enter", "exit", "done"}} \cup LayerKinds)
         /\ kind = "pgraph" =>
              ReplaySteps(kind) \in Seq({<<s, 0>> : s \in {"load", "prep", "publish", "replay", "done"}})
         /\ kind # "pgraph" =>
              ReplaySteps(kind) \in Seq({<<s, 0>> : s \in {"load", "out", "publish", "replay", "done"}})
<1> DEFINE A == {<<s, 0>> : s \in {"load", "init", "snap", "publish", "enter", "exit", "done"}} \cup LayerKinds
           tail == cfg.bounded /\ kind = "prefill"
           i == <<<<"load", 0>>, <<"init", 0>>>>  s == IF kind = "prefill" THEN <<<<"snap", 0>>>> ELSE <<>>
           p == <<<<"publish", 0>>>>  d == <<<<"done", 0>>>>
           s1 == <<<<"sources", 1>>>>  s3 == <<<<"sources", 3>>>>
           l0 == LayerSteps(0)  l1 == LayerSteps(1)  l2 == LayerSteps(2)  l3 == LayerSteps(3)
           en == IF tail THEN <<<<"enter", 0>>>> ELSE <<>>  ex == IF tail THEN <<<<"exit", 0>>>> ELSE <<>>
           L == Layers(tail)
<1>1. /\ Steps(<<"load", "init">>) = <<<<"load", 0>>, <<"init", 0>>>>
      /\ Steps(<<"snap">>) = <<<<"snap", 0>>>> /\ Steps(<<"publish">>) = <<<<"publish", 0>>>>
      /\ Steps(<<"done">>) = <<<<"done", 0>>>> /\ Steps(<<"enter">>) = <<<<"enter", 0>>>>
      /\ Steps(<<"exit">>) = <<<<"exit", 0>>>>
  BY DEF Steps
<1>2. i \in Seq(A) /\ s \in Seq(A) /\ p \in Seq(A) /\ d \in Seq(A)  OBVIOUS
<1>3. en \in Seq(A) /\ ex \in Seq(A)
  <2>1. <<<<"enter", 0>>>> \in Seq(A) /\ <<<<"exit", 0>>>> \in Seq(A) /\ <<>> \in Seq(A)  OBVIOUS
  <2> HIDE DEF A, tail
  <2>2. en \in Seq(A)  BY ONLY <2>1
  <2>3. ex \in Seq(A)  BY ONLY <2>1
  <2> QED  BY <2>2, <2>3
<1>4. s1 \in Seq(A) /\ s3 \in Seq(A)
  <2>1. <<"sources", 1>> \in LayerKinds /\ <<"sources", 3>> \in LayerKinds  BY DEF LayerKinds
  <2> QED  BY <2>1
<1>5. l0 \in Seq(A) /\ l1 \in Seq(A) /\ l2 \in Seq(A) /\ l3 \in Seq(A)
  <2>1. \A k \in 0 .. 3 : <<"store", k>> \in A /\ <<"attend", k>> \in A  BY DEF LayerKinds
  <2> HIDE DEF A
  <2>2. \A k \in 0 .. 3 : LayerSteps(k) \in Seq(A)  BY <2>1 DEF LayerSteps
  <2> QED  BY <2>2
<1>6. L = IF cfg.role = "draft" THEN l0 ELSE IF ~V41 THEN s1 \o l1
          ELSE s1 \o l1 \o en \o l2 \o s3 \o l3 \o ex
  <2> HIDE DEF tail, l0, l1, l2, l3
  <2>1. Layers(tail) = IF cfg.role = "draft" THEN l0 ELSE IF ~V41 THEN s1 \o l1
          ELSE s1 \o l1 \o en \o l2 \o s3 \o l3 \o ex
    BY <1>1 DEF Layers, l0, l1, l2, l3
  <2> QED  BY <2>1 DEF tail
<1>7. EagerSteps(kind) = i \o s \o p \o L \o d
  <2> HIDE DEF L
  <2>1. EagerSteps(kind) = i \o s \o p \o L \o d  BY <1>1 DEF EagerSteps, L
  <2> QED  BY <2>1
<1>8. EagerSteps(kind) \in Seq(A)
  <2> HIDE DEF A, i, s, p, d, s1, s3, l0, l1, l2, l3, en, ex, L
  <2>1. \A x, y : x \in Seq(A) /\ y \in Seq(A) => x \o y \in Seq(A)  OBVIOUS
  <2>2. s1 \o l1 \o en \o l2 \o s3 \o l3 \o ex \in Seq(A)  BY <1>3, <1>4, <1>5, <2>1
  <2>3. s1 \o l1 \in Seq(A)  BY <1>4, <1>5, <2>1
  <2>4. L \in Seq(A)  BY <1>5, <1>6, <2>2, <2>3
  <2> QED  BY <1>2, <1>7, <2>1, <2>4
<1>9. kind = "pgraph" => ReplaySteps(kind) = <<<<"load", 0>>, <<"prep", 0>>, <<"publish", 0>>, <<"replay", 0>>, <<"done", 0>>>>
  BY DEF ReplaySteps, Steps
<1>10. kind # "pgraph" => ReplaySteps(kind) = <<<<"load", 0>>, <<"out", 0>>, <<"publish", 0>>, <<"replay", 0>>, <<"done", 0>>>>
  BY DEF ReplaySteps, Steps
<1>11. <<<<"load", 0>>, <<"prep", 0>>, <<"publish", 0>>, <<"replay", 0>>, <<"done", 0>>>>
         \in Seq({<<x, 0>> : x \in {"load", "prep", "publish", "replay", "done"}})
  OBVIOUS
<1>12. <<<<"load", 0>>, <<"out", 0>>, <<"publish", 0>>, <<"replay", 0>>, <<"done", 0>>>>
         \in Seq({<<x, 0>> : x \in {"load", "out", "publish", "replay", "done"}})
  OBVIOUS
<1>13. kind = "pgraph" =>
         ReplaySteps(kind) \in Seq({<<x, 0>> : x \in {"load", "prep", "publish", "replay", "done"}})
  BY <1>9, <1>11, Zenon
<1>14. kind # "pgraph" =>
         ReplaySteps(kind) \in Seq({<<x, 0>> : x \in {"load", "out", "publish", "replay", "done"}})
  BY <1>10, <1>12, Zenon
<1> QED  BY ONLY <1>8, <1>13, <1>14, Zenon DEF A

\* Named steps are not those of a layer.
LEMMA Named ==
  ASSUME NEW s, s \in {"load", "out", "prep", "publish", "replay", "done", "init", "snap", "enter", "exit"}
  PROVE  <<s, 0>> \notin LayerKinds
BY DEF LayerKinds

\* An eager forward begins.
LEMMA EagerAlive ==
  ASSUME AliveInv, MetadataAssumption, NEW kind \in cfg.kinds, EagerForward(kind)
  PROVE  AliveInv'
<1> DEFINE P == EagerSteps(kind)
           A == {<<s, 0>> : s \in {"load", "init", "snap", "publish", "enter", "exit", "done"}} \cup LayerKinds
<1>1. kind \notin {"pgraph"} \cup IdleKinds /\ Begin(kind, "filtered", P, TRUE, FALSE)  BY DEF EagerForward
<1>2. P \in Seq(A)  BY ServedSteps
<1>3. Listed(P) /\ ToSet(P) \subseteq A
  <2> HIDE DEF P, A
  <2>1. Listed(P) /\ \A i \in DOMAIN P : P[i] \in A  BY <1>2, ListedIn
  <2> QED  BY <2>1 DEF ToSet
<1>4. /\ Framed' /\ Bucketing' /\ GraphsKept' /\ host'.todo = P /\ host'.kind = kind
      /\ host'.capture = FALSE /\ ~ host'.record
  BY <1>1, <1>3, Begun
<1>5. kind \in EagerKinds
  <2>1. cfg \in Configs  BY DEF AliveInv, Framed
  <2>2. kind \in Kinds  BY <2>1 DEF MetadataAssumption
  <2> QED  BY <1>1, <2>2 DEF Kinds, EagerKinds, IdleKinds
<1>6. A \subseteq ServingSteps  BY DEF ServingSteps
<1>7. <<"out", 0>> \notin A /\ <<"prep", 0>> \notin A /\ <<"replay", 0>> \notin A  BY Named
<1> HIDE DEF A, P
<1>8. ServingOnly'  BY <1>3, <1>4, <1>5, <1>6, <1>7 DEF ServingOnly
<1>9. Capturing'  BY <1>4 DEF Capturing
<1> QED  BY <1>4, <1>8, <1>9 DEF AliveInv

\* A forward with a captured graph begins.
LEMMA GraphForwardAlive ==
  ASSUME AliveInv, MetadataAssumption, NEW kind \in cfg.kinds, NEW variant \in Variants(kind),
         GraphForward(kind, variant)
  PROVE  AliveInv'
<1> DEFINE P == ReplaySteps(kind)
           A == {<<s, 0>> : s \in {"load", "prep", "publish", "replay", "done"}}
           A2 == {<<s, 0>> : s \in {"load", "out", "publish", "replay", "done"}}
           g == GraphOf(kind, variant)
<1>1. g \in DOMAIN graphs /\ Begin(kind, variant, P, FALSE, FALSE)  BY DEF GraphForward
<1>2. (kind = "pgraph" => P \in Seq(A)) /\ (kind # "pgraph" => P \in Seq(A2))  BY ServedSteps
<1>3. /\ Listed(P)
      /\ kind = "pgraph" => ToSet(P) \subseteq A
      /\ kind # "pgraph" => ToSet(P) \subseteq A2
  <2> HIDE DEF P, A, A2
  <2>1. /\ kind = "pgraph" => Listed(P) /\ \A i \in DOMAIN P : P[i] \in A
        /\ kind # "pgraph" => Listed(P) /\ \A i \in DOMAIN P : P[i] \in A2
    BY <1>2, ListedIn
  <2> QED  BY <2>1 DEF ToSet
<1>4. /\ Framed' /\ Bucketing' /\ GraphsKept' /\ host'.todo = P /\ host'.kind = kind /\ host'.variant = variant
      /\ host'.graph = g /\ graphs' = graphs /\ host'.capture = FALSE /\ ~ host'.record
  BY <1>1, <1>3, Begun
<1>5. kind \in OutKinds \cup {"pgraph"}
  <2>1. cfg \in Configs  BY DEF AliveInv, Framed
  <2>2. kind \in Kinds  BY <2>1 DEF MetadataAssumption
  <2>3. g \in GraphNames  BY <1>1 DEF AliveInv, GraphsKept
  <2>4. kind # "prefill"  BY <2>3 DEF GraphNames, GraphKinds, GraphOf, Runs
  <2> QED  BY <2>2, <2>4 DEF Kinds, OutKinds
<1>6. kind = "pgraph" => g = <<"pgraph", variant>>  BY DEF GraphOf, Runs
<1>7. A \subseteq ServingSteps /\ A2 \subseteq ServingSteps  BY DEF ServingSteps
<1>8. <<"out", 0>> \notin A /\ <<"prep", 0>> \notin A2 /\ <<"init", 0>> \notin A /\ <<"init", 0>> \notin A2
  OBVIOUS
<1> HIDE DEF A, A2, P, g
<1>9. ServingOnly'
  <2>1. CASE kind = "pgraph"  BY <1>1, <1>3, <1>4, <1>6, <1>7, <1>8, <2>1 DEF ServingOnly
  <2>2. CASE kind # "pgraph"  BY <1>1, <1>3, <1>4, <1>5, <1>7, <1>8, <2>2 DEF ServingOnly
  <2> QED  BY <2>1, <2>2
<1>10. Capturing'  BY <1>4 DEF Capturing
<1> QED  BY <1>4, <1>9, <1>10 DEF AliveInv

-----------------------------------------------------------------------------

\* Before the first capture.
LEMMA AliveInit ==
  ASSUME GraphInit
  PROVE  AliveInv
<1>1. /\ cfg \in Configs /\ host.todo = <<>> /\ host.record = FALSE /\ host.capture = FALSE /\ objs = <<>>
      /\ graphs = <<>> /\ be.bucket = <<>> /\ be.proj = <<>>
      /\ DOMAIN host = {"todo", "n", "step", "at", "kind", "variant", "graph", "eager", "capture",
                        "record", "serving", "inp"}
      /\ DOMAIN be = {"fm", "tail", "raw", "masks", "saved", "bucket", "proj"}
      /\ host.step = 0 /\ host.at = 0
  BY DEF GraphInit
<1>2. Listed(<<>>) /\ ToSet(<<>>) = {} /\ DOMAIN <<>> = {}  BY ListedFew DEF ToSet
<1>3. Framed
  <2>1. HostOK
    <3>1. Listed(host.todo)  BY <1>1, <1>2
    <3>2. host.step \in Nat /\ host.at \in Nat  BY <1>1
    <3>3. host.record \in BOOLEAN /\ host.capture \in BOOLEAN  BY <1>1
    <3> QED  BY <1>1, <3>1, <3>2, <3>3, Zenon DEF HostOK
  <2>2. BackendOK
    <3>1. Listed(be.proj)  BY <1>1, <1>2
    <3> QED  BY <1>1, <3>1 DEF BackendOK
  <2>3. ObjectsOK
    <3>1. Listed(objs)  BY <1>1, <1>2
    <3>2. DOMAIN objs = {}  BY <1>1, <1>2
    <3> QED  BY <3>1, <3>2 DEF ObjectsOK
  <2> QED  BY <1>1, <2>1, <2>2, <2>3 DEF Framed
<1>4. Bucketing /\ GraphsKept  BY <1>1, <1>2 DEF Bucketing, GraphsKept
<1>5. Capturing /\ ServingOnly  BY <1>1, <1>2 DEF Capturing, ServingOnly
<1> QED  BY <1>3, <1>4, <1>5 DEF AliveInv

\* Every step.
LEMMA AliveNext ==
  ASSUME AliveInv, MetadataAssumption, [GraphNext]_graphVars
  PROVE  AliveInv'
<1>1. CASE UNCHANGED graphVars  BY <1>1, StillAlive DEF graphVars
<1>2. ASSUME NEW kind \in cfg.kinds, EagerForward(kind)  PROVE AliveInv'  BY <1>2, EagerAlive
<1>3. ASSUME NEW kind \in cfg.kinds, NEW variant \in Variants(kind), Capture(kind, variant)  PROVE AliveInv'
  BY <1>3, CaptureAlive
<1>4. ASSUME NEW kind \in cfg.kinds, NEW variant \in Variants(kind), GraphForward(kind, variant)  PROVE AliveInv'
  BY <1>4, GraphForwardAlive
<1>5. ASSUME NextTables  PROVE AliveInv'  BY <1>5, StillAlive DEF NextTables
<1>6. CASE LoadBatch \/ OutGraph \/ InGraph \/ InGraphDone \/ AfterWarmup \/ BeginRecording \/ EndCapture
  BY <1>6, LoadAlive, OutGraphAlive, InGraphAlive, MarkAlive, WarmAlive, BeginAlive, EndAlive
<1>7. CASE BreakableCapture \/ BreakableReplay \/ InitForwardMetadata \/ Snapshot \/ Publish \/ Done
  BY <1>7, BreakableCaptureAlive, BreakableReplayAlive, InitAlive, SnapshotAlive, PublishAlive
<1>8. ASSUME NEW k \in 0 .. 3, Sources(k) \/ Store(k) \/ Attend(k)  PROVE AliveInv'
  BY <1>8, SourcesAlive, StoreAlive, AttendAlive
<1>9. CASE EnterTail \/ ExitTail \/ Replay \/ ReplayDone
  BY <1>9, TailAlive, ReplayAlive, ReplayDoneAlive
<1> HIDE DEF AliveInv
<1> QED  BY <1>1, <1>2, <1>3, <1>4, <1>5, <1>6, <1>7, <1>8, <1>9 DEF GraphNext

\* What graphs rely on is held.
LEMMA AliveHeld ==
  ASSUME AliveInv
  PROVE  CapturedAlive
<1> SUFFICES ASSUME NEW g \in DOMAIN graphs, NEW a \in Touched(graphs[g].ops), a[1] < graphs[g].pool
             PROVE a \in Held
  BY DEF CapturedAlive
<1> DEFINE ops == graphs[g].ops  pool == graphs[g].pool  R == Relied(be, objs, g)
<1>1. /\ pool \in Nat /\ Bucketed(g) \in DOMAIN be.bucket /\ \A i \in DOMAIN ops : OpKept(pool, R, ops[i])
  BY DEF AliveInv, GraphsKept, Over
<1>2. a # None /\ Permits(pool, R, a)
  <2>1. PICK i \in DOMAIN ops : a \in ops[i].from \cup ({ops[i].to} \ {None})  BY DEF Touched
  <2>2. OpKept(pool, R, ops[i])  BY <1>1, <2>1
  <2> HIDE DEF ops, pool, R
  <2> QED  BY <2>1, <2>2 DEF OpKept
<1>3. a \in R
  <2>1. a[1] < pool  OBVIOUS
  <2> HIDE DEF pool, R
  <2>2. ~ (a[1] \in Nat /\ a[1] >= pool)  BY <1>1, <2>1
  <2> QED  BY <1>2, <2>2 DEF Permits
<1> DEFINE b == Bucketed(g)
<1>4. CASE a \in Permanent  BY <1>4 DEF Held
<1>5. CASE a \in {be.proj[i].addr : i \in DOMAIN be.proj}
  <2>1. PICK i \in DOMAIN be.proj : a = be.proj[i].addr  BY <1>5
  <2>2. be.proj[i] \in ToSet(be.proj)  BY <2>1 DEF ToSet
  <2>3. a \in {s.addr : s \in ToSet(be.proj)}  BY <2>1, <2>2
  <2> QED  BY <2>3 DEF Held
<1>6. CASE a \in {objs[be.bucket[b]].f[x] : x \in Lasting(b)}
  <2>1. PICK x \in Lasting(b) : a = objs[be.bucket[b]].f[x]  BY <1>6
  <2>2. x \in DOMAIN objs[be.bucket[b]].f
    <3>1. be.bucket[b] \in DOMAIN objs /\ objs[be.bucket[b]].kind = IF b \in RawBuckets THEN "raw" ELSE "full"
      BY <1>1 DEF AliveInv, Bucketing
    <3>2. ObjOK(objs[be.bucket[b]])  BY <3>1 DEF AliveInv, Framed, ObjectsOK
    <3>3. DOMAIN objs[be.bucket[b]].f = IF b \in RawBuckets THEN RawFields ELSE Fields  BY <3>1, <3>2 DEF ObjOK
    <3> QED  BY <2>1, <3>3 DEF Lasting
  <2>3. a \in Range(Obj(be.bucket[b]).f)  BY <2>1, <2>2 DEF Range, Obj
  <2>4. a \in UNION {Range(Obj(be.bucket[c]).f) : c \in DOMAIN be.bucket}  BY <1>1, <2>3
  <2> QED  BY <2>4 DEF Held
<1> QED  BY <1>3, <1>4, <1>5, <1>6 DEF Relied

\* Whatever is captured, copied, refreshed and replayed, in any deployment: a graph's
\* kernels touch tensors of their own recording, or tensors something still holds.
THEOREM CapturedAliveHolds == GraphSpec => []CapturedAlive
<1>1. GraphInit => AliveInv  BY AliveInit
<1>2. AliveInv /\ [GraphNext]_graphVars => AliveInv'  BY AliveNext, MetadataAssumption
<1>3. AliveInv => CapturedAlive  BY AliveHeld
<1> QED  BY <1>1, <1>2, <1>3, PTL DEF GraphSpec
=============================================================================
