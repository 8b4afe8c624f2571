--------------------------- MODULE ClusterProofs ---------------------------
(***************************************************************************)
(* Proofs about the cluster: ClusterServe for any number of ranks and of   *)
(* operators, all sessions of serve, start and the guard, and every        *)
(* deadline; then Staging on top of it, for any versions and edits.        *)
(***************************************************************************)
EXTENDS Staging, TLAPS

\* How far a serve has come is told by its locals: launches follow Order, and the
\* loop is entered when every rank is listed and every launch acknowledged.
Progress(s) ==
  /\ s.pc \in {"off", "check", "refused"} =>
       Len(s.started) = 0 /\ s.next = 1 /\ s.unacked = {}
  /\ s.pc = "launch" => Len(s.started) = s.next - 1 /\ s.next <= N /\ s.unacked = {}
  /\ s.pc \in Loop => Len(s.started) = N /\ s.unacked = {}
  /\ \A i \in 1 .. Len(s.started) : s.started[i] = Order[i]
  /\ s.pc = "raised" => s.next > Len(s.started)

\* A serve knows of rank r: the launch was not acknowledged, or r is listed and
\* is still to be stopped, or its stop reported an error.
Covers(s, r) ==
  \/ r \in s.unacked
  \/ \E i \in 1 .. Len(s.started) :
       /\ s.started[i] = r
       /\ s.pc \in {"stopping", "raised"} => i >= s.next \/ r \in s.unstopped

Known == \A o \in Operators, r \in Ranks :
  cont[r] = "running" /\ launcher[r] = o => Covers(op[o], r)

Late == \A o \in Operators, r \in Ranks : <<o, r>> \in pending => r \in op[o].unacked

Enrolled == \A o \in Operators :
  Progress(op[o]) /\ (op[o].pc # "off" => o \in session.operators)

\* Under serve, what an operator lists it has launched, and nobody launches again.
Own == ~session.restart =>
  \A o \in Operators : \A i \in 1 .. Len(op[o].started) :
    launcher[op[o].started[i]] = o /\ cont[op[o].started[i]] # "absent"

\* Under serve, each rank the guard has reached is stopped or recorded.
Guarded ==
  /\ ~session.restart /\ guard.pc \in {"stopping", "raised"} =>
       \A r \in Ranks \ guard.todo : r \in guard.unstopped \/ cont[r] = "exited"
  /\ guard.pc = "raised" => guard.todo = {}

\* Preserved containers are started by one operator.
Alone == session.restart => \A p, q \in session.operators : p = q

\* The receipts a serve has seen are those of the starts that are running.
Evidence(s) == s.pc = "layout" /\ s.seen = "ok" =>
  \A r \in Ranks \ s.todo : inc[r] \in logged[r]
Seen == Alone => \A o \in Operators : Evidence(op[o])

\* A container that is there has been started.
Counted == \A r \in Ranks : cont[r] # "absent" => inc[r] >= 1

ServeInv == TypeOK /\ Counted /\ Known /\ Late /\ Enrolled /\ Own /\ Guarded /\ Seen

-----------------------------------------------------------------------------
(* The order of launches covers the ranks.                                 *)

LEMMA DivMod ==
  ASSUME NEW n \in Nat \ {0}, NEW a \in Nat
  PROVE  a = (a \div n) * n + (a % n) /\ a \div n \in Nat /\ a % n \in 0 .. n - 1
  OBVIOUS

LEMMA OrderType == \A i \in 1 .. N : Order[i] = i % N /\ Order[i] \in Ranks
<1>1. N \in Nat \ {0}  BY ClusterAssumption
<1> QED  BY <1>1, DivMod DEF Order, Ranks

LEMMA OrderCovers == \A r \in Ranks : \E i \in 1 .. N : Order[i] = r
<1> SUFFICES ASSUME NEW r \in Ranks  PROVE \E i \in 1 .. N : Order[i] = r  OBVIOUS
<1>0. N \in Nat \ {0}  BY ClusterAssumption
<1>1. CASE r = 0
  <2> DEFINE q == N \div N  m == N % N
  <2>1. N = q * N + m /\ q \in Nat /\ m \in 0 .. N - 1  BY <1>0, DivMod
  <2>2. m = 0
    <3> HIDE DEF q, m
    <3>1. CASE q = 0  BY <1>0, <2>1, <3>1
    <3>2. CASE q = 1  BY <1>0, <2>1, <3>2
    <3>3. CASE q >= 2
      <4>1. (q - 2) * N >= 0  BY <1>0, <2>1, <3>3
      <4>2. q * N >= 2 * N  BY <1>0, <2>1, <4>1
      <4> QED  BY <1>0, <2>1, <4>2
    <3> QED  BY <2>1, <3>1, <3>2, <3>3
  <2>3. Order[N] = 0  BY <1>0, <2>2, OrderType
  <2> QED  BY <1>0, <1>1, <2>3
<1>2. CASE r # 0
  <2> DEFINE q == r \div N  m == r % N
  <2>1. r \in 1 .. N - 1  BY <1>0, <1>2 DEF Ranks
  <2>2. r = q * N + m /\ q \in Nat /\ m \in 0 .. N - 1
    <3>1. r \in Nat  BY <1>0, <2>1
    <3> QED  BY <1>0, <3>1, DivMod
  <2>3. m = r
    <3> HIDE DEF q, m
    <3>1. CASE q = 0
      <4>1. q * N = 0  BY <1>0, <3>1
      <4> QED  BY <1>0, <2>2, <4>1
    <3>2. CASE q >= 1
      <4>1. (q - 1) * N >= 0  BY <1>0, <2>2, <3>2
      <4>2. q * N >= N  BY <1>0, <2>2, <4>1
      <4> QED  BY <1>0, <2>1, <2>2, <4>2
    <3> QED  BY <2>2, <3>1, <3>2
  <2>4. Order[r] = r  BY <1>0, <2>1, <2>3, OrderType
  <2> QED  BY <1>0, <2>1, <2>4
<1> QED  BY <1>1, <1>2

\* A serve in its loop has listed every rank.
LEMMA AllListed ==
  ASSUME TypeOK, Enrolled, NEW o \in Operators, op[o].pc \in Loop, NEW r \in Ranks
  PROVE  \E i \in 1 .. Len(op[o].started) : op[o].started[i] = r
<1>1. PICK i \in 1 .. N : Order[i] = r  BY OrderCovers
<1> QED  BY <1>1 DEF Enrolled, Progress

-----------------------------------------------------------------------------
(* The initial state.                                                      *)

LEMMA InitInv == Init => ServeInv
<1> SUFFICES ASSUME Init  PROVE ServeInv  OBVIOUS
<1> USE ClusterAssumption
<1>1. Start \in OpStates
  BY DEF Start, OpStates, Labels, Final, Loop, Outcomes
<1>2. TypeOK
  <2>1. /\ cont \in [Ranks -> {"absent", "running", "exited"}]
        /\ inc \in [Ranks -> Nat] /\ \A r \in Ranks : logged[r] \subseteq 1 .. inc[r]
    BY DEF Init
  <2>2. op \in [Operators -> OpStates] /\ \A o \in Operators : Len(op[o].started) <= N
    BY <1>1 DEF Init, Start
  <2>3. guard \in [pc : {"off", "watch", "sample", "failing", "stopping", "complete",
                         "crashed", "raised"},
                   todo : SUBSET Ranks, seen : Outcomes, unstopped : SUBSET Ranks]
    BY DEF Init, Outcomes
  <2> QED  BY <2>1, <2>2, <2>3 DEF Init, TypeOK
<1>3. Known /\ Counted  BY DEF Init, Known, Counted
<1>4. Late /\ Guarded  BY DEF Init, Late, Guarded
<1>5. Enrolled  BY DEF Init, Enrolled, Progress, Start, Loop
<1>6. Own  BY DEF Init, Own, Start
<1>7. Seen  BY DEF Init, Seen, Evidence, Start
<1> QED  BY <1>2, <1>3, <1>4, <1>5, <1>6, <1>7 DEF ServeInv

-----------------------------------------------------------------------------
(* Steps of serve that touch no host.                                      *)

\* Such a step keeps the invariant if the locals it leaves show how far serve has
\* come, know of every rank they knew of, and claim no evidence they do not have.
LEMMA LocalStep ==
  ASSUME ServeInv, NEW o \in Operators, NEW n \in OpStates,
         op' = [op EXCEPT ![o] = n], UNCHANGED <<hosts, guard>>,
         boot' \in {"none", "READY", "FAILED"}, o \in session.operators,
         Progress(n), n.started = op[o].started, op[o].unacked \subseteq n.unacked,
         \A r \in Ranks : Covers(op[o], r) => Covers(n, r), Alone => Evidence(n)
  PROVE  ServeInv'
<1>1. \A p \in Operators : op'[p] = IF p = o THEN n ELSE op[p]
  BY DEF ServeInv, TypeOK
<1>2. TypeOK'
  <2>1. op' \in [Operators -> OpStates]  BY DEF ServeInv, TypeOK
  <2>2. \A p \in Operators : Len(op'[p].started) <= N  BY <1>1 DEF ServeInv, TypeOK
  <2> QED  BY <2>1, <2>2 DEF ServeInv, TypeOK, hosts
<1>3. Known' /\ Counted'
  BY <1>1 DEF ServeInv, Known, Counted, hosts
<1>4. Late'  BY <1>1 DEF ServeInv, Late, hosts
<1>5. Enrolled'  BY <1>1 DEF ServeInv, Enrolled, hosts
<1>6. Own'  BY <1>1 DEF ServeInv, Own, hosts
<1>7. Guarded'  BY DEF ServeInv, Guarded, hosts
<1>8. Seen'
  <2>1. Alone' <=> Alone  BY DEF Alone, hosts
  <2>2. \A p \in Operators : Alone => Evidence(op'[p])  BY <1>1 DEF ServeInv, Seen
  <2>3. \A p \in Operators : Evidence(op'[p]) => Evidence(op[p])'
    BY DEF Evidence, hosts
  <2> QED  BY <2>1, <2>2, <2>3 DEF Seen
<1> QED  BY <1>2, <1>3, <1>4, <1>5, <1>6, <1>7, <1>8 DEF ServeInv

\* Before the clean-up, and where it changes no list, nothing known is forgotten.
LEMMA CoversKept ==
  ASSUME NEW s \in OpStates, NEW n \in OpStates, n.started = s.started,
         s.unacked \subseteq n.unacked,
         \/ n.pc \notin {"stopping", "raised"}
         \/ n.pc = "raised" /\ s.pc = "stopping" /\ n.next = s.next
                            /\ n.unstopped = s.unstopped
         \/ n.pc = "stopping" /\ n.next = 1,
         NEW r \in Ranks, Covers(s, r)
  PROVE  Covers(n, r)
  BY DEF Covers, OpStates

\* A step that only moves on, to where no evidence is claimed.
LEMMA GotoStep ==
  ASSUME ServeInv, NEW o \in Operators, NEW label \in Labels, Goto(o, label),
         UNCHANGED <<hosts, guard>>, boot' \in {"none", "READY", "FAILED"},
         op[o].pc # "off", label # "layout",
         label \notin {"stopping", "raised"} \/ (label = "raised" /\ op[o].pc = "stopping"),
         Progress([op[o] EXCEPT !.pc = label])
  PROVE  ServeInv'
<1> DEFINE n == [op[o] EXCEPT !.pc = label]
<1>1. op[o] \in OpStates  BY DEF ServeInv, TypeOK
<1>2. op' = [op EXCEPT ![o] = n]  BY DEF Goto, ServeInv, TypeOK
<1>3. /\ n \in OpStates /\ n.started = op[o].started /\ n.unacked = op[o].unacked
      /\ n.pc = label /\ n.next = op[o].next /\ n.unstopped = op[o].unstopped
  BY <1>1 DEF OpStates
<1>4. Progress(n) /\ o \in session.operators  BY DEF ServeInv, Enrolled
<1> HIDE DEF n
<1>5. \A r \in Ranks : Covers(op[o], r) => Covers(n, r)  BY <1>1, <1>3, CoversKept
<1>6. Evidence(n)  BY <1>3 DEF Evidence
<1> QED  BY <1>2, <1>3, <1>4, <1>5, <1>6, LocalStep

\* The steps of serve that only move on.
LEMMA GotoSteps ==
  ASSUME ServeInv, NEW o \in Operators, UNCHANGED guard,
         \/ Checked(o) \/ LaunchRefused(o) \/ Deadline(o) \/ Judge(o) \/ NotReady(o)
         \/ Mismatch(o) \/ Publish(o) \/ LayoutFails(o) \/ SaveRaises(o) \/ Raise(o)
         \/ Die(o)
  PROVE  ServeInv'
<1> USE ClusterAssumption
<1>0. /\ op[o] \in OpStates /\ Progress(op[o]) /\ Len(op[o].started) <= N
      /\ boot \in {"none", "READY", "FAILED"}
  BY DEF ServeInv, TypeOK, Enrolled
<1>1. ASSUME NEW label \in {"failing", "crashed", "dead", "ready", "refused"},
             label = "refused" => op[o].pc = "check"
      PROVE  Progress([op[o] EXCEPT !.pc = label])
  BY <1>0, <1>1 DEF Progress, OpStates, Loop
<1>2. ASSUME NEW label \in {"failing", "crashed", "dead", "ready", "refused"},
             label = "refused" => op[o].pc = "check", op[o].pc # "off",
             Goto(o, label), UNCHANGED hosts, boot' \in {"none", "READY", "FAILED"}
      PROVE  ServeInv'
  <2>1. label \in Labels  BY DEF Labels, Final
  <2>2. Progress([op[o] EXCEPT !.pc = label])  BY <1>1, <1>2
  <2> QED  BY <1>2, <2>1, <2>2, GotoStep
<1>3. CASE Checked(o)
  <2>1. CASE op[o].seen = "ok"
    <3>1. Goto(o, "launch") /\ op[o].pc = "check" /\ UNCHANGED <<hosts, boot>>
      BY <1>3, <2>1 DEF Checked, At
    <3>2. Progress([op[o] EXCEPT !.pc = "launch"])
      BY <1>0, <3>1 DEF Progress, OpStates, Loop
    <3>3. "launch" \in Labels  BY DEF Labels
    <3> QED  BY <1>0, <3>1, <3>2, <3>3, GotoStep
  <2>2. CASE op[o].seen # "ok"
    BY <1>0, <1>2, <1>3, <2>2 DEF Checked, At
  <2> QED  BY <2>1, <2>2
<1>4. CASE LaunchRefused(o) \/ Deadline(o) \/ Mismatch(o) \/ LayoutFails(o)
  BY <1>0, <1>2, <1>4 DEF LaunchRefused, Deadline, Mismatch, LayoutFails, At, Fail
<1>5. CASE Judge(o)
  <2>1. CASE op[o].seen = "ok"
    <3>1. Goto(o, "probe") /\ op[o].pc = "sample" /\ UNCHANGED <<hosts, boot>>
      BY <1>5, <2>1 DEF Judge, At
    <3>2. Progress([op[o] EXCEPT !.pc = "probe"])
      BY <1>0, <3>1 DEF Progress, OpStates, Loop
    <3>3. "probe" \in Labels  BY DEF Labels, Loop
    <3> QED  BY <1>0, <3>1, <3>2, <3>3, GotoStep
  <2>2. CASE op[o].seen # "ok"
    BY <1>0, <1>2, <1>5, <2>2 DEF Judge, At, Fail
  <2> QED  BY <2>1, <2>2
<1>6. CASE NotReady(o)
  <2>1. Goto(o, "watch") /\ op[o].pc = "probe" /\ UNCHANGED <<hosts, boot>>
    BY <1>6 DEF NotReady, At
  <2>2. Progress([op[o] EXCEPT !.pc = "watch"])
    BY <1>0, <2>1 DEF Progress, OpStates, Loop
  <2>3. "watch" \in Labels  BY DEF Labels, Loop
  <2> QED  BY <1>0, <2>1, <2>2, <2>3, GotoStep
<1>7. CASE Publish(o)  BY <1>2, <1>7 DEF Publish, At
<1>8. CASE SaveRaises(o)  BY <1>0, <1>2, <1>8 DEF SaveRaises, At
<1>9. CASE Raise(o)
  <2>1. Goto(o, "raised") /\ op[o].pc = "stopping" /\ UNCHANGED <<hosts, boot>>
        /\ op[o].next > Len(op[o].started)
    BY <1>0, <1>9 DEF Raise, At, Left, OpStates
  <2>2. Progress([op[o] EXCEPT !.pc = "raised"])
    BY <1>0, <2>1 DEF Progress, OpStates, Loop
  <2>3. "raised" \in Labels  BY DEF Labels, Final
  <2> QED  BY <1>0, <2>1, <2>2, <2>3, GotoStep
<1>10. CASE Die(o)  BY <1>0, <1>2, <1>10 DEF Die
<1> QED  BY <1>3, <1>4, <1>5, <1>6, <1>7, <1>8, <1>9, <1>10

\* A call mapped over the nodes is begun, for a check or for the receipts.
LEMMA MapStep ==
  ASSUME ServeInv, NEW o \in Operators, UNCHANGED guard, Begin(o) \/ Ready(o)
  PROVE  ServeInv'
<1>1. PICK label \in {"check", "layout"} :
        /\ Map(o, label) /\ UNCHANGED <<hosts, boot>>
        /\ label = "check" => op[o].pc = "off" /\ o \in session.operators
        /\ label = "layout" => op[o].pc = "probe"
  BY DEF Begin, Ready, At
<1> DEFINE n == [op[o] EXCEPT !.pc = label, !.todo = Ranks, !.seen = "ok"]
<1>2. /\ op[o] \in OpStates /\ Progress(op[o]) /\ Len(op[o].started) <= N
      /\ boot \in {"none", "READY", "FAILED"}
      /\ op[o].pc # "off" => o \in session.operators
  BY DEF ServeInv, TypeOK, Enrolled
<1>3. op' = [op EXCEPT ![o] = n]  BY <1>1 DEF Map, ServeInv, TypeOK
<1>4. /\ n \in OpStates /\ n.started = op[o].started /\ n.unacked = op[o].unacked
      /\ n.pc = label /\ n.todo = Ranks
  BY <1>2 DEF OpStates, Labels, Loop, Outcomes
<1>5. Progress(n)
  BY <1>1, <1>2 DEF Progress, OpStates, Loop
<1> HIDE DEF n
<1>6. \A r \in Ranks : Covers(op[o], r) => Covers(n, r)
  BY <1>1, <1>2, <1>4, CoversKept
<1>7. Evidence(n)  BY <1>4 DEF Evidence
<1> QED  BY <1>1, <1>2, <1>3, <1>4, <1>5, <1>6, <1>7, LocalStep

LEMMA WorseOk ==
  ASSUME NEW s \in Outcomes, NEW t \in Outcomes
  PROVE  Worse(s, t) \in Outcomes /\ (Worse(s, t) = "ok" => s = "ok" /\ t = "ok")
  BY DEF Worse, Outcomes

\* One node of a mapped call answers.
LEMMA MappedStep ==
  ASSUME ServeInv, NEW o \in Operators, NEW r \in Ranks, UNCHANGED guard,
         Check(o, r) \/ Sample(o, r) \/ Layout(o, r)
  PROVE  ServeInv'
<1>1. PICK s \in Outcomes :
        /\ Mapped(o, r, s) /\ UNCHANGED <<hosts, boot>>
        /\ op[o].pc \in {"check", "sample", "layout"}
        /\ op[o].pc = "layout" /\ s = "ok" => inc[r] \in logged[r]
  <2>1. CASE Check(o, r)  BY <2>1 DEF Check, At, Outcomes
  <2>2. CASE Sample(o, r)  BY <2>2 DEF Sample, At, Outcomes
  <2>3. CASE Layout(o, r)  BY <2>3 DEF Layout, At, Outcomes, Receipts
  <2> QED  BY <2>1, <2>2, <2>3
<1> DEFINE n == [op[o] EXCEPT !.todo = @ \ {r}, !.seen = Worse(@, s)]
<1>2. /\ op[o] \in OpStates /\ Progress(op[o]) /\ Len(op[o].started) <= N
      /\ boot \in {"none", "READY", "FAILED"} /\ o \in session.operators
  BY <1>1 DEF ServeInv, TypeOK, Enrolled
<1>3. op' = [op EXCEPT ![o] = n]  BY <1>1 DEF Mapped, ServeInv, TypeOK
<1>4. op[o].seen \in Outcomes  BY <1>2 DEF OpStates
<1>5. /\ n.started = op[o].started /\ n.unacked = op[o].unacked
      /\ n.pc = op[o].pc /\ n.todo = op[o].todo \ {r} /\ n.seen = Worse(op[o].seen, s)
      /\ n.next = op[o].next
  BY <1>2 DEF OpStates
<1>6. n \in OpStates  BY <1>2, <1>4, WorseOk DEF OpStates
<1>7. Progress(n)  BY <1>2, <1>5 DEF Progress
<1> HIDE DEF n
<1>8. \A q \in Ranks : Covers(op[o], q) => Covers(n, q)
  BY <1>1, <1>2, <1>5, <1>6, CoversKept
<1>9. Alone => Evidence(n)
  <2> SUFFICES ASSUME Alone, n.pc = "layout", n.seen = "ok", NEW q \in Ranks \ n.todo
               PROVE  inc[q] \in logged[q]
    BY DEF Evidence
  <2>1. op[o].seen = "ok" /\ s = "ok"  BY <1>4, <1>5, WorseOk
  <2>2. Evidence(op[o])  BY DEF ServeInv, Seen
  <2> QED  BY <1>1, <1>5, <2>1, <2>2 DEF Evidence
<1> QED  BY <1>1, <1>2, <1>3, <1>5, <1>6, <1>7, <1>8, <1>9, LocalStep

LEMMA RoundStep ==
  ASSUME ServeInv, NEW o \in Operators, UNCHANGED guard, Round(o)
  PROVE  ServeInv'
<1> DEFINE n == [op[o] EXCEPT !.pc = "sample", !.rounds = @ + 1, !.todo = Ranks,
                              !.seen = "ok"]
<1>1. op[o].pc = "watch" /\ op[o].rounds < MaxRounds /\ UNCHANGED <<hosts, boot>>
  BY DEF Round, At
<1>2. /\ op[o] \in OpStates /\ Progress(op[o]) /\ Len(op[o].started) <= N
      /\ boot \in {"none", "READY", "FAILED"} /\ o \in session.operators
  BY <1>1 DEF ServeInv, TypeOK, Enrolled
<1>3. op' = [op EXCEPT ![o] = n]  BY DEF Round, ServeInv, TypeOK
<1>4. n.started = op[o].started /\ n.unacked = op[o].unacked /\ n.pc = "sample"
  BY <1>2 DEF OpStates
<1>5. n \in OpStates
  <2>1. op[o].rounds + 1 \in 0 .. MaxRounds
    BY <1>1, <1>2, ClusterAssumption DEF OpStates
  <2>2. "sample" \in Labels /\ "ok" \in Outcomes  BY DEF Labels, Loop, Outcomes
  <2> QED  BY <1>2, <2>1, <2>2 DEF OpStates
<1>6. Progress(n)  BY <1>1, <1>2 DEF Progress, OpStates, Loop
<1> HIDE DEF n
<1>7. \A q \in Ranks : Covers(op[o], q) => Covers(n, q)
  BY <1>2, <1>4, <1>5, CoversKept
<1>8. Evidence(n)  BY <1>4 DEF Evidence
<1> QED  BY <1>1, <1>2, <1>3, <1>4, <1>5, <1>6, <1>7, <1>8, LocalStep

LEMMA InterruptStep ==
  ASSUME ServeInv, NEW o \in Operators, UNCHANGED guard, Interrupt(o)
  PROVE  ServeInv'
<1> DEFINE n == [op[o] EXCEPT !.pc = "failing", !.todo = {}]
<1>1. op[o].pc \in Loop /\ UNCHANGED <<hosts, boot>>
  BY DEF Interrupt
<1>2. /\ op[o] \in OpStates /\ Progress(op[o]) /\ Len(op[o].started) <= N
      /\ boot \in {"none", "READY", "FAILED"} /\ o \in session.operators
  BY <1>1 DEF ServeInv, TypeOK, Enrolled, Loop
<1>3. op' = [op EXCEPT ![o] = n]  BY DEF Interrupt, ServeInv, TypeOK
<1>4. n.started = op[o].started /\ n.unacked = op[o].unacked /\ n.pc = "failing"
  BY <1>2 DEF OpStates
<1>5. n \in OpStates  BY <1>1, <1>2 DEF OpStates, Labels
<1>6. Progress(n)  BY <1>1, <1>2 DEF Progress, OpStates, Loop
<1> HIDE DEF n
<1>7. \A q \in Ranks : Covers(op[o], q) => Covers(n, q)
  BY <1>2, <1>4, <1>5, CoversKept
<1>8. Evidence(n)  BY <1>4 DEF Evidence
<1> QED  BY <1>1, <1>2, <1>3, <1>4, <1>5, <1>6, <1>7, <1>8, LocalStep

LEMMA SaveFailedStep ==
  ASSUME ServeInv, NEW o \in Operators, UNCHANGED guard, SaveFailed(o)
  PROVE  ServeInv'
<1> DEFINE n == [op[o] EXCEPT !.pc = "stopping", !.next = 1]
<1>1. op[o].pc = "failing" /\ UNCHANGED hosts /\ boot' = "FAILED"
  BY DEF SaveFailed, At
<1>2. /\ op[o] \in OpStates /\ Progress(op[o]) /\ Len(op[o].started) <= N
      /\ o \in session.operators
  BY <1>1 DEF ServeInv, TypeOK, Enrolled
<1>3. op' = [op EXCEPT ![o] = n]  BY DEF SaveFailed, ServeInv, TypeOK
<1>4. /\ n.started = op[o].started /\ n.unacked = op[o].unacked /\ n.pc = "stopping"
      /\ n.next = 1
  BY <1>2 DEF OpStates
<1>5. n \in OpStates
  <2>1. 1 \in 1 .. N + 1 /\ "stopping" \in Labels  BY ClusterAssumption DEF Labels
  <2> QED  BY <1>2, <2>1 DEF OpStates
<1>6. Progress(n)  BY <1>1, <1>2 DEF Progress, OpStates, Loop
<1> HIDE DEF n
<1>7. \A q \in Ranks : Covers(op[o], q) => Covers(n, q)
  BY <1>2, <1>4, <1>5, CoversKept
<1>8. Evidence(n)  BY <1>4 DEF Evidence
<1> QED  BY <1>1, <1>2, <1>3, <1>4, <1>5, <1>6, <1>7, <1>8, LocalStep

\* The node to be stopped next, and the locals of a serve that has tried it.
LEMMA StopNext ==
  ASSUME ServeInv, NEW o \in Operators, Left(o)
  PROVE  /\ op[o].next \in 1 .. Len(op[o].started) /\ Stopping(o) \in Ranks
         /\ op[o].pc = "stopping" /\ o \in session.operators
         /\ op[o].next + 1 \in 1 .. N + 1
<1>1. op[o] \in OpStates /\ Len(op[o].started) <= N /\ Enrolled
  BY DEF ServeInv, TypeOK
<1>2. op[o].next \in 1 .. Len(op[o].started) /\ op[o].pc = "stopping"
  BY <1>1 DEF Left, At, OpStates
<1> QED  BY <1>1, <1>2, ClusterAssumption DEF Stopping, OpStates, Enrolled

LEMMA StopFailsStep ==
  ASSUME ServeInv, NEW o \in Operators, UNCHANGED guard, StopFails(o)
  PROVE  ServeInv'
<1> DEFINE n == [op[o] EXCEPT !.next = @ + 1, !.unstopped = @ \cup {Stopping(o)}]
<1>1. /\ op[o].next \in 1 .. Len(op[o].started) /\ Stopping(o) \in Ranks
      /\ op[o].pc = "stopping" /\ o \in session.operators
      /\ op[o].next + 1 \in 1 .. N + 1
  BY StopNext DEF StopFails
<1>2. /\ op[o] \in OpStates /\ Progress(op[o]) /\ UNCHANGED <<hosts, boot>>
      /\ boot \in {"none", "READY", "FAILED"}
  BY DEF ServeInv, TypeOK, Enrolled, StopFails
<1>3. op' = [op EXCEPT ![o] = n]  BY DEF StopFails, ServeInv, TypeOK
<1>4. /\ n.started = op[o].started /\ n.unacked = op[o].unacked /\ n.pc = "stopping"
      /\ n.next = op[o].next + 1 /\ n.unstopped = op[o].unstopped \cup {Stopping(o)}
  BY <1>1, <1>2 DEF OpStates
<1>5. n \in OpStates  BY <1>1, <1>2 DEF OpStates
<1>6. Progress(n)  BY <1>1, <1>2, <1>4 DEF Progress, Loop
<1> HIDE DEF n
<1>7. ASSUME NEW q \in Ranks, Covers(op[o], q)
      PROVE  Covers(n, q)
  <2>1. CASE q \in op[o].unacked  BY <1>4, <2>1 DEF Covers
  <2>2. CASE q \notin op[o].unacked
    <3>1. PICK i \in 1 .. Len(op[o].started) :
            op[o].started[i] = q /\ (i >= op[o].next \/ q \in op[o].unstopped)
      BY <1>1, <1>7, <2>2 DEF Covers
    <3>2. CASE i = op[o].next  BY <1>4, <3>1, <3>2 DEF Covers, Stopping
    <3>3. CASE i # op[o].next  BY <1>1, <1>4, <3>1, <3>3 DEF Covers
    <3> QED  BY <3>2, <3>3
  <2> QED  BY <2>1, <2>2
<1>8. Evidence(n)  BY <1>4 DEF Evidence
<1> QED  BY <1>1, <1>2, <1>3, <1>4, <1>5, <1>6, <1>7, <1>8, LocalStep

-----------------------------------------------------------------------------
(* Steps in which no container starts.                                     *)

\* Containers may end, logs may grow and memory may run low.
Mild ==
  /\ UNCHANGED <<session, launcher, inc, pending>>
  /\ low' \in [Ranks -> BOOLEAN]
  /\ cont' \in [Ranks -> {"absent", "running", "exited"}]
  /\ \A r \in Ranks :
       /\ cont'[r] = cont[r] \/ (cont[r] = "running" /\ cont'[r] = "exited")
       /\ logged[r] \subseteq logged'[r] /\ logged'[r] \subseteq 1 .. inc[r]

LEMMA QuietIsMild == TypeOK /\ UNCHANGED hosts => Mild
  BY DEF TypeOK, hosts, Mild

LEMMA StopIsMild ==
  ASSUME TypeOK, NEW r \in Ranks, DockerStop(r)
  PROVE  Mild /\ cont'[r] # "running"
<1>1. cont' \in [Ranks -> {"absent", "running", "exited"}]
  BY DEF TypeOK, DockerStop
<1>2. \A q \in Ranks : cont'[q] = cont[q] \/ (cont[q] = "running" /\ cont'[q] = "exited")
  BY DEF TypeOK, DockerStop
<1> QED  BY <1>1, <1>2 DEF TypeOK, DockerStop, Mild

LEMMA HostIsMild ==
  ASSUME TypeOK, Counted, NEW r \in Ranks, Exit(r) \/ Log(r) \/ Memory(r)
  PROVE  Mild
<1>1. CASE Exit(r)  BY <1>1, StopIsMild DEF Exit
<1>2. CASE Log(r)
  <2>1. \A q \in Ranks : logged[q] \subseteq logged'[q] /\ logged'[q] \subseteq 1 .. inc[q]
    <3> SUFFICES ASSUME NEW q \in Ranks
                 PROVE  /\ logged[q] \subseteq logged'[q]
                        /\ logged'[q] \subseteq 1 .. inc[q]
      OBVIOUS
    <3>1. CASE q # r \/ r \notin DOMAIN logged  BY <1>2, <3>1 DEF Log, TypeOK
    <3>2. CASE q = r /\ r \in DOMAIN logged
      <4>1. logged'[r] = logged[r] \cup {inc[r]}  BY <1>2, <3>2 DEF Log
      <4>2. cont[r] = "running"  BY <1>2 DEF Log
        <4>3. inc[r] \in 1 .. inc[r]  BY <4>2 DEF TypeOK, Counted
      <4> QED  BY <3>2, <4>1, <4>3 DEF TypeOK
    <3> QED  BY <3>1, <3>2
  <2> QED  BY <1>2, <2>1 DEF TypeOK, Log, Mild
<1>3. CASE Memory(r)  BY <1>3 DEF TypeOK, Memory, Mild
<1> QED  BY <1>1, <1>2, <1>3

\* The parts of the invariant that say nothing of the guard.
LEMMA MildStep ==
  ASSUME ServeInv, Mild, UNCHANGED <<boot, op>>, Guarded',
         guard' \in [pc : {"off", "watch", "sample", "failing", "stopping", "complete",
                           "crashed", "raised"},
                     todo : SUBSET Ranks, seen : Outcomes, unstopped : SUBSET Ranks]
  PROVE  ServeInv'
<1>1. TypeOK'  BY DEF ServeInv, TypeOK, Mild
<1>2. Known' /\ Counted'  BY DEF ServeInv, Known, Counted, Mild
<1>3. Late' /\ Enrolled'  BY DEF ServeInv, Late, Enrolled, Mild
<1>4. Own'
  <2> SUFFICES ASSUME ~session.restart, NEW o \in Operators,
                      NEW i \in 1 .. Len(op[o].started)
               PROVE  /\ launcher[op[o].started[i]] = o
                      /\ cont'[op[o].started[i]] # "absent"
    BY DEF Own, Mild
  <2>1. op[o].started[i] \in Ranks  BY DEF ServeInv, TypeOK, OpStates
  <2> QED  BY <2>1 DEF ServeInv, Own, Mild
<1>5. Seen'
  <2>1. Alone' <=> Alone  BY DEF Alone, Mild
  <2>2. \A o \in Operators : Evidence(op[o]) => Evidence(op[o])'
    BY DEF Evidence, Mild
  <2> QED  BY <2>1, <2>2 DEF ServeInv, Seen
<1> QED  BY <1>1, <1>2, <1>3, <1>4, <1>5 DEF ServeInv

LEMMA HostStep ==
  ASSUME ServeInv, NEW r \in Ranks, Exit(r) \/ Log(r) \/ Memory(r),
         UNCHANGED <<boot, op, guard>>
  PROVE  ServeInv'
<1>1. Mild  BY HostIsMild DEF ServeInv
<1>2. Guarded'  BY <1>1 DEF ServeInv, Guarded, Mild
<1> QED  BY <1>1, <1>2, MildStep DEF ServeInv, TypeOK

LEMMA StopOkStep ==
  ASSUME ServeInv, NEW o \in Operators, UNCHANGED guard, StopOk(o)
  PROVE  ServeInv'
<1> DEFINE n == [op[o] EXCEPT !.next = @ + 1]
<1>1. /\ op[o].next \in 1 .. Len(op[o].started) /\ Stopping(o) \in Ranks
      /\ op[o].pc = "stopping" /\ o \in session.operators
      /\ op[o].next + 1 \in 1 .. N + 1
  BY StopNext DEF StopOk
<1>2. /\ op[o] \in OpStates /\ Progress(op[o]) /\ UNCHANGED boot
      /\ Mild /\ cont'[Stopping(o)] # "running"
  BY <1>1, StopIsMild DEF ServeInv, TypeOK, Enrolled, StopOk
<1>3. op' = [op EXCEPT ![o] = n]  BY DEF StopOk, ServeInv, TypeOK
<1>4. /\ n.started = op[o].started /\ n.unacked = op[o].unacked /\ n.pc = "stopping"
      /\ n.next = op[o].next + 1 /\ n.unstopped = op[o].unstopped
  BY <1>1, <1>2 DEF OpStates
<1>5. n \in OpStates  BY <1>1, <1>2 DEF OpStates
<1>6. Progress(n)  BY <1>1, <1>2, <1>4 DEF Progress, Loop
<1> HIDE DEF n
<1>7. \A p \in Operators : op'[p] = IF p = o THEN n ELSE op[p]
  BY <1>3 DEF ServeInv, TypeOK
<1>8. ASSUME NEW q \in Ranks, Covers(op[o], q), cont'[q] = "running"
      PROVE  Covers(n, q)
  <2>1. CASE q \in op[o].unacked  BY <1>4, <2>1 DEF Covers
  <2>2. CASE q \notin op[o].unacked
    <3>1. PICK i \in 1 .. Len(op[o].started) :
            op[o].started[i] = q /\ (i >= op[o].next \/ q \in op[o].unstopped)
      BY <1>1, <1>8, <2>2 DEF Covers
    <3>2. i # op[o].next  BY <1>2, <1>8, <3>1 DEF Stopping
    <3> QED  BY <1>1, <1>4, <3>1, <3>2 DEF Covers
  <2> QED  BY <2>1, <2>2
<1>9. TypeOK'
  <2>1. op' \in [Operators -> OpStates]  BY <1>3, <1>5 DEF ServeInv, TypeOK
  <2>2. \A p \in Operators : Len(op'[p].started) <= N  BY <1>4, <1>7 DEF ServeInv, TypeOK
  <2> QED  BY <1>2, <2>1, <2>2 DEF ServeInv, TypeOK, Mild
<1>10. Known'
  <2> SUFFICES ASSUME NEW p \in Operators, NEW q \in Ranks, cont'[q] = "running",
                      launcher'[q] = p
               PROVE  Covers(op'[p], q)
    BY DEF Known, Covers
  <2>1. Covers(op[p], q)  BY <1>2 DEF ServeInv, Known, Mild
  <2> QED  BY <1>7, <1>8, <2>1
<1>11. Late' /\ Counted'  BY <1>2, <1>4, <1>7 DEF ServeInv, Late, Counted, Mild
<1>12. Enrolled'  BY <1>1, <1>2, <1>6, <1>7 DEF ServeInv, Enrolled, Mild, Progress
<1>13. Own'
  <2> SUFFICES ASSUME ~session.restart, NEW p \in Operators,
                      NEW i \in 1 .. Len(op'[p].started)
               PROVE  /\ launcher[op'[p].started[i]] = p
                      /\ cont'[op'[p].started[i]] # "absent"
    BY <1>2 DEF Own, Mild
  <2>1. op'[p].started = op[p].started  BY <1>4, <1>7
  <2>2. op[p].started[i] \in Ranks  BY <2>1 DEF ServeInv, TypeOK, OpStates
  <2> QED  BY <1>2, <2>1, <2>2 DEF ServeInv, Own, Mild
<1>14. Guarded'  BY <1>2 DEF ServeInv, Guarded, Mild
<1>15. Seen'
  <2>1. Alone' <=> Alone  BY <1>2 DEF Alone, Mild
  <2>2. \A p \in Operators : Alone => Evidence(op'[p])
    BY <1>4, <1>7 DEF ServeInv, Seen, Evidence
  <2>3. \A p \in Operators : Evidence(op'[p]) => Evidence(op[p])'
    BY <1>2 DEF Evidence, Mild
  <2> QED  BY <2>1, <2>2, <2>3 DEF Seen
<1> QED  BY <1>9, <1>10, <1>11, <1>12, <1>13, <1>14, <1>15 DEF ServeInv

-----------------------------------------------------------------------------
(* The guard.                                                              *)

GuardStates == [pc : {"off", "watch", "sample", "failing", "stopping", "complete",
                      "crashed", "raised"},
                todo : SUBSET Ranks, seen : Outcomes, unstopped : SUBSET Ranks]

LEMMA GuardSteps ==
  ASSUME ServeInv, UNCHANGED <<boot, op>>,
         GuardStep \/ GuardStart \/ GuardComplete \/ GuardRaises
  PROVE  ServeInv'
<1>1. guard \in GuardStates /\ TypeOK  BY DEF ServeInv, TypeOK, GuardStates
<1>2. CASE \E r \in Ranks : GuardSample(r)
  <2>1. PICK r \in Ranks, s \in Outcomes :
          /\ guard.pc = "sample" /\ UNCHANGED hosts
          /\ guard' = [guard EXCEPT !.todo = @ \ {r}, !.seen = Worse(@, s)]
    BY <1>2 DEF GuardSample, Outcomes
  <2>2. guard.seen \in Outcomes  BY <1>1 DEF GuardStates
  <2>3. guard' \in GuardStates /\ guard'.pc = "sample"
    BY <1>1, <2>1, <2>2, WorseOk DEF GuardStates
  <2>4. Guarded'  BY <2>3 DEF Guarded
  <2> QED  BY <1>1, <2>1, <2>3, <2>4, MildStep, QuietIsMild DEF GuardStates
<1>3. CASE \E r \in Ranks : GuardStopOk(r)
  <2>1. PICK r \in Ranks :
          /\ guard.pc = "stopping" /\ cont[r] # "absent" /\ DockerStop(r)
          /\ guard' = [guard EXCEPT !.todo = @ \ {r}]
    BY <1>3 DEF GuardStopOk
  <2>2. /\ guard' \in GuardStates /\ guard'.pc = "stopping"
        /\ guard'.todo = guard.todo \ {r} /\ guard'.unstopped = guard.unstopped
    BY <1>1, <2>1 DEF GuardStates
  <2>3. Mild /\ cont'[r] # "running"  BY <1>1, <2>1, StopIsMild
  <2>4. cont'[r] = "exited"  BY <2>1, <2>3 DEF Mild
  <2>5. Guarded'  BY <2>1, <2>2, <2>3, <2>4 DEF ServeInv, Guarded, Mild
  <2> QED  BY <2>2, <2>3, <2>5, MildStep DEF GuardStates
<1>4. CASE \E r \in Ranks : GuardStopFails(r)
  <2>1. PICK r \in Ranks :
          /\ guard.pc = "stopping" /\ UNCHANGED hosts
          /\ guard' = [guard EXCEPT !.todo = @ \ {r}, !.unstopped = @ \cup {r}]
    BY <1>4 DEF GuardStopFails
  <2>2. /\ guard' \in GuardStates /\ guard'.pc = "stopping"
        /\ guard'.todo = guard.todo \ {r} /\ guard'.unstopped = guard.unstopped \cup {r}
    BY <1>1, <2>1 DEF GuardStates
  <2>3. Guarded'  BY <2>1, <2>2 DEF ServeInv, Guarded, hosts
  <2> QED  BY <1>1, <2>1, <2>2, <2>3, MildStep, QuietIsMild DEF GuardStates
<1>5. CASE GuardSave
  <2>1. /\ UNCHANGED hosts
        /\ guard' = [guard EXCEPT !.pc = "stopping", !.todo = Ranks]
    BY <1>5 DEF GuardSave
  <2>2. guard' \in GuardStates /\ guard'.pc = "stopping" /\ guard'.todo = Ranks
    BY <1>1, <2>1 DEF GuardStates
  <2>3. Guarded'  BY <2>2 DEF Guarded
  <2> QED  BY <1>1, <2>1, <2>2, <2>3, MildStep, QuietIsMild DEF GuardStates
<1>6. CASE GuardRaised
  <2>1. /\ UNCHANGED hosts /\ guard.pc = "stopping" /\ guard.todo = {}
        /\ guard' = [guard EXCEPT !.pc = "raised"]
    BY <1>6 DEF GuardRaised, GuardGoto
  <2>2. /\ guard' \in GuardStates /\ guard'.todo = {}
        /\ guard'.unstopped = guard.unstopped
    BY <1>1, <2>1 DEF GuardStates
  <2>3. Guarded'  BY <2>1, <2>2 DEF ServeInv, Guarded, hosts
  <2> QED  BY <1>1, <2>1, <2>2, <2>3, MildStep, QuietIsMild DEF GuardStates
<1>7. CASE GuardRound \/ GuardJudge \/ GuardSaveRaises \/ GuardStart \/ GuardComplete
           \/ GuardRaises
  <2>1. UNCHANGED hosts
    BY <1>7 DEF GuardRound, GuardJudge, GuardSaveRaises, GuardStart, GuardComplete,
       GuardRaises
  <2>2. /\ guard' \in GuardStates
        /\ guard'.pc \in {"watch", "sample", "failing", "complete", "crashed"}
    <3>1. CASE GuardRound \/ GuardRaises
      BY <1>1, <3>1 DEF GuardRound, GuardRaises, GuardStates, Outcomes
    <3>2. ASSUME NEW from, NEW to \in {"watch", "failing", "complete", "crashed"},
                 GuardGoto(from, to)
          PROVE  guard' \in GuardStates /\ guard'.pc = to
      BY <1>1, <3>2 DEF GuardGoto, GuardStates
    <3>3. CASE GuardJudge \/ GuardSaveRaises \/ GuardStart \/ GuardComplete
      BY <3>2, <3>3 DEF GuardJudge, GuardSaveRaises, GuardStart, GuardComplete
    <3> QED  BY <1>7, <3>1, <3>3
  <2>3. Guarded'  BY <2>2 DEF Guarded
  <2> QED  BY <1>1, <2>1, <2>2, <2>3, MildStep, QuietIsMild DEF GuardStates
<1> QED  BY <1>2, <1>3, <1>4, <1>5, <1>6, <1>7 DEF GuardStep

-----------------------------------------------------------------------------
(* Steps that start a container, or leave one to be started later.         *)

\* Two operators both active on preserved containers are one.
LEMMA OneActive ==
  ASSUME ServeInv, Alone, session.restart, NEW o \in Operators, NEW p \in Operators,
         op[o].pc # "off", op[p].pc # "off"
  PROVE  o = p
  BY DEF ServeInv, Enrolled, Alone

\* Under serve the containers of a serve in its loop are there.
LEMMA LoopPresent ==
  ASSUME ServeInv, ~session.restart, NEW o \in Operators, op[o].pc \in Loop,
         NEW r \in Ranks
  PROVE  cont[r] # "absent"
<1>1. PICK i \in 1 .. Len(op[o].started) : op[o].started[i] = r
  BY AllListed DEF ServeInv
<1> QED  BY <1>1 DEF ServeInv, Own

LEMMA RunTypes ==
  ASSUME TypeOK, NEW o \in Operators, NEW r \in Ranks, DockerRun(o, r)
  PROVE  /\ cont' \in [Ranks -> {"absent", "running", "exited"}]
         /\ inc' \in [Ranks -> Nat] /\ \A q \in Ranks : inc'[q] >= inc[q]
         /\ launcher' \in [Ranks -> Operators \cup {Nobody}]
         /\ \A q \in Ranks : logged'[q] \subseteq 1 .. inc'[q]
         /\ UNCHANGED <<session, low, logged>>
<1>1. /\ cont' \in [Ranks -> {"absent", "running", "exited"}]
      /\ inc' \in [Ranks -> Nat] /\ \A q \in Ranks : inc'[q] >= inc[q]
      /\ launcher' \in [Ranks -> Operators \cup {Nobody}]
      /\ UNCHANGED <<session, low, logged>>
  <2>1. CASE CanRun(r) /\ cont[r] # "running"
    <3>1. /\ cont' = [cont EXCEPT ![r] = "running"]
          /\ inc' = [inc EXCEPT ![r] = @ + 1]
          /\ launcher' = [launcher EXCEPT ![r] = o]
          /\ UNCHANGED <<session, low, logged>>
      BY <2>1 DEF DockerRun
    <3>2. \A q \in Ranks : inc'[q] = IF q = r THEN inc[q] + 1 ELSE inc[q]
      BY <3>1 DEF TypeOK
    <3>3. inc' \in [Ranks -> Nat] /\ \A q \in Ranks : inc'[q] >= inc[q]
      BY <3>1, <3>2 DEF TypeOK
    <3> QED  BY <3>1, <3>3 DEF TypeOK
  <2>2. CASE ~(CanRun(r) /\ cont[r] # "running")  BY <2>2 DEF DockerRun, TypeOK
  <2> QED  BY <2>1, <2>2
<1> QED  BY <1>1 DEF TypeOK

\* Only rank r is touched, and only if it may run and does not.
LEMMA RunEffect ==
  ASSUME TypeOK, NEW o \in Operators, NEW r \in Ranks, DockerRun(o, r), NEW q \in Ranks
  PROVE  \/ cont'[q] = cont[q] /\ inc'[q] = inc[q] /\ launcher'[q] = launcher[q]
         \/ /\ q = r /\ cont[r] # "running" /\ CanRun(r) /\ cont'[r] = "running"
            /\ inc'[r] = inc[r] + 1 /\ launcher'[r] = o
<1>1. CASE CanRun(r) /\ cont[r] # "running"
  <2>1. /\ cont' = [cont EXCEPT ![r] = "running"] /\ inc' = [inc EXCEPT ![r] = @ + 1]
        /\ launcher' = [launcher EXCEPT ![r] = o]
    BY <1>1 DEF DockerRun
  <2>2. CASE q = r  BY <1>1, <2>1, <2>2 DEF TypeOK
  <2>3. CASE q # r  BY <2>1, <2>3 DEF TypeOK
  <2> QED  BY <2>2, <2>3
<1>2. CASE ~(CanRun(r) /\ cont[r] # "running")  BY <1>2 DEF DockerRun
<1> QED  BY <1>1, <1>2

\* A start by o keeps the invariant if o knows of the rank afterwards, claims no
\* evidence, and lists under serve only a rank that was free.
LEMMA RunStep ==
  ASSUME ServeInv, NEW o \in Operators, NEW r \in Ranks, DockerRun(o, r),
         NEW n \in OpStates, op' = [op EXCEPT ![o] = n], UNCHANGED <<boot, guard>>,
         pending' \subseteq pending, o \in session.operators, op[o].pc # "off",
         op[o].pc \notin Loop, n.pc # "layout",
         Progress(n), Len(n.started) <= N, op[o].unacked \subseteq n.unacked,
         \A q \in Ranks : Covers(op[o], q) => Covers(n, q), Covers(n, r),
         \/ n.started = op[o].started
         \/ CanRun(r) /\ n.started = Append(op[o].started, r)
  PROVE  ServeInv'
<1>0. TypeOK  BY DEF ServeInv
<1>1. \A p \in Operators : op'[p] = IF p = o THEN n ELSE op[p]  BY <1>0 DEF TypeOK
<1>2. /\ session' = session
      /\ \A q \in Ranks :
           \/ cont'[q] = cont[q] /\ inc'[q] = inc[q] /\ launcher'[q] = launcher[q]
           \/ /\ q = r /\ cont[r] # "running" /\ CanRun(r) /\ cont'[r] = "running"
              /\ inc'[r] = inc[r] + 1 /\ launcher'[r] = o
  BY <1>0, RunTypes, RunEffect
<1>3. TypeOK'
  <2>1. op' \in [Operators -> OpStates] /\ \A p \in Operators : Len(op'[p].started) <= N
    BY <1>0, <1>1 DEF TypeOK
  <2> QED  BY <1>0, <2>1, RunTypes DEF TypeOK
<1>4. Counted'
  BY <1>0, <1>2, RunTypes DEF ServeInv, Counted, TypeOK
<1>5. Known'
  <2> SUFFICES ASSUME NEW p \in Operators, NEW q \in Ranks, cont'[q] = "running",
                      launcher'[q] = p
               PROVE  Covers(op'[p], q)
    BY DEF Known, Covers
  <2>1. CASE cont'[q] = cont[q] /\ inc'[q] = inc[q] /\ launcher'[q] = launcher[q]
    <3>1. Covers(op[p], q)  BY <2>1 DEF ServeInv, Known
    <3> QED  BY <1>1, <3>1
  <2>2. CASE q = r /\ launcher'[r] = o  BY <1>1, <2>2
  <2> QED  BY <1>2, <2>1, <2>2
<1>6. Late'  BY <1>1 DEF ServeInv, Late
<1>7. Enrolled'
  <2>1. \A p \in Operators : op'[p].pc # "off" => p \in session.operators
    BY <1>1 DEF ServeInv, Enrolled
  <2>2. \A p \in Operators : Progress(op'[p])  BY <1>1 DEF ServeInv, Enrolled
  <2> QED  BY <1>2, <2>1, <2>2 DEF Enrolled, Progress
<1>8. Own'
  <2> SUFFICES ASSUME ~session.restart, NEW p \in Operators,
                      NEW i \in 1 .. Len(op'[p].started)
               PROVE  /\ launcher'[op'[p].started[i]] = p
                      /\ cont'[op'[p].started[i]] # "absent"
    BY <1>2 DEF Own
  <2>1. ASSUME NEW q \in Ranks, cont[q] # "absent", launcher[q] = p
        PROVE  launcher'[q] = p /\ cont'[q] # "absent"
    BY <1>2, <2>1 DEF CanRun
  <2>2. CASE op'[p].started = op[p].started
    <3>1. op[p].started[i] \in Ranks  BY <1>0, <2>2 DEF TypeOK, OpStates
    <3> QED  BY <2>1, <2>2, <3>1 DEF ServeInv, Own
  <2>3. CASE p = o /\ CanRun(r) /\ n.started = Append(op[o].started, r)
    <3>1. /\ op[o].started \in Seq(Ranks) /\ op'[p] = n
          /\ Len(n.started) = Len(op[o].started) + 1
          /\ n.started[Len(op[o].started) + 1] = r
          /\ \A j \in 1 .. Len(op[o].started) : n.started[j] = op[o].started[j]
      BY <1>0, <1>1, <2>3 DEF TypeOK, OpStates
    <3>2. CASE i = Len(op[o].started) + 1
      <4>1. cont[r] = "absent"  BY <2>3 DEF CanRun
      <4>2. launcher'[r] = o /\ cont'[r] = "running"
        BY <1>0, <2>3, <4>1 DEF DockerRun, TypeOK
      <4> QED  BY <2>3, <3>1, <3>2, <4>2
    <3>3. CASE i # Len(op[o].started) + 1
      <4>1. i \in 1 .. Len(op[o].started)  BY <3>1, <3>3
      <4>2. op[o].started[i] \in Ranks  BY <3>1, <4>1
      <4>3. launcher[op[o].started[i]] = o /\ cont[op[o].started[i]] # "absent"
        BY <4>1 DEF ServeInv, Own
      <4> QED  BY <2>1, <2>3, <3>1, <4>1, <4>2, <4>3
    <3> QED  BY <3>2, <3>3
  <2> QED  BY <1>1, <2>2, <2>3
<1>9. Guarded'
  <2>1. ~session.restart => \A q \in Ranks : cont[q] = "exited" => cont'[q] = "exited"
    BY <1>2 DEF CanRun
  <2> QED  BY <1>2, <2>1 DEF ServeInv, Guarded
<1>10. Seen'
  <2>1. Alone' <=> Alone  BY <1>2 DEF Alone
  <2> SUFFICES ASSUME Alone, NEW p \in Operators, op'[p].pc = "layout",
                      op'[p].seen = "ok", NEW q \in Ranks \ op'[p].todo
               PROVE  inc'[q] \in logged'[q]
    BY <2>1 DEF Seen, Evidence
  <2>2. p # o /\ op'[p] = op[p]  BY <1>1
  <2>3. inc[q] \in logged[q]  BY <2>2 DEF ServeInv, Seen, Evidence
  <2>4. ~session.restart  BY <2>2, OneActive
  <2>5. op[p].pc \in Loop  BY <2>2 DEF Loop
  <2>6. cont[q] # "absent"  BY <2>4, <2>5, LoopPresent
  <2>7. inc'[q] = inc[q]  BY <1>2, <2>4, <2>6 DEF CanRun
  <2>8. logged' = logged  BY <1>0, RunTypes
  <2> QED  BY <2>3, <2>7, <2>8
<1> QED  BY <1>3, <1>4, <1>5, <1>6, <1>7, <1>8, <1>9, <1>10 DEF ServeInv

LEMMA LaunchFacts ==
  ASSUME ServeInv, NEW o \in Operators, At(o, "launch")
  PROVE  /\ op[o] \in OpStates /\ Progress(op[o]) /\ o \in session.operators
         /\ op[o].pc = "launch" /\ op[o].next \in 1 .. N
         /\ Len(op[o].started) = op[o].next - 1 /\ op[o].unacked = {}
         /\ Target(o) = Order[op[o].next] /\ Target(o) \in Ranks
         /\ op[o].started \in Seq(Ranks)
<1>1. /\ op[o] \in OpStates /\ Progress(op[o]) /\ o \in session.operators
      /\ op[o].pc = "launch"
  BY DEF ServeInv, TypeOK, Enrolled, At
<1>2. op[o].next \in 1 .. N /\ Len(op[o].started) = op[o].next - 1 /\ op[o].unacked = {}
  BY <1>1, ClusterAssumption DEF OpStates, Progress
<1> QED  BY <1>1, <1>2, OrderType DEF Target, OpStates

LEMMA LaunchOkStep ==
  ASSUME ServeInv, NEW o \in Operators, UNCHANGED guard, LaunchOk(o)
  PROVE  ServeInv'
<1> DEFINE r == Target(o)
           n == [op[o] EXCEPT !.started = Append(@, Target(o)), !.next = @ + 1,
                              !.pc = IF op[o].next = N THEN "watch" ELSE "launch"]
<1>1. /\ op[o] \in OpStates /\ Progress(op[o]) /\ o \in session.operators
      /\ op[o].pc = "launch" /\ op[o].next \in 1 .. N
      /\ Len(op[o].started) = op[o].next - 1 /\ op[o].unacked = {}
      /\ r = Order[op[o].next] /\ r \in Ranks /\ op[o].started \in Seq(Ranks)
  BY LaunchFacts DEF LaunchOk
<1>2. CanRun(r) /\ DockerRun(o, r) /\ UNCHANGED <<pending, boot>>
  BY DEF LaunchOk
<1>3. op' = [op EXCEPT ![o] = n]  BY DEF LaunchOk, ServeInv, TypeOK
<1> HIDE DEF r
<1>4. /\ n.started = Append(op[o].started, r) /\ n.unacked = {}
      /\ n.next = op[o].next + 1
      /\ n.pc = IF op[o].next = N THEN "watch" ELSE "launch"
  BY <1>1 DEF OpStates, r
<1>5. n \in OpStates
  <2>1. Append(op[o].started, r) \in Seq(Ranks)  BY <1>1
  <2>2. op[o].next + 1 \in 1 .. N + 1  BY <1>1, ClusterAssumption
  <2>3. "watch" \in Labels /\ "launch" \in Labels  BY DEF Labels, Loop
  <2> QED  BY <1>1, <2>1, <2>2, <2>3 DEF OpStates, r
<1> HIDE DEF n
<1>6. /\ Len(n.started) = Len(op[o].started) + 1
      /\ n.started[Len(op[o].started) + 1] = r
      /\ \A j \in 1 .. Len(op[o].started) : n.started[j] = op[o].started[j]
  BY <1>1, <1>4
<1>7. Progress(n)
  <2>1. ASSUME NEW i \in 1 .. Len(n.started)  PROVE n.started[i] = Order[i]
    <3>1. CASE i = Len(op[o].started) + 1
      <4>1. i = op[o].next  BY <1>1, <3>1
      <4> QED  BY <1>1, <1>6, <3>1, <4>1
    <3>2. CASE i # Len(op[o].started) + 1
      <4>1. i \in 1 .. Len(op[o].started)  BY <1>1, <1>6, <3>2
      <4> QED  BY <1>1, <1>6, <4>1 DEF Progress
    <3> QED  BY <3>1, <3>2
  <2>2. n.pc = "launch" => Len(n.started) = n.next - 1 /\ n.next <= N
    BY <1>1, <1>4, <1>6, ClusterAssumption
  <2>3. n.pc = "watch" => Len(n.started) = N
    BY <1>1, <1>4, <1>6, ClusterAssumption
  <2> QED  BY <1>4, <2>1, <2>2, <2>3 DEF Progress, Loop
<1>8. \A q \in Ranks : Covers(op[o], q) => Covers(n, q)
  BY <1>1, <1>4, <1>6 DEF Covers
<1>9. Covers(n, r)  BY <1>1, <1>4, <1>6 DEF Covers
<1>10. Len(n.started) <= N /\ n.pc # "layout"
  BY <1>1, <1>4, <1>6, ClusterAssumption
<1>11. op[o].pc # "off" /\ op[o].pc \notin Loop /\ op[o].unacked \subseteq n.unacked
  BY <1>1 DEF Loop
<1> QED  BY <1>1, <1>2, <1>3, <1>4, <1>5, <1>7, <1>8, <1>9, <1>10, <1>11, RunStep

LEMMA LaunchLostStep ==
  ASSUME ServeInv, NEW o \in Operators, UNCHANGED guard, LaunchLost(o)
  PROVE  ServeInv'
<1> DEFINE r == Target(o)
           n == [op[o] EXCEPT !.pc = "failing", !.unacked = @ \cup {Target(o)}]
<1>1. /\ op[o] \in OpStates /\ Progress(op[o]) /\ o \in session.operators
      /\ op[o].pc = "launch" /\ r \in Ranks
      /\ Len(op[o].started) <= N
  BY LaunchFacts DEF LaunchLost, ServeInv, TypeOK
<1>2. DockerRun(o, r) /\ UNCHANGED <<pending, boot>>
  BY DEF LaunchLost
<1>3. op' = [op EXCEPT ![o] = n]  BY DEF LaunchLost, Unacknowledged, ServeInv, TypeOK
<1> HIDE DEF r
<1>4. /\ n.started = op[o].started /\ n.unacked = op[o].unacked \cup {r}
      /\ n.pc = "failing"
  BY <1>1 DEF OpStates, r
<1>5. n \in OpStates  BY <1>1 DEF OpStates, Labels, r
<1>6. Progress(n)  BY <1>1, <1>4 DEF Progress, Loop
<1> HIDE DEF n
<1>7. \A q \in Ranks : Covers(op[o], q) => Covers(n, q)
  BY <1>1, <1>4, <1>5, CoversKept
<1>8. Covers(n, r)  BY <1>4 DEF Covers
<1>9. op[o].pc # "off" /\ op[o].pc \notin Loop  BY <1>1 DEF Loop
<1> QED  BY <1>1, <1>2, <1>3, <1>4, <1>5, <1>6, <1>7, <1>8, <1>9, RunStep

\* A command that is still to run finds its rank recorded already.
LEMMA LateRunStep ==
  ASSUME ServeInv, NEW o \in Operators, NEW r \in Ranks, UNCHANGED <<boot, op, guard>>,
         LateRun(o, r)
  PROVE  ServeInv'
<1>1. /\ op[o] \in OpStates /\ Progress(op[o]) /\ Len(op[o].started) <= N
      /\ op' = [op EXCEPT ![o] = op[o]]
  BY DEF ServeInv, TypeOK, Enrolled
<1>2. r \in op[o].unacked /\ DockerRun(o, r) /\ pending' \subseteq pending
  BY DEF ServeInv, Late, LateRun
<1>3. op[o].pc # "off" /\ op[o].pc \notin Loop /\ o \in session.operators
  BY <1>1, <1>2 DEF Progress, ServeInv, Enrolled
<1>4. Covers(op[o], r)  BY <1>2 DEF Covers
<1>5. op[o].pc # "layout"  BY <1>3 DEF Loop
<1> QED  BY <1>1, <1>2, <1>3, <1>4, <1>5, RunStep

LEMMA LaunchLateStep ==
  ASSUME ServeInv, NEW o \in Operators, UNCHANGED guard, LaunchLate(o)
  PROVE  ServeInv'
<1> DEFINE r == Target(o)
           n == [op[o] EXCEPT !.pc = "failing", !.unacked = @ \cup {Target(o)}]
<1>1. /\ op[o] \in OpStates /\ Progress(op[o]) /\ o \in session.operators
      /\ op[o].pc = "launch" /\ r \in Ranks
      /\ Len(op[o].started) <= N
  BY LaunchFacts DEF LaunchLate, ServeInv, TypeOK
<1>2. /\ pending' = pending \cup {<<o, r>>}
      /\ UNCHANGED <<session, cont, low, inc, logged, launcher, boot>>
  BY DEF LaunchLate
<1>3. op' = [op EXCEPT ![o] = n]  BY DEF LaunchLate, Unacknowledged, ServeInv, TypeOK
<1> HIDE DEF r
<1>4. /\ n.started = op[o].started /\ n.unacked = op[o].unacked \cup {r}
      /\ n.pc = "failing"
  BY <1>1 DEF OpStates, r
<1>5. n \in OpStates  BY <1>1 DEF OpStates, Labels, r
<1>6. Progress(n)  BY <1>1, <1>4 DEF Progress, Loop
<1> HIDE DEF n
<1>7. \A q \in Ranks : Covers(op[o], q) => Covers(n, q)
  BY <1>1, <1>4, <1>5, CoversKept
<1>8. \A p \in Operators : op'[p] = IF p = o THEN n ELSE op[p]
  BY <1>3 DEF ServeInv, TypeOK
<1>9. TypeOK'
  <2>1. op' \in [Operators -> OpStates]  BY <1>3, <1>5 DEF ServeInv, TypeOK
  <2>2. \A p \in Operators : Len(op'[p].started) <= N  BY <1>4, <1>8 DEF ServeInv, TypeOK
  <2>3. pending' \subseteq Operators \X Ranks  BY <1>1, <1>2 DEF ServeInv, TypeOK
  <2> QED  BY <1>2, <2>1, <2>2, <2>3 DEF ServeInv, TypeOK
<1>10. Known' /\ Counted'  BY <1>2, <1>7, <1>8 DEF ServeInv, Known, Counted
<1>11. Late'  BY <1>2, <1>4, <1>8 DEF ServeInv, Late
<1>12. Enrolled'  BY <1>1, <1>2, <1>6, <1>8 DEF ServeInv, Enrolled, Progress
<1>13. Own'  BY <1>2, <1>4, <1>8 DEF ServeInv, Own
<1>14. Guarded'  BY <1>2 DEF ServeInv, Guarded
<1>15. Seen'
  <2>1. Alone' <=> Alone  BY <1>2 DEF Alone
  <2>2. \A p \in Operators : Alone => Evidence(op'[p])
    BY <1>4, <1>8 DEF ServeInv, Seen, Evidence
  <2>3. \A p \in Operators : Evidence(op'[p]) => Evidence(op[p])'
    BY <1>2 DEF Evidence
  <2> QED  BY <2>1, <2>2, <2>3 DEF Seen
<1> QED  BY <1>9, <1>10, <1>11, <1>12, <1>13, <1>14, <1>15 DEF ServeInv

-----------------------------------------------------------------------------
(* The theorems.                                                           *)

LEMMA ServeSteps ==
  ASSUME ServeInv, NEW o \in Operators, UNCHANGED guard,
         ServeStep(o) \/ Begin(o) \/ Interrupt(o) \/ Die(o)
  PROVE  ServeInv'
<1>1. CASE \E r \in Ranks : Check(o, r) \/ Sample(o, r) \/ Layout(o, r)
  BY <1>1, MappedStep
<1>2. CASE \/ Checked(o) \/ LaunchRefused(o) \/ Deadline(o) \/ Judge(o) \/ NotReady(o)
           \/ Mismatch(o) \/ Publish(o) \/ LayoutFails(o) \/ SaveRaises(o) \/ Raise(o)
           \/ Die(o)
  BY <1>2, GotoSteps
<1>3. CASE Begin(o) \/ Ready(o)  BY <1>3, MapStep
<1>4. CASE LaunchOk(o)  BY <1>4, LaunchOkStep
<1>5. CASE LaunchLost(o)  BY <1>5, LaunchLostStep
<1>6. CASE LaunchLate(o)  BY <1>6, LaunchLateStep
<1>7. CASE Round(o)  BY <1>7, RoundStep
<1>8. CASE SaveFailed(o)  BY <1>8, SaveFailedStep
<1>9. CASE StopOk(o)  BY <1>9, StopOkStep
<1>10. CASE StopFails(o)  BY <1>10, StopFailsStep
<1>11. CASE Interrupt(o)  BY <1>11, InterruptStep
<1> QED
  BY <1>1, <1>2, <1>3, <1>4, <1>5, <1>6, <1>7, <1>8, <1>9, <1>10, <1>11 DEF ServeStep

LEMMA NextInv == ServeInv /\ [Next]_vars => ServeInv'
<1> SUFFICES ASSUME ServeInv, [Next]_vars  PROVE ServeInv'  OBVIOUS
<1>1. CASE UNCHANGED vars
  <2>1. Mild  BY <1>1, QuietIsMild DEF ServeInv, vars
  <2>2. Guarded'  BY <1>1 DEF ServeInv, Guarded, vars, hosts
  <2> QED  BY <1>1, <2>1, <2>2, MildStep DEF ServeInv, TypeOK, vars
<1>2. CASE \E o \in Operators : Serve(o) \/ ((Begin(o) \/ Interrupt(o) \/ Die(o))
                                             /\ UNCHANGED guard)
  BY <1>2, ServeSteps DEF Serve
<1>3. CASE Guard \/ ((GuardStart \/ GuardComplete \/ GuardRaises)
                     /\ UNCHANGED <<boot, op>>)
  BY <1>3, GuardSteps DEF Guard
<1>4. CASE /\ \E r \in Ranks : \/ Exit(r) \/ Log(r) \/ Memory(r)
                               \/ \E o \in Operators : LateRun(o, r)
           /\ UNCHANGED <<boot, op, guard>>
  BY <1>4, HostStep, LateRunStep
<1> QED  BY <1>1, <1>2, <1>3, <1>4 DEF Next

\* ServeInv is inductive for any number of ranks and any sessions of operators and
\* guard, whatever docker and ssh do to their commands.
THEOREM Invariance == Spec => []ServeInv
<1>1. Init => ServeInv  BY InitInv
<1>2. ServeInv /\ [Next]_vars => ServeInv'  BY NextInv
<1> QED  BY <1>1, <1>2, PTL DEF Spec

\* When a failed serve has cleaned up, what it launched and still runs is a rank
\* whose stop reported an error or whose launch was never acknowledged
\* (scripts/cluster.py, the except block of serve), whatever the other operators,
\* late commands and the guard did meanwhile.
THEOREM StoppedOrKnownHolds == Spec => []StoppedOrKnown
<1>1. ServeInv => StoppedOrKnown
  <2> SUFFICES ASSUME ServeInv, NEW o \in Operators, NEW r \in Ranks, At(o, "raised"),
                      cont[r] = "running", launcher[r] = o
               PROVE  r \in op[o].unstopped \cup op[o].unacked
    BY DEF StoppedOrKnown, ServeInv
  <2>1. Covers(op[o], r) /\ op[o].pc = "raised"  BY DEF ServeInv, Known, At
  <2>2. op[o] \in OpStates /\ op[o].next > Len(op[o].started)
    BY <2>1 DEF ServeInv, TypeOK, Enrolled, Progress
  <2> QED  BY <2>1, <2>2 DEF Covers, OpStates
<1> QED  BY <1>1, Invariance, PTL

\* When the guard has failed and stopped the ranks, each rank that still runs is
\* one whose stop reported an error (scripts/memory-guard.py).
THEOREM GuardStopsAllHolds == Spec => []GuardStopsAll
<1>1. ServeInv => GuardStopsAll  BY DEF ServeInv, Guarded, GuardStopsAll
<1> QED  BY <1>1, Invariance, PTL

-----------------------------------------------------------------------------
(* What a step may do.                                                     *)

\* No step of serve but a stop that succeeds ends a container.
LEMMA KeepsRunning ==
  ASSUME TypeOK, NEW o \in Operators, NEW r \in Ranks, cont[r] = "running",
         ServeStep(o) \/ Begin(o) \/ Interrupt(o) \/ Die(o), ~StopOk(o)
  PROVE  cont'[r] = "running"
<1>1. CASE \E q \in Ranks : Check(o, q) \/ Sample(o, q) \/ Layout(o, q)
  BY <1>1 DEF Check, Sample, Layout, hosts
<1>2. CASE \/ Checked(o) \/ LaunchRefused(o) \/ Deadline(o) \/ Judge(o) \/ NotReady(o)
           \/ Mismatch(o) \/ Publish(o) \/ LayoutFails(o) \/ SaveRaises(o) \/ Raise(o)
           \/ Die(o) \/ Begin(o) \/ Ready(o)
  BY <1>2 DEF Checked, LaunchRefused, Deadline, Judge, NotReady, Mismatch, Publish,
     LayoutFails, SaveRaises, Raise, Die, Begin, Ready, hosts
<1>3. CASE Round(o) \/ SaveFailed(o) \/ StopFails(o) \/ Interrupt(o) \/ LaunchLate(o)
  BY <1>3 DEF Round, SaveFailed, StopFails, Interrupt, LaunchLate, hosts
<1>4. CASE LaunchOk(o) \/ LaunchLost(o)
  BY <1>4 DEF LaunchOk, LaunchLost, DockerRun, TypeOK
<1> QED  BY <1>1, <1>2, <1>3, <1>4 DEF ServeStep

OwnStop == \A o \in Operators, r \in Ranks :
  (/\ ~session.restart /\ At(o, "stopping") /\ op'[o].next # op[o].next
   /\ cont[r] = "running" /\ cont'[r] # "running") => launcher[r] = o

LEMMA StepOwnStop == ServeInv /\ [Next]_vars => [OwnStop]_vars
<1> SUFFICES ASSUME ServeInv, Next, NEW o \in Operators, NEW r \in Ranks,
                    ~session.restart, At(o, "stopping"), op'[o].next # op[o].next,
                    cont[r] = "running", cont'[r] # "running"
             PROVE  launcher[r] = o
  BY DEF OwnStop
<1>1. op' # op  OBVIOUS
<1>2. PICK p \in Operators : ServeStep(p) \/ Begin(p) \/ Interrupt(p) \/ Die(p)
  BY <1>1 DEF Next, Serve, Guard
<1>3. StopOk(p)  BY <1>2, KeepsRunning DEF ServeInv
<1>4. p = o  BY <1>3 DEF StopOk, ServeInv, TypeOK
<1>5. r = Stopping(o)  BY <1>3, <1>4 DEF StopOk, DockerStop, ServeInv, TypeOK
<1>6. op[o].next \in 1 .. Len(op[o].started)  BY <1>3, <1>4, StopNext DEF StopOk
<1> QED  BY <1>5, <1>6 DEF ServeInv, Own, Stopping

\* A serve that fails stops only containers that it launched itself, although two
\* operators may both have found the nodes idle (scripts/cluster.py, serve).
THEOREM StopsOwnOnlyHolds == Spec => StopsOwnOnly
<1>1. Spec => [][OwnStop]_vars  BY Invariance, StepOwnStop, PTL DEF Spec
<1> QED  BY <1>1 DEF StopsOwnOnly, OwnStop

\* READY is written by no other step than the publication.
LEMMA OnlyPublish ==
  ASSUME TypeOK, NEW o \in Operators, NEW p \in Operators,
         ServeStep(p) \/ Begin(p) \/ Interrupt(p) \/ Die(p),
         op[o].pc = "layout", op'[o].pc = "ready"
  PROVE  Publish(o)
<1> USE DEF At, Goto, Fail
<1>0. op \in [Operators -> OpStates] /\ \A q \in Operators : op[q] \in OpStates
  BY DEF TypeOK
<1> USE <1>0 DEF OpStates
<1>1. CASE \E q \in Ranks : Check(p, q) \/ Sample(p, q) \/ Layout(p, q)
  <2>1. PICK q \in Ranks, s \in {"ok", "sick", "error"} : Mapped(p, q, s)
    BY <1>1 DEF Check, Sample, Layout
  <2>2. op'[o].pc = op[o].pc  BY <2>1 DEF Mapped
  <2> QED  BY <2>2
<1>2. CASE Checked(p) \/ LaunchRefused(p) \/ Deadline(p) \/ Judge(p)
  BY <1>2 DEF Checked, LaunchRefused, Deadline, Judge
<1>3. CASE NotReady(p) \/ Mismatch(p) \/ LayoutFails(p) \/ SaveRaises(p) \/ Raise(p)
           \/ Die(p)
  BY <1>3 DEF NotReady, Mismatch, LayoutFails, SaveRaises, Raise, Die
<1>4. CASE Publish(p)
  <2>1. o = p  BY <1>4 DEF Publish
  <2> QED  BY <1>4, <2>1
<1>5. CASE Begin(p) \/ Ready(p)  BY <1>5 DEF Begin, Ready, Map
<1>6. CASE LaunchOk(p)  BY <1>6 DEF LaunchOk
<1>7. CASE LaunchLost(p) \/ LaunchLate(p)
  BY <1>7 DEF LaunchLost, LaunchLate, Unacknowledged
<1>8. CASE Round(p) \/ Interrupt(p)  BY <1>8 DEF Round, Interrupt
<1>9. CASE SaveFailed(p) \/ StopOk(p) \/ StopFails(p)
  <2>1. CASE SaveFailed(p)  BY <2>1 DEF SaveFailed
  <2>2. CASE StopOk(p)
    <3>1. op'[o].pc = op[o].pc  BY <2>2 DEF StopOk
    <3> QED  BY <3>1
  <2>3. CASE StopFails(p)
    <3>1. op'[o].pc = op[o].pc  BY <2>3 DEF StopFails
    <3> QED  BY <3>1
  <2> QED  BY <1>9, <2>1, <2>2, <2>3
<1> QED
  BY <1>1, <1>2, <1>3, <1>4, <1>5, <1>6, <1>7, <1>8, <1>9 DEF ServeStep

\* `start` shares the preserved containers: two operators who both restart them
\* may restart a rank that the other has already judged (docker start of a
\* container that has ended meanwhile), so here each session has one.
RestartsAlone == \A s \in Sessions : s.restart => \A p, q \in s.operators : p = q

OnEvidence == \A o \in Operators :
  At(o, "layout") /\ op'[o].pc = "ready" =>
    \A r \in Ranks : /\ \E i \in DOMAIN op[o].started : op[o].started[i] = r
                     /\ inc[r] \in logged[r]

LEMMA StepOnEvidence ==
  ASSUME RestartsAlone
  PROVE  ServeInv /\ [Next]_vars => [OnEvidence]_vars
<1> SUFFICES ASSUME ServeInv, Next, NEW o \in Operators, At(o, "layout"),
                    op'[o].pc = "ready", NEW r \in Ranks
             PROVE  /\ \E i \in DOMAIN op[o].started : op[o].started[i] = r
                    /\ inc[r] \in logged[r]
  BY DEF OnEvidence
<1>1. op' # op /\ op[o].pc = "layout"  BY DEF At
<1>2. PICK p \in Operators : ServeStep(p) \/ Begin(p) \/ Interrupt(p) \/ Die(p)
  BY <1>1 DEF Next, Serve, Guard
<1>3. Publish(o)  BY <1>1, <1>2, OnlyPublish DEF ServeInv
<1>4. \E i \in DOMAIN op[o].started : op[o].started[i] = r
  <2>1. \E i \in 1 .. Len(op[o].started) : op[o].started[i] = r
    BY <1>1, AllListed DEF ServeInv, Loop
  <2> QED  BY <2>1 DEF ServeInv, TypeOK, OpStates
<1>5. Alone  BY DEF RestartsAlone, Alone, ServeInv, TypeOK
<1>6. inc[r] \in logged[r]
  BY <1>1, <1>3, <1>5 DEF Publish, ServeInv, Seen, Evidence
<1> QED  BY <1>4, <1>6

\* READY is written only by a serve that launched every rank, on the receipts of
\* the starts that are running (scripts/cluster.py, layout and serve), also when
\* operators race on fresh containers; with preserved ones, for a single operator.
THEOREM ReadyOnEvidenceHolds == RestartsAlone => (Spec => ReadyOnEvidence)
<1> SUFFICES ASSUME RestartsAlone  PROVE Spec => ReadyOnEvidence  OBVIOUS
<1>1. ServeInv /\ [Next]_vars => [OnEvidence]_vars  BY StepOnEvidence
<1>2. Spec => [][OnEvidence]_vars  BY <1>1, Invariance, PTL DEF Spec
<1> QED  BY <1>2 DEF ReadyOnEvidence, OnEvidence

-----------------------------------------------------------------------------
(* Staging: what a stage has passed is exact and stays so, and an engine    *)
(* runs from files that belong together and do not change under it.        *)

Making == {"unpack", "verify", "build", "record"}
Active == Making \cup {"done"}
Steps == {"check", "mkdir", "failed"} \cup Active
Libraries == [source : Nat, build : Nat]
Kits == [owner : Operators \cup {Nobody}, files : [Groups -> Nat], complete : BOOLEAN,
         library : Libraries, record : Libraries]
Stagers == [pc : {"off", "hash", "archive", "refused", "nodes", "passed", "raised", "dead"},
            names : Nat, hashes : [Groups -> Nat], archive : [Groups -> Nat]]

StageTypes ==
  /\ work \in [Groups -> Nat \ {0}]
  /\ stager \in [Operators -> Stagers]
  /\ node \in [Operators -> [Ranks -> Steps]]
  /\ kit \in [Ranks -> Kits]
  /\ passed \in SUBSET Operators
  /\ engine \in [Ranks -> Kits]

\* A stage that installs nothing has begun no node; what it compares with are
\* hashes of real files.
Heads == \A s \in Operators :
  /\ stager[s].pc \notin {"nodes", "passed"} => node[s] = Session
  /\ stager[s].pc \in {"archive", "nodes", "passed"} => stager[s].hashes["adapter"] # 0

\* A session is at work only in a run_dir that it made itself, and what it finds
\* there is what its own earlier steps left.
Possible(s, l, k) ==
  /\ l \in Active => k.owner = s
  /\ l \in Making => k.record = NoLibrary
  /\ l \in {"build", "record", "done"} => k.files = stager[s].hashes /\ k.complete
  /\ l \in {"record", "done"} => k.library.source = k.files["adapter"]
  /\ l = "done" => k.record = k.library
Working == \A s \in Operators, r \in Ranks : Possible(s, node[s][r], kit[r])

\* A record names the library that is there, built of the sources that are there.
Sound(k) ==
  /\ k.owner = Nobody => k = NoKit
  /\ k.record # NoLibrary => /\ k.library = k.record /\ k.complete
                             /\ k.library.source = k.files["adapter"]
Whole == \A r \in Ranks : Sound(kit[r])

Passes ==
  /\ \A s \in passed : stager[s].pc = "passed" /\ \A r \in Ranks : node[s][r] = "done"
  /\ passed # {} => SameLibrary
Running == \A r \in Ranks : engine[r] # NoKit => engine[r] = kit[r] /\ Verified(kit[r])

StageInv == StageTypes /\ Heads /\ Working /\ Whole /\ Passes /\ Running

\* Real files have versions above zero, so a built library is not NoLibrary.
LEMMA Shapes ==
  /\ Absent \in [Groups -> Nat] /\ NoKit \in Kits /\ NoLibrary \in Libraries
  /\ {"adapter", "manifest"} \subseteq Groups /\ Nobody \notin Operators
  BY ClusterAssumption DEF Absent, NoKit, Kits, NoLibrary, Libraries, Groups, Sorted

\* Nothing has been staged at the start.
LEMMA InitHolds == StagingInit => StageInv
<1> SUFFICES ASSUME StagingInit PROVE StageInv
  OBVIOUS
<1>1. StageTypes
  BY Shapes, StagingAssumption
  DEF StagingInit, StageTypes, Stager, Stagers, Session, Steps, Copy
<1>2. Heads
  BY DEF StagingInit, Heads, Stager
<1>3. Working
  BY DEF StagingInit, Working, Possible, Session, Active, Making
<1>4. Whole /\ Passes /\ Running
  BY DEF StagingInit, Whole, Sound, Passes, Running, NoKit
<1> QED BY <1>1, <1>2, <1>3, <1>4 DEF StageInv

\* A command of s on r that is possible there and leaves a recorded kit alone
\* keeps the invariant: no other session is at work in that run_dir.
LEMMA Command ==
  ASSUME StageInv, NEW s \in Operators, NEW r \in Ranks, NEW l \in Steps, NEW k \in Kits,
         stager[s].pc = "nodes", UNCHANGED <<work, stager, passed, engine>>,
         node' = [node EXCEPT ![s][r] = l], kit' = [kit EXCEPT ![r] = k],
         kit[r].owner \in {s, Nobody} \/ k = kit[r],
         kit[r].record # NoLibrary => k = kit[r],
         Possible(s, l, k), Sound(k)
  PROVE  StageInv'
<1>1. /\ \A t \in Operators, q \in Ranks :
           node'[t][q] = IF t = s /\ q = r THEN l ELSE node[t][q]
      /\ node' \in [Operators -> [Ranks -> Steps]]
  BY DEF StageInv, StageTypes
<1>2. /\ \A q \in Ranks : kit'[q] = IF q = r THEN k ELSE kit[q]
      /\ kit' \in [Ranks -> Kits]
  BY DEF StageInv, StageTypes
<1>3. StageTypes'
  BY <1>1, <1>2 DEF StageInv, StageTypes
<1>4. Heads'
  <2> SUFFICES ASSUME NEW t \in Operators
               PROVE  /\ stager'[t].pc \notin {"nodes", "passed"} => node'[t] = Session
                      /\ stager'[t].pc \in {"archive", "nodes", "passed"}
                           => stager'[t].hashes["adapter"] # 0
    BY DEF Heads
  <2>1. CASE t = s
    BY <2>1 DEF StageInv, Heads
  <2>2. CASE t # s
    BY <2>2 DEF StageInv, Heads, StageTypes
  <2> QED BY <2>1, <2>2
<1>5. Working'
  <2> SUFFICES ASSUME NEW t \in Operators, NEW q \in Ranks
               PROVE  Possible(t, node[t][q], kit[q])'
    BY DEF Working
  <2>1. CASE t = s /\ q = r
    BY <1>1, <1>2, <2>1 DEF Possible
  <2>2. CASE q # r
    BY <1>1, <1>2, <2>2 DEF StageInv, Working, Possible
  <2>3. CASE t # s /\ q = r
    <3>1. Possible(t, node[t][q], kit[q])
      BY DEF StageInv, Working
    <3>2. node[t][q] \in Active => k = kit[r]
      BY <2>3, <3>1, Shapes DEF Possible
    <3> QED BY <1>1, <1>2, <2>3, <3>1, <3>2 DEF Possible, Active, Making
  <2> QED BY <2>1, <2>2, <2>3
<1>6. Whole'
  BY <1>2 DEF StageInv, Whole, Sound
<1>7. Passes'
  <2>1. s \notin passed
    BY DEF StageInv, Passes
  <2>2. passed # {} => \A q \in Ranks : kit[q].record # NoLibrary
    <3> SUFFICES ASSUME NEW t \in passed, NEW q \in Ranks PROVE kit[q].record # NoLibrary
      OBVIOUS
    <3>1. t \in Operators /\ node[t][q] = "done" /\ stager[t].pc = "passed"
      BY DEF StageInv, Passes, StageTypes
    <3>2. Possible(t, "done", kit[q]) /\ stager[t].hashes["adapter"] # 0
      BY <3>1 DEF StageInv, Working, Heads
    <3> QED BY <3>2 DEF Possible, NoLibrary
  <2>3. passed # {} => \A q \in Ranks : kit'[q] = kit[q]
    BY <1>2, <2>2
  <2>4. \A t \in passed, q \in Ranks : node'[t][q] = node[t][q]
    BY <1>1, <2>1 DEF StageInv, StageTypes
  <2> QED BY <2>3, <2>4 DEF StageInv, Passes, SameLibrary
<1>8. Running'
  BY <1>2 DEF StageInv, Running, Verified
<1> QED BY <1>3, <1>4, <1>5, <1>6, <1>7, <1>8 DEF StageInv

\* A head that is not at its nodes, before and after, keeps the invariant.
LEMMA HeadStep ==
  ASSUME StageInv, NEW s \in Operators, NEW h \in Stagers,
         stager' = [stager EXCEPT ![s] = h], UNCHANGED <<work, kit, passed, engine>>,
         node' = [node EXCEPT ![s] = Session],
         stager[s].pc # "passed", h.pc # "passed",
         h.pc \in {"archive", "nodes"} => h.hashes["adapter"] # 0
  PROVE  StageInv'
<1>1. /\ \A t \in Operators : stager'[t] = IF t = s THEN h ELSE stager[t]
      /\ \A t \in Operators : node'[t] = IF t = s THEN Session ELSE node[t]
  BY DEF StageInv, StageTypes
<1>2. Session \in [Ranks -> Steps] /\ \A q \in Ranks : Session[q] = "check"
  BY DEF Session, Steps
<1>3. StageTypes'
  BY <1>2 DEF StageInv, StageTypes
<1>4. Heads'
  BY <1>1 DEF StageInv, Heads
<1>5. Working'
  BY <1>1, <1>2 DEF StageInv, Working, Possible, Active, Making
<1>6. Whole' /\ Running'
  BY DEF StageInv, Whole, Running
<1>7. Passes'
  <2>1. s \notin passed
    BY DEF StageInv, Passes
  <2> QED BY <1>1, <2>1 DEF StageInv, Passes, SameLibrary, StageTypes
<1> QED BY <1>3, <1>4, <1>5, <1>6, <1>7 DEF StageInv

\* What a session may rely on at each of its steps.
LEMMA AtStep ==
  ASSUME StageInv, NEW s \in Operators, NEW r \in Ranks
  PROVE  /\ kit[r] \in Kits /\ Possible(s, node[s][r], kit[r]) /\ Sound(kit[r])
         /\ stager[s] \in Stagers /\ NoKit.record = NoLibrary
  BY DEF StageInv, StageTypes, Working, Whole, NoKit

\* Each command of a session, done or done with its reply lost.
LEMMA SessionStep ==
  ASSUME StageInv, NEW s \in Operators, NEW r \in Ranks,
         \/ CheckBase(s, r) \/ MakeRunDir(s, r) \/ Unpack(s, r) \/ UnpackPartly(s, r)
         \/ VerifyKit(s, r) \/ BuildLibrary(s, r) \/ RecordBuild(s, r) \/ NodeFails(s, r)
  PROVE  StageInv'
<1> USE AtStep
<1> DEFINE k == kit[r]
<1>0. kit = [kit EXCEPT ![r] = kit[r]]
  BY DEF StageInv, StageTypes
<1>1. CASE CheckBase(s, r)
  <2>1. PICK l \in {"mkdir", "failed"} : node' = [node EXCEPT ![s][r] = l]
    BY <1>1 DEF CheckBase, Continue
  <2>2. l \in Steps /\ Possible(s, l, k)
    BY DEF Steps, Possible, Active, Making
  <2> QED BY <1>0, <1>1, <2>1, <2>2, Command DEF CheckBase, Step, Continue
<1>2. CASE MakeRunDir(s, r)
  <2> DEFINE n == [k EXCEPT !.owner = s]
  <2>1. PICK l \in {"unpack", "failed"} : node' = [node EXCEPT ![s][r] = l]
    BY <1>2 DEF MakeRunDir, Continue
  <2>2. k = NoKit /\ kit' = [kit EXCEPT ![r] = n]
    BY <1>2 DEF MakeRunDir, Sound
  <2>3. n \in Kits /\ n.owner = s /\ n.record = NoLibrary /\ s # Nobody
    BY <2>2, Shapes DEF Kits
  <2>4. l \in Steps /\ Possible(s, l, n) /\ Sound(n)
    BY <2>3 DEF Steps, Possible, Active, Making, Sound
  <2> QED BY <1>2, <2>1, <2>2, <2>3, <2>4, Command DEF MakeRunDir, Step, Continue
<1>3. CASE Unpack(s, r)
  <2> DEFINE n == [k EXCEPT !.files = stager[s].archive]
  <2>1. PICK l \in {"verify", "failed"} : node' = [node EXCEPT ![s][r] = l]
    BY <1>3 DEF Unpack, Continue
  <2>2. k.owner = s /\ k.record = NoLibrary /\ kit' = [kit EXCEPT ![r] = n]
    BY <1>3 DEF Unpack, Step, Possible, Active, Making
  <2>3. n \in Kits /\ n.owner = s /\ n.record = NoLibrary /\ s # Nobody
    BY <2>2, Shapes DEF Kits, Stagers
  <2>4. l \in Steps /\ Possible(s, l, n) /\ Sound(n)
    BY <2>3 DEF Steps, Possible, Active, Making, Sound
  <2>5. /\ stager[s].pc = "nodes" /\ UNCHANGED <<work, stager, passed, engine>>
        /\ node' = [node EXCEPT ![s][r] = l]
    BY <1>3, <2>1 DEF Unpack, Step, Continue
  <2> HIDE DEF k, n
  <2> QED BY <2>2, <2>3, <2>4, <2>5, Command DEF k
<1>4. CASE UnpackPartly(s, r)
  <2>1. PICK m \in 1 .. Len(Sorted) - 1 : kit' = [kit EXCEPT ![r].files = [f \in Groups |->
                 IF \E i \in 1 .. m : Sorted[i] = f THEN stager[s].archive[f] ELSE @[f]]]
    BY <1>4 DEF UnpackPartly
  <2> DEFINE files == [f \in Groups |->
               IF \E i \in 1 .. m : Sorted[i] = f THEN stager[s].archive[f] ELSE k.files[f]]
             n == [k EXCEPT !.files = files]
  <2>2. k.owner = s /\ k.record = NoLibrary /\ kit' = [kit EXCEPT ![r] = n]
    BY <1>4, <2>1 DEF UnpackPartly, Step, Possible, Active, Making
  <2>3. files \in [Groups -> Nat]
    BY DEF Kits, Stagers
  <2>4. n \in Kits /\ n.owner = s /\ n.record = NoLibrary /\ s # Nobody
    BY <2>2, <2>3, Shapes DEF Kits
  <2>5. "failed" \in Steps /\ Possible(s, "failed", n) /\ Sound(n)
    BY <2>4 DEF Steps, Possible, Active, Making, Sound
  <2> QED BY <1>4, <2>2, <2>4, <2>5, Command DEF UnpackPartly, Step
<1>5. CASE VerifyKit(s, r)
  <2> DEFINE n == [k EXCEPT !.complete = TRUE]
  <2>1. PICK l \in {"build", "failed"} : node' = [node EXCEPT ![s][r] = l]
    BY <1>5 DEF VerifyKit, Continue
  <2>2. /\ k.owner = s /\ k.record = NoLibrary /\ k.files = stager[s].hashes
        /\ kit' = [kit EXCEPT ![r] = n]
    BY <1>5 DEF VerifyKit, Step, Possible, Active, Making
  <2>3. /\ n \in Kits /\ n.owner = s /\ n.record = NoLibrary /\ s # Nobody
        /\ n.files = k.files /\ n.complete
    BY <2>2, Shapes DEF Kits
  <2>4. l \in Steps /\ Possible(s, l, n) /\ Sound(n)
    BY <2>2, <2>3 DEF Steps, Possible, Active, Making, Sound
  <2> QED BY <1>5, <2>1, <2>2, <2>3, <2>4, Command DEF VerifyKit, Step, Continue
<1>6. CASE BuildLibrary(s, r)
  <2>1. PICK b \in Builds :
          kit' = [kit EXCEPT ![r].library = [source |-> kit[r].files["adapter"], build |-> b]]
    BY <1>6 DEF BuildLibrary
  <2> DEFINE library == [source |-> k.files["adapter"], build |-> b]
             n == [k EXCEPT !.library = library]
  <2>2. PICK l \in {"record", "failed"} : node' = [node EXCEPT ![s][r] = l]
    BY <1>6 DEF BuildLibrary, Continue
  <2>3. k.owner = s /\ k.record = NoLibrary /\ k.files = stager[s].hashes /\ k.complete
    BY <1>6 DEF BuildLibrary, Step, Possible, Active, Making
  <2>4. kit' = [kit EXCEPT ![r] = n]
    BY <2>1
  <2>5. library \in Libraries
    BY Shapes, StagingAssumption DEF Libraries, Kits
  <2>6. /\ n \in Kits /\ n.owner = s /\ n.record = NoLibrary /\ s # Nobody
        /\ n.files = k.files /\ n.complete /\ n.library.source = n.files["adapter"]
    BY <2>3, <2>5, Shapes DEF Kits
  <2>7. l \in Steps /\ Possible(s, l, n) /\ Sound(n)
    BY <2>3, <2>6 DEF Steps, Possible, Active, Making, Sound
  <2>8. /\ stager[s].pc = "nodes" /\ UNCHANGED <<work, stager, passed, engine>>
        /\ node' = [node EXCEPT ![s][r] = l]
    BY <1>6, <2>2 DEF BuildLibrary, Step, Continue
  <2> HIDE DEF k, n
  <2> QED BY <2>3, <2>4, <2>6, <2>7, <2>8, Command DEF k
<1>7. CASE RecordBuild(s, r)
  <2> DEFINE n == [k EXCEPT !.record = k.library]
  <2>1. PICK l \in {"done", "failed"} : node' = [node EXCEPT ![s][r] = l]
    BY <1>7 DEF RecordBuild, Continue
  <2>2. /\ k.owner = s /\ k.record = NoLibrary /\ k.files = stager[s].hashes /\ k.complete
        /\ k.library.source = k.files["adapter"] /\ kit' = [kit EXCEPT ![r] = n]
    BY <1>7 DEF RecordBuild, Step, Possible, Active, Making
  <2>3. /\ n \in Kits /\ n.owner = s /\ n.record = n.library /\ s # Nobody
        /\ n.files = k.files /\ n.complete /\ n.library = k.library
    BY <2>2, Shapes DEF Kits
  <2>4. l \in Steps /\ Possible(s, l, n) /\ Sound(n)
    BY <2>2, <2>3 DEF Steps, Possible, Active, Making, Sound
  <2>5. /\ stager[s].pc = "nodes" /\ UNCHANGED <<work, stager, passed, engine>>
        /\ node' = [node EXCEPT ![s][r] = l]
    BY <1>7, <2>1 DEF RecordBuild, Step, Continue
  <2> HIDE DEF k, n
  <2> QED BY <2>2, <2>3, <2>4, <2>5, Command DEF k
<1>8. CASE NodeFails(s, r)
  <2>1. "failed" \in Steps /\ Possible(s, "failed", k)
    BY DEF Steps, Possible, Active, Making
  <2> QED BY <1>0, <1>8, <2>1, Command DEF NodeFails
<1> QED BY <1>1, <1>2, <1>3, <1>4, <1>5, <1>6, <1>7, <1>8

\* The steps of stage on the head that do not pass.
LEMMA HeadSteps ==
  ASSUME StageInv, NEW s \in Operators,
         ReadManifest(s) \/ HashSources(s) \/ Archive(s) \/ StageRaises(s) \/ StageDies(s)
  PROVE  StageInv'
<1>0. stager[s] \in Stagers /\ work \in [Groups -> Nat \ {0}] /\ Absent \in [Groups -> Nat]
  BY Shapes DEF StageInv, StageTypes
<1>1. stager[s].pc \in {"off", "hash", "archive"} => node = [node EXCEPT ![s] = Session]
  BY DEF StageInv, StageTypes, Heads
<1>2. CASE ReadManifest(s)
  <2> DEFINE h == [stager[s] EXCEPT !.pc = "hash", !.names = work["manifest"]]
  <2>1. h \in Stagers /\ h.pc = "hash" /\ stager' = [stager EXCEPT ![s] = h]
    BY <1>0, <1>2, Shapes DEF ReadManifest, Stagers
  <2> QED BY <1>1, <1>2, <2>1, HeadStep DEF ReadManifest
<1>3. CASE HashSources(s)
  <2> DEFINE h == IF work["overlay"] = stager[s].names
                    THEN [Stager("archive") EXCEPT !.hashes = work] ELSE Stager("refused")
  <2>1. /\ h \in Stagers /\ h.pc \in {"archive", "refused"}
        /\ h.pc = "archive" => h.hashes["adapter"] # 0
    BY <1>0, Shapes DEF Stager, Stagers
  <2>2. stager' = [stager EXCEPT ![s] = h]
    BY <1>3 DEF HashSources
  <2> QED BY <1>1, <1>3, <2>1, <2>2, HeadStep DEF HashSources
<1>4. CASE Archive(s)
  <2> DEFINE h == [stager[s] EXCEPT !.pc = "nodes", !.archive = work]
  <2>1. /\ h \in Stagers /\ h.pc = "nodes" /\ h.hashes = stager[s].hashes
        /\ stager' = [stager EXCEPT ![s] = h]
    BY <1>0, <1>4 DEF Archive, Stagers
  <2>2. stager[s].hashes["adapter"] # 0
    BY <1>4 DEF Archive, StageInv, Heads
  <2> QED BY <1>1, <1>4, <2>1, <2>2, HeadStep DEF Archive
<1>5. CASE StageRaises(s) \/ StageDies(s)
  <2>1. PICK l \in {"raised", "dead"} : stager' = [stager EXCEPT ![s] = Stager(l)]
    BY <1>5 DEF StageRaises, StageDies
  <2>2. Stager(l) \in Stagers /\ Stager(l).pc = l
    BY <1>0 DEF Stager, Stagers
  <2> QED BY <1>5, <2>1, <2>2, HeadStep DEF StageRaises, StageDies
<1> QED BY <1>2, <1>3, <1>4, <1>5

\* A pass: every session is done, and the libraries are the same.
LEMMA PassStep ==
  ASSUME StageInv, NEW s \in Operators, StagePass(s)
  PROVE  StageInv'
<1> DEFINE h == [stager[s] EXCEPT !.pc = "passed", !.archive = Absent]
<1>1. h \in Stagers /\ h.pc = "passed" /\ h.hashes = stager[s].hashes
  BY Shapes DEF StageInv, StageTypes, Stagers
<1>2. \A t \in Operators : stager'[t] = IF t = s THEN h ELSE stager[t]
  BY DEF StagePass, StageInv, StageTypes
<1>3. stager[s].pc = "nodes" /\ (\A r \in Ranks : node[s][r] = "done") /\ SameLibrary
  BY DEF StagePass, Installed
<1>4. StageTypes'
  BY <1>1 DEF StagePass, StageInv, StageTypes
<1>5. Heads'
  <2>1. h.hashes["adapter"] # 0 /\ node' = node
    BY <1>1, <1>3 DEF StagePass, StageInv, Heads
  <2> HIDE DEF h
  <2> QED BY <1>1, <1>2, <2>1 DEF StageInv, Heads
<1>6. Working'
  <2> SUFFICES ASSUME NEW t \in Operators, NEW r \in Ranks
               PROVE  Possible(t, node[t][r], kit[r])'
    BY DEF Working
  <2>1. stager'[t].hashes = stager[t].hashes /\ node' = node /\ kit' = kit
    BY <1>1, <1>2 DEF StagePass
  <2> QED BY <2>1 DEF StageInv, Working, Possible
<1>7. Passes'
  BY <1>1, <1>2, <1>3 DEF StagePass, StageInv, Passes, SameLibrary, StageTypes
<1>8. Whole' /\ Running'
  BY DEF StagePass, StageInv, Whole, Running
<1> QED BY <1>4, <1>5, <1>6, <1>7, <1>8 DEF StageInv

\* What is said of sessions and kits depends on nothing else.
LEMMA SameSessions ==
  ASSUME StageInv, UNCHANGED <<stager, node, kit, passed>>
  PROVE  (Heads /\ Working /\ Whole /\ Passes)'
<1>1. Heads'
  BY DEF StageInv, Heads
<1>2. Working'
  BY DEF StageInv, Working, Possible
<1>3. Whole' /\ Passes'
  BY DEF StageInv, Whole, Passes, SameLibrary
<1> QED BY <1>1, <1>2, <1>3

\* Edits, engines, and every step of serve, start and the guard.
LEMMA OtherStep ==
  ASSUME StageInv,
         \/ \E v, later \in Versions : Edit(v, later)
         \/ \E r \in Ranks : Execute(r) \/ EngineEnds(r)
         \/ UNCHANGED stagevars
  PROVE  StageInv'
<1>1. ASSUME NEW v \in Versions, NEW later \in Versions, Edit(v, later) PROVE StageInv'
  <2>1. PICK F \in Edits : work' = [f \in Groups |-> IF f \in F THEN later ELSE v]
    BY <1>1 DEF Edit
  <2>2. work' \in [Groups -> Nat \ {0}]
    BY <2>1, StagingAssumption
  <2>3. StageTypes' /\ Running'
    BY <1>1, <2>2 DEF Edit, StageInv, StageTypes, Running
  <2> QED BY <1>1, <2>3, SameSessions DEF Edit, StageInv
<1>2. ASSUME NEW r \in Ranks, Execute(r) \/ EngineEnds(r) PROVE StageInv'
  <2>1. StageTypes' /\ Running'
    BY <1>2, Shapes DEF Execute, EngineEnds, StageInv, StageTypes, Running
  <2> QED BY <1>2, <2>1, SameSessions DEF Execute, EngineEnds, StageInv
<1>3. CASE UNCHANGED stagevars
  <2>1. StageTypes' /\ Running'
    BY <1>3 DEF stagevars, StageInv, StageTypes, Running
  <2> QED BY <1>3, <2>1, SameSessions DEF stagevars, StageInv
<1> QED BY <1>1, <1>2, <1>3

\* StageInv is inductive for any number of ranks and operators, whatever the
\* compilers build and however the working copy is edited.
THEOREM StagingInvariance == ClusterSpec => []StageInv
<1>1. Init /\ StagingInit => StageInv
  BY InitHolds
<1>2. StageInv /\ [ClusterNext]_clustervars => StageInv'
  <2> SUFFICES ASSUME StageInv, StageNext \/ UNCHANGED stagevars PROVE StageInv'
    BY DEF ClusterNext, clustervars
  <2>1. CASE UNCHANGED stagevars
    BY <2>1, OtherStep
  <2>2. CASE StageNext
    BY <2>2, SessionStep, HeadSteps, PassStep, OtherStep DEF StageNext
  <2> QED BY <2>1, <2>2
<1> QED BY <1>1, <1>2, PTL DEF ClusterSpec

\* What a stage has passed is exact on every rank, and stays exact.
THEOREM StagedHolds == ClusterSpec => []StagedExact
<1>1. StageInv => StagedExact
  <2> SUFFICES ASSUME StageInv, NEW s \in passed, NEW r \in Ranks
               PROVE  /\ kit[r].owner = s /\ kit[r].files = stager[s].hashes
                      /\ kit[r].complete /\ kit[r].library = kit[r].record
                      /\ kit[r].library.source = kit[r].files["adapter"] /\ SameLibrary
    BY DEF StagedExact
  <2>1. s \in Operators /\ node[s][r] = "done" /\ SameLibrary
    BY DEF StageInv, StageTypes, Passes
  <2>2. Possible(s, "done", kit[r])
    BY <2>1 DEF StageInv, Working
  <2> QED BY <2>1, <2>2 DEF Possible, Active
<1> QED BY <1>1, StagingInvariance, PTL

\* What an engine was executed from belongs together and does not change under it.
THEOREM ExecutedHolds == ClusterSpec => []ExecutedExact
<1>1. StageInv => ExecutedExact
  BY DEF StageInv, Running, Whole, Sound, Verified, ExecutedExact
<1> QED BY <1>1, StagingInvariance, PTL

\* Staging touches nothing that serve, start or the guard work on, so what
\* is proved of Spec above holds of the composition, too.
THEOREM ServeKept == ClusterSpec => Spec
<1>1. [ClusterNext]_clustervars => [Next]_vars
  BY DEF ClusterNext, clustervars
<1> QED BY <1>1, PTL DEF ClusterSpec, Spec
=============================================================================
