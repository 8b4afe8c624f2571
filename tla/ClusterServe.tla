---------------------------- MODULE ClusterServe ----------------------------
(***************************************************************************)
(* scripts/cluster.py serve and start, run by any number of operators on   *)
(* the head, and scripts/memory-guard.py, over the docker hosts of all     *)
(* ranks.  A command that crosses ssh may fail, may run and lose its       *)
(* reply, or may outlive its timeout and run later.  Every call that       *)
(* cluster.py maps over the nodes is one step per node, in any order; the  *)
(* error, if there is one, is raised when all of them have ended.          *)
(***************************************************************************)
EXTENDS Integers, Sequences, FiniteSets

CONSTANTS N,           \* ranks 0 .. N - 1; rank 0 is the head
          Operators,   \* processes that run `cluster.py serve` or `start`
          Nobody,      \* launcher of a container that was not launched here
          Sessions,    \* set of [restart, operators, guard, stagers]: who runs
                       \* `serve` or, with preserved containers, `start`; is
                       \* memory-guard.py run; who runs `stage` (see Staging)
          MaxRounds    \* the startup deadline, in rounds of the watch loop

ASSUME ClusterAssumption ==
  /\ N \in Nat \ {0}
  /\ Nobody \notin Operators
  /\ Sessions \subseteq [restart : BOOLEAN, operators : SUBSET Operators,
                       guard : BOOLEAN, stagers : SUBSET Operators]
  /\ MaxRounds \in Nat

Ranks == 0 .. N - 1
\* workers[1:] + workers[:1]: the head is launched last.
Order == [i \in 1 .. N |-> i % N]

VARIABLES
  session,   \* one of Sessions
  cont,      \* per rank: "absent", "running" or "exited" container
  low,       \* per rank: OOM-killed, restarted or below the OS reserve
  inc,       \* per rank: times the container was started
  logged,    \* per rank: starts that logged their READY and layout receipts
  launcher,  \* per rank: who started the running container
  pending,   \* launches that outlived their timeout: <<operator, rank>>
  boot,      \* boot-state.json: "none", "READY" or "FAILED"
  op,        \* per operator: the state of serve, see Start
  guard      \* memory-guard.py: [pc, todo, seen, unstopped]

hosts == <<session, cont, low, inc, logged, launcher, pending>>
vars == <<hosts, boot, op, guard>>

\* pc; next index of Order or started; nodes launched; nodes a mapped call has
\* yet to reach and its worst outcome; rounds of the watch loop; nodes whose
\* launch was not acknowledged; nodes whose `docker stop` reported an error.
Start == [pc |-> "off", next |-> 1, started |-> << >>, todo |-> {}, seen |-> "ok",
          rounds |-> 0, unacked |-> {}, unstopped |-> {}]

(***************************************************************************)
(* `serve` finds no container of its name, `start` the preserved ones,     *)
(* whose logs hold the receipts of their last run.                         *)
(***************************************************************************)
Init ==
  /\ session \in Sessions
  /\ cont = [r \in Ranks |-> IF session.restart THEN "exited" ELSE "absent"]
  /\ low = [r \in Ranks |-> FALSE]
  /\ inc = [r \in Ranks |-> IF session.restart THEN 1 ELSE 0]
  /\ logged = [r \in Ranks |-> IF session.restart THEN {1} ELSE {}]
  /\ launcher = [r \in Ranks |-> Nobody]
  /\ pending = {}
  /\ boot = "none"
  /\ op = [o \in Operators |-> Start]
  /\ guard = [pc |-> "off", todo |-> {}, seen |-> "ok", unstopped |-> {}]

At(o, label) == op[o].pc = label
Goto(o, label) == op' = [op EXCEPT ![o].pc = label]
Fail(o) == Goto(o, "failing")

Worse(s, t) == IF s = "error" \/ t = "ok" THEN s ELSE t

\* mapped(c, fn): all nodes are called, then the first error is raised.
Map(o, label) ==
  op' = [op EXCEPT ![o].pc = label, ![o].todo = Ranks, ![o].seen = "ok"]
Mapped(o, r, s) ==
  /\ r \in op[o].todo
  /\ op' = [op EXCEPT ![o].todo = @ \ {r}, ![o].seen = Worse(@, s)]

Healthy(r) == cont[r] = "running" /\ ~low[r]

\* status(c) on one node: inspect fails without a container or an ssh route.
Status(r, s) == \/ s = "error"
                \/ cont[r] # "absent" /\ s = IF Healthy(r) THEN "ok" ELSE "sick"

(***************************************************************************)
(* serve: the checks before the try block.                                 *)
(***************************************************************************)
Begin(o) == /\ o \in session.operators /\ At(o, "off") /\ Map(o, "check")
            /\ UNCHANGED <<hosts, boot>>

\* image_check and idle on one node: no GPU container is running there.
Check(o, r) == /\ At(o, "check")
               /\ \E s \in {"ok", "error"} :
                    /\ s = "ok" => cont[r] # "running"
                    /\ Mapped(o, r, s)
               /\ UNCHANGED <<hosts, boot>>

Checked(o) == /\ At(o, "check") /\ op[o].todo = {}
              /\ Goto(o, IF op[o].seen = "ok" THEN "launch" ELSE "refused")
              /\ UNCHANGED <<hosts, boot>>

(***************************************************************************)
(* docker run of a fresh name, or docker start of a preserved container,   *)
(* which succeeds without effect when the container is running.            *)
(***************************************************************************)
CanRun(r) == IF session.restart THEN cont[r] # "absent" ELSE cont[r] = "absent"

DockerRun(o, r) ==
  /\ IF CanRun(r) /\ cont[r] # "running"
       THEN /\ cont' = [cont EXCEPT ![r] = "running"]
            /\ inc' = [inc EXCEPT ![r] = @ + 1]
            /\ launcher' = [launcher EXCEPT ![r] = o]
       ELSE UNCHANGED <<cont, inc, launcher>>
  /\ UNCHANGED <<session, low, logged>>

Target(o) == Order[op[o].next]

\* Mutant: the node is listed before the launch, so a refused one is stopped.
LaunchRefused_Listed(o) ==
  /\ At(o, "launch")
  /\ op' = [op EXCEPT ![o].pc = "failing", ![o].started = Append(@, Target(o))]
  /\ UNCHANGED <<hosts, boot>>

\* A name in use, a docker error or no ssh route: nothing was launched.
LaunchRefused(o) == At(o, "launch") /\ Fail(o) /\ UNCHANGED <<hosts, boot>>

LaunchOk(o) ==
  /\ At(o, "launch") /\ CanRun(Target(o))
  /\ DockerRun(o, Target(o))
  /\ op' = [op EXCEPT ![o].started = Append(@, Target(o)), ![o].next = @ + 1,
                      ![o].pc = IF op[o].next = N THEN "watch" ELSE "launch"]
  /\ UNCHANGED <<pending, boot>>

Unacknowledged(o) ==
  op' = [op EXCEPT ![o].pc = "failing", ![o].unacked = @ \cup {Target(o)}]

\* The container was launched and the reply was lost, or came after 90 s.
LaunchLost(o) == /\ At(o, "launch") /\ CanRun(Target(o))
                 /\ DockerRun(o, Target(o)) /\ Unacknowledged(o)
                 /\ UNCHANGED <<pending, boot>>

\* The timeout killed the ssh client; the command is still to run on the node.
LaunchLate(o) == /\ At(o, "launch") /\ Unacknowledged(o)
                 /\ pending' = pending \cup {<<o, Target(o)>>}
                 /\ UNCHANGED <<session, cont, low, inc, logged, launcher, boot>>

(***************************************************************************)
(* serve: the watch loop.                                                  *)
(***************************************************************************)
\* Mutant: the loop does not look at the clock.
Round_Forever(o) ==
  /\ At(o, "watch")
  /\ op' = [op EXCEPT ![o].pc = "sample", ![o].todo = Ranks, ![o].seen = "ok"]
  /\ UNCHANGED <<hosts, boot>>

Round(o) ==
  /\ At(o, "watch") /\ op[o].rounds < MaxRounds
  /\ op' = [op EXCEPT ![o].pc = "sample", ![o].rounds = @ + 1, ![o].todo = Ranks,
                      ![o].seen = "ok"]
  /\ UNCHANGED <<hosts, boot>>

Deadline(o) == At(o, "watch") /\ Fail(o) /\ UNCHANGED <<hosts, boot>>

Sample(o, r) ==
  /\ At(o, "sample")
  /\ \E s \in {"ok", "sick", "error"} : Status(r, s) /\ Mapped(o, r, s)
  /\ UNCHANGED <<hosts, boot>>

\* An error of status, or a rank that is not healthy.
Judge(o) == /\ At(o, "sample") /\ op[o].todo = {}
            /\ IF op[o].seen = "ok" THEN Goto(o, "probe") ELSE Fail(o)
            /\ UNCHANGED <<hosts, boot>>

NotReady(o) == At(o, "probe") /\ Goto(o, "watch") /\ UNCHANGED <<hosts, boot>>

\* /health answers on the head, and /server_info is what was configured.
Ready(o) == /\ At(o, "probe") /\ cont[0] = "running"
            /\ Map(o, "layout")
            /\ UNCHANGED <<hosts, boot>>

Mismatch(o) == At(o, "probe") /\ Fail(o) /\ UNCHANGED <<hosts, boot>>

\* Mutant: the receipts of earlier starts, still in the log, are accepted.
Receipts_AnyStart(r) == logged[r] # {}

\* layout reads `docker logs --since` the StartedAt of the container.
Receipts(r) == inc[r] \in logged[r]

Layout(o, r) == /\ At(o, "layout")
                /\ \E s \in {"ok", "error"} :
                     /\ s = "ok" => Receipts(r)
                     /\ Mapped(o, r, s)
                /\ UNCHANGED <<hosts, boot>>

Publish(o) == /\ At(o, "layout") /\ op[o].todo = {} /\ op[o].seen = "ok"
              /\ boot' = "READY" /\ Goto(o, "ready")
              /\ UNCHANGED hosts

\* A receipt is wrong or missing, or a state file cannot be written.
LayoutFails(o) == /\ At(o, "layout") /\ op[o].todo = {} /\ Fail(o)
                  /\ UNCHANGED <<hosts, boot>>

(***************************************************************************)
(* serve: the except block.                                                *)
(***************************************************************************)
SaveFailed(o) == /\ At(o, "failing")
                 /\ boot' = "FAILED"
                 /\ op' = [op EXCEPT ![o].pc = "stopping", ![o].next = 1]
                 /\ UNCHANGED hosts

\* boot-state.json cannot be written: the except block itself raises.
SaveRaises(o) == At(o, "failing") /\ Goto(o, "crashed") /\ UNCHANGED <<hosts, boot>>

DockerStop(r) ==
  /\ cont' = [cont EXCEPT ![r] = IF @ = "running" THEN "exited" ELSE @]
  /\ UNCHANGED <<session, low, inc, logged, launcher, pending>>

Left(o) == At(o, "stopping") /\ op[o].next <= Len(op[o].started)
Stopping(o) == op[o].started[op[o].next]

StopOk(o) == /\ Left(o) /\ DockerStop(Stopping(o))
             /\ op' = [op EXCEPT ![o].next = @ + 1]
             /\ UNCHANGED boot

\* Mutant: the first stop that fails ends the clean-up.
StopFails_Aborts(o) ==
  /\ Left(o)
  /\ op' = [op EXCEPT ![o].next = Len(op[o].started) + 1,
                      ![o].unstopped = @ \cup {Stopping(o)}]
  /\ UNCHANGED <<hosts, boot>>

\* The error of a stop is swallowed and the next node is tried.
StopFails(o) ==
  /\ Left(o)
  /\ op' = [op EXCEPT ![o].next = @ + 1, ![o].unstopped = @ \cup {Stopping(o)}]
  /\ UNCHANGED <<hosts, boot>>

Raise(o) == /\ At(o, "stopping") /\ ~Left(o) /\ Goto(o, "raised")
            /\ UNCHANGED <<hosts, boot>>

Loop == {"watch", "sample", "probe", "layout"}
Final == {"refused", "ready", "crashed", "raised", "dead"}

\* Ctrl-C in the loop is an exception like any other.
Interrupt(o) == /\ op[o].pc \in Loop
                /\ op' = [op EXCEPT ![o].pc = "failing", ![o].todo = {}]
                /\ UNCHANGED <<hosts, boot>>

\* The process is killed, or interrupted again while it cleans up.
Die(o) == /\ op[o].pc \notin Final \cup {"off"} /\ Goto(o, "dead")
          /\ UNCHANGED <<hosts, boot>>

(***************************************************************************)
(* The docker hosts.  A container exits by itself, or by `cluster.py stop`.*)
(***************************************************************************)
LateRun(o, r) == /\ <<o, r>> \in pending
                 /\ pending' = pending \ {<<o, r>>}
                 /\ DockerRun(o, r)

Exit(r) == cont[r] = "running" /\ DockerStop(r)

Log(r) == /\ cont[r] = "running"
          /\ logged' = [logged EXCEPT ![r] = @ \cup {inc[r]}]
          /\ UNCHANGED <<session, cont, low, inc, launcher, pending>>

Memory(r) == /\ cont[r] = "running"
             /\ low' = [low EXCEPT ![r] = ~@]
             /\ UNCHANGED <<session, cont, inc, logged, launcher, pending>>

(***************************************************************************)
(* memory-guard.py.                                                        *)
(***************************************************************************)
GuardGoto(from, to) == guard.pc = from /\ guard' = [guard EXCEPT !.pc = to]

GuardStart == session.guard /\ GuardGoto("off", "watch") /\ UNCHANGED hosts

GuardRound ==
  /\ guard.pc = "watch"
  /\ guard' = [guard EXCEPT !.pc = "sample", !.todo = Ranks, !.seen = "ok"]
  /\ UNCHANGED hosts

\* The stop file exists and COMPLETE is saved.
GuardComplete == GuardGoto("watch", "complete") /\ UNCHANGED hosts

GuardSample(r) ==
  /\ guard.pc = "sample" /\ r \in guard.todo
  /\ \E s \in {"ok", "sick", "error"} :
       /\ Status(r, s)
       /\ guard' = [guard EXCEPT !.todo = @ \ {r}, !.seen = Worse(@, s)]
  /\ UNCHANGED hosts

\* Mutant: only an error of status fails the guard.
GuardJudge_Recorded ==
  /\ guard.todo = {}
  /\ GuardGoto("sample", IF guard.seen # "error" THEN "watch" ELSE "failing")
  /\ UNCHANGED hosts

GuardJudge ==
  /\ guard.todo = {}
  /\ GuardGoto("sample", IF guard.seen = "ok" THEN "watch" ELSE "failing")
  /\ UNCHANGED hosts

\* The guard's deadline, a file it cannot write, Ctrl-C.
GuardRaises ==
  /\ guard.pc \in {"watch", "sample"}
  /\ guard' = [guard EXCEPT !.pc = "failing", !.todo = {}]
  /\ UNCHANGED hosts

GuardSave == /\ guard.pc = "failing"
             /\ guard' = [guard EXCEPT !.pc = "stopping", !.todo = Ranks]
             /\ UNCHANGED hosts

GuardSaveRaises == GuardGoto("failing", "crashed") /\ UNCHANGED hosts

\* cluster.stop(c) on one node.
GuardStopOk(r) ==
  /\ guard.pc = "stopping" /\ r \in guard.todo /\ cont[r] # "absent"
  /\ DockerStop(r)
  /\ guard' = [guard EXCEPT !.todo = @ \ {r}]

\* Mutant: the nodes are stopped one after the other, up to the first error.
GuardStopFails_Aborts(r) ==
  /\ guard.pc = "stopping" /\ r \in guard.todo
  /\ guard' = [guard EXCEPT !.todo = {}, !.unstopped = @ \cup {r}]
  /\ UNCHANGED hosts

GuardStopFails(r) ==
  /\ guard.pc = "stopping" /\ r \in guard.todo
  /\ guard' = [guard EXCEPT !.todo = @ \ {r}, !.unstopped = @ \cup {r}]
  /\ UNCHANGED hosts

GuardRaised == guard.todo = {} /\ GuardGoto("stopping", "raised") /\ UNCHANGED hosts

-----------------------------------------------------------------------------
ServeStep(o) ==
  \/ \E r \in Ranks : Check(o, r) \/ Sample(o, r) \/ Layout(o, r)
  \/ Checked(o) \/ LaunchRefused(o) \/ LaunchOk(o) \/ LaunchLost(o) \/ LaunchLate(o)
  \/ Round(o) \/ Deadline(o) \/ Judge(o) \/ NotReady(o) \/ Ready(o) \/ Mismatch(o)
  \/ Publish(o) \/ LayoutFails(o)
  \/ SaveFailed(o) \/ SaveRaises(o) \/ StopOk(o) \/ StopFails(o) \/ Raise(o)

GuardStep ==
  \/ GuardRound \/ GuardJudge \/ GuardSave \/ GuardSaveRaises \/ GuardRaised
  \/ \E r \in Ranks : GuardSample(r) \/ GuardStopOk(r) \/ GuardStopFails(r)

Serve(o) == ServeStep(o) /\ UNCHANGED guard
Guard == GuardStep /\ UNCHANGED <<boot, op>>

Next ==
  \/ \E o \in Operators : Serve(o) \/ ((Begin(o) \/ Interrupt(o) \/ Die(o))
                                       /\ UNCHANGED guard)
  \/ Guard
  \/ (GuardStart \/ GuardComplete \/ GuardRaises) /\ UNCHANGED <<boot, op>>
  \/ /\ \E r \in Ranks : \/ Exit(r) \/ Log(r) \/ Memory(r)
                         \/ \E o \in Operators : LateRun(o, r)
     /\ UNCHANGED <<boot, op, guard>>

Spec == Init /\ [][Next]_vars

\* Every command has a timeout, so a running serve or guard takes its next step.
FairSpec == Spec /\ (\A o \in Operators : WF_vars(Serve(o))) /\ WF_vars(Guard)

-----------------------------------------------------------------------------
Outcomes == {"ok", "sick", "error"}
Labels == Final \cup Loop \cup {"off", "check", "launch", "failing", "stopping"}
OpStates == [pc : Labels, next : 1 .. N + 1, started : Seq(Ranks), todo : SUBSET Ranks,
             seen : Outcomes, rounds : 0 .. MaxRounds,
             unacked : SUBSET Ranks, unstopped : SUBSET Ranks]

\* Every variable has its type, and no more ranks are listed than there are.
TypeOK ==
  /\ session \in Sessions
  /\ cont \in [Ranks -> {"absent", "running", "exited"}]
  /\ low \in [Ranks -> BOOLEAN] /\ inc \in [Ranks -> Nat]
  /\ \A r \in Ranks : logged[r] \subseteq 1 .. inc[r]
  /\ launcher \in [Ranks -> Operators \cup {Nobody}]
  /\ pending \subseteq Operators \X Ranks
  /\ boot \in {"none", "READY", "FAILED"}
  /\ op \in [Operators -> OpStates]
  /\ \A o \in Operators : Len(op[o].started) <= N
  /\ guard \in [pc : {"off", "watch", "sample", "failing", "stopping", "complete",
                      "crashed", "raised"},
                todo : SUBSET Ranks, seen : Outcomes, unstopped : SUBSET Ranks]

\* When a failed serve has cleaned up, a container it launched runs only where
\* `docker stop` reported an error or the launch was never acknowledged: one
\* node that cannot be stopped does not spare the others.
StoppedOrKnown ==
  /\ TypeOK
  /\ \A o \in Operators, r \in Ranks :
       At(o, "raised") /\ cont[r] = "running" /\ launcher[r] = o =>
         r \in op[o].unstopped \cup op[o].unacked

\* A serve that fails stops only containers it launched itself: two operators
\* may both have found the nodes idle, and the one whose launch is refused
\* leaves the other's containers alone.  (`start` shares preserved containers.)
StopsOwnOnly == [][\A o \in Operators, r \in Ranks :
  (/\ ~session.restart /\ At(o, "stopping") /\ op'[o].next # op[o].next
   /\ cont[r] = "running" /\ cont'[r] # "running") => launcher[r] = o]_vars

\* READY is written only by a serve that launched every rank, and the start of
\* every rank it launched, not an earlier one, logged its receipts.
ReadyOnEvidence == [][\A o \in Operators :
  At(o, "layout") /\ op'[o].pc = "ready" =>
    \A r \in Ranks : /\ \E i \in DOMAIN op[o].started : op[o].started[i] = r
                     /\ inc[r] \in logged[r]]_vars

\* When the guard has failed and stopped the ranks, each rank that still runs
\* is one whose `docker stop` reported an error (under `serve`: a stopped
\* container of this name cannot be launched again).
GuardStopsAll == ~session.restart /\ guard.pc = "raised" =>
  \A r \in Ranks : cont[r] = "running" => r \in guard.unstopped

\* A serve that was begun ends: the watch loop is left at its deadline at the
\* latest, and every error path ends too.
ServeEnds == \A o \in Operators : At(o, "check") ~> op[o].pc \in Final

\* While the guard watches, a container that has exited ends the watch; the
\* guard does not go on until its own deadline.
GuardReacts == \A r \in Ranks :
  guard.pc = "watch" /\ cont[r] = "exited"
    ~> guard.pc \in {"complete", "crashed", "raised"}

\* docs/reproduction.md: the startup guard stops the experiment on a failed
\* container, OOM, restart or low memory; so once serve has ended after such a
\* sample, no container it launched runs.
StartupGuardStops == \A o \in Operators, r \in Ranks :
  (op[o].pc \in {"raised", "crashed"} /\ op[o].seen = "sick" /\ launcher[r] = o)
    => cont[r] # "running"
=============================================================================
