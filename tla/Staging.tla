------------------------------ MODULE Staging ------------------------------
(***************************************************************************)
(* scripts/cluster.py stage, run by any number of operators from a working *)
(* copy that may be edited meanwhile, and runtime/launch.py, which decides *)
(* in the container of a rank whether the engine is executed.              *)
(*                                                                         *)
(* The files of the repository are kept in four groups, and the contents   *)
(* of a group is a version.  A manifest of version v lists the hashes of   *)
(* the overlays of version v, a lock those of the adapter sources.         *)
(***************************************************************************)
EXTENDS ClusterServe

CONSTANTS Versions,   \* of the files of the working copy
          Edits,      \* sets of groups that a change may have replaced so far
          Builds      \* what a compiler makes of one source on different nodes

VARIABLES
  work,     \* version of each group of files in the working copy
  stager,   \* per operator: [pc, names, hashes, archive] of its `stage`
  node,     \* per operator and rank: the next step of one(node)
  kit,      \* per rank: what is below the run_dir, see NoKit
  passed,   \* operators whose stage wrote PASS to stage.json
  engine    \* per rank: the kit from which the running engine was executed

stagevars == <<work, stager, node, kit, passed, engine>>

\* The order in which tar stores the sorted names.
Sorted == <<"adapter", "manifest", "overlay", "lock">>
Groups == {Sorted[i] : i \in DOMAIN Sorted}

ASSUME StagingAssumption ==
  /\ Versions \subseteq Nat \ {0} /\ Versions # {} /\ Builds \subseteq Nat /\ Builds # {}
  /\ Edits \subseteq SUBSET Groups

Absent == [f \in Groups |-> 0]

\* Who made the run_dir; the files unpacked; are the configuration and the B12x
\* sources there; librow_store.so; the library named in row-store-build.json.
\* A library is known by the version of its source and by what the compiler made.
NoLibrary == [source |-> 0, build |-> 0]
NoKit == [owner |-> Nobody, files |-> Absent, complete |-> FALSE,
          library |-> NoLibrary, record |-> NoLibrary]

\* A working copy of one version.
Copy(v) == [f \in Groups |-> v]

\* The locals of stage: before it begins, and when it has ended.
Stager(label) == [pc |-> label, names |-> 0, hashes |-> Absent, archive |-> Absent]
Session == [r \in Ranks |-> "check"]

StagingInit ==
  /\ \E v \in Versions : (\A u \in Versions : v <= u) /\ work = Copy(v)
  /\ stager = [s \in Operators |-> Stager("off")]
  /\ node = [s \in Operators |-> Session]
  /\ kit = [r \in Ranks |-> NoKit]
  /\ passed = {}
  /\ engine = [r \in Ranks |-> NoKit]

(***************************************************************************)
(* stage on the head.  A reading of all files is one step: what a torn one *)
(* returns is a mixture that the working copy may be in as well.           *)
(***************************************************************************)
ReadManifest(s) ==
  /\ s \in session.stagers /\ stager[s].pc = "off"
  /\ stager' = [stager EXCEPT ![s].pc = "hash", ![s].names = work["manifest"]]
  /\ UNCHANGED <<work, node, kit, passed, engine>>

\* source_hashes, and the overlays against the manifest read before.
HashSources(s) ==
  /\ stager[s].pc = "hash"
  /\ stager' = [stager EXCEPT ![s] =
       IF work["overlay"] = stager[s].names
         THEN [Stager("archive") EXCEPT !.hashes = work] ELSE Stager("refused")]
  /\ UNCHANGED <<work, node, kit, passed, engine>>

\* The sources are read again for the archive that goes to every node.
Archive(s) ==
  /\ stager[s].pc = "archive"
  /\ stager' = [stager EXCEPT ![s].pc = "nodes", ![s].archive = work]
  /\ UNCHANGED <<work, node, kit, passed, engine>>

(***************************************************************************)
(* one(node), on all nodes at once.  A command may succeed and yet end the *)
(* session of its node: its reply was lost, or came after its timeout.     *)
(***************************************************************************)
Step(s, r, label) == stager[s].pc = "nodes" /\ node[s][r] = label

Continue(s, r, label) ==
  /\ \E l \in {label, "failed"} : node' = [node EXCEPT ![s][r] = l]
  /\ UNCHANGED <<work, stager, passed, engine>>

\* Image identity and the original sources inside the image.
CheckBase(s, r) == Step(s, r, "check") /\ Continue(s, r, "mkdir") /\ UNCHANGED kit

\* mkdir with exist_ok=False.
MakeRunDir(s, r) ==
  /\ Step(s, r, "mkdir") /\ kit[r].owner = Nobody
  /\ kit' = [kit EXCEPT ![r].owner = s]
  /\ Continue(s, r, "unpack")

Unpack(s, r) ==
  /\ Step(s, r, "unpack")
  /\ kit' = [kit EXCEPT ![r].files = stager[s].archive]
  /\ Continue(s, r, "verify")

\* tar ended early: the first names are there.
UnpackPartly(s, r) ==
  /\ Step(s, r, "unpack")
  /\ \E n \in 1 .. Len(Sorted) - 1 :
       kit' = [kit EXCEPT ![r].files = [f \in Groups |->
                 IF \E i \in 1 .. n : Sorted[i] = f THEN stager[s].archive[f] ELSE @[f]]]
  /\ node' = [node EXCEPT ![s][r] = "failed"]
  /\ UNCHANGED <<work, stager, passed, engine>>

\* Mutant: what was unpacked is not compared with the hashes.
VerifyKit_Unchecked(s, r) ==
  /\ Step(s, r, "verify")
  /\ kit' = [kit EXCEPT ![r].complete = TRUE]
  /\ Continue(s, r, "build")

\* Every file against its hash; then configs and b12x are written.
VerifyKit(s, r) ==
  /\ Step(s, r, "verify") /\ kit[r].files = stager[s].hashes
  /\ kit' = [kit EXCEPT ![r].complete = TRUE]
  /\ Continue(s, r, "build")

BuildLibrary(s, r) ==
  /\ Step(s, r, "build")
  /\ \E b \in Builds :
       kit' = [kit EXCEPT ![r].library = [source |-> kit[r].files["adapter"], build |-> b]]
  /\ Continue(s, r, "record")

RecordBuild(s, r) ==
  /\ Step(s, r, "record")
  /\ kit' = [kit EXCEPT ![r].record = kit[r].library]
  /\ Continue(s, r, "done")

\* A check fails or a command does not run: nothing is undone.
NodeFails(s, r) ==
  /\ stager[s].pc = "nodes" /\ node[s][r] \notin {"done", "failed"}
  /\ node' = [node EXCEPT ![s][r] = "failed"]
  /\ UNCHANGED <<work, stager, kit, passed, engine>>

Installed(s) == stager[s].pc = "nodes" /\ \A r \in Ranks : node[s][r] = "done"

SameLibrary == \A q, r \in Ranks : kit[q].record = kit[r].record

StagePass(s) ==
  /\ Installed(s) /\ SameLibrary
  /\ passed' = passed \cup {s}
  /\ stager' = [stager EXCEPT ![s].pc = "passed", ![s].archive = Absent]
  /\ UNCHANGED <<work, node, kit, engine>>

\* An error of a node, when all have ended, or builds that differ.
StageRaises(s) ==
  /\ stager[s].pc = "nodes"
  /\ \A r \in Ranks : node[s][r] \in {"done", "failed"}
  /\ ~(Installed(s) /\ SameLibrary)
  /\ stager' = [stager EXCEPT ![s] = Stager("raised")]
  /\ node' = [node EXCEPT ![s] = Session]
  /\ UNCHANGED <<work, kit, passed, engine>>

StageDies(s) ==
  /\ stager[s].pc = "nodes"
  /\ stager' = [stager EXCEPT ![s] = Stager("dead")]
  /\ node' = [node EXCEPT ![s] = Session]
  /\ UNCHANGED <<work, kit, passed, engine>>

(***************************************************************************)
(* A change of the working copy from one version towards a later one; what *)
(* a stage may find is any mixture of the two.                             *)
(***************************************************************************)
Edit(v, later) ==
  /\ work = Copy(v) /\ later > v
  /\ \E s \in session.stagers : stager[s].pc \in {"off", "hash", "archive"}
  /\ \E F \in Edits :
       work' = [f \in Groups |-> IF f \in F THEN later ELSE v]
  /\ UNCHANGED <<stager, node, kit, passed, engine>>

(***************************************************************************)
(* launch.py in a container of the rank, started at any time after the     *)
(* run_dir was made: `serve` does not look at stage.json.                  *)
(***************************************************************************)
\* Mutant: the library is not compared with the record of its build.
Verified_AnyLibrary(k) ==
  /\ k.files["lock"] # 0 /\ k.complete /\ k.library # NoLibrary
  /\ k.files["overlay"] = k.files["manifest"]
  /\ k.files["adapter"] = k.files["lock"]

\* The library is what was recorded; the overlays, which the container mounts from
\* the kit, are the manifest's, the adapter sources the lock's, and B12x is whole.
\* (The files are read one by one; a kit that has its record does not change.)
Verified(k) ==
  /\ k.files["lock"] # 0 /\ k.complete
  /\ k.record # NoLibrary /\ k.library = k.record
  /\ k.files["overlay"] = k.files["manifest"]
  /\ k.files["adapter"] = k.files["lock"]

Execute(r) ==
  /\ engine[r] = NoKit /\ Verified(kit[r])
  /\ engine' = [engine EXCEPT ![r] = kit[r]]
  /\ UNCHANGED <<work, stager, node, kit, passed>>

EngineEnds(r) ==
  /\ engine[r] # NoKit
  /\ engine' = [engine EXCEPT ![r] = NoKit]
  /\ UNCHANGED <<work, stager, node, kit, passed>>

-----------------------------------------------------------------------------
StageNext ==
  \/ \E s \in Operators :
       \/ ReadManifest(s) \/ HashSources(s) \/ Archive(s)
       \/ StagePass(s) \/ StageRaises(s) \/ StageDies(s)
       \/ \E r \in Ranks :
            \/ CheckBase(s, r) \/ MakeRunDir(s, r) \/ Unpack(s, r) \/ UnpackPartly(s, r)
            \/ VerifyKit(s, r) \/ BuildLibrary(s, r) \/ RecordBuild(s, r)
            \/ NodeFails(s, r)
  \/ \E v, later \in Versions : Edit(v, later)
  \/ \E r \in Ranks : Execute(r) \/ EngineEnds(r)

\* main: an operator's command is stage, or it is serve or start.
clustervars == <<vars, stagevars>>
ClusterNext == (Next /\ UNCHANGED stagevars) \/ (StageNext /\ UNCHANGED vars)
ClusterSpec == Init /\ StagingInit /\ [][ClusterNext]_clustervars

-----------------------------------------------------------------------------
\* When a stage has written PASS, the kit of every rank is the one that this
\* stage made from the sources it had hashed, with one library, built of those
\* sources, on all ranks; whatever another stage or an editor did meanwhile, and
\* whatever they do later.
StagedExact == \A s \in passed, r \in Ranks :
  LET k == kit[r] IN
  /\ k.owner = s /\ k.files = stager[s].hashes /\ k.complete
  /\ k.library = k.record /\ k.library.source = k.files["adapter"]
  /\ SameLibrary

\* An engine that was executed runs from overlays, adapters and a library that
\* belong together, although launch.py never compares the library with its
\* source; and nothing in its kit is changed as long as it runs.
ExecutedExact == \A r \in Ranks : engine[r] # NoKit =>
  /\ engine[r] = kit[r]
  /\ kit[r].library.source = kit[r].files["lock"]
  /\ kit[r].files["overlay"] = kit[r].files["manifest"]
=============================================================================
