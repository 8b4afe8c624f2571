----------------------------- MODULE EngramPack -----------------------------
(***************************************************************************)
(* Packing the rows one rank owns: scripts/pack-verified.py in the         *)
(* container of `cluster.py pack`, with pack_layer of pack_engram.py, over *)
(* one local directory.  Runs may be killed at any step, power may fail,   *)
(* writes may fall short, a packed file may rot and the checkpoint may be  *)
(* replaced between runs.  A file is an inode, named after the run that    *)
(* created it; a row is its number and the checkpoint it was read from,    *)
(* and the digest of a shard is its contents.  A checkpoint is known by    *)
(* the digests of its config and its index, which say nothing of its rows. *)
(***************************************************************************)
EXTENDS Integers, Sequences

CONSTANTS Runs,         \* runs of pack-verified.py
          Layers,       \* ENGRAM_LAYERS, numbered 1 .. their count
          Rows,         \* rows per shard, one per chunk
          Sampled,      \* rows that verify compares with the checkpoint
          Checkpoints,
          Bytes,        \* per checkpoint: what its rows are
          Identity,     \* per checkpoint: digests of config.json and the index
          None, Torn,   \* no such file; a manifest that is not JSON
          MaxLosses     \* bound: power losses and rotten rows

ASSUME PackAssumption ==
  /\ Layers \in Nat \ {0} /\ Rows \in Nat \ {0} /\ MaxLosses \in Nat
  /\ Sampled \subseteq 1 .. Rows /\ None \notin {Identity[c] : c \in Checkpoints}
  /\ None \notin Runs \cup Checkpoints /\ Checkpoints # {}

VARIABLES
  run,        \* per run: state of pack-verified.py, see Start
  holder,     \* run whose container has the name sglang4-pack-<name>-r<rank>
  partial,    \* per layer: inode of the .partial file
  target,     \* per layer: inode of the .bin file
  disk,       \* per inode and layer: the rows, header not counted
  manifest,   \* manifest-r<rank>of<tp>.json: None, Torn or [id, sums]
  dirty,      \* is the manifest still in the page cache only?
  ck,         \* the checkpoint in the model directory
  losses

files == <<partial, target, disk>>
vars == <<run, holder, files, manifest, dirty, ck, losses>>

\* pc, layer, rows read of it, checkpoint identity, inode open, digests verified.
Start == [pc |-> "off", layer |-> 1, read |-> 0, id |-> None, fd |-> None,
          sums |-> << >>]

Init ==
  /\ run = [p \in Runs |-> Start] /\ holder = None
  /\ partial = [l \in 1 .. Layers |-> None]
  /\ target = [l \in 1 .. Layers |-> None]
  /\ disk = [p \in Runs |-> [l \in 1 .. Layers |-> << >>]]
  /\ manifest = None /\ dirty = FALSE
  /\ ck \in Checkpoints /\ losses = 0

Final == {"off", "pass", "failed", "killed"}
At(p, label) == run[p].pc = label
Layer(p) == run[p].layer
Goto(p, label) == run' = [run EXCEPT ![p].pc = label]
Idle == \A p \in Runs : run[p].pc \in Final

Contents(l) == disk[target[l]][l]
Complete(l) == target[l] # None /\ Len(Contents(l)) = Rows

\* A row that the layout of checkpoint c has at place r.
Agrees(row, r, c) == row[1] = r /\ row[2] # None /\ Bytes[row[2]][r] = Bytes[c][r]
Exact(rows, c) == /\ Len(rows) = Rows
                  /\ \A r \in 1 .. Rows : Agrees(rows[r], r, c)

\* Mutant: the container has no name, so runs overlap.
NameFree_Unnamed == TRUE

\* docker run --name fails while a container of the name exists.
NameFree == holder = None

(***************************************************************************)
(* main: identity of the checkpoint, and the old manifest if there is one. *)
(***************************************************************************)
Begin(p) ==
  /\ At(p, "off") /\ NameFree
  /\ holder' = p
  /\ run' = [run EXCEPT ![p].id = Identity[ck],
       ![p].pc = IF manifest = Torn THEN "failed"
                 ELSE IF manifest = None THEN "fresh" ELSE "old"]
  /\ UNCHANGED <<files, manifest, dirty, ck, losses>>

\* Mutant: only the length of a manifested shard is checked.
Matches_LengthOnly(l) == Complete(l)

Matches(l) == target[l] # None /\ Contents(l) = manifest.sums[l]

\* Existing files require a manifest of this identity and its checksums.
Old(p) ==
  /\ At(p, "old")
  /\ Goto(p, IF /\ manifest.id = run[p].id
                /\ \A l \in 1 .. Layers : Matches(l)
             THEN "verify" ELSE "failed")
  /\ UNCHANGED <<holder, files, manifest, dirty, ck, losses>>

\* Mutant: complete files without a manifest are taken over.
Unmanifested_PartialOnly == \E l \in 1 .. Layers : partial[l] # None

Unmanifested == \E l \in 1 .. Layers : target[l] # None \/ partial[l] # None

\* Unmanifested data refuses the run.
Fresh(p) ==
  /\ At(p, "fresh")
  /\ Goto(p, IF Unmanifested THEN "failed" ELSE "open")
  /\ UNCHANGED <<holder, files, manifest, dirty, ck, losses>>

(***************************************************************************)
(* pack_layer.                                                             *)
(***************************************************************************)
NextLayer(p) ==
  run' = [run EXCEPT ![p].pc = IF Layer(p) = Layers THEN "verify" ELSE "open",
                     ![p].layer = IF Layer(p) = Layers THEN 1 ELSE @ + 1,
                     ![p].read = 0]

\* A complete target is kept; otherwise open(partial, 'wb') creates the file, or
\* truncates the one that is there.
Open(p) ==
  /\ At(p, "open")
  /\ LET l == Layer(p)
         inode == IF partial[l] = None THEN p ELSE partial[l] IN
     IF Complete(l)
       THEN NextLayer(p) /\ UNCHANGED <<partial, disk>>
       ELSE /\ partial' = [partial EXCEPT ![l] = inode]
            /\ disk' = [disk EXCEPT ![inode][l] = << >>]
            /\ run' = [run EXCEPT ![p].pc = "write", ![p].fd = inode, ![p].read = 0]
  /\ UNCHANGED <<holder, target, manifest, dirty, ck, losses>>

MoreRows(p) == run[p].read < Rows

Write(p) ==
  /\ At(p, "write") /\ MoreRows(p)
  /\ disk' = [disk EXCEPT ![run[p].fd][Layer(p)] =
                            Append(@, <<run[p].read + 1, ck>>)]
  /\ run' = [run EXCEPT ![p].read = @ + 1]
  /\ UNCHANGED <<holder, partial, target, manifest, dirty, ck, losses>>

\* An unbuffered write may fall short; its result is not looked at, and the
\* next chunk follows where the file ends.
WriteShort(p) ==
  /\ At(p, "write") /\ MoreRows(p)
  /\ run' = [run EXCEPT ![p].read = @ + 1]
  /\ UNCHANGED <<holder, files, manifest, dirty, ck, losses>>

\* No space, a short read of the checkpoint: the run ends.
WriteFails(p) == /\ At(p, "write") /\ Goto(p, "failed")
                 /\ UNCHANGED <<holder, files, manifest, dirty, ck, losses>>

\* flush, fsync and rename.
Rename(p) ==
  /\ At(p, "write") /\ ~MoreRows(p)
  /\ IF partial[Layer(p)] = None
       THEN Goto(p, "failed") /\ UNCHANGED <<partial, target>>
       ELSE /\ target' = [target EXCEPT ![Layer(p)] = partial[Layer(p)]]
            /\ partial' = [partial EXCEPT ![Layer(p)] = None]
            /\ NextLayer(p)
  /\ UNCHANGED <<holder, disk, manifest, dirty, ck, losses>>

(***************************************************************************)
(* verify, and the manifest.                                               *)
(***************************************************************************)
SampleExact(l, c) == /\ Complete(l)
                     /\ \A r \in Sampled : Agrees(Contents(l)[r], r, c)

Verify(p) ==
  /\ At(p, "verify") /\ Len(run[p].sums) < Layers
  /\ LET l == Len(run[p].sums) + 1 IN
     IF SampleExact(l, ck)
       THEN run' = [run EXCEPT ![p].sums = Append(@, Contents(l))]
       ELSE Goto(p, "failed")
  /\ UNCHANGED <<holder, files, manifest, dirty, ck, losses>>

\* The manifest is written beside the old one and replaces it, with no fsync.
Replace(p) ==
  /\ At(p, "verify") /\ Len(run[p].sums) = Layers
  /\ manifest' = [id |-> run[p].id, sums |-> run[p].sums]
  /\ dirty' = TRUE /\ Goto(p, "pass")
  /\ UNCHANGED <<holder, files, ck, losses>>

(***************************************************************************)
(* The container, the machine and the operator.                            *)
(***************************************************************************)
Kill(p) == /\ run[p].pc \notin Final /\ Goto(p, "killed")
           /\ UNCHANGED <<holder, files, manifest, dirty, ck, losses>>

PowerLoss ==
  /\ losses < MaxLosses /\ losses' = losses + 1
  /\ run' = [p \in Runs |-> IF run[p].pc \in Final THEN run[p]
                            ELSE [run[p] EXCEPT !.pc = "killed"]]
  /\ manifest' \in IF dirty THEN {manifest, Torn} ELSE {manifest}
  /\ dirty' = FALSE
  /\ UNCHANGED <<holder, files, ck>>

Sync == dirty /\ dirty' = FALSE
        /\ UNCHANGED <<run, holder, files, manifest, ck, losses>>

\* docker rm of the container of a run that has ended.
Remove == /\ holder # None /\ run[holder].pc \in Final /\ holder' = None
          /\ UNCHANGED <<run, files, manifest, dirty, ck, losses>>

NewCheckpoint == /\ Idle /\ ck' \in Checkpoints
                 /\ UNCHANGED <<run, holder, files, manifest, dirty, losses>>

Rotten(r) == <<r, None>>

Rot(l, r) ==
  /\ Idle /\ losses < MaxLosses /\ losses' = losses + 1
  /\ target[l] # None /\ r <= Len(Contents(l))
  /\ disk' = [disk EXCEPT ![target[l]][l][r] = Rotten(r)]
  /\ UNCHANGED <<run, holder, partial, target, manifest, dirty, ck>>

PackStep(p) ==
  \/ Begin(p) \/ Old(p) \/ Fresh(p) \/ Open(p) \/ Write(p)
  \/ WriteShort(p) \/ WriteFails(p) \/ Rename(p) \/ Verify(p) \/ Replace(p)

Next == \/ \E p \in Runs : PackStep(p) \/ Kill(p)
        \/ PowerLoss \/ Sync \/ Remove \/ NewCheckpoint
        \/ \E l \in 1 .. Layers, r \in 1 .. Rows : Rot(l, r)

Spec == Init /\ [][Next]_vars

-----------------------------------------------------------------------------
Cells == (1 .. Rows) \X (Checkpoints \cup {None})
Identities == {Identity[c] : c \in Checkpoints}
Manifests == [id : Identities, sums : Seq(Seq(Cells))]
RunStates ==
  [pc : Final \cup {"fresh", "old", "open", "write", "verify"}, layer : 1 .. Layers,
   read : 0 .. Rows, id : Identities \cup {None}, fd : Runs \cup {None},
   sums : Seq(Seq(Cells))]
Manifested == manifest \notin {None, Torn}

\* Every variable has its type; a shard never has more rows than its range.
TypeOK ==
  /\ run \in [Runs -> RunStates] /\ \A p \in Runs : Len(run[p].sums) <= Layers
  /\ disk \in [Runs -> [1 .. Layers -> Seq(Cells)]]
  /\ \A p \in Runs, l \in 1 .. Layers : Len(disk[p][l]) <= Rows
  /\ holder \in Runs \cup {None}
  /\ partial \in [1 .. Layers -> Runs \cup {None}]
  /\ target \in [1 .. Layers -> Runs \cup {None}]
  /\ manifest \in {None, Torn} \cup Manifests
  /\ Manifested => Len(manifest.sums) = Layers
  /\ dirty \in BOOLEAN /\ ck \in Checkpoints /\ losses \in 0 .. MaxLosses

\* row_store_attach_packed looks at the header and the length only: a file that
\* passes has every row in its place, all of one checkpoint, but for rot,
\* whatever was killed, fell short or lost power before.
AttachWhole == \A l \in 1 .. Layers : Complete(l) =>
  \E c \in Checkpoints : \A r \in 1 .. Rows : Contents(l)[r] \in {<<r, c>>, Rotten(r)}

\* A manifest states digests of shards that are exact in all rows, also in those
\* verify does not sample, of one checkpoint of the identity it names.  What it
\* vouches for stays on disk: no later or overlapping run replaces, truncates or
\* rewrites it.
ManifestExact ==
  /\ TypeOK
  /\ Manifested => \E c \in Checkpoints :
       /\ Identity[c] = manifest.id
       /\ \A l \in 1 .. Layers :
            /\ Exact(manifest.sums[l], c)
            /\ Complete(l)
            /\ \A r \in 1 .. Rows : Contents(l)[r] \in {manifest.sums[l][r], Rotten(r)}

\* docs/reproduction.md: existing files require valid manifests and matching
\* checksums.  A run that packed passes over shards exact of the checkpoint in
\* place, in every row.  A run that met a manifest passes over shards exact of one
\* checkpoint that has the identity of the one in place, which need not be that
\* one, and agrees with it in the sampled rows.
PassExact == [][\A p \in Runs : At(p, "verify") /\ run'[p].pc = "pass" =>
  \E c \in Checkpoints :
    /\ Identity[c] = Identity[ck] /\ (manifest = None => c = ck)
    /\ \A l \in 1 .. Layers : Exact(Contents(l), c) /\ SampleExact(l, ck)]_vars
=============================================================================
