-------------------------- MODULE EngramPackProofs --------------------------
(***************************************************************************)
(* Proofs about EngramPack for any number of runs, shards and rows, every  *)
(* sample, any checkpoints, whichever share an identity, and any losses.   *)
(***************************************************************************)
EXTENDS EngramPack, SequenceTheorems, TLAPS

\* One run is at work, the one whose container has the name, with the identity of
\* the checkpoint in place.
Active(p) == run[p].pc \notin Final
OneRun == \A p \in Runs : Active(p) => holder = p /\ run[p].id = Identity[ck]

\* Every row of the shard is in its place, of checkpoint c.
Placed(rows, c) == \A r \in 1 .. Len(rows) : rows[r] = <<r, c>>

\* A run that packs has found nothing, neither files nor a manifest; layers
\* before its own are whole or too short, those after it are not there.
PackingOf(s) ==
  /\ s.pc \in {"fresh", "open", "write"} => manifest = None
  /\ s.pc \in {"open", "write"} => \A l \in 1 .. Layers :
       /\ l >= s.layer => target[l] = None
       /\ Complete(l) => Placed(Contents(l), ck)
  /\ s.pc = "open" => \A l \in 1 .. Layers : partial[l] = None
  /\ s.pc = "write" => /\ s.fd # None
                       /\ \A l \in 1 .. Layers : partial[l] =
                            IF l = s.layer THEN s.fd ELSE None

\* The file being written is no longer than what was read, and if it is as long
\* nothing fell short.
WritingOf(s) == s.pc = "write" =>
  /\ Len(disk[s.fd][s.layer]) <= s.read
  /\ Len(disk[s.fd][s.layer]) = s.read => Placed(disk[s.fd][s.layer], ck)

\* Shards exact of checkpoint c, which is the one in place where nothing else is
\* known of them than this run has written.
ExactOf(c) ==
  /\ Identity[c] = Identity[ck] /\ (manifest = None => c = ck)
  /\ \A l \in 1 .. Layers : Complete(l) => Exact(Contents(l), c)

\* What a run verifies is exact of one checkpoint, and the digests it has are those
\* on disk, of shards that agree with the checkpoint in place where it looked.
VerifyingOf(s) ==
  /\ s.pc = "old" => Manifested
  /\ s.pc \in {"off", "fresh", "old", "open", "write"} => Len(s.sums) = 0
  /\ s.pc = "verify" =>
       /\ \E c \in Checkpoints : ExactOf(c)
       /\ \A l \in 1 .. Layers :
            l <= Len(s.sums) => SampleExact(l, ck) /\ s.sums[l] = Contents(l)

Orderly(s) == PackingOf(s) /\ WritingOf(s) /\ VerifyingOf(s)

\* What the manifest vouches for: ManifestExact without the types.
VouchedOf(c) ==
  /\ Identity[c] = manifest.id
  /\ \A l \in 1 .. Layers :
       /\ Exact(manifest.sums[l], c)
       /\ Complete(l)
       /\ \A r \in 1 .. Rows : Contents(l)[r] \in {manifest.sums[l][r], Rotten(r)}

Vouched == Manifested => \E c \in Checkpoints : VouchedOf(c)

IInv == /\ TypeOK /\ OneRun /\ \A p \in Runs : Orderly(run[p])
        /\ AttachWhole /\ Vouched

-----------------------------------------------------------------------------
LEMMA InitInv == Init => IInv
<1> SUFFICES ASSUME Init  PROVE IInv  OBVIOUS
<1> USE PackAssumption
<1>1. Start \in RunStates
  BY DEF Start, RunStates, Final
<1>2. TypeOK
  <2>1. /\ run \in [Runs -> RunStates] /\ \A p \in Runs : Len(run[p].sums) <= Layers
    BY <1>1 DEF Init, Start
  <2>2. /\ disk \in [Runs -> [1 .. Layers -> Seq(Cells)]]
        /\ \A p \in Runs, l \in 1 .. Layers : Len(disk[p][l]) <= Rows
    BY DEF Init
  <2>3. /\ partial \in [1 .. Layers -> Runs \cup {None}]
        /\ target \in [1 .. Layers -> Runs \cup {None}]
    BY DEF Init
  <2>4. /\ holder \in Runs \cup {None} /\ manifest \in {None, Torn} \cup Manifests
        /\ ~Manifested /\ dirty \in BOOLEAN
    BY DEF Init, Manifested
  <2>5. ck \in Checkpoints /\ losses \in 0 .. MaxLosses  BY DEF Init
  <2> QED  BY <2>1, <2>2, <2>3, <2>4, <2>5 DEF TypeOK
<1>3. OneRun /\ \A p \in Runs : Orderly(run[p])
  BY DEF Init, OneRun, Active, Start, Final, Orderly, PackingOf, WritingOf, VerifyingOf
<1>4. AttachWhole /\ Vouched
  BY DEF Init, AttachWhole, Complete, Vouched, Manifested
<1> QED  BY <1>2, <1>3, <1>4 DEF IInv

-----------------------------------------------------------------------------
(* Frames.                                                                 *)

\* Shards under their final name are untouched, and so is the manifest.
LEMMA Untouched ==
  ASSUME IInv, UNCHANGED <<target, manifest>>,
         \A l \in 1 .. Layers :
           target[l] # None => disk'[target[l]][l] = disk[target[l]][l]
  PROVE  /\ AttachWhole' /\ Vouched'
         /\ \A l \in 1 .. Layers : /\ Complete(l)' <=> Complete(l)
                                   /\ Complete(l) => Contents(l)' = Contents(l)
<1>1. \A l \in 1 .. Layers : /\ Complete(l)' <=> Complete(l)
                             /\ Complete(l) => Contents(l)' = Contents(l)
  BY DEF Complete, Contents
<1>2. AttachWhole'  BY <1>1 DEF IInv, AttachWhole
<1>3. Vouched'  BY <1>1 DEF IInv, Vouched, VouchedOf, Manifested
<1> QED  BY <1>1, <1>2, <1>3

\* What a sequence is after one more element.
LEMMA Longer ==
  ASSUME NEW S, NEW s \in Seq(S), NEW e \in S
  PROVE  /\ Append(s, e) \in Seq(S) /\ Len(Append(s, e)) = Len(s) + 1
         /\ Append(s, e)[Len(s) + 1] = e
         /\ \A i \in 1 .. Len(s) : Append(s, e)[i] = s[i]
  OBVIOUS

\* When one run takes a step the others are off or have ended.
LEMMA OthersEnded ==
  ASSUME IInv, NEW p \in Runs, Active(p), NEW q \in Runs, q # p
  PROVE  run[q].pc \in Final
  BY DEF IInv, OneRun, Active

\* A step of the run at work has to care for its own state.
LEMMA OwnStep ==
  ASSUME IInv, NEW p \in Runs, Active(p), NEW n \in RunStates,
         run' = [run EXCEPT ![p] = n], Len(n.sums) <= Layers, n.id = run[p].id,
         UNCHANGED <<holder, ck>>, Orderly(run[p])'
  PROVE  /\ run' \in [Runs -> RunStates] /\ \A q \in Runs : Len(run'[q].sums) <= Layers
         /\ OneRun' /\ (\A q \in Runs : Orderly(run[q]))'
<1>1. \A q \in Runs : run'[q] = IF q = p THEN n ELSE run[q]
  BY DEF IInv, TypeOK
<1>2. run' \in [Runs -> RunStates] /\ \A q \in Runs : Len(run'[q].sums) <= Layers
  BY <1>1 DEF IInv, TypeOK
<1>3. \A q \in Runs : q # p => run[q].pc \in Final  BY OthersEnded
<1>4. OneRun'  BY <1>1, <1>3 DEF IInv, OneRun, Active
<1>5. ASSUME NEW q \in Runs  PROVE Orderly(run[q])'
  <2>1. CASE q = p
    <3> QED  BY <2>1
  <2>2. CASE q # p
    <3>1. run'[q] = run[q] /\ run[q].pc \in Final  BY <1>1, <1>3, <2>2
    <3>2. run[q].pc = "off" => Len(run[q].sums) = 0
      BY DEF IInv, Orderly, VerifyingOf
    <3> QED  BY <3>1, <3>2 DEF Orderly, PackingOf, WritingOf, VerifyingOf, Final
  <2> QED  BY <2>1, <2>2
<1> QED  BY <1>2, <1>4, <1>5

\* A step that changes only the state of the run at work.
LEMMA LocalStep ==
  ASSUME IInv, NEW p \in Runs, Active(p), NEW n \in RunStates,
         run' = [run EXCEPT ![p] = n], Len(n.sums) <= Layers, n.id = run[p].id,
         UNCHANGED <<holder, files, manifest, dirty, ck, losses>>, Orderly(n)
  PROVE  IInv'
<1>1. Orderly(n)'
  BY DEF Orderly, PackingOf, WritingOf, VerifyingOf, ExactOf, SampleExact, Complete,
     Contents, Manifested, files
<1>2. /\ run' \in [Runs -> RunStates] /\ \A q \in Runs : Len(run'[q].sums) <= Layers
      /\ OneRun' /\ (\A q \in Runs : Orderly(run[q]))'
  <2>1. run'[p] = n  BY DEF IInv, TypeOK
  <2>2. Orderly(run[p])'
    BY <1>1, <2>1 DEF Orderly, PackingOf, WritingOf, VerifyingOf
  <2> QED  BY <2>2, OwnStep
<1>3. AttachWhole' /\ Vouched'  BY Untouched DEF files
<1>4. TypeOK'  BY <1>2 DEF IInv, TypeOK, files, Manifested
<1> QED  BY <1>2, <1>3, <1>4 DEF IInv

LEMMA EndStep ==
  ASSUME IInv, NEW p \in Runs, Active(p), NEW label \in {"failed", "killed"},
         Goto(p, label), UNCHANGED <<holder, files, manifest, dirty, ck, losses>>
  PROVE  IInv'
<1> DEFINE n == [run[p] EXCEPT !.pc = label]
<1>1. run[p] \in RunStates /\ run' = [run EXCEPT ![p] = n] /\ Len(run[p].sums) <= Layers
  BY DEF IInv, TypeOK, Goto
<1>2. n \in RunStates /\ n.pc = label /\ n.sums = run[p].sums /\ n.id = run[p].id
  BY <1>1 DEF RunStates, Final
<1> HIDE DEF n
<1>3. Orderly(n)  BY <1>2 DEF Orderly, PackingOf, WritingOf, VerifyingOf
<1> QED  BY <1>1, <1>2, <1>3, LocalStep

\* A run begins when no container has the name, so no other run is at work.
LEMMA BeginStep ==
  ASSUME IInv, NEW p \in Runs, Begin(p)
  PROVE  IInv'
<1> DEFINE label == IF manifest = Torn THEN "failed"
                    ELSE IF manifest = None THEN "fresh" ELSE "old"
           n == [run[p] EXCEPT !.pc = label, !.id = Identity[ck]]
<1>1. /\ run[p].pc = "off" /\ holder = None /\ holder' = p
      /\ run' = [run EXCEPT ![p] = n]
      /\ UNCHANGED <<files, manifest, dirty, ck, losses>>
      /\ run[p] \in RunStates /\ Len(run[p].sums) = 0
  BY DEF Begin, At, NameFree, IInv, TypeOK, Orderly, VerifyingOf
<1>2. /\ label \in {"failed", "fresh", "old"}
      /\ label = "old" => Manifested
      /\ label = "fresh" => manifest = None
  BY DEF Manifested
<1> HIDE DEF label
<1>3. n \in RunStates /\ n.pc = label /\ n.sums = run[p].sums /\ n.id = Identity[ck]
  <2>1. label \in Final \cup {"fresh", "old", "open", "write", "verify"}
    BY <1>2 DEF Final
  <2>2. Identity[ck] \in Identities  BY DEF IInv, TypeOK, Identities
  <2> QED  BY <1>1, <2>1, <2>2 DEF RunStates
<1> HIDE DEF n
<1>4. \A q \in Runs : run'[q] = IF q = p THEN n ELSE run[q]
  BY <1>1 DEF IInv, TypeOK
<1>5. \A q \in Runs : run[q].pc \in Final
  BY <1>1, PackAssumption DEF IInv, OneRun, Active
<1>6. TypeOK'
  <2>1. run' \in [Runs -> RunStates] /\ \A q \in Runs : Len(run'[q].sums) <= Layers
    BY <1>1, <1>3, <1>4 DEF IInv, TypeOK
  <2> QED  BY <1>1, <2>1 DEF IInv, TypeOK, files, Manifested
<1>7. OneRun'  BY <1>1, <1>3, <1>4, <1>5 DEF OneRun, Active
<1>8. ASSUME NEW q \in Runs  PROVE Orderly(run[q])'
  <2>1. CASE q = p
    <3>1. run'[q] = n  BY <1>4, <2>1
    <3>2. n.pc \in {"failed", "fresh", "old"} /\ Len(n.sums) = 0
      BY <1>1, <1>2, <1>3
    <3>3. PackingOf(run[q])'  BY <1>1, <1>2, <1>3, <3>1, <3>2 DEF PackingOf
    <3>4. WritingOf(run[q])'  BY <3>1, <3>2 DEF WritingOf
    <3>5. VerifyingOf(run[q])'
      BY <1>1, <1>2, <1>3, <3>1, <3>2 DEF VerifyingOf, Manifested
    <3> QED  BY <3>3, <3>4, <3>5 DEF Orderly
  <2>2. CASE q # p
    <3>1. run'[q] = run[q]  BY <1>4, <2>2
    <3>2. run[q].pc = "off" => Len(run[q].sums) = 0
      BY DEF IInv, Orderly, VerifyingOf
    <3> QED
      BY <1>5, <3>1, <3>2 DEF Orderly, PackingOf, WritingOf, VerifyingOf, Final
  <2> QED  BY <2>1, <2>2
<1>9. AttachWhole' /\ Vouched'  BY <1>1, Untouched DEF files
<1> QED  BY <1>6, <1>7, <1>8, <1>9 DEF IInv

\* A manifest of this identity whose digests match means shards exact of one checkpoint.
LEMMA OldStep ==
  ASSUME IInv, NEW p \in Runs, Old(p)
  PROVE  IInv'
<1>1. /\ run[p].pc = "old" /\ Active(p) /\ Manifested /\ run[p].id = Identity[ck]
      /\ run[p] \in RunStates /\ Len(run[p].sums) = 0
      /\ UNCHANGED <<holder, files, manifest, dirty, ck, losses>>
  BY DEF Old, At, Active, Final, IInv, TypeOK, OneRun, Orderly, VerifyingOf
<1>2. CASE manifest.id = run[p].id /\ \A l \in 1 .. Layers : Matches(l)
  <2> DEFINE n == [run[p] EXCEPT !.pc = "verify"]
  <2>1. run' = [run EXCEPT ![p] = n]  BY <1>2 DEF Old, Goto, IInv, TypeOK
  <2>2. n \in RunStates /\ n.pc = "verify" /\ n.sums = run[p].sums /\ n.id = run[p].id
    BY <1>1 DEF RunStates
  <2> HIDE DEF n
  <2>3. PICK c \in Checkpoints : VouchedOf(c)  BY <1>1 DEF IInv, Vouched
  <2>4. ExactOf(c)
    <3>1. Identity[c] = Identity[ck] /\ manifest # None
      BY <1>1, <1>2, <2>3 DEF VouchedOf, Manifested
    <3>2. \A l \in 1 .. Layers : Exact(Contents(l), c)
      BY <1>2, <2>3 DEF VouchedOf, Matches
    <3> QED  BY <3>1, <3>2 DEF ExactOf
  <2>5. Orderly(n)
    BY <1>1, <2>2, <2>4 DEF Orderly, PackingOf, WritingOf, VerifyingOf
  <2>6. Len(n.sums) <= Layers  BY <1>1, <2>2, PackAssumption
  <2> QED  BY <1>1, <2>1, <2>2, <2>5, <2>6, LocalStep
<1>3. CASE ~(manifest.id = run[p].id /\ \A l \in 1 .. Layers : Matches(l))
  <2>1. Goto(p, "failed")  BY <1>3 DEF Old
  <2> QED  BY <1>1, <2>1, EndStep
<1> QED  BY <1>2, <1>3

\* A run without a manifest packs only where there is no file at all.
LEMMA FreshStep ==
  ASSUME IInv, NEW p \in Runs, Fresh(p)
  PROVE  IInv'
<1>1. /\ run[p].pc = "fresh" /\ Active(p) /\ manifest = None
      /\ run[p] \in RunStates /\ Len(run[p].sums) = 0
      /\ UNCHANGED <<holder, files, manifest, dirty, ck, losses>>
  BY DEF Fresh, At, Active, Final, IInv, TypeOK, Orderly, PackingOf, VerifyingOf
<1>2. CASE ~Unmanifested
  <2> DEFINE n == [run[p] EXCEPT !.pc = "open"]
  <2>1. run' = [run EXCEPT ![p] = n]  BY <1>2 DEF Fresh, Goto, IInv, TypeOK
  <2>2. n \in RunStates /\ n.pc = "open" /\ n.sums = run[p].sums /\ n.id = run[p].id
    BY <1>1 DEF RunStates
  <2> HIDE DEF n
  <2>3. \A l \in 1 .. Layers : target[l] = None /\ partial[l] = None
    BY <1>2 DEF Unmanifested
  <2>4. \A l \in 1 .. Layers : ~Complete(l)  BY <2>3 DEF Complete
  <2>5. Orderly(n)
    BY <1>1, <2>2, <2>3, <2>4 DEF Orderly, PackingOf, WritingOf, VerifyingOf
  <2>6. Len(n.sums) <= Layers  BY <1>1, <2>2, PackAssumption
  <2> QED  BY <1>1, <2>1, <2>2, <2>5, <2>6, LocalStep
<1>3. CASE Unmanifested
  <2>1. Goto(p, "failed")  BY <1>3 DEF Fresh
  <2> QED  BY <1>1, <2>1, EndStep
<1> QED  BY <1>2, <1>3

LEMMA VerifyStep ==
  ASSUME IInv, NEW p \in Runs, Verify(p)
  PROVE  IInv'
<1> DEFINE l == Len(run[p].sums) + 1
<1>1. /\ run[p].pc = "verify" /\ Active(p) /\ Len(run[p].sums) < Layers
      /\ run[p] \in RunStates /\ run[p].sums \in Seq(Seq(Cells))
      /\ Orderly(run[p])
      /\ UNCHANGED <<holder, files, manifest, dirty, ck, losses>>
  BY DEF Verify, At, Active, Final, IInv, TypeOK, RunStates
<1>2. l \in 1 .. Layers /\ Len(run[p].sums) \in Nat  BY <1>1, PackAssumption
<1>3. CASE SampleExact(l, ck)
  <2> DEFINE n == [run[p] EXCEPT !.sums = Append(@, Contents(l))]
  <2>1. run' = [run EXCEPT ![p] = n]  BY <1>3 DEF Verify, IInv, TypeOK
  <2>2. Complete(l) /\ Contents(l) \in Seq(Cells)
    <3> HIDE DEF l
    <3>1. Complete(l) /\ target[l] # None  BY <1>3 DEF SampleExact, Complete
    <3>2. target[l] \in Runs  BY <1>2, <3>1 DEF IInv, TypeOK
    <3>3. disk[target[l]] \in [1 .. Layers -> Seq(Cells)]  BY <3>2 DEF IInv, TypeOK
    <3> QED  BY <1>2, <3>1, <3>3 DEF Contents
  <2>3. /\ n \in RunStates /\ n.pc = "verify" /\ n.id = run[p].id
        /\ n.sums = Append(run[p].sums, Contents(l))
    <3> HIDE DEF l
    <3>1. Append(run[p].sums, Contents(l)) \in Seq(Seq(Cells))  BY <1>1, <2>2
    <3> QED  BY <1>1, <3>1 DEF RunStates
  <2> HIDE DEF n
  <2>4. /\ Len(n.sums) = Len(run[p].sums) + 1 /\ n.sums[l] = Contents(l)
        /\ \A i \in 1 .. Len(run[p].sums) : n.sums[i] = run[p].sums[i]
    BY <1>1, <2>2, <2>3
  <2>5. \A i \in 1 .. Layers : i <= Len(n.sums) => SampleExact(i, ck) /\ n.sums[i] = Contents(i)
    <3> SUFFICES ASSUME NEW i \in 1 .. Layers, i <= Len(n.sums)
                 PROVE  SampleExact(i, ck) /\ n.sums[i] = Contents(i)
      OBVIOUS
    <3>1. CASE i = l  BY <1>3, <2>4, <3>1
    <3>2. CASE i # l
      <4>1. i \in 1 .. Len(run[p].sums)  BY <1>2, <2>4, <3>2
      <4> QED  BY <1>1, <2>4, <4>1 DEF Orderly, VerifyingOf
    <3> QED  BY <3>1, <3>2
  <2>6. Orderly(n)
    BY <1>1, <2>3, <2>5 DEF Orderly, PackingOf, WritingOf, VerifyingOf
  <2>7. Len(n.sums) <= Layers  BY <1>1, <1>2, <2>4
  <2> QED  BY <1>1, <2>1, <2>3, <2>6, <2>7, LocalStep
<1>4. CASE ~SampleExact(l, ck)
  <2>1. Goto(p, "failed")  BY <1>4 DEF Verify
  <2> QED  BY <1>1, <2>1, EndStep
<1> QED  BY <1>3, <1>4

LEMMA WriteShortStep ==
  ASSUME IInv, NEW p \in Runs, WriteShort(p)
  PROVE  IInv'
<1> DEFINE n == [run[p] EXCEPT !.read = @ + 1]
<1>1. /\ run[p].pc = "write" /\ Active(p) /\ run[p].read < Rows
      /\ run[p] \in RunStates /\ Len(run[p].sums) <= Layers /\ Orderly(run[p])
      /\ UNCHANGED <<holder, files, manifest, dirty, ck, losses>>
      /\ run' = [run EXCEPT ![p] = n]
  BY DEF WriteShort, MoreRows, At, Active, Final, IInv, TypeOK
<1>2. run[p].read + 1 \in 0 .. Rows  BY <1>1, PackAssumption DEF RunStates
<1>3. /\ n \in RunStates /\ n.pc = "write" /\ n.id = run[p].id /\ n.sums = run[p].sums
      /\ n.fd = run[p].fd /\ n.layer = run[p].layer /\ n.read = run[p].read + 1
  BY <1>1, <1>2 DEF RunStates
<1> HIDE DEF n
<1>4. Len(disk[run[p].fd][run[p].layer]) < n.read
  <2>1. run[p].fd \in Runs /\ run[p].layer \in 1 .. Layers /\ run[p].read \in Nat
    BY <1>1, PackAssumption DEF Orderly, PackingOf, RunStates
  <2>2. disk[run[p].fd][run[p].layer] \in Seq(Cells)
    BY <2>1 DEF IInv, TypeOK
  <2>3. Len(disk[run[p].fd][run[p].layer]) <= run[p].read
    BY <1>1 DEF Orderly, WritingOf
  <2>4. Len(disk[run[p].fd][run[p].layer]) \in Nat  BY <2>2
  <2> QED  BY <1>3, <2>1, <2>3, <2>4
<1>5. Orderly(n)
  <2>1. PackingOf(n) /\ VerifyingOf(n)
    BY <1>1, <1>3 DEF Orderly, PackingOf, VerifyingOf
  <2>2. WritingOf(n)
    <3>1. run[p].fd \in Runs /\ run[p].layer \in 1 .. Layers
      BY <1>1, PackAssumption DEF Orderly, PackingOf, RunStates
    <3>2. disk[run[p].fd][run[p].layer] \in Seq(Cells)  BY <3>1 DEF IInv, TypeOK
    <3>3. Len(disk[run[p].fd][run[p].layer]) \in Nat /\ n.read \in Nat
      BY <1>2, <1>3, <3>2
    <3> QED  BY <1>3, <1>4, <3>3 DEF WritingOf
  <2> QED  BY <2>1, <2>2 DEF Orderly
<1> QED  BY <1>1, <1>3, <1>5, LocalStep

\* The layer of the run has no file yet, so one is created under its own inode.
LEMMA OpenStep ==
  ASSUME IInv, NEW p \in Runs, Open(p)
  PROVE  IInv'
<1> DEFINE l == run[p].layer
           n == [run[p] EXCEPT !.pc = "write", !.fd = p, !.read = 0]
<1>1. /\ run[p].pc = "open" /\ Active(p) /\ run[p] \in RunStates /\ l \in 1 .. Layers
      /\ Orderly(run[p]) /\ Len(run[p].sums) = 0 /\ manifest = None /\ run[p].id = Identity[ck]
      /\ UNCHANGED <<holder, target, manifest, dirty, ck, losses>>
  BY DEF Open, At, Active, Final, IInv, TypeOK, OneRun, RunStates, Orderly, PackingOf,
         VerifyingOf
<1>2. /\ \A i \in 1 .. Layers : i >= l => target[i] = None
      /\ \A i \in 1 .. Layers : partial[i] = None
      /\ \A i \in 1 .. Layers : Complete(i) => Placed(Contents(i), ck)
  BY <1>1 DEF Orderly, PackingOf
<1>3. ~Complete(l) /\ partial[l] = None
  BY <1>1, <1>2, PackAssumption DEF Complete
<1>4. /\ partial' = [partial EXCEPT ![l] = p]
      /\ disk' = [disk EXCEPT ![p][l] = << >>]
      /\ run' = [run EXCEPT ![p] = n]
  BY <1>3 DEF Open, Layer, IInv, TypeOK
<1>5. /\ n \in RunStates /\ n.sums = run[p].sums /\ n.id = Identity[ck]
      /\ n.pc = "write" /\ n.fd = p /\ n.read = 0 /\ n.layer = l
  <2> HIDE DEF l
  <2>1. 0 \in 0 .. Rows  BY PackAssumption
  <2>2. n \in RunStates  BY <1>1, <2>1 DEF RunStates
  <2>3. n.layer = l /\ n.sums = run[p].sums /\ n.id = Identity[ck]
    BY <1>1 DEF RunStates, l
  <2>4. n.pc = "write" /\ n.fd = p /\ n.read = 0  BY <1>1 DEF RunStates
  <2> QED  BY <2>2, <2>3, <2>4
<1> HIDE DEF n, l
<1>6. \A q \in Runs, i \in 1 .. Layers :
        disk'[q][i] = IF q = p /\ i = l THEN << >> ELSE disk[q][i]
  BY <1>1, <1>4 DEF IInv, TypeOK
<1>7. /\ disk' \in [Runs -> [1 .. Layers -> Seq(Cells)]]
      /\ \A q \in Runs, i \in 1 .. Layers : Len(disk'[q][i]) <= Rows
  <2>1. << >> \in Seq(Cells) /\ Len(<< >>) <= Rows  BY PackAssumption
  <2>2. disk' \in [Runs -> [1 .. Layers -> Seq(Cells)]]
    BY <1>1, <1>4, <2>1 DEF IInv, TypeOK
  <2> QED  BY <1>6, <2>1, <2>2 DEF IInv, TypeOK
<1>8. \A i \in 1 .. Layers : target[i] # None => disk'[target[i]][i] = disk[target[i]][i]
  <2> SUFFICES ASSUME NEW i \in 1 .. Layers, target[i] # None
               PROVE  disk'[target[i]][i] = disk[target[i]][i]
    OBVIOUS
  <2>1. target[i] \in Runs /\ i # l
    BY <1>1, <1>2, PackAssumption DEF IInv, TypeOK
  <2> QED  BY <1>6, <2>1
<1>9. /\ AttachWhole' /\ Vouched'
      /\ \A i \in 1 .. Layers : /\ Complete(i)' <=> Complete(i)
                                /\ Complete(i) => Contents(i)' = Contents(i)
  BY <1>1, <1>8, Untouched
<1>10. Orderly(run[p])'
  <2>0. run'[p] = n  BY <1>4 DEF IInv, TypeOK
  <2>1. \A i \in 1 .. Layers : partial'[i] = IF i = l THEN p ELSE None
    BY <1>1, <1>2, <1>4 DEF IInv, TypeOK
  <2>2. PackingOf(run[p])'
    <3>1. \A i \in 1 .. Layers : Complete(i)' => Placed(Contents(i), ck)'
      BY <1>1, <1>2, <1>9 DEF Placed
    <3>2. p # None  BY PackAssumption
    <3> QED  BY <1>1, <1>2, <1>5, <2>1, <2>0, <3>1, <3>2 DEF PackingOf
  <2>3. WritingOf(run[p])'
    <3>1. disk'[p][l] = << >>  BY <1>1, <1>6
    <3> QED  BY <1>5, <2>0, <3>1 DEF WritingOf, Placed
  <2>4. VerifyingOf(run[p])'  BY <1>1, <1>5, <2>0 DEF VerifyingOf
  <2> QED  BY <2>2, <2>3, <2>4 DEF Orderly
<1>11. /\ run' \in [Runs -> RunStates] /\ \A q \in Runs : Len(run'[q].sums) <= Layers
       /\ OneRun' /\ (\A q \in Runs : Orderly(run[q]))'
  <2>1. Len(n.sums) <= Layers  BY <1>1, <1>5, PackAssumption
  <2> QED  BY <1>1, <1>4, <1>5, <1>10, <2>1, OwnStep
<1>12. partial' \in [1 .. Layers -> Runs \cup {None}]
  BY <1>1, <1>4 DEF IInv, TypeOK
<1>13. TypeOK'  BY <1>1, <1>7, <1>11, <1>12 DEF IInv, TypeOK, Manifested
<1> QED  BY <1>9, <1>11, <1>13 DEF IInv

\* The file written is not yet under its final name.
LEMMA WriteStep ==
  ASSUME IInv, NEW p \in Runs, Write(p)
  PROVE  IInv'
<1> DEFINE l == run[p].layer
           f == run[p].fd
           row == <<run[p].read + 1, ck>>
           n == [run[p] EXCEPT !.read = @ + 1]
<1>1. /\ run[p].pc = "write" /\ Active(p) /\ run[p] \in RunStates /\ l \in 1 .. Layers
      /\ run[p].read \in 0 .. Rows /\ run[p].read < Rows
      /\ Orderly(run[p]) /\ Len(run[p].sums) = 0 /\ manifest = None /\ run[p].id = Identity[ck]
      /\ UNCHANGED <<holder, partial, target, manifest, dirty, ck, losses>>
  BY DEF Write, MoreRows, At, Active, Final, IInv, TypeOK, OneRun, RunStates, Orderly,
         PackingOf, VerifyingOf
<1>2. /\ \A i \in 1 .. Layers : i >= l => target[i] = None
      /\ \A i \in 1 .. Layers : partial[i] = IF i = l THEN f ELSE None
      /\ \A i \in 1 .. Layers : Complete(i) => Placed(Contents(i), ck)
      /\ f # None
  BY <1>1 DEF Orderly, PackingOf
<1>3. f \in Runs /\ l \in 1 .. Layers  BY <1>1, <1>2 DEF RunStates
<1>4. /\ disk' = [disk EXCEPT ![f][l] = Append(@, row)]
      /\ run' = [run EXCEPT ![p] = n]
  BY <1>1 DEF Write, Layer, IInv, TypeOK
<1> HIDE DEF f, l
<1>5. run[p].read + 1 \in 1 .. Rows /\ run[p].read \in Nat  BY <1>1, PackAssumption
<1>6. row \in Cells  BY <1>5 DEF Cells, IInv, TypeOK
<1>7. /\ n \in RunStates /\ n.pc = "write" /\ n.fd = f /\ n.read = run[p].read + 1
      /\ n.layer = l /\ n.sums = run[p].sums /\ n.id = Identity[ck]
  BY <1>1, <1>5, PackAssumption DEF RunStates, f, l
<1>8. /\ disk[f][l] \in Seq(Cells) /\ Len(disk[f][l]) \in Nat
      /\ Len(disk[f][l]) <= run[p].read
      /\ Len(disk[f][l]) = run[p].read => Placed(disk[f][l], ck)
  <2>1. disk[f][l] \in Seq(Cells)  BY <1>3 DEF IInv, TypeOK
  <2> QED  BY <1>1, <2>1 DEF Orderly, WritingOf, f, l
<1> HIDE DEF row
<1> DEFINE longer == Append(disk[f][l], row)
<1>9. /\ longer \in Seq(Cells) /\ Len(longer) = Len(disk[f][l]) + 1
      /\ longer[Len(disk[f][l]) + 1] = row
      /\ \A r \in 1 .. Len(disk[f][l]) : longer[r] = disk[f][l][r]
  BY <1>6, <1>8, Longer
<1> HIDE DEF n, longer
<1>10. \A q \in Runs, i \in 1 .. Layers :
         disk'[q][i] = IF q = f /\ i = l THEN longer ELSE disk[q][i]
  BY <1>1, <1>3, <1>4 DEF longer, IInv, TypeOK
<1>11. Len(longer) <= n.read /\ (Len(longer) = n.read => Placed(longer, ck))
  <2>1. Len(longer) <= n.read  BY <1>5, <1>7, <1>8, <1>9
  <2>2. ASSUME Len(longer) = n.read, NEW r \in 1 .. Len(longer)
        PROVE  longer[r] = <<r, ck>>
    <3>1. Len(disk[f][l]) = run[p].read /\ Len(longer) = run[p].read + 1
      <4>1. n.read = run[p].read + 1  BY <1>7
      <4> QED  BY <1>5, <1>8, <1>9, <2>2, <4>1
    <3>2. CASE r = Len(longer)  BY <1>5, <1>8, <1>9, <3>1, <3>2 DEF row
    <3>3. CASE r # Len(longer)
      <4>1. r \in 1 .. Len(disk[f][l])  BY <1>8, <1>9, <2>2, <3>3
      <4>2. longer[r] = disk[f][l][r]  BY <1>9, <4>1
      <4> QED  BY <1>8, <3>1, <4>1, <4>2 DEF Placed
    <3> QED  BY <3>2, <3>3
  <2> QED  BY <2>1, <2>2 DEF Placed
<1>12. /\ disk' \in [Runs -> [1 .. Layers -> Seq(Cells)]]
       /\ \A q \in Runs, i \in 1 .. Layers : Len(disk'[q][i]) <= Rows
  <2>1. Len(longer) <= Rows
    <3>1. Len(longer) \in Nat  BY <1>9
    <3> QED  BY <1>5, <1>7, <1>11, <3>1, PackAssumption
  <2>2. disk' = [disk EXCEPT ![f] = [disk[f] EXCEPT ![l] = longer]]
    BY <1>1, <1>3, <1>4 DEF longer, IInv, TypeOK
  <2>3. [disk[f] EXCEPT ![l] = longer] \in [1 .. Layers -> Seq(Cells)]
    BY <1>1, <1>3, <1>9 DEF IInv, TypeOK
  <2>4. disk' \in [Runs -> [1 .. Layers -> Seq(Cells)]]
    BY <1>3, <2>2, <2>3 DEF IInv, TypeOK
  <2> QED  BY <1>10, <2>1, <2>4 DEF IInv, TypeOK
<1>13. \A i \in 1 .. Layers : target[i] # None => disk'[target[i]][i] = disk[target[i]][i]
  <2> SUFFICES ASSUME NEW i \in 1 .. Layers, target[i] # None
               PROVE  disk'[target[i]][i] = disk[target[i]][i]
    OBVIOUS
  <2>1. i # l  BY <1>2, <1>3, PackAssumption
  <2>2. target[i] \in Runs  BY DEF IInv, TypeOK
  <2> QED  BY <1>10, <2>1, <2>2
<1>14. /\ AttachWhole' /\ Vouched'
       /\ \A i \in 1 .. Layers : /\ Complete(i)' <=> Complete(i)
                                 /\ Complete(i) => Contents(i)' = Contents(i)
  BY <1>1, <1>13, Untouched
<1>15. Orderly(run[p])'
  <2>0. run'[p] = n  BY <1>4 DEF IInv, TypeOK
  <2>1. PackingOf(run[p])'
    <3>1. \A i \in 1 .. Layers : Complete(i)' => Placed(Contents(i), ck)'
      BY <1>1, <1>2, <1>14 DEF Placed
    <3> QED  BY <1>1, <1>2, <1>7, <2>0, <3>1 DEF PackingOf
  <2>2. WritingOf(run[p])'
    <3>1. disk'[f][l] = longer  BY <1>1, <1>3, <1>10
    <3> QED  BY <1>1, <1>7, <1>11, <2>0, <3>1 DEF WritingOf, Placed
  <2>3. VerifyingOf(run[p])'  BY <1>1, <1>7, <2>0 DEF VerifyingOf
  <2> QED  BY <2>1, <2>2, <2>3 DEF Orderly
<1>16. /\ run' \in [Runs -> RunStates] /\ \A q \in Runs : Len(run'[q].sums) <= Layers
       /\ OneRun' /\ (\A q \in Runs : Orderly(run[q]))'
  <2>1. Len(n.sums) <= Layers  BY <1>1, <1>7, PackAssumption
  <2> QED  BY <1>1, <1>4, <1>7, <1>15, <2>1, OwnStep
<1>17. TypeOK'  BY <1>1, <1>12, <1>16 DEF IInv, TypeOK, Manifested
<1> QED  BY <1>14, <1>16, <1>17 DEF IInv

\* A shard of all its rows, each in its place, is exact.
LEMMA PlacedIsExact ==
  ASSUME NEW rows, NEW c \in Checkpoints, Len(rows) = Rows, Placed(rows, c)
  PROVE  Exact(rows, c)
  BY PackAssumption DEF Placed, Exact, Agrees

\* The file that gets its final name has as many rows as were read, or it is
\* too short for the length check.
LEMMA RenameStep ==
  ASSUME IInv, NEW p \in Runs, Rename(p)
  PROVE  IInv'
<1> DEFINE l == run[p].layer
           f == run[p].fd
           n == [run[p] EXCEPT !.pc = IF l = Layers THEN "verify" ELSE "open",
                               !.layer = IF l = Layers THEN 1 ELSE @ + 1,
                               !.read = 0]
<1>1. /\ run[p].pc = "write" /\ Active(p) /\ run[p] \in RunStates /\ l \in 1 .. Layers
      /\ run[p].read \in 0 .. Rows /\ ~(run[p].read < Rows)
      /\ Orderly(run[p]) /\ Len(run[p].sums) = 0 /\ manifest = None /\ run[p].id = Identity[ck]
      /\ UNCHANGED <<holder, disk, manifest, dirty, ck, losses>>
  BY DEF Rename, MoreRows, At, Active, Final, IInv, TypeOK, OneRun, RunStates, Orderly,
         PackingOf, VerifyingOf
<1>2. /\ \A i \in 1 .. Layers : i >= l => target[i] = None
      /\ \A i \in 1 .. Layers : partial[i] = IF i = l THEN f ELSE None
      /\ \A i \in 1 .. Layers : Complete(i) => Placed(Contents(i), ck)
      /\ f # None
  BY <1>1 DEF Orderly, PackingOf
<1>3. f \in Runs  BY <1>1, <1>2 DEF RunStates
<1>4. /\ target' = [target EXCEPT ![l] = f]
      /\ partial' = [partial EXCEPT ![l] = None]
      /\ run' = [run EXCEPT ![p] = n]
  <2>1. partial[l] = f  BY <1>1, <1>2
  <2> QED  BY <1>2, <2>1 DEF Rename, NextLayer, Layer, IInv, TypeOK
<1>5. /\ l = Layers => /\ n \in RunStates /\ n.pc = "verify"
                       /\ n.sums = run[p].sums /\ n.id = Identity[ck]
      /\ l # Layers => /\ n \in RunStates /\ n.pc = "open" /\ n.layer = l + 1
                       /\ n.sums = run[p].sums /\ n.id = Identity[ck]
  <2> HIDE DEF l
  <2>0. run[p].layer = l  BY DEF l
  <2>1. 0 \in 0 .. Rows /\ 1 \in 1 .. Layers  BY PackAssumption
  <2>2. CASE l = Layers  BY <1>1, <2>0, <2>1, <2>2 DEF RunStates
  <2>3. CASE l # Layers
    <3>1. l + 1 \in 1 .. Layers  BY <1>1, <2>3, PackAssumption
    <3> QED  BY <1>1, <2>0, <2>1, <2>3, <3>1 DEF RunStates
  <2> QED  BY <2>2, <2>3
<1>6. Len(disk[f][l]) = Rows => Placed(disk[f][l], ck)
  BY <1>1, PackAssumption DEF Orderly, WritingOf
<1> HIDE DEF n, l, f
<1>7. \A i \in 1 .. Layers : target'[i] = IF i = l THEN f ELSE target[i]
  BY <1>1, <1>4 DEF IInv, TypeOK
<1>8. \A i \in 1 .. Layers : i # l => /\ Complete(i)' <=> Complete(i)
                                      /\ Contents(i)' = Contents(i)
  BY <1>1, <1>7 DEF Complete, Contents
<1>9. \A i \in 1 .. Layers : i = l => Contents(i)' = disk[f][l]
  BY <1>1, <1>7 DEF Contents
<1>10. ASSUME NEW i \in 1 .. Layers, Complete(i)'
       PROVE  Placed(Contents(i), ck)' /\ Exact(Contents(i), ck)'
  <2>1. Len(Contents(i)') = Rows  BY <1>10 DEF Complete
  <2>2. Placed(Contents(i)', ck)
    <3>1. CASE i = l  BY <1>6, <1>9, <2>1, <3>1
    <3>2. CASE i # l  BY <1>2, <1>8, <1>10, <3>2
    <3> QED  BY <3>1, <3>2
  <2>3. Exact(Contents(i)', ck)  BY <2>1, <2>2, PlacedIsExact DEF IInv, TypeOK
  <2> QED  BY <1>1, <2>2, <2>3 DEF Placed, Exact
<1>11. AttachWhole'
  <2> SUFFICES ASSUME NEW i \in 1 .. Layers, Complete(i)'
               PROVE  \E c \in Checkpoints :
                        \A r \in 1 .. Rows : Contents(i)'[r] \in {<<r, c>>, Rotten(r)}
    BY DEF AttachWhole, Rotten
  <2>1. Placed(Contents(i)', ck)  BY <1>1, <1>10 DEF Placed
  <2>2. Len(Contents(i)') = Rows /\ ck \in Checkpoints
    BY DEF Complete, IInv, TypeOK
  <2> QED  BY <2>1, <2>2 DEF Placed
<1>12. Vouched'  BY <1>1 DEF Vouched, Manifested
<1>13. Orderly(run[p])'
  <2>1. run'[p] = n  BY <1>4 DEF IInv, TypeOK
  <2>2. WritingOf(run[p])'  BY <1>5, <2>1 DEF WritingOf
  <2>3. VerifyingOf(run[p])'
    <3>1. ExactOf(ck)' /\ ck' \in Checkpoints
      BY <1>1, <1>10 DEF ExactOf, Exact, IInv, TypeOK
    <3>2. n.pc \in {"verify", "open"} /\ Len(n.sums) = 0  BY <1>1, <1>5
    <3>3. \A i \in 1 .. Layers : ~(i <= Len(n.sums))  BY <3>2
    <3> QED  BY <2>1, <3>1, <3>2, <3>3 DEF VerifyingOf
  <2>4. PackingOf(run[p])'
    <3>1. CASE l = Layers  BY <1>5, <2>1, <3>1 DEF PackingOf
    <3>2. CASE l # Layers
      <4>1. n.pc = "open" /\ n.layer = l + 1  BY <1>5, <3>2
      <4>2. \A i \in 1 .. Layers : i >= l + 1 => target'[i] = None
        BY <1>1, <1>2, <1>7, PackAssumption
      <4>3. \A i \in 1 .. Layers : partial'[i] = None
        BY <1>2, <1>4 DEF IInv, TypeOK
      <4> QED  BY <1>1, <1>10, <2>1, <4>1, <4>2, <4>3 DEF PackingOf
    <3> QED  BY <3>1, <3>2
  <2> QED  BY <2>2, <2>3, <2>4 DEF Orderly
<1>14. /\ run' \in [Runs -> RunStates] /\ \A q \in Runs : Len(run'[q].sums) <= Layers
       /\ OneRun' /\ (\A q \in Runs : Orderly(run[q]))'
  <2>1. Len(n.sums) <= Layers  BY <1>1, <1>5, PackAssumption
  <2>2. n \in RunStates /\ n.id = run[p].id  BY <1>1, <1>5
  <2> QED  BY <1>1, <1>4, <1>13, <2>1, <2>2, OwnStep
<1>15. /\ target' \in [1 .. Layers -> Runs \cup {None}]
       /\ partial' \in [1 .. Layers -> Runs \cup {None}]
  BY <1>1, <1>3, <1>4 DEF IInv, TypeOK
<1>16. TypeOK'  BY <1>1, <1>14, <1>15 DEF IInv, TypeOK, Manifested
<1> QED  BY <1>11, <1>12, <1>14, <1>16 DEF IInv

\* What is on disk where a run passes.
PassedOf(c) ==
  /\ Identity[c] = Identity[ck] /\ (manifest = None => c = ck)
  /\ \A l \in 1 .. Layers : Exact(Contents(l), c) /\ SampleExact(l, ck)

\* The digests of the manifest are those of the shards on disk.
LEMMA ReplaceStep ==
  ASSUME IInv, NEW p \in Runs, Replace(p)
  PROVE  IInv' /\ \E c \in Checkpoints : PassedOf(c)
<1> DEFINE n == [run[p] EXCEPT !.pc = "pass"]
<1>1. /\ run[p].pc = "verify" /\ Active(p) /\ run[p] \in RunStates
      /\ run[p].sums \in Seq(Seq(Cells)) /\ Len(run[p].sums) = Layers
      /\ Orderly(run[p]) /\ run[p].id = Identity[ck] /\ ck \in Checkpoints
      /\ manifest' = [id |-> run[p].id, sums |-> run[p].sums] /\ dirty' = TRUE
      /\ run' = [run EXCEPT ![p] = n]
      /\ UNCHANGED <<holder, files, ck, losses>>
  BY DEF Replace, Goto, At, Active, Final, IInv, TypeOK, OneRun, RunStates
<1>2. n \in RunStates /\ n.pc = "pass" /\ n.id = run[p].id /\ n.sums = run[p].sums
  BY <1>1 DEF RunStates, Final
<1> HIDE DEF n
<1>3. PICK c \in Checkpoints : ExactOf(c)  BY <1>1 DEF Orderly, VerifyingOf
<1>4. \A l \in 1 .. Layers : /\ Complete(l) /\ Exact(Contents(l), c)
                             /\ SampleExact(l, ck) /\ run[p].sums[l] = Contents(l)
  <2>1. \A l \in 1 .. Layers : l <= Len(run[p].sums)  BY <1>1, PackAssumption
  <2>2. \A l \in 1 .. Layers : SampleExact(l, ck) /\ run[p].sums[l] = Contents(l)
    BY <1>1, <2>1 DEF Orderly, VerifyingOf
  <2>3. \A l \in 1 .. Layers : Complete(l)  BY <2>2 DEF SampleExact
  <2> QED  BY <1>3, <2>2, <2>3 DEF ExactOf
<1>5. \A l \in 1 .. Layers : Complete(l)' /\ Contents(l)' = Contents(l)
  BY <1>1, <1>4 DEF Complete, Contents, files
<1>6. /\ manifest'.id = Identity[ck] /\ manifest'.sums = run[p].sums
      /\ manifest' \in Manifests
  BY <1>1 DEF Manifests, Identities
<1>11. Vouched'
  <2>1. Identity[c] = manifest'.id  BY <1>3, <1>6 DEF ExactOf
  <2>2. ASSUME NEW l \in 1 .. Layers
        PROVE  /\ Exact(manifest'.sums[l], c) /\ Complete(l)'
               /\ \A r \in 1 .. Rows :
                    Contents(l)'[r] \in {manifest'.sums[l][r], Rotten(r)}
    BY <1>4, <1>5, <1>6
  <2>3. VouchedOf(c)'  BY <2>1, <2>2 DEF VouchedOf, Exact, Agrees, Rotten
  <2> QED  BY <2>3 DEF Vouched
<1>12. PassedOf(c)  BY <1>3, <1>4 DEF PassedOf, ExactOf
<1>7. AttachWhole'
  <2>1. \A l \in 1 .. Layers : Complete(l)' <=> Complete(l)  BY <1>4, <1>5
  <2> QED  BY <1>5, <2>1 DEF IInv, AttachWhole
<1>8. Orderly(run[p])'
  <2>1. run'[p] = n  BY <1>1 DEF IInv, TypeOK
  <2> QED  BY <1>2, <2>1 DEF Orderly, PackingOf, WritingOf, VerifyingOf
<1>9. /\ run' \in [Runs -> RunStates] /\ \A q \in Runs : Len(run'[q].sums) <= Layers
      /\ OneRun' /\ (\A q \in Runs : Orderly(run[q]))'
  <2>1. Len(n.sums) <= Layers  BY <1>1, <1>2, PackAssumption
  <2> QED  BY <1>1, <1>2, <1>8, <2>1, OwnStep
<1>10. TypeOK'
  <2>1. manifest' \in {None, Torn} \cup Manifests /\ Len(manifest'.sums) = Layers
    BY <1>1, <1>6
  <2> QED  BY <1>1, <1>9, <2>1 DEF IInv, TypeOK, Manifested, files
<1> QED  BY <1>7, <1>9, <1>10, <1>11, <1>12 DEF IInv

-----------------------------------------------------------------------------
(* The machine and the operator.                                           *)

\* When no run is at work there is nothing to say about one.
LEMMA Quiet ==
  ASSUME IInv, \A q \in Runs : /\ run'[q].pc \in Final /\ run'[q].sums = run[q].sums
                               /\ run'[q].pc = "off" => run[q].pc = "off"
  PROVE  OneRun' /\ (\A q \in Runs : Orderly(run[q]))'
<1>1. OneRun'  BY DEF OneRun, Active
<1>2. ASSUME NEW q \in Runs  PROVE Orderly(run[q])'
  <2>1. run[q].pc = "off" => Len(run[q].sums) = 0  BY DEF IInv, Orderly, VerifyingOf
  <2> QED  BY <2>1 DEF Orderly, PackingOf, WritingOf, VerifyingOf, Final
<1> QED  BY <1>1, <1>2

LEMMA PowerLossStep == IInv /\ PowerLoss => IInv'
<1> SUFFICES ASSUME IInv, PowerLoss  PROVE IInv'  OBVIOUS
<1>1. ASSUME NEW q \in Runs
      PROVE  /\ run'[q] \in RunStates /\ run'[q].pc \in Final
             /\ run'[q].sums = run[q].sums
             /\ run'[q].pc = "off" => run[q].pc = "off"
  <2>1. run[q] \in RunStates  BY DEF IInv, TypeOK
  <2>2. CASE run[q].pc \in Final
    <3>1. run'[q] = run[q]  BY <2>2 DEF PowerLoss
    <3> QED  BY <2>1, <2>2, <3>1
  <2>3. CASE run[q].pc \notin Final
    <3>1. run'[q] = [run[q] EXCEPT !.pc = "killed"]  BY <2>3 DEF PowerLoss
    <3> QED  BY <2>1, <3>1 DEF RunStates, Final
  <2> QED  BY <2>2, <2>3
<1>2. run' \in [Runs -> RunStates] /\ \A q \in Runs : Len(run'[q].sums) <= Layers
  <2>1. run' = [q \in Runs |-> run'[q]]  BY DEF PowerLoss
  <2> QED  BY <1>1, <2>1 DEF IInv, TypeOK
<1>3. OneRun' /\ (\A q \in Runs : Orderly(run[q]))'  BY <1>1, Quiet
<1>4. UNCHANGED <<holder, files, ck>> /\ dirty' = FALSE /\ losses' \in 0 .. MaxLosses
      /\ manifest' \in {manifest, Torn}
  BY PackAssumption DEF PowerLoss, IInv, TypeOK
<1>5. manifest' = manifest \/ ~Manifested'  BY <1>4 DEF Manifested
<1>6. TypeOK'  BY <1>2, <1>4, <1>5 DEF IInv, TypeOK, files, Manifested
<1>7. AttachWhole'
  BY <1>4 DEF IInv, AttachWhole, Complete, Contents, files
<1>8. Vouched'
  BY <1>4, <1>5 DEF IInv, Vouched, VouchedOf, Complete, Contents, files, Manifested
<1> QED  BY <1>3, <1>6, <1>7, <1>8 DEF IInv

LEMMA SyncStep == IInv /\ (Sync \/ UNCHANGED vars) => IInv'
<1> SUFFICES ASSUME IInv, Sync \/ UNCHANGED vars  PROVE IInv'  OBVIOUS
<1>1. UNCHANGED <<run, holder, files, manifest, ck, losses>> /\ dirty' \in BOOLEAN
  BY DEF Sync, vars, IInv, TypeOK
<1>2. TypeOK'  BY <1>1 DEF IInv, TypeOK, files, Manifested
<1>3. OneRun'  BY <1>1 DEF IInv, OneRun, Active
<1>4. (\A q \in Runs : Orderly(run[q]))'
  BY <1>1 DEF IInv, Orderly, PackingOf, WritingOf, VerifyingOf, ExactOf, SampleExact,
     Complete, Contents, Manifested, files
<1>5. AttachWhole' /\ Vouched'  BY <1>1, Untouched DEF files
<1> QED  BY <1>2, <1>3, <1>4, <1>5 DEF IInv

\* The run whose container has the name has ended, so none is at work.
LEMMA RemoveStep == IInv /\ Remove => IInv'
<1> SUFFICES ASSUME IInv, Remove  PROVE IInv'  OBVIOUS
<1>1. UNCHANGED <<run, files, manifest, dirty, ck, losses>> /\ holder' = None
      /\ run[holder].pc \in Final
  BY DEF Remove
<1>2. TypeOK'  BY <1>1 DEF IInv, TypeOK, files, Manifested
<1>3. \A q \in Runs : run[q].pc \in Final  BY <1>1 DEF IInv, OneRun, Active
<1>4. OneRun' /\ (\A q \in Runs : Orderly(run[q]))'  BY <1>1, <1>3, Quiet
<1>5. AttachWhole' /\ Vouched'  BY <1>1, Untouched DEF files
<1> QED  BY <1>2, <1>4, <1>5 DEF IInv

LEMMA NewCheckpointStep == IInv /\ NewCheckpoint => IInv'
<1> SUFFICES ASSUME IInv, NewCheckpoint  PROVE IInv'  OBVIOUS
<1>1. /\ UNCHANGED <<run, holder, files, manifest, dirty, losses>>
      /\ ck' \in Checkpoints /\ \A q \in Runs : run[q].pc \in Final
  BY DEF NewCheckpoint, Idle
<1>2. TypeOK'  BY <1>1 DEF IInv, TypeOK, files, Manifested
<1>3. OneRun' /\ (\A q \in Runs : Orderly(run[q]))'  BY <1>1, Quiet
<1>4. AttachWhole' /\ Vouched'  BY <1>1, Untouched DEF files
<1> QED  BY <1>2, <1>3, <1>4 DEF IInv

\* Rot takes the place of one row of one shard.
LEMMA RotStep ==
  ASSUME IInv, NEW l \in 1 .. Layers, NEW r \in 1 .. Rows, Rot(l, r)
  PROVE  IInv'
<1> DEFINE f == target[l]
           rotten == [disk[f][l] EXCEPT ![r] = Rotten(r)]
<1>1. /\ UNCHANGED <<run, holder, partial, target, manifest, dirty, ck>>
      /\ \A q \in Runs : run[q].pc \in Final
      /\ f \in Runs /\ r <= Len(disk[f][l]) /\ losses' \in 0 .. MaxLosses
  BY PackAssumption DEF Rot, Idle, Contents, IInv, TypeOK
<1>2. disk' = [disk EXCEPT ![f][l] = rotten]  BY DEF Rot, IInv, TypeOK
<1>3. /\ disk[f] \in [1 .. Layers -> Seq(Cells)] /\ disk[f][l] \in Seq(Cells)
      /\ Len(disk[f][l]) \in Nat /\ Len(disk[f][l]) <= Rows /\ r \in 1 .. Len(disk[f][l])
  <2>1. disk[f] \in [1 .. Layers -> Seq(Cells)]  BY <1>1 DEF IInv, TypeOK
  <2>2. disk[f][l] \in Seq(Cells) /\ Len(disk[f][l]) <= Rows
    BY <1>1, <2>1 DEF IInv, TypeOK
  <2> HIDE DEF f
  <2>3. Len(disk[f][l]) \in Nat  BY <2>2
  <2> QED  BY <1>1, <2>1, <2>2, <2>3
<1>4. Rotten(r) \in Cells  BY DEF Rotten, Cells
<1>5. /\ rotten \in Seq(Cells) /\ Len(rotten) = Len(disk[f][l])
      /\ \A i \in 1 .. Len(disk[f][l]) :
           rotten[i] = IF i = r THEN Rotten(r) ELSE disk[f][l][i]
  BY <1>3, <1>4, ExceptSeq
<1> HIDE DEF rotten, f
<1>6. /\ disk' \in [Runs -> [1 .. Layers -> Seq(Cells)]]
      /\ \A q \in Runs, i \in 1 .. Layers :
           disk'[q][i] = IF q = f /\ i = l THEN rotten ELSE disk[q][i]
  <2>1. disk' = [disk EXCEPT ![f] = [disk[f] EXCEPT ![l] = rotten]]
    BY <1>1, <1>2 DEF IInv, TypeOK
  <2>2. [disk[f] EXCEPT ![l] = rotten] \in [1 .. Layers -> Seq(Cells)]
    BY <1>3, <1>5
  <2> QED  BY <1>1, <2>1, <2>2 DEF IInv, TypeOK
<1>7. TypeOK'
  <2>1. \A q \in Runs, i \in 1 .. Layers : Len(disk'[q][i]) <= Rows
    BY <1>3, <1>5, <1>6 DEF IInv, TypeOK
  <2> QED  BY <1>1, <1>6, <2>1 DEF IInv, TypeOK, Manifested
<1>8. OneRun' /\ (\A q \in Runs : Orderly(run[q]))'  BY <1>1, Quiet
<1>9. ASSUME NEW i \in 1 .. Layers, target[i] # None
      PROVE  /\ Len(Contents(i)') = Len(Contents(i))
             /\ \A j \in 1 .. Len(Contents(i)) : Contents(i)'[j] \in {Contents(i)[j], Rotten(j)}
  <2>1. target[i] \in Runs  BY <1>9 DEF IInv, TypeOK
  <2>2. Contents(i)' = IF target[i] = f /\ i = l THEN rotten ELSE disk[target[i]][i]
    BY <1>1, <1>6, <2>1 DEF Contents
  <2> QED  BY <1>5, <2>2 DEF Contents
<1>10. \A i \in 1 .. Layers : Complete(i)' <=> Complete(i)
  BY <1>1, <1>9 DEF Complete
<1>11. \A i \in 1 .. Layers : Complete(i) =>
         \A j \in 1 .. Rows : Contents(i)'[j] \in {Contents(i)[j], Rotten(j)}
  BY <1>9 DEF Complete
<1>12. AttachWhole'
  <2> SUFFICES ASSUME NEW i \in 1 .. Layers, Complete(i)
               PROVE  \E c \in Checkpoints :
                        \A j \in 1 .. Rows : Contents(i)'[j] \in {<<j, c>>, Rotten(j)}
    BY <1>10 DEF AttachWhole, Rotten
  <2>1. PICK c \in Checkpoints :
               \A j \in 1 .. Rows : Contents(i)[j] \in {<<j, c>>, Rotten(j)}
    BY DEF IInv, AttachWhole
  <2> QED  BY <1>11, <2>1
<1>13. Vouched'
  <2>1. Manifested' <=> Manifested  BY <1>1 DEF Manifested
  <2> SUFFICES ASSUME NEW c \in Checkpoints, Manifested, VouchedOf(c)
               PROVE  VouchedOf(c)'
    BY <2>1 DEF IInv, Vouched
  <2>2. ASSUME NEW i \in 1 .. Layers
        PROVE  /\ Exact(manifest.sums[i], c) /\ Complete(i)'
               /\ \A j \in 1 .. Rows :
                    Contents(i)'[j] \in {manifest.sums[i][j], Rotten(j)}
    <3>1. /\ Exact(manifest.sums[i], c) /\ Complete(i)
          /\ \A j \in 1 .. Rows : Contents(i)[j] \in {manifest.sums[i][j], Rotten(j)}
      BY DEF VouchedOf
    <3> QED  BY <1>10, <1>11, <3>1
  <2> QED  BY <1>1, <2>2 DEF VouchedOf, Exact, Agrees, Rotten
<1> QED  BY <1>7, <1>8, <1>12, <1>13 DEF IInv

-----------------------------------------------------------------------------
LEMMA NextInv == IInv /\ [Next]_vars => IInv'
<1> SUFFICES ASSUME IInv, [Next]_vars  PROVE IInv'  OBVIOUS
<1>1. ASSUME NEW p \in Runs, PackStep(p)  PROVE IInv'
  <2>1. ASSUME WriteFails(p)  PROVE IInv'
    <3>1. Active(p)  BY <2>1 DEF WriteFails, At, Active, Final
    <3> QED  BY <2>1, <3>1, EndStep DEF WriteFails
  <2> QED
    BY <1>1, <2>1, BeginStep, OldStep, FreshStep, OpenStep, WriteStep, WriteShortStep,
       RenameStep, VerifyStep, ReplaceStep DEF PackStep
<1>2. ASSUME NEW p \in Runs, Kill(p)  PROVE IInv'
  <2>1. Active(p)  BY <1>2 DEF Kill, Active
  <2> QED  BY <1>2, <2>1, EndStep DEF Kill
<1>3. CASE PowerLoss  BY <1>3, PowerLossStep
<1>4. CASE Sync \/ UNCHANGED vars  BY <1>4, SyncStep
<1>5. CASE Remove  BY <1>5, RemoveStep
<1>6. CASE NewCheckpoint  BY <1>6, NewCheckpointStep
<1>7. ASSUME NEW l \in 1 .. Layers, NEW r \in 1 .. Rows, Rot(l, r)  PROVE IInv'
  BY <1>7, RotStep
<1> QED  BY <1>1, <1>2, <1>3, <1>4, <1>5, <1>6, <1>7 DEF Next

\* The inductive invariant holds in every state.
THEOREM Invariance == Spec => []IInv
<1>1. Init => IInv  BY InitInv
<1>2. IInv /\ [Next]_vars => IInv'  BY NextInv
<1> QED  BY <1>1, <1>2, PTL DEF Spec

\* Whatever was killed, fell short or lost power: a packed file that the length
\* check of row_store_attach_packed lets through has every row in its place, all
\* of one checkpoint, but for rot.
THEOREM AttachWholeHolds == Spec => []AttachWhole
<1>1. IInv => AttachWhole  BY DEF IInv
<1> QED  BY <1>1, Invariance, PTL

\* The shards of a manifest are exact, in every row, of one checkpoint of the
\* identity it names, and what it vouches for stays on disk.
THEOREM ManifestExactHolds == Spec => []ManifestExact
<1>1. IInv => ManifestExact  BY DEF IInv, Vouched, VouchedOf, ManifestExact
<1> QED  BY <1>1, Invariance, PTL

\* The step with which a run passes.
PassStep == \A p \in Runs : At(p, "verify") /\ run'[p].pc = "pass" =>
  \E c \in Checkpoints : PassedOf(c)

\* Only Replace leads from "verify" to "pass".
LEMMA PassesByReplace ==
  ASSUME IInv, [Next]_vars, NEW p \in Runs, At(p, "verify"), run'[p].pc = "pass"
  PROVE  Replace(p)
<1>1. Active(p) /\ run[p].pc = "verify" /\ run[p] \in RunStates
  BY DEF At, Active, Final, IInv, TypeOK
<1>2. \A q \in Runs : Active(q) => q = p  BY <1>1, OthersEnded DEF Active
<1>3. holder # None  BY <1>1, PackAssumption DEF IInv, OneRun
<1>4. ASSUME NEW q \in Runs, PackStep(q)  PROVE Replace(p)
  <2>1. ~Begin(q)  BY <1>3 DEF Begin, NameFree
  <2>2. Active(q)
    BY <1>4, <2>1 DEF PackStep, Old, Fresh, Open, Write, WriteShort, WriteFails, Rename,
       Verify, Replace, At, Active, Final
  <2>3. q = p  BY <1>2, <2>2
  <2>4. Verify(p) \/ Replace(p)
    BY <1>1, <1>4, <2>1, <2>3 DEF PackStep, Old, Fresh, Open, Write, WriteShort,
       WriteFails, Rename, At
  <2>5. ASSUME Verify(p)  PROVE FALSE
    <3>1. CASE run' = [run EXCEPT ![p].sums = Append(@, Contents(Len(run[p].sums) + 1))]
      <4>1. run'[p].pc = run[p].pc  BY <1>1, <3>1 DEF IInv, TypeOK, RunStates
      <4> QED  BY <1>1, <4>1
    <3>2. CASE Goto(p, "failed")
      <4>1. run'[p].pc = "failed"  BY <1>1, <3>2 DEF Goto, IInv, TypeOK, RunStates
      <4> QED  BY <4>1
    <3> QED  BY <2>5, <3>1, <3>2 DEF Verify
  <2> QED  BY <2>4, <2>5
<1>5. ASSUME NEW q \in Runs, Kill(q)  PROVE FALSE
  <2>1. q = p  BY <1>2, <1>5 DEF Kill, Active
  <2>2. run'[p].pc = "killed"
    BY <1>1, <1>5, <2>1 DEF Kill, Goto, IInv, TypeOK, RunStates
  <2> QED  BY <2>2
<1>6. ASSUME PowerLoss  PROVE FALSE
  <2>1. run'[p] = [run[p] EXCEPT !.pc = "killed"]
    BY <1>1, <1>6 DEF PowerLoss, Active
  <2>2. run'[p].pc = "killed"  BY <1>1, <2>1 DEF RunStates
  <2> QED  BY <2>2
<1>7. run' # run  BY <1>1
<1> QED
  BY <1>4, <1>5, <1>6, <1>7 DEF Next, Sync, Remove, NewCheckpoint, Rot, vars

\* A run that packed passes over shards exact of the checkpoint in place, one that
\* met a manifest over shards exact of one checkpoint of the same identity.
THEOREM PassExactHolds == Spec => PassExact
<1>1. IInv /\ [Next]_vars => [PassStep]_vars
  BY PassesByReplace, ReplaceStep DEF PassStep
<1>2. Spec => [][PassStep]_vars
  BY <1>1, Invariance, PTL DEF Spec
<1> QED  BY <1>2 DEF PassExact, PassStep, PassedOf
=============================================================================
