--------------------------- MODULE GraphMetadata ---------------------------
(***************************************************************************)
(* The metadata of DeepseekV4AttnBackend: who writes the tensors that the  *)
(* attention, store, compressor and indexer kernels of a forward read,     *)
(* eagerly, while a CUDA graph is captured, and when it is replayed.       *)
(*                                                                         *)
(* A tensor is an address.  What matters of its content is where it came   *)
(* from: a set of tags, <<"in", n>> for the inputs of forward n and        *)
(* <<"tab", n>> for req_to_token and full_to_swa as they were for forward  *)
(* n, and the token that each of its rows is about.  A captured graph is   *)
(* the sequence of kernels recorded, each with the addresses it was        *)
(* launched with; replaying it runs them again on those addresses.  All    *)
(* kernels of a forward run on one stream, in the order of the host; only  *)
(* the scheduler, which prepares the tables for the next forward, runs     *)
(* beside them, from the point where the forward says it has read them.    *)
(*                                                                         *)
(* Tensors that are always treated alike share a field:                    *)
(*   loc     raw_out_loc and c1/c2/c4/c128_out_loc                         *)
(*   len     seq_lens_casual, positions_casual, c*_topk_lengths            *)
(*   pages   page_table           swa     swa_page_indices and _lengths,   *)
(*   toplen  c*_sparse_topk_lengths       c128_page_indices                *)
(*   topk    c*_sparse_page_indices and _raw_indices                       *)
(*   swaloc  swa_out_cache_loc    sched   c*_flashmla_metadata             *)
(*   idx     (c1_, c2_)indexer_metadata   comp  c4/c128_compress_metadata  *)
(*   req     low_ratio_req_indices and low_ratio_pos_i64                   *)
(***************************************************************************)
EXTENDS TailLayout

CONSTANTS Configs,    \* the deployments explored
          Forwards,   \* bound on the captures and forwards of a behaviour
          Window      \* SWA_WINDOW, in tokens of the small instance

Kinds == {"decode", "idle", "verify", "verify_idle", "block", "dextend", "prefill", "pgraph"}
ASSUME MetadataAssumption == \A c \in Configs : c.kinds \subseteq Kinds

VARIABLES cfg,     \* the deployment: chosen once
          host,    \* the forward in progress and the steps it has left
          be,      \* the backend's attributes
          objs,    \* metadata objects, in the order of their construction
          graphs,  \* captured graphs: kernels with their addresses
          dev      \* device memory, the shared tables, what was read last

graphVars == <<cfg, host, be, objs, graphs, dev>>

Fields == {"loc", "len", "pages", "swa", "toplen", "topk", "swaloc", "sched", "idx", "comp", "req"}
RawFields == {"reqs", "lens", "loc", "ext", "plan"}
None == <<>>

(* A rank without requests of its own replays the graph of the others.     *)
IdleKinds == {"idle", "verify_idle"}
VerifyKinds == {"verify", "verify_idle"}
Runs(kind) == IF kind = "idle" THEN "decode" ELSE IF kind = "verify_idle" THEN "verify" ELSE kind

(* A new tensor of this step; the runner's static inputs; backend buffers. *)
New(obj, f) == <<host.step, obj, f>>
Static == <<0, "runner", "inputs">>
ExtBuffer == <<0, "backend", "extend_seq_lens">>
SwaBuffer == <<0, "backend", "cuda_graph_swa_out_cache_loc">>
Permanent == {Static, ExtBuffer, SwaBuffer}

Put(f, k, v) == [x \in DOMAIN f \cup {k} |-> IF x = k THEN v ELSE f[x]]
At(mem, a) == IF a \in DOMAIN mem THEN mem[a] ELSE [tags |-> {<<"unwritten", 0>>}, rows |-> <<>>]
Obj(id) == objs[id]
Full(id) == id # 0 /\ Obj(id).kind = "full"
M == Obj(be.fm)
V41 == cfg.model = "V41"
Blackwell == cfg.arch # "sm90"

-----------------------------------------------------------------------------
(* Kernels                                                                 *)

All == Tokens(cfg.lens)
Launch(to, from, tab, rows) ==
    [to |-> to, from |-> from \ {None}, tab |-> tab, rows |-> rows,
     tags |-> {}, copy |-> FALSE, rowwise |-> {}, q |-> <<>>, pairs |-> {}, step |-> <<>>]
Fill(to, tag) == <<[Launch(to, {}, FALSE, All) EXCEPT !.tags = {tag}]>>
Copy(to, from) == IF to = from \/ from = None THEN <<>>
                  ELSE <<[Launch(to, {from}, FALSE, <<>>) EXCEPT !.copy = TRUE]>>
Reads(from, tab, rowwise, q) == [Launch(None, from, tab, <<>>) EXCEPT !.rowwise = rowwise, !.q = q]
Mark == [Launch(None, {}, FALSE, <<>>) EXCEPT !.step = <<"mark", 0>>]
Break(step) == [Launch(None, {}, FALSE, <<>>) EXCEPT !.step = step]

Nothing == [tags |-> {}, pairs |-> {}]
Apply(acc, op) ==
    LET tags == UNION {At(acc.mem, a).tags : a \in op.from} \cup op.tags
                    \cup (IF op.tab THEN {<<"tab", dev.tables>>} ELSE {})
    IN [mem  |-> IF op.to = None THEN acc.mem
                 ELSE Put(acc.mem, op.to,
                          [tags |-> tags,
                           rows |-> IF op.copy THEN At(acc.mem, CHOOSE a \in op.from : TRUE).rows
                                    ELSE op.rows]),
        read |-> [tags  |-> acc.read.tags \cup (IF op.to = None THEN tags ELSE {}),
                  pairs |-> acc.read.pairs \cup op.pairs
                             \cup {<<At(acc.mem, a).rows, op.q>> : a \in op.rowwise \ {None}}]]
Exec(ops) ==
    LET ran[i \in 0 .. Len(ops)] ==
            IF i = 0 THEN [mem |-> dev.mem, read |-> Nothing] ELSE Apply(ran[i - 1], ops[i])
    IN ran[Len(ops)]

RunNow(ops) == dev' = [dev EXCEPT !.mem = Exec(ops).mem, !.read = Exec(ops).read]
(* under capture a kernel is recorded and does not run                     *)
Issue(ops) ==
    IF host.record
    THEN /\ graphs' = [graphs EXCEPT ![host.graph].ops = @ \o ops]
         /\ dev' = [dev EXCEPT !.read = Nothing]
    ELSE RunNow(ops) /\ UNCHANGED graphs

-----------------------------------------------------------------------------
(* Rows                                                                    *)

TailTokens == TokenIndices(cfg.lens, Window)
LateTail(id) == id # 0 /\ Full(id) /\ Obj(id).tail.on

RealRows(tail, rows) ==
    IF tail.start # Pad THEN SubSeq(rows, tail.start + 1, Len(rows)) ELSE Select(rows, tail.index)
TailRows(tail, rows) == RealRows(tail, rows) \o [i \in 1 .. tail.pad |-> Pad]

HiddenRows == ExtendRows(cfg.lens, cfg.cp, cfg.rank)
(* the rows of the query, and the tokens whose keys all ranks bring together *)
QueryRows == IF LateTail(be.fm) THEN TailRows(M.tail, HiddenRows) ELSE HiddenRows
KeyRows ==
    IF LateTail(be.fm) /\ cfg.cp > 1
    THEN Select(FlattenSeq([r \in 1 .. cfg.cp |->
                    Padded(Owned(TailTokens, cfg.cp, r - 1), MaxLocal(TailTokens, cfg.cp))]),
                GatherIndex(TailTokens, cfg.cp))
    ELSE IF LateTail(be.fm) THEN QueryRows ELSE All
NoTail == [on |-> FALSE, start |-> Pad, index |-> <<>>, pad |-> 0]

-----------------------------------------------------------------------------
(* Construction of metadata                                                *)

Object(f) == [kind |-> "full", f |-> f, sparse |-> None, snapped |-> FALSE, tail |-> NoTail]
Raw(f) == [kind |-> "raw", f |-> f, sparse |-> None, snapped |-> FALSE, tail |-> NoTail]

(* make_core_attn_metadata and the indexer and compressor metadata on it:  *)
(* fields is what the caller builds, global and local the tokens of their  *)
(* rows, src what they are computed from.                                  *)
Built(name, fields) == [f \in Fields |-> IF f \in fields THEN New(name, f) ELSE None]
Build(f, src, global, local) ==
    LET op(to, from, tab, rows) == IF f[to] = None THEN <<>> ELSE <<Launch(f[to], from, tab, rows)>>
    IN op("loc", src, FALSE, global)
       \o op("len", src, FALSE, local)
       \o op("pages", src, TRUE, local)
       \o op("swa", src, TRUE, local)
       \o op("toplen", {f["len"]}, FALSE, local)
       \o (IF f["topk"] = None THEN <<>> ELSE Fill(f["topk"], <<"unfilled", 0>>))
       \o op("idx", {f["len"], f["pages"]}, FALSE, local)
       \o op("comp", src, TRUE, global)
       \o op("req", src, FALSE, global)

Core == {"loc", "len", "pages", "swa"}
Attended == Core \cup {"toplen", "topk"}
Compressed == Attended \cup {"idx"} \cup (IF V41 THEN {} ELSE {"comp"})

PrefillFields(use_prefill_cuda_graph) ==
    IF ~V41 THEN Compressed
    ELSE IF use_prefill_cuda_graph THEN Attended \cup {"idx", "req"} ELSE Attended

(* make_forward_metadata_from_raw_verify and _decode                       *)
FromRaw(raw) ==
    LET own == Built("full", IF raw.f["plan"] = None THEN Compressed ELSE Compressed \ {"comp"})
        src == {raw.f["reqs"], raw.f["lens"], raw.f["loc"], raw.f["ext"]} \ {None}
    IN [f   |-> IF raw.f["plan"] = None THEN own ELSE [own EXCEPT !["comp"] = raw.f["plan"]],
        ops |-> Build(own, src, All, All)]

-----------------------------------------------------------------------------
(* The host's steps: each action takes the first of host.todo.             *)

Head1(s) == host.todo # <<>> /\ Head(host.todo) = <<s, 0>>
Next1 == [host EXCEPT !.todo = Tail(@), !.step = @ + 1]
Quiet == dev' = [dev EXCEPT !.read = Nothing]

(* init_forward_metadata_target_verify, _decode: tensors by reference,     *)
(* out_cache_loc padded to the graph's size.  IDLE replaces the inputs.    *)
RawOf(kind, inp) ==
    [f \in RawFields |->
        CASE f = "loc" -> New("raw", "loc")
          [] f \in {"reqs", "lens"} -> IF kind \in IdleKinds THEN New("raw", f) ELSE inp
          [] f = "ext" -> IF kind \in VerifyKinds THEN ExtBuffer ELSE None
          [] f = "plan" -> IF kind \in VerifyKinds /\ cfg.online THEN New("raw", "plan") ELSE None]
RawOps(f, kind, inp) ==
    (IF kind \in IdleKinds
     THEN Fill(f["reqs"], <<"in", host.n>>) \o Fill(f["lens"], <<"in", host.n>>) \o Fill(f["loc"], <<"in", host.n>>)
     ELSE <<Launch(f["loc"], {inp}, FALSE, All)>>)
    \o (IF f["ext"] = None THEN <<>> ELSE <<Launch(f["ext"], {inp}, FALSE, All)>>)
    \o (IF f["plan"] = None THEN <<>> ELSE <<Launch(f["plan"], {inp, f["ext"]}, TRUE, All)>>)

(* init_forward_metadata_dspark_draft_block: on replay the window indices  *)
(* of the captured object lend their storage, since the graph rebuilds them *)
DraftBlock(inp, lent) ==
    LET own == Built("block", IF lent = None THEN Core ELSE Core \ {"swa"})
    IN  [f |-> IF lent = None THEN own ELSE [own EXCEPT !["swa"] = lent], ops |-> Build(own, {inp}, All, All)]

(* init_forward_metadata_draft_extend and _fill_cuda_graph_swa_out_cache_loc: *)
(* the write target goes to the persistent buffer, or to a new tensor when it *)
(* does not fit; capture has no out_cache_loc.                             *)
DraftExtend(inp, capture, buffered) ==
    LET own == Built("dextend", Core)
        loc == IF capture THEN None ELSE IF buffered THEN SwaBuffer ELSE New("dextend", "swaloc")
    IN  [f |-> [own EXCEPT !["swaloc"] = loc],
         ops |-> Build(own, {inp}, All, All)
                 \o (IF loc = None THEN <<>> ELSE <<Launch(loc, {inp}, TRUE, All)>>)]

Bucket(kind) == IF kind = "pgraph" THEN host.variant ELSE Runs(kind)
Chosen(b) == IF b \in DOMAIN be.bucket THEN be.bucket[b] ELSE 0

-----------------------------------------------------------------------------
(* copy_ of the three kinds of metadata                                    *)

CopyFields == {"loc", "len", "pages", "swa", "toplen", "topk", "idx", "comp"}
AssignFields == {"swaloc", "sched"}
RawCopyFields == {"reqs", "lens", "loc"}

InPlace(dst, src, fields) == FlattenSeq(SetToSeq({Copy(dst[f], src[f]) : f \in fields}))
Assigned(dst, src, fields) == [f \in DOMAIN dst |-> IF f \in fields THEN src[f] ELSE dst[f]]

CopyRaw(dst, src) ==
    LET replaced == IF dst.f["plan"] = None \/ src.f["plan"] = None THEN {"plan"} ELSE {}   \* _copy_or_replace
    IN [obj |-> [dst EXCEPT !.f = Assigned(@, src.f, {"ext"} \cup replaced)],
        ops |-> InPlace(dst.f, src.f, RawCopyFields \cup ({"plan"} \ replaced))]
CopyFull(dst, src) ==
    [obj |-> [dst EXCEPT !.f = Assigned(@, src.f, AssignFields), !.sparse = None, !.snapped = FALSE],
     ops |-> InPlace(dst.f, src.f, CopyFields)]

(* refresh_for_breakable_cuda_graph_replay_: what captured kernels read by *)
(* address is copied; what only the breaks read is replaced                *)
(* Mutant: the refresh forgets the paged indexer metadata.                 *)
RefreshCopiedStale == {"loc", "len", "toplen", "req", "comp"}
RefreshCopied == {"loc", "len", "toplen", "idx", "req", "comp"}
RefreshReplaced == {"pages", "swa", "sched"}
Refresh(dst, src) ==
    [obj |-> [dst EXCEPT !.f = Assigned(@, src.f, RefreshReplaced), !.sparse = None, !.snapped = FALSE],
     ops |-> InPlace(dst.f, src.f, RefreshCopied)]

-----------------------------------------------------------------------------
(* The runner loads the batch into its static inputs, or an eager forward  *)
(* brings tensors of its own.  The scheduler has prepared the tables.      *)
LoadBatch ==
    /\ Head1("load")
    /\ dev' = [dev EXCEPT !.mem = Put(@, host.inp, [tags |-> {<<"in", host.n>>}, rows |-> All]),
                          !.tables = host.n, !.released = FALSE, !.read = Nothing]
    /\ host' = Next1
    /\ UNCHANGED <<cfg, be, objs, graphs>>

(* init_forward_metadata_out_graph with replay_cuda_graph_metadata_from:   *)
(* the first metadata of a bucket is kept, later ones are copied into it.  *)
(* With online c128 a verify of an idle rank leaves the bucket's metadata  *)
(* as the forward before it, or the capture, left it.                      *)
Unprepared == cfg.online /\ host.kind = "verify_idle"
KeepMetadata ==
    /\ be' = [be EXCEPT !.fm = Chosen(Bucket(host.kind))]
    /\ Quiet /\ UNCHANGED objs
ReplaceMetadata ==
    LET b == Bucket(host.kind)
        id == Chosen(b)
        capture == host.capture
        raw == RawOf(host.kind, Static)
        lent == IF capture \/ id = 0 THEN None ELSE Obj(id).f["swa"]
        temp == CASE b \in {"decode", "verify"} -> [obj |-> Raw(raw), ops |-> RawOps(raw, host.kind, Static)]
                  [] b = "block" -> [obj |-> Object(DraftBlock(Static, lent).f), ops |-> DraftBlock(Static, lent).ops]
                  [] b = "dextend" -> [obj |-> Object(DraftExtend(Static, capture, TRUE).f),
                                       ops |-> DraftExtend(Static, capture, TRUE).ops]
        copied == IF temp.obj.kind = "raw" THEN CopyRaw(Obj(id), temp.obj) ELSE CopyFull(Obj(id), temp.obj)
        fm == IF id = 0 THEN Len(objs) + 1 ELSE id
    IN /\ objs' = IF id = 0 THEN Append(objs, temp.obj) ELSE [objs EXCEPT ![id] = copied.obj]
       /\ RunNow(IF id = 0 THEN temp.ops ELSE temp.ops \o copied.ops)
       /\ be' = [be EXCEPT !.fm = fm,
                           !.bucket = IF id = 0 THEN Put(@, b, fm) ELSE @,
                           !.raw = IF ~capture THEN @ ELSE IF temp.obj.kind = "raw" THEN fm ELSE 0]
OutGraph ==
    /\ Head1("out")
    /\ IF Unprepared THEN KeepMetadata ELSE ReplaceMetadata
    /\ host' = Next1
    /\ UNCHANGED <<cfg, graphs>>

(* init_forward_metadata_in_graph: upgrade of raw metadata, and what is    *)
(* computed from the live inputs.  Part of every forward; recorded.        *)
UpgradedRaw(obj) == IF obj.kind = "raw" THEN Object(FromRaw(obj).f) ELSE obj
InGraphFields(f) ==
    {"swaloc"} \cup (IF V41 /\ host.kind = "decode" THEN {"req"} ELSE {})
               \cup (IF host.kind = "block" THEN {"swa"} ELSE {})
InGraphObject(obj) ==
    LET full == UpgradedRaw(obj)
    IN [full EXCEPT !.f = [x \in Fields |-> IF x \in InGraphFields(@) THEN New("live", x) ELSE @[x]]]
InGraphOps(obj, inp) ==
    LET f == InGraphObject(obj).f
        live == InGraphFields(f)
    IN (IF obj.kind = "raw" THEN FromRaw(obj).ops ELSE <<>>)
       \o (IF host.variant = "all" THEN <<Launch(f["topk"], {f["pages"], f["toplen"]}, FALSE, All)>> ELSE <<>>)
       \o <<Launch(f["swaloc"], {inp}, TRUE, All)>>
       \o (IF "req" \in live THEN <<Launch(f["req"], {inp}, FALSE, All)>> ELSE <<>>)
       \o (IF "swa" \in live THEN <<Launch(f["swa"], {inp}, TRUE, All)>> ELSE <<>>)

InGraph ==
    /\ Head1("in")
    /\ IF M.kind = "raw"
       THEN objs' = Append(objs, InGraphObject(M)) /\ be' = [be EXCEPT !.fm = Len(objs) + 1]
       ELSE objs' = [objs EXCEPT ![be.fm] = InGraphObject(M)] /\ UNCHANGED be
    /\ Issue(InGraphOps(M, Static))
    /\ host' = Next1
    /\ UNCHANGED cfg

(* The runner's marker behind the recorded preparation.                    *)
InGraphDone ==
    /\ Head1("mark")
    /\ Issue(<<Mark>>)
    /\ host' = Next1
    /\ UNCHANGED <<cfg, be, objs>>

-----------------------------------------------------------------------------
(* on_after_cuda_graph_warmup: new schedules, and the raw metadata again   *)
AfterWarmup ==
    /\ Head1("warm")
    /\ objs' = IF Full(be.fm) THEN [objs EXCEPT ![be.fm].f["sched"] = None] ELSE objs
    /\ be' = [be EXCEPT !.fm = IF be.raw # 0 THEN be.raw ELSE @]
    /\ host' = Next1
    /\ Quiet /\ UNCHANGED <<cfg, graphs>>

BeginRecording ==
    /\ Head1("record")
    /\ graphs' = Put(graphs, host.graph, [pool |-> host.step, ops |-> <<>>])
    /\ host' = [Next1 EXCEPT !.record = TRUE]
    /\ Quiet /\ UNCHANGED <<cfg, be, objs>>

EndCapture ==
    /\ Head1("stop")
    /\ host' = [Next1 EXCEPT !.record = FALSE]
    /\ Quiet /\ UNCHANGED <<cfg, be, objs, graphs>>

-----------------------------------------------------------------------------
(* Breakable graph of a prefill: metadata at capture and at replay         *)

PrefillObject(use_prefill_cuda_graph) == Object(Built("full", PrefillFields(use_prefill_cuda_graph)))
PrefillOps(obj) == Build(obj.f, {host.inp}, All, HiddenRows)

(* The source layers of V4.1 can be captured; elsewhere they are a break.  *)
LowRatioGraph == V41 /\ Blackwell

(* _source_projection_buffers: the newest set serves, older ones stay      *)
Size(variant) == IF variant = "big" THEN 2 ELSE 1
(* Mutant: a larger set takes the place of the one graphs were captured on. *)
GrownReplaced(sets) == IF sets = <<>> \/ sets[1].size < Size(host.variant)
                       THEN <<[addr |-> New("proj", "bufs"), size |-> Size(host.variant)]>>
                       ELSE sets
Grown(sets) == IF sets = <<>> \/ sets[1].size < Size(host.variant)
               THEN <<[addr |-> New("proj", "bufs"), size |-> Size(host.variant)]>> \o sets
               ELSE sets

BreakableCapture ==
    /\ Head1("bcg")
    /\ LET obj == PrefillObject(TRUE)
       IN /\ objs' = Append(objs, obj)
          /\ RunNow(PrefillOps(obj))
    /\ be' = [be EXCEPT !.fm = Len(objs) + 1,
                        !.bucket = Put(@, Bucket("pgraph"), Len(objs) + 1),
                        !.proj = IF LowRatioGraph THEN Grown(@) ELSE @]
    /\ host' = Next1
    /\ UNCHANGED <<cfg, graphs>>

BreakableReplay ==
    /\ Head1("prep")
    /\ LET static == PrefillObject(TRUE)
           id == be.bucket[Bucket("pgraph")]
           refreshed == Refresh(Obj(id), static)
       IN /\ objs' = [objs EXCEPT ![id] = refreshed.obj]
          /\ RunNow(PrefillOps(static) \o refreshed.ops)
          /\ be' = [be EXCEPT !.fm = id]
    /\ host' = Next1
    /\ UNCHANGED <<cfg, graphs>>

-----------------------------------------------------------------------------
(* Eager forward                                                           *)

(* _build_late_layer_tail_metadata                                         *)
TailObject ==
    LET cp == cfg.cp > 1
    IN [Object(Built("tail", PrefillFields(FALSE) \cup {"swaloc", "req"})) EXCEPT
          !.tail = [on    |-> TRUE,
                    start |-> IF cp THEN Pad ELSE ContiguousStart(cfg.lens, Window),
                    index |-> IF cp THEN LocalTokenIndices(TailTokens, cfg.cp, cfg.rank) ELSE TailTokens,
                    pad   |-> IF cp THEN PadRows(TailTokens, cfg.cp, cfg.rank) ELSE 0]]
TailOps(f) ==
    LET local == IF cfg.cp > 1 THEN Select(TailTokens, LocalIndex(TailTokens, cfg.cp, cfg.rank)) ELSE TailTokens
    IN Build(f, {host.inp}, TailTokens, local) \o <<Launch(f["swaloc"], {host.inp}, TRUE, TailTokens)>>

HasTail == cfg.bounded /\ host.kind = "prefill"

InitForwardMetadata ==
    /\ Head1("init")
    /\ LET raw == RawOf(host.kind, host.inp)
           base == CASE host.kind \in {"decode", "verify"} -> Raw(raw)
                     [] host.kind = "block" -> Object(DraftBlock(host.inp, None).f)
                     [] host.kind = "dextend" -> Object(DraftExtend(host.inp, FALSE, FALSE).f)
                     [] host.kind = "prefill" -> PrefillObject(FALSE)
           ops == CASE host.kind \in {"decode", "verify"} -> RawOps(raw, host.kind, host.inp)
                    [] host.kind = "block" -> DraftBlock(host.inp, None).ops
                    [] host.kind = "dextend" -> DraftExtend(host.inp, FALSE, FALSE).ops
                    [] host.kind = "prefill" -> PrefillOps(base)
           new == <<InGraphObject(base)>> \o (IF HasTail THEN <<TailObject>> ELSE <<>>)
       IN /\ objs' = objs \o new
          /\ be' = [be EXCEPT !.fm = Len(objs) + 1, !.tail = IF HasTail THEN Len(objs) + 2 ELSE 0]
          /\ RunNow(ops \o InGraphOps(base, host.inp) \o (IF HasTail THEN TailOps(new[2].f) ELSE <<>>))
    /\ host' = Next1
    /\ UNCHANGED <<cfg, graphs>>

(* _build_sparse_prefill_chunk_cache, from the live tables                 *)
SparseOps(addr) == <<Launch(addr, {host.inp, M.f["len"]}, TRUE, HiddenRows)>>
UsesSparse == cfg.sparse /\ cfg.arch # "sm120" /\ host.kind \in {"prefill", "pgraph"} /\ ~LateTail(be.fm)

(* prepare_prefill_shared_read_snapshot                                    *)
Snapshots == cfg.snapshot /\ cfg.cp = 1
Snapshot ==
    /\ Head1("snap")
    /\ LET cache == IF Snapshots /\ UsesSparse THEN New("snap", "sparse") ELSE M.sparse
       IN /\ objs' = [objs EXCEPT ![be.fm].snapped = Snapshots, ![be.fm].sparse = cache]
          /\ RunNow(IF Snapshots /\ UsesSparse THEN SparseOps(cache) ELSE <<>>)
    /\ host' = Next1
    /\ UNCHANGED <<cfg, be, graphs>>

-----------------------------------------------------------------------------
(* shared_read_ends: where the forward has read the shared tables last.    *)
(* The runner tells the scheduler there.                                   *)

SharedReadEnds ==
    IF host.kind \in VerifyKinds \cup {"block"}
    THEN IF cfg.spec = "dspark" THEN "IN_REPLAY" ELSE "POST_REPLAY"
    ELSE IF host.kind = "prefill" /\ Full(be.fm) /\ M.snapped THEN "PRE_REPLAY"
    ELSE IF host.kind \in {"prefill", "pgraph"} THEN "POST_REPLAY"
    ELSE "IN_REPLAY"

ReleasedAt(points) == dev.released \/ SharedReadEnds \in points

(* before the launch; an eager forward has also run its preparation        *)
Publish ==
    /\ Head1("publish")
    /\ dev' = [dev EXCEPT !.read = Nothing,
                          !.released = ReleasedAt({"PRE_REPLAY"} \cup IF host.eager THEN {"IN_REPLAY"} ELSE {})]
    /\ host' = Next1
    /\ UNCHANGED <<cfg, be, objs, graphs>>

Done ==
    /\ Head1("done")
    /\ dev' = [dev EXCEPT !.read = Nothing, !.released = TRUE]
    /\ host' = Next1
    /\ UNCHANGED <<cfg, be, objs, graphs>>

(* The scheduler prepares the next batch: it allocates and frees slots.    *)
NextTables ==
    /\ dev.released /\ dev.tables = host.n
    /\ dev' = [dev EXCEPT !.tables = @ + 1, !.read = Nothing]
    /\ UNCHANGED <<cfg, host, be, objs, graphs>>

-----------------------------------------------------------------------------
(* Layers.  Layer 1 has a compressor and publishes candidates and top-k;   *)
(* layer 2 attends through them; layer 3 selects again among the           *)
(* candidates.  A draft layer attends the window only.                     *)

Sliced(rows, lens, b) == SubSeq(rows, Start(lens, b) + 1, Start(lens, b) + lens[b])
QLens ==
    IF LateTail(be.fm)
    THEN IF cfg.cp > 1 THEN LocalLens(cfg.lens, TailTokens, cfg.cp, cfg.rank) ELSE TailLens(cfg.lens, Window)
    ELSE IF cfg.cp > 1 THEN LocalLens(cfg.lens, Tokens(cfg.lens), cfg.cp, cfg.rank) ELSE cfg.lens

(* hoisted indices when the metadata has them, the batch's own otherwise   *)
Positions == IF M.f["req"] # None THEN M.f["req"] ELSE host.inp

(* _low_ratio_compress*, the compressor of V4                              *)
CompressOps ==
    IF V41 THEN <<Reads({M.f["loc"], Positions}, FALSE, {M.f["loc"]}, KeyRows)>>
    ELSE <<Reads({M.f["loc"], M.f["comp"]}, FALSE, {M.f["loc"]}, KeyRows)>>

(* _low_ratio_source_projections: a break on the live rows                 *)
Projection == be.proj[1].addr
ProjectOps == <<Launch(Projection, {host.inp}, FALSE, All), Reads({Projection}, FALSE, {Projection}, QueryRows)>>

NoMasks == [addr |-> None, rows |-> <<>>]
(* the paged indexer: _low_ratio_index_topk_decode, _prefill_graph, V4's   *)
PagedOps(k, masks) ==
    <<Reads({M.f["idx"], Positions}, FALSE, {M.f["idx"]}, QueryRows)>>
    \o (IF k = 3 /\ masks # None THEN <<Reads({masks}, FALSE, {masks}, QueryRows)>> ELSE <<>>)
    \o (IF k = 1 /\ masks # None THEN <<Launch(masks, {M.f["idx"]}, FALSE, QueryRows)>> ELSE <<>>)
    \o <<Launch(M.f["topk"], {M.f["idx"]}, FALSE, QueryRows)>>

(* _low_ratio_index_topk_dense, _torch: keys through req_to_token, rows    *)
(* laid out request after request, candidate masks per request             *)
DenseOps(k, masks) ==
    LET rows(b) == Sliced(QueryRows, QLens, b)
    IN <<[Reads({host.inp, Positions}, TRUE, {}, <<>>) EXCEPT
            !.pairs = {<<rows(b), OfRequest(cfg.lens, QueryRows, b)>> : b \in DOMAIN cfg.lens}]>>
       \o (IF k = 3
           THEN <<[Reads({masks.addr}, FALSE, {}, <<>>) EXCEPT
                     !.pairs = {<<masks.rows[b], rows(b)>> : b \in DOMAIN cfg.lens}]>>
           ELSE <<Launch(masks.addr, {host.inp}, TRUE, <<>>)>>)
       \o <<Launch(M.f["topk"], {host.inp}, TRUE, QueryRows)>>

Paged == ~V41 \/ (Blackwell /\ host.kind # "prefill")
Skipped == host.variant = "all"
TwoLevel == V41 /\ host.kind # "pgraph"

(* forward_low_ratio_sources, _cp                                          *)
Sources(k) ==
    /\ host.todo # <<>> /\ Head(host.todo) = <<"sources", k>>
    /\ LET masks == IF k = 3 THEN be.masks
                    ELSE IF Paged THEN IF TwoLevel THEN [addr |-> New("masks", "tensor"), rows |-> <<>>] ELSE NoMasks
                    ELSE [addr |-> New("masks", "list"),
                          rows |-> [b \in DOMAIN cfg.lens |-> Sliced(QueryRows, QLens, b)]]
           index == IF Skipped THEN <<>>
                    ELSE IF Paged THEN PagedOps(k, IF TwoLevel THEN masks.addr ELSE None)
                    ELSE DenseOps(k, masks)
           ops == (IF host.kind = "pgraph" /\ LowRatioGraph THEN ProjectOps ELSE <<>>)
                  \o (IF k = 1 THEN CompressOps ELSE <<>>) \o index
       IN IF host.record /\ host.kind = "pgraph" /\ V41 /\ ~LowRatioGraph
          THEN Issue(<<Break(<<"sources", k>>)>>) /\ UNCHANGED be
          ELSE Issue(ops) /\ be' = IF k = 1 /\ ~Skipped THEN [be EXCEPT !.masks = masks] ELSE be
    /\ host' = Next1
    /\ UNCHANGED <<cfg, objs>>

(* get_swa_out_cache_loc, store_cache                                      *)
Store(k) ==
    /\ host.todo # <<>> /\ Head(host.todo) = <<"store", k>>
    /\ Issue(IF M.f["swaloc"] # None
             THEN <<Reads({M.f["swaloc"]}, FALSE, {M.f["swaloc"]}, KeyRows)>>
             ELSE <<Reads({host.inp}, TRUE, {}, <<>>)>>)
    /\ host' = Next1
    /\ UNCHANGED <<cfg, be, objs>>

(* _forward_attention: window and top-k by row.  The kernel that is not    *)
(* SM120's plans a schedule on first use and keeps it in the metadata; the *)
(* sparse one builds the chunk cache if no snapshot did.                   *)
AttendFields == {"swa", "len"} \cup (IF M.f["topk"] # None THEN {"topk", "toplen"} ELSE {})
Attend(k) ==
    /\ host.todo # <<>> /\ Head(host.todo) = <<"attend", k>>
    /\ LET plans == cfg.arch # "sm120" /\ ~UsesSparse
           sched == IF ~plans THEN None ELSE IF M.f["sched"] # None THEN M.f["sched"] ELSE New("plan", "sched")
           cache == IF ~UsesSparse THEN None ELSE IF M.sparse # None THEN M.sparse ELSE New("lazy", "sparse")
           rowwise == {M.f[x] : x \in AttendFields}
           ops == (IF plans /\ M.f["sched"] = None THEN <<Launch(sched, rowwise, FALSE, QueryRows)>> ELSE <<>>)
                  \o (IF UsesSparse /\ M.sparse = None THEN SparseOps(cache) ELSE <<>>)
                  \o <<Reads(rowwise \cup {sched, cache}, FALSE, rowwise, QueryRows)>>
       IN IF host.record /\ host.kind = "pgraph"
          THEN Issue(<<Break(<<"attend", k>>)>>) /\ UNCHANGED objs
          ELSE /\ Issue(ops)
               /\ objs' = [objs EXCEPT ![be.fm].f["sched"] = IF plans THEN sched ELSE @,
                                       ![be.fm].sparse = IF UsesSparse THEN cache ELSE @]
    /\ host' = Next1
    /\ UNCHANGED <<cfg, be>>

(* enter_late_layer_tail: masks cut to the last rows of every request, the *)
(* top-k of the last source carried over                                   *)
(* Mutant: the first rows of every request are kept.                       *)
CutMasksFirst(masks, lens) == [masks EXCEPT !.rows = [b \in DOMAIN @ |-> SubSeq(@[b], 1, lens[b])]]
CutMasks(masks, lens) ==
    [masks EXCEPT !.rows = [b \in DOMAIN @ |-> SubSeq(@[b], Len(@[b]) - lens[b] + 1, Len(@[b]))]]
Carry(tail, field) ==
    Launch(tail.f[field], {M.f[field]}, FALSE, TailRows(tail.tail, At(dev.mem, M.f[field]).rows))
CarriedFields == {"topk", "toplen"}
Carried(tail) == SetToSeq({Carry(tail, field) : field \in CarriedFields})

EnterTail ==
    /\ Head1("enter")
    /\ LET tail == Obj(be.tail)
           lens == IF cfg.cp > 1 THEN LocalLens(cfg.lens, TailTokens, cfg.cp, cfg.rank)
                   ELSE TailLens(cfg.lens, Window)
       IN /\ RunNow(Carried(tail))
          /\ be' = [be EXCEPT !.fm = be.tail, !.masks = CutMasks(@, lens),
                              !.saved = [fm |-> be.fm, masks |-> be.masks]]
    /\ host' = Next1
    /\ UNCHANGED <<cfg, objs, graphs>>

ExitTail ==
    /\ Head1("exit")
    /\ be' = [be EXCEPT !.fm = be.saved.fm, !.masks = be.saved.masks]
    /\ host' = Next1
    /\ Quiet /\ UNCHANGED <<cfg, objs, graphs>>

-----------------------------------------------------------------------------
(* Replay of a graph: the recorded kernels up to the next marker or break. *)

RecordedOps == graphs[host.graph].ops
NextStop == Min({i \in host.at + 1 .. Len(RecordedOps) : RecordedOps[i].step # <<>> \/ i = Len(RecordedOps)})

Replay ==
    /\ Head1("replay") /\ host.at < Len(RecordedOps)
    /\ LET ops == SubSeq(RecordedOps, host.at + 1, NextStop)
           stop == RecordedOps[NextStop].step
           ran == Exec(ops)
       IN /\ dev' = [dev EXCEPT !.mem = ran.mem, !.read = ran.read,
                                !.released = IF stop = <<"mark", 0>> THEN ReleasedAt({"IN_REPLAY"}) ELSE @]
          /\ host' = [host EXCEPT !.at = NextStop, !.step = @ + 1,
                                  !.todo = IF stop \in {<<>>, <<"mark", 0>>} THEN @ ELSE <<stop>> \o @]
    /\ UNCHANGED <<cfg, be, objs, graphs>>

ReplayDone ==
    /\ Head1("replay") /\ host.at = Len(RecordedOps)
    /\ host' = [Next1 EXCEPT !.at = 0]
    /\ Quiet /\ UNCHANGED <<cfg, be, objs, graphs>>

-----------------------------------------------------------------------------
(* Sessions of the runner: captures at startup, then forwards.             *)

Steps(names) == [i \in DOMAIN names |-> <<names[i], 0>>]
LayerSteps(k) == <<<<"store", k>>, <<"attend", k>>>>
Layers(tail) ==
    IF cfg.role = "draft" THEN LayerSteps(0)
    ELSE IF ~V41 THEN <<<<"sources", 1>>>> \o LayerSteps(1)
    ELSE <<<<"sources", 1>>>> \o LayerSteps(1) \o (IF tail THEN Steps(<<"enter">>) ELSE <<>>)
         \o LayerSteps(2) \o <<<<"sources", 3>>>> \o LayerSteps(3) \o (IF tail THEN Steps(<<"exit">>) ELSE <<>>)

CaptureSteps(kind) ==
    IF kind = "pgraph"
    THEN Steps(<<"load", "bcg">>) \o Layers(FALSE) \o Steps(<<"record">>) \o Layers(FALSE) \o Steps(<<"stop">>)
    ELSE Steps(<<"load", "out", "in", "mark">>) \o Layers(FALSE)
         \o Steps(<<"warm", "record", "in", "mark">>) \o Layers(FALSE) \o Steps(<<"stop">>)
ReplaySteps(kind) ==
    IF kind = "pgraph" THEN Steps(<<"load", "prep", "publish", "replay", "done">>)
    ELSE Steps(<<"load", "out", "publish", "replay", "done">>)
EagerSteps(kind) ==
    Steps(<<"load", "init">>) \o (IF kind = "prefill" THEN Steps(<<"snap">>) ELSE <<>>)
    \o Steps(<<"publish">>) \o Layers(cfg.bounded /\ kind = "prefill") \o Steps(<<"done">>)

Variants(kind) ==
    IF kind = "pgraph" THEN {"small", "big"}
    ELSE IF kind \in {"decode", "idle"} /\ V41 THEN {"filtered", "all"} ELSE {"filtered"}
GraphOf(kind, variant) == <<Runs(kind), variant>>

Begin(kind, variant, todo, eager, capture) ==
    /\ host.todo = <<>> /\ host.n < Forwards
    /\ host' = [host EXCEPT !.todo = todo, !.n = @ + 1, !.step = @ + 1, !.kind = kind, !.variant = variant,
                            !.graph = GraphOf(kind, variant), !.eager = eager, !.capture = capture,
                            !.serving = ~capture, !.inp = IF eager THEN New("batch", "inputs") ELSE Static]
    /\ dev' = [dev EXCEPT !.read = Nothing, !.released = FALSE]
    /\ UNCHANGED <<cfg, be, objs, graphs>>

Capture(kind, variant) ==
    /\ kind \notin {"prefill"} \cup IdleKinds /\ ~host.serving
    /\ GraphOf(kind, variant) \notin DOMAIN graphs
    /\ Begin(kind, variant, CaptureSteps(kind), FALSE, TRUE)
EagerForward(kind) ==
    /\ kind \notin {"pgraph"} \cup IdleKinds
    /\ Begin(kind, "filtered", EagerSteps(kind), TRUE, FALSE)
GraphForward(kind, variant) ==
    /\ GraphOf(kind, variant) \in DOMAIN graphs
    /\ Begin(kind, variant, ReplaySteps(kind), FALSE, FALSE)

GraphInit ==
    /\ cfg \in Configs
    /\ host = [todo |-> <<>>, n |-> 0, step |-> 0, at |-> 0, kind |-> "none", variant |-> "filtered",
               graph |-> <<"none", "filtered">>, eager |-> FALSE, capture |-> FALSE, record |-> FALSE,
               serving |-> FALSE, inp |-> Static]
    /\ be = [fm |-> 0, tail |-> 0, raw |-> 0, masks |-> NoMasks, saved |-> [fm |-> 0, masks |-> NoMasks],
             bucket |-> <<>>, proj |-> <<>>]
    /\ objs = <<>> /\ graphs = <<>>
    /\ dev = [mem |-> <<>>, tables |-> 0, released |-> FALSE, read |-> Nothing]

GraphNext ==
    \/ \E kind \in cfg.kinds :
        \/ EagerForward(kind)
        \/ \E variant \in Variants(kind) : Capture(kind, variant) \/ GraphForward(kind, variant)
    \/ LoadBatch \/ OutGraph \/ InGraph \/ InGraphDone \/ AfterWarmup \/ BeginRecording \/ EndCapture
    \/ BreakableCapture \/ BreakableReplay \/ InitForwardMetadata \/ Snapshot \/ Publish \/ Done \/ NextTables
    \/ \E k \in 0 .. 3 : Sources(k) \/ Store(k) \/ Attend(k)
    \/ EnterTail \/ ExitTail \/ Replay \/ ReplayDone

GraphSpec == GraphInit /\ [][GraphNext]_graphVars

-----------------------------------------------------------------------------
(* Every kernel of a forward, recorded long ago or launched now, reads     *)
(* only what was computed for this forward: no tensor of the capture or of *)
(* an earlier forward, and no table the scheduler already changed for the  *)
(* next one.  The exception is the code's own: the verify of an idle rank  *)
(* under online c128 is replayed on what the bucket's raw metadata was     *)
(* left with, its slots, its extend lengths and its compression plan, and  *)
(* reads nothing else of an earlier forward; the next forward is clean.    *)
LeftOver ==
    IF Unprepared
    THEN UNION {At(dev.mem, Obj(Chosen(Bucket(host.kind))).f[x]).tags : x \in {"loc", "ext", "plan"}}
    ELSE {}
ReadsOwn == dev.read.tags \subseteq {<<"in", host.n>>, <<"tab", host.n>>} \cup LeftOver

(* Row i of whatever a kernel reads by row is about the token of query row *)
(* i, in the full extend, on a context-parallel rank and in the tail; rows *)
(* that pad the tail for the collectives are free.                         *)
RowsMatch ==
    \A p \in dev.read.pairs : \A i \in DOMAIN p[2] : p[2][i] = Pad \/ (i \in DOMAIN p[1] /\ p[1][i] = p[2][i])

(* A captured graph holds addresses: what its kernels read or write, other *)
(* than the tensors allocated while it was recorded, is still held by the  *)
(* runner, by the metadata kept for a bucket, or as projection buffers.    *)
Touched(ops) == UNION {ops[i].from \cup ({ops[i].to} \ {None}) : i \in DOMAIN ops}
Held == Permanent \cup {s.addr : s \in ToSet(be.proj)}
        \cup UNION {Range(Obj(be.bucket[b]).f) : b \in DOMAIN be.bucket}
CapturedAlive ==
    \A g \in DOMAIN graphs : {a \in Touched(graphs[g].ops) : a[1] < graphs[g].pool} \subseteq Held
=============================================================================
