---------------------------- MODULE ModelStreams ----------------------------
(***************************************************************************)
(* The forwards of models/deepseek_v4.py as programs of StreamOrder: which *)
(* kernels each method launches, on which stream, what they read and       *)
(* write, and where streams wait for each other.  A kernel stands for the  *)
(* launches between two synchronisations that read and write the same      *)
(* tensors.  A configuration c says which paths a forward takes; u is the  *)
(* micro-batch and l the layer.                                            *)
(***************************************************************************)
EXTENDS StreamOrder, SequencesExt

B(n, u, l) == <<n, u, l>>

\* Of whom layer l reads compressed keys and selected blocks.
LowRatio(c) == c.ratio \in {1, 2}
KVSource(c, l) == IF LowRatio(c) THEN 0 ELSE l
IndexSource(c, l) == IF LowRatio(c) /\ l \notin c.index THEN 0 ELSE l
HasCompressor(c, l) == c.ratio # 0 /\ KVSource(c, l) = l
HasIndexer(c, l) == c.ratio \in {1, 2, 4} /\ IndexSource(c, l) = l

\* alt_streams[:3]; only CUDA and NPU layers get them.
StreamKV == "alt0"
StreamQ == "alt1"
StreamCompressor == "alt1"
StreamIndexer == "alt2"

\* q_out: the first heads of the padded query, of one buffer for all layers in
\* a V4.1 model.
Query(c, u, l) ==
  IF ~c.pad THEN B("q", u, l) ELSE IF c.v41 THEN B("q_pad_buffer", u, 0) ELSE B("q_padded", u, l)
Projected(c, u, l) == IF c.fuse THEN B("qkv_a", u, l) ELSE B("x", u, l)

-----------------------------------------------------------------------------
(* Pieces of MQALayer.                                                     *)

wqkv_a(c, u, l) == When(c.fuse, Kernel("main", {B("x", u, l)}, {B("qkv_a", u, l)}))

compute_q_a(c, u, l) == Kernel("main", {Projected(c, u, l)}, {B("q_lora", u, l)})

compute_q_b(c, s, u, l) ==
  Kernel(s, {B("q_lora", u, l)}, {B("q", u, l)})
    \o When(c.pad, Kernel(s, {B("q", u, l)}, {Query(c, u, l)}))

compute_kv_bf16(c, s, u, l) ==
  Kernel(s, {Projected(c, u, l)}, {B("kv", u, l)})
    \o Kernel(s, {B("kv", u, l)}, {B("kv", u, l)})

store_cache(s, u, l) == Kernel(s, {B("kv", u, l)}, {B("window", u, l)})

compute_kv_to_cache(c, s, u, l) ==
  IF c.bf16
  THEN compute_kv_bf16(c, s, u, l) \o store_cache(s, u, l) \o Drop({B("kv", u, l)})
  ELSE Kernel(s, {Projected(c, u, l)}, {B("window", u, l)})

\* External: the compressor of ratio 4 and 128, and the C4 indexer, which
\* compresses its own keys before it waits for q_lora.
forward_core_compressor(c, s, u, l) ==
  When(HasCompressor(c, l), Kernel(s, {B("x", u, l)}, {B("latents", u, l)}))
indexer(c, s, u, l, event) ==
  When(HasIndexer(c, l),
       Kernel(s, {B("x", u, l)}, {B("index_keys", u, l)})
         \o When(event # "", WaitEvent(s, event))
         \o Kernel(s, {B("q_lora", u, l), B("index_keys", u, l)}, {B("topk", u, l)}))

\* The ratio 1 and 2 sources run on the kv_source layers only.
forward_low_ratio_sources(c, s, u, l, run_compressor, run_indexer) ==
  When(run_compressor /\ HasCompressor(c, l),
       When(c.cp, Kernel(s, {B("x", u, l)}, {B("x_global", u, l)}))
         \o Kernel(s, {B(IF c.cp THEN "x_global" ELSE "x", u, l)},
                   {B("latents", u, l), B("index_keys", u, l)}))
    \o When(run_indexer /\ HasIndexer(c, l),
            Kernel(s, {B("x", u, l), B("q_lora", u, l), B("index_keys", u, KVSource(c, l))},
                   {B("topk", u, l)}))

-----------------------------------------------------------------------------
(* The ways to prepare a layer's attention.                                *)

\* Mutant: the compressor's stream is not joined.
forward_prepare_multi_stream_NoJoin(c, u, l) ==
  Wait(StreamKV, "main") \o Wait(StreamCompressor, "main") \o Wait(StreamIndexer, "main")
    \o wqkv_a(c, u, l) \o When(c.fuse, Record("main", "qkv_a_ready"))
    \o compute_q_a(c, u, l) \o Record("main", "q_lora_ready")
    \o indexer(c, StreamIndexer, u, l, "q_lora_ready")
    \o When(c.fuse, WaitEvent(StreamKV, "qkv_a_ready"))
    \o compute_kv_to_cache(c, StreamKV, u, l)
    \o forward_core_compressor(c, StreamCompressor, u, l)
    \o compute_q_b(c, "main", u, l)
    \o Wait("main", StreamKV) \o Wait("main", StreamIndexer)
    \o Drop({B("qkv_a", u, l), B("q_lora", u, l)})
forward_prepare_multi_stream(c, u, l) ==
  Wait(StreamKV, "main") \o Wait(StreamCompressor, "main") \o Wait(StreamIndexer, "main")
    \o wqkv_a(c, u, l)
    \o When(c.fuse, Record("main", "qkv_a_ready"))
    \o compute_q_a(c, u, l)
    \o Record("main", "q_lora_ready")
    \o indexer(c, StreamIndexer, u, l, "q_lora_ready")
    \o When(c.fuse, WaitEvent(StreamKV, "qkv_a_ready"))
    \o compute_kv_to_cache(c, StreamKV, u, l)
    \o forward_core_compressor(c, StreamCompressor, u, l)
    \o compute_q_b(c, "main", u, l)
    \o Wait("main", StreamKV) \o Wait("main", StreamCompressor) \o Wait("main", StreamIndexer)
    \o Drop({B("qkv_a", u, l), B("q_lora", u, l)})

\* q is allocated on its side stream and read on the main stream without
\* record_stream(main): the wait of the next layer keeps it.
forward_prepare_multi_stream_npu(c, u, l) ==
  Wait(StreamKV, "main") \o Wait(StreamQ, "main")
    \o wqkv_a(c, u, l)
    \o When(c.fuse, Record("main", "qkv_a_ready"))
    \o compute_q_a(c, u, l)
    \o Record("main", "q_lora_ready")
    \o When(c.fuse, WaitEvent(StreamKV, "qkv_a_ready"))
    \o compute_kv_bf16(c, StreamKV, u, l)
    \o store_cache(StreamKV, u, l)
    \o WaitEvent(StreamQ, "q_lora_ready")
    \o compute_q_b(c, StreamQ, u, l)
    \o RecordStream(B("q", u, l), StreamQ)
    \o indexer(c, "main", u, l, "")
    \o forward_core_compressor(c, "main", u, l)
    \o Wait("main", StreamKV) \o Wait("main", StreamQ)
    \o Drop({B("qkv_a", u, l), B("q_lora", u, l), B("kv", u, l)})

\* _forward_prepare, on one stream but for the sources of ratio 1 and 2, which
\* start beside the projections in decode and verify.
early_sources(c, u, l) ==
  c.early /\ c.mode \in {"decode", "verify"} /\ LowRatio(c)
    /\ (HasCompressor(c, l) \/ HasIndexer(c, l))
early_compressor(c, u, l) ==
  When(early_sources(c, u, l),
       RecordStream(B("x", u, l), StreamIndexer)
         \o When(HasCompressor(c, l),
                 Wait(StreamIndexer, "main")
                   \o forward_low_ratio_sources(c, StreamIndexer, u, l, TRUE, FALSE)))
\* Mutant: the indexer does not join the normalisation of its query.
early_indexer_NoJoin(c, u, l) ==
  When(early_sources(c, u, l) /\ HasIndexer(c, l),
       RecordStream(B("q_lora", u, l), StreamIndexer)
         \o forward_low_ratio_sources(c, StreamIndexer, u, l, FALSE, TRUE))
early_indexer(c, u, l) ==
  When(early_sources(c, u, l) /\ HasIndexer(c, l),
       Wait(StreamIndexer, "main")
         \o RecordStream(B("q_lora", u, l), StreamIndexer)
         \o forward_low_ratio_sources(c, StreamIndexer, u, l, FALSE, TRUE))

\* HIP: norm, rotation and store in one kernel; a verify leaves the store to
\* the backend.
fused_qk_norm_rope(c) ==
  IF c.unified THEN c.mode = "decode" \/ (c.mode = "verify" /\ c.fuse_verify) ELSE c.fused_qk
fused_prepare(c, u, l) ==
  Kernel("main", {B("q_lora", u, l)}, {B("q", u, l)})
    \o (IF c.unified /\ c.mode = "verify"
        THEN Kernel("main", {Projected(c, u, l)}, {B("kv", u, l)})
               \o Kernel("main", {B("q", u, l), B("kv", u, l)}, {B("q", u, l), B("kv", u, l)})
        ELSE Kernel("main", {B("q", u, l), Projected(c, u, l)}, {B("q", u, l), B("window", u, l)}))
    \o When(~c.unified /\ c.cp,
            compute_kv_bf16(c, "main", u, l)
              \o Kernel("main", {B("kv", u, l)}, {B("kv_global", u, l)}))

\* Mutant: kv is returned whenever there is one.
kv_result_Always(c) ==
  IF fused_qk_norm_rope(c)
  THEN IF c.unified THEN "kv" ELSE IF c.cp THEN "kv_global" ELSE ""
  ELSE IF c.unified THEN (IF c.cp THEN "kv_global" ELSE "kv") ELSE ""
\* Whether the caller gets kv, and gathered from all ranks or local.
kv_result(c) ==
  IF fused_qk_norm_rope(c)
  THEN IF c.unified /\ c.mode = "verify" THEN "kv" ELSE IF ~c.unified /\ c.cp THEN "kv_global" ELSE ""
  ELSE IF c.unified THEN (IF c.cp THEN "kv_global" ELSE "kv") ELSE ""

\* unfused_prepare launches the gather of a two-batch overlap on the comm
\* stream; collect_kv waits for it.
unfused_prepare(c, u, l) ==
  compute_q_b(c, "main", u, l)
    \o (IF c.unified
        THEN compute_kv_bf16(c, "main", u, l)
               \o When(c.cp, IF c.tbo
                             THEN Wait("comm", "main")
                                    \o Kernel("comm", {B("kv", u, l)}, {B("kv_gathered", 0, 0)})
                                    \o Record("comm", "kv")
                             ELSE Kernel("main", {B("kv", u, l)}, {B("kv_global", u, l)}))
        ELSE IF c.cp
        THEN Kernel("main", {Projected(c, u, l)}, {B("kv_global", u, l)})
               \o Kernel("main", {B("kv_global", u, l)}, {B("window", u, l)})
        ELSE compute_kv_to_cache(c, "main", u, l))
collect_kv(c, u, l) ==
  When(c.unified /\ c.cp /\ c.tbo,
       WaitEvent("main", "kv")
         \o Kernel("main", {B("kv_gathered", 0, 0)}, {B("kv_global", u, l)}))

join_sources(c, u, l) ==
  IF LowRatio(c)
  THEN IF early_sources(c, u, l) THEN Wait("main", StreamIndexer)
       ELSE forward_low_ratio_sources(c, "main", u, l, TRUE, TRUE)
  ELSE indexer(c, "main", u, l, "") \o forward_core_compressor(c, "main", u, l)

forward_prepare(c, u, l) ==
  early_compressor(c, u, l)
    \o wqkv_a(c, u, l)
    \o compute_q_a(c, u, l)
    \o early_indexer(c, u, l)
    \o (IF fused_qk_norm_rope(c) THEN fused_prepare(c, u, l) ELSE unfused_prepare(c, u, l))
    \o When(~early_sources(c, u, l), Drop({B("qkv_a", u, l)}))
    \o join_sources(c, u, l)
    \o When(early_sources(c, u, l), Drop({B("qkv_a", u, l)}))
    \o collect_kv(c, u, l)
    \o Drop({B("q_lora", u, l)})

-----------------------------------------------------------------------------
(* MQALayer.forward.                                                       *)

enable_multi_stream(c) ==
  \/ c.multi = "cuda" /\ ~c.cp /\ ~LowRatio(c)
  \/ c.multi = "npu" /\ c.mode # "extend"

\* The padding is cleared when the buffer is made, and never again.
pad_query(c, u, l) ==
  When(c.pad /\ (c.v41 => l = 0), Kernel("main", {}, {Query(c, u, l)}))

prepare(c, u, l) ==
  IF ~enable_multi_stream(c) THEN forward_prepare(c, u, l)
  ELSE IF c.multi = "npu" THEN forward_prepare_multi_stream_npu(c, u, l)
  ELSE forward_prepare_multi_stream(c, u, l)

\* save_kv_cache: the backend stores a kv it is given, before the attention of a
\* verify and after that of a prefill; outside of the unified pool it never does.
attend(c, u, l) ==
  LET kv == kv_result(c)
      given == ~enable_multi_stream(c) /\ c.unified /\ kv # ""
      store == When(given, Kernel("main", {B(kv, u, l)}, {B("window", u, l)}))
      reads == {Query(c, u, l), B("window", u, l)}
                 \cup (IF given THEN {B(kv, u, l)} ELSE {})
                 \cup (IF c.ratio # 0 THEN {B("latents", u, KVSource(c, l))} ELSE {})
                 \cup (IF c.ratio \in {1, 2, 4} THEN {B("topk", u, IndexSource(c, l))} ELSE {})
  IN When(c.mode = "verify", store)
       \o Kernel("main", reads, {B("o", u, l)})
       \o When(c.mode # "verify", store)

project_out(c, u, l) ==
  Kernel("main", {B("o", u, l)}, {B("o", u, l)})
    \o Kernel("main", {B("o", u, l)}, {B("attn_out", u, l)})

self_attn(c, u, l) ==
  pad_query(c, u, l) \o prepare(c, u, l) \o attend(c, u, l) \o project_out(c, u, l)
    \o Drop({B("x", u, l), B("q", u, l), B("q_padded", u, l), B("o", u, l),
              B("kv", u, l), B("kv_global", u, l), B("x_global", u, l)})

-----------------------------------------------------------------------------
(* DeepseekV4DecoderLayer.  Sublayer k of 2l (attention) and 2l + 1 (FFN)  *)
(* takes the hidden states h[k] to h[k + 1].                               *)

H(u, k) == B("h", u, k)
Input(u, k) == B(IF k % 2 = 0 THEN "x" ELSE "y", u, k \div 2)
Output(u, k) == B(IF k % 2 = 0 THEN "attn_out" ELSE "ffn_out", u, k \div 2)
Mix(u, k) == {B("post", u, k), B("comb", u, k)}

hc_pre(u, k) == Kernel("main", {H(u, k)}, {Input(u, k)} \cup Mix(u, k))
hc_post(u, k) == Kernel("main", {Output(u, k), H(u, k)} \cup Mix(u, k), {H(u, k + 1)})
post_pre(u, k) ==
  Kernel("main", {Output(u, k - 1), H(u, k - 1)} \cup Mix(u, k - 1),
         {H(u, k), Input(u, k)} \cup Mix(u, k))

\* External: the MoE block, with the shared expert on alt_streams[0].
mlp(c, u, l) ==
  Wait(StreamKV, "main")
    \o Kernel(StreamKV, {B("y", u, l)}, {B("shared", u, l)})
    \o Kernel("main", {B("y", u, l)}, {B("routed", u, l)})
    \o Wait("main", StreamKV)
    \o Kernel("main", {B("routed", u, l), B("shared", u, l)}, {B("ffn_out", u, l)})
    \o Drop({B("routed", u, l), B("shared", u, l), B("y", u, l)})

attention_half(c, u, l) ==
  (IF c.scheme = "fused" /\ l > 0 THEN post_pre(u, 2 * l) ELSE hc_pre(u, 2 * l))
    \o self_attn(c, u, l)
ffn_half(c, u, l) ==
  (IF c.scheme = "fused" THEN post_pre(u, 2 * l + 1)
   ELSE hc_post(u, 2 * l) \o hc_pre(u, 2 * l + 1))
    \o mlp(c, u, l)
    \o When(c.scheme # "fused", hc_post(u, 2 * l + 1))
layer_forward(c, u, l) ==
  attention_half(c, u, l) \o ffn_half(c, u, l)
    \o Drop({H(u, 2 * l), B("attn_out", u, l)} \cup Mix(u, 2 * l))

\* The coefficients of sublayer k, on the statistics stream when there is one;
\* the input is collapsed with those of the sublayer before.
combine_and_norm(u, k) ==
  Kernel("main", {H(u, k)} \cup (IF k = 0 THEN {} ELSE {B("pre", u, k - 1)}), {Input(u, k)})
hc_mix_and_combine(c, u, k) ==
  LET stream == IF c.stats THEN "stats" ELSE "main"
      coefficients == {B("pre", u, k)} \cup Mix(u, k)
      early == c.stats /\ c.small
  IN When(early, combine_and_norm(u, k))
       \o When(c.stats, Wait("stats", "main") \o RecordStream(H(u, k), "stats"))
       \o Kernel(stream, {H(u, k)}, coefficients)
       \o When(c.stats, RecordStream(B("pre", u, k), "main")
                          \o RecordStream(B("post", u, k), "main")
                          \o RecordStream(B("comb", u, k), "main"))
       \o When(~early, combine_and_norm(u, k))

forward_hc_pre_from_prev(c, u, l) ==
  hc_mix_and_combine(c, u, 2 * l)
    \o self_attn(c, u, l)
    \o When(c.stats, Wait("main", "stats"))
    \o hc_post(u, 2 * l)
    \o hc_mix_and_combine(c, u, 2 * l + 1)
    \o mlp(c, u, l)
    \o When(c.stats, Wait("main", "stats"))
    \o hc_post(u, 2 * l + 1)
    \o Drop({H(u, 2 * l), H(u, 2 * l + 1), B("attn_out", u, l), B("ffn_out", u, l),
              B("pre", u, 2 * l), B("pre", u, 2 * l - 1)} \cup Mix(u, 2 * l) \cup Mix(u, 2 * l + 1))

-----------------------------------------------------------------------------
(* DeepseekV4Model.  Layer 1 stands for the prefetched layer 14.           *)

\* One lookup of a layer's rows through its own pinned staging.
Staging(l) == B("staging", 0, l)
engram_project(s, u, l) ==
  Kernel(s, {B("hash_ids", u, 0)}, {Staging(l)}) \o Kernel(s, {Staging(l)}, {B("engram_kv", u, l)})

Prefetches(c) == c.prefetch /\ c.mode = "decode"
prefetch_engram(c, u) ==
  Kernel("main", {B("ids", u, 0)}, {B("hash_ids", u, 0)})
    \o When(Prefetches(c),
            Wait("prefetch", "main") \o engram_project("prefetch", u, 1)
              \o RecordStream(B("hash_ids", u, 0), "prefetch"))
apply_engram(c, u, l) ==
  (IF l = 1 /\ Prefetches(c)
   THEN Wait("main", "prefetch") \o RecordStream(B("engram_kv", u, l), "main")
   ELSE engram_project("main", u, l))
    \o Kernel("main", {H(u, 2 * l), B("engram_kv", u, l)}, {H(u, 2 * l)})
    \o Drop({B("engram_kv", u, l)})

forward_layers_hc_pre_from_prev(c, u) ==
  LET Layer(l) == apply_engram(c, u, l)
                    \o When(c.aux, Kernel("main", {H(u, 2 * l)}, {B("aux", u, l)}))
                    \o forward_hc_pre_from_prev(c, u, l)
  IN prefetch_engram(c, u) \o Layer(0) \o Layer(1)
       \o Drop({B("hash_ids", u, 0)})
       \o Kernel("main", {H(u, 4), B("pre", u, 3)}, {B("out", u, 0)})

forward_layers(c, u) ==
  layer_forward(c, u, 0) \o layer_forward(c, u, 1)
    \o When(c.scheme = "fused", hc_post(u, 3))
    \o Kernel("main", {H(u, 4)}, {B("out", u, 0)})

-----------------------------------------------------------------------------
(* Two-batch overlap: each micro-batch is a sequence of stages, and the    *)
(* two are issued alternately, the second delta stages behind the first.   *)
(* Collectives run on one comm stream; their buffers are kept from layer   *)
(* to layer, one of each kind per micro-batch.                             *)

Event(kind, u) ==
  [gather |-> <<"gather0", "gather1">>, combine |-> <<"combine0", "combine1">>][kind][u + 1]
Scratch(kind, u) == B(kind, u, 0)

op_prepare_attn(u, l) == hc_pre(u, 2 * l)
op_attn(c, u, l) == self_attn(c, u, l)
op_post_attn_pre_mlp(c, u, l) ==
  (IF c.scheme = "fused" THEN post_pre(u, 2 * l + 1)
   ELSE hc_post(u, 2 * l) \o hc_pre(u, 2 * l + 1))
    \o Drop({H(u, 2 * l), B("attn_out", u, l)} \cup Mix(u, 2 * l))

\* A collective on the comm stream, after all that was computed so far.
launch(u, from, to, event) ==
  Wait("comm", "main") \o Kernel("comm", {from}, {to}) \o Record("comm", event)

\* Mutant: nothing keeps the input of the gather alive.
op_gather_a_NoKeepalive(c, u, l) ==
  When(c.shared, Kernel("main", {B("y", u, l)}, {B("shared", u, l)}))
    \o launch(u, B("y", u, l), Scratch("gathered", u), Event("gather", u))
    \o Drop({B("y", u, l)})
op_gather_a(c, u, l) ==
  When(c.shared, Kernel("main", {B("y", u, l)}, {B("shared", u, l)}))
    \o launch(u, B("y", u, l), Scratch("gathered", u), Event("gather", u))
op_gather_b(u, l) == WaitEvent("main", Event("gather", u)) \o Drop({B("y", u, l)})
op_moe(u, l) ==
  Kernel("main", {Scratch("gathered", u), B("global_ids", u, 0)}, {B("expert_out", u, l)})
op_combine_a(u, l) ==
  launch(u, B("expert_out", u, l), Scratch("combined", u), Event("combine", u))
op_combine_b(c, u, l) ==
  WaitEvent("main", Event("combine", u)) \o Drop({B("expert_out", u, l)})
    \o Kernel("main", {Scratch("combined", u)} \cup (IF c.shared THEN {B("shared", u, l)} ELSE {}),
              {B("ffn_out", u, l)})
op_postprocess(u, l) ==
  hc_post(u, 2 * l + 1)
    \o Drop({B("ffn_out", u, l), B("shared", u, l), H(u, 2 * l + 1)} \cup Mix(u, 2 * l + 1))

\* External: where the operations of a layer yield to the other micro-batch.
Attending(c, u, l) ==
  op_prepare_attn(u, l) \o op_attn(c, u, l) \o op_post_attn_pre_mlp(c, u, l) \o op_gather_a(c, u, l)
Experts(u, l) == op_gather_b(u, l) \o op_moe(u, l) \o op_combine_a(u, l)
Closing(c, u, l) == op_combine_b(c, u, l) \o op_postprocess(u, l)
Stages(c, u) ==
  <<Attending(c, u, 0), Experts(u, 0), Closing(c, u, 0) \o Attending(c, u, 1),
    Experts(u, 1), Closing(c, u, 1)>>

Alternate(a, b, delta) ==
  LET At(x, i) == IF i \in DOMAIN x THEN x[i] ELSE <<>>
  IN FlattenSeq([i \in 1 .. Len(a) + delta |-> At(a, i) \o At(b, i - delta)])

\* Ids are gathered once per micro-batch, before its first stage; under CP each
\* child's rows are split, and gathered again at the end.
forward_layers_tbo(c) ==
  LET Gather(u) == Kernel("main", {B("ids", u, 0)}, {B("global_ids", u, 0)})
      Split(u) == Kernel("main", {B("embedded", 0, 0)}, {H(u, 0)})
      Result(u) == B(IF c.cp THEN "gathered_out" ELSE "h", u, IF c.cp THEN 0 ELSE 4)
      Rejoin(u) == When(c.cp, Kernel("main", {H(u, 4)}, {Result(u)}))
  IN Split(0) \o Gather(0) \o Split(1) \o Gather(1)
       \o Alternate(Stages(c, 0), Stages(c, 1), c.delta)
       \o Rejoin(0) \o Rejoin(1)
       \o Kernel("main", {Result(0), Result(1)}, {B("out", 0, 0)})

\* TBO wants a prefill without speculation and no DSpark capture.
forward(c) ==
  LET embed == Kernel("main", {B("ids", 0, 0)}, {IF c.tbo THEN B("embedded", 0, 0) ELSE H(0, 0)})
      layers == IF c.scheme = "prev" THEN forward_layers_hc_pre_from_prev(c, 0)
                ELSE IF c.tbo /\ c.mode = "extend" /\ ~c.aux THEN forward_layers_tbo(c)
                ELSE forward_layers(c, 0)
      gather == When(c.cp /\ ~c.tbo, Kernel("main", {B("out", 0, 0)}, {B("gathered_out", 0, 0)}))
  IN embed \o layers \o gather

\* The rows of the step are in the window of each layer, once and, under CP,
\* those of all ranks.
Windows(p) == {b \in Buffers(p) : b[1] = "window"}
Writers(p, b) == {i \in Kernels(p) : b \in p[i].out}

\* fused_qk_norm_rope_swa_store: the kernel that makes the query stores as well.
StoresItsOwn(p, i) == {"q", "window"} \subseteq {b[1] : b \in p[i].out}

-----------------------------------------------------------------------------
\* From which tasks a chain of waits leads to each task of p.
Link(p, chain, j) ==
  IF j \in Tasks(p)
    THEN chain @@ (j :> Waits(p, j) \cup UNION {chain[k] : k \in Waits(p, j)})
    ELSE chain
Behind(p) == FoldLeft(LAMBDA chain, j : Link(p, chain, j), <<>>, [j \in DOMAIN p |-> j])

\* Every forward follows the rules of StreamOrder for conflicts, for memory and
\* for the end of the main stream: the joins, events and record_stream calls
\* of the multi-stream paths put each conflicting pair, each user of a dropped
\* tensor and each side stream behind one another.  A program is judged once, when
\* its forward is over.
Disciplined == done = Tasks(prog) =>
  LET chain == Behind(prog) IN
  /\ Chains(prog, chain) /\ Ordered(prog, chain)
  /\ Kept(prog, chain) /\ Joined(prog, chain)

\* Attention of a layer finds the window rows of the step in the cache or is
\* handed them, and when the forward is over every window has been written
\* exactly once: the fused kernels, the inline stores and save_kv_cache divide
\* the store among them.  Under context parallelism the rows stored are those
\* gathered from all ranks, except by the fused kernel outside of the unified
\* pool: it stores the rank's own rows, and then nothing reads what is gathered.
StoredOnce ==
  /\ done = Tasks(prog) => \A b \in Windows(prog) : Cardinality(Writers(prog, b)) = 1
  /\ (\E i \in Kernels(prog) : \E b \in prog[i].out : b[1] = "kv_global") =>
       \A i \in done : \A b \in prog[i].out : b[1] = "window" =>
         LET rows == B("kv_global", b[2], b[3]) IN
         IF StoresItsOwn(prog, i) THEN \A j \in Kernels(prog) : rows \notin prog[j].in
         ELSE rows \in prog[i].in
=============================================================================
