---------------------------- MODULE MCModelStreams ----------------------------
(* The forwards that are checked: two layers, every way to prepare attention,    *)
(* and the two micro-batches of an overlapped prefill.                           *)
EXTENDS ModelStreams

Base == [ratio |-> 4, fuse |-> TRUE, pad |-> TRUE, v41 |-> FALSE, bf16 |-> FALSE, cp |-> FALSE,
         tbo |-> FALSE, mode |-> "decode", early |-> FALSE, unified |-> FALSE, fused_qk |-> FALSE,
         fuse_verify |-> FALSE, multi |-> "no", index |-> {0}, scheme |-> "layer", stats |-> FALSE,
         small |-> FALSE, prefetch |-> FALSE, aux |-> FALSE, shared |-> FALSE, delta |-> 0]
V41 == [Base EXCEPT !.ratio = 2, !.v41 = TRUE, !.early = TRUE, !.scheme = "prev", !.stats = TRUE,
                    !.prefetch = TRUE, !.aux = TRUE]
Hip == [Base EXCEPT !.pad = FALSE, !.mode = "extend"]
Overlap == [Base EXCEPT !.tbo = TRUE, !.mode = "extend"]

Captured == {
  [Base EXCEPT !.multi = "cuda"],
  [Base EXCEPT !.multi = "cuda", !.fuse = FALSE, !.bf16 = TRUE, !.scheme = "fused"],
  [Base EXCEPT !.multi = "cuda", !.ratio = 0, !.pad = FALSE],
  [V41 EXCEPT !.multi = "cuda", !.ratio = 0, !.prefetch = FALSE],
  [Base EXCEPT !.multi = "npu", !.v41 = TRUE],
  [Base EXCEPT !.multi = "npu", !.pad = FALSE, !.ratio = 128, !.fuse = FALSE]}

LowRatios == {
  V41,
  [V41 EXCEPT !.small = TRUE, !.index = {0, 1}, !.prefetch = FALSE],
  [V41 EXCEPT !.mode = "verify", !.ratio = 1, !.index = {0, 1}],
  [V41 EXCEPT !.mode = "extend", !.cp = TRUE, !.stats = FALSE]}

\* Every way to make and store kv on one stream, and the two schemes of layers.
OneStream ==
  {[Hip EXCEPT !.mode = mode, !.unified = unified, !.fused_qk = fused, !.fuse_verify = verify,
               !.bf16 = bf16, !.cp = cp, !.scheme = IF mode = "decode" THEN "fused" ELSE "layer"] :
     mode \in {"decode", "verify", "extend"}, unified \in BOOLEAN, fused \in BOOLEAN,
     verify \in BOOLEAN, bf16 \in BOOLEAN, cp \in BOOLEAN}

Overlapped == {
  [Overlap EXCEPT !.shared = TRUE],
  [Overlap EXCEPT !.delta = 1, !.scheme = "fused"],
  [Overlap EXCEPT !.delta = 2, !.pad = FALSE, !.unified = TRUE, !.cp = TRUE],
  [Overlap EXCEPT !.pad = FALSE, !.fused_qk = TRUE, !.cp = TRUE]}

\* Context parallelism is of prefills.
MCPrograms ==
  {forward(c) : c \in {c \in Captured \cup LowRatios \cup OneStream \cup Overlapped :
                      c.cp => c.mode = "extend"}}

MCPersistent == {"window", "latents", "index_keys", "topk", "staging", "q_pad_buffer",
                 "kv_gathered", "gathered", "combined"}
===============================================================================
