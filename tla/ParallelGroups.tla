--------------------------- MODULE ParallelGroups ---------------------------
(***************************************************************************)
(* Who talks to whom: the process groups that initialize_model_parallel of *)
(* distributed/parallel_state.py builds for a layout c,                    *)
(*   [tp, pp, ep, mdp, dp, cp, dcp, ...]                                   *)
(* in the order in which it builds them.  A group partitions the ranks;    *)
(* where two kinds of group have the same ranks the code keeps one         *)
(* coordinator for both.                                                   *)
(***************************************************************************)
EXTENDS Integers, Sequences

CONSTANT World        \* number of ranks, 0 .. World - 1

Ranks == 0 .. World - 1

\* initialize_model_parallel checks the number of ranks and dcp; that the other widths
\* divide tp is the caller's to see to.
Layout(c) ==
  /\ {c.tp, c.pp, c.ep, c.mdp, c.dp, c.cp, c.dcp} \subseteq Nat \ {0}
  /\ World = c.tp * c.pp /\ c.tp % c.dcp = 0
  /\ c.tp % (c.cp * c.dp) = 0 /\ c.tp % (c.ep * c.mdp) = 0

\* derive_parallel_widths: what tensor parallelism is left beside the rest.
AttnTp(c) == c.tp \div (c.cp * c.dp)
MoeTp(c) == c.tp \div (c.ep * c.mdp)

\* range(first, first + count * step, step)
Stride(first, count, step) == [k \in 1 .. count |-> first + (k - 1) * step]

\* One list of ranks for each k below n.
Lists(n, Members(_)) == [k \in 1 .. n |-> Members(k - 1)]

TpLists(c) == Lists(c.pp, LAMBDA k : Stride(k * c.tp, c.tp, 1))
DcpLists(c) == Lists(World \div c.dcp, LAMBDA k : Stride(k * c.dcp, c.dcp, 1))

\* Loops over the TP groups, the attention replicas and the attention TP ranks.
AttnCpLists(c) ==
  LET t == AttnTp(c) IN
  Lists(c.pp * c.dp * t, LAMBDA k :
    Stride((k \div (t * c.dp)) * c.tp + ((k \div t) % c.dp) * t * c.cp + (k % t), c.cp, t))

\* The second communicator over the same ranks is laid out on its own.
AttnCpOverlapLists(c) ==
  LET t == AttnTp(c) IN
  Lists(World \div c.cp, LAMBDA k : Stride((k \div t) * t * c.cp + (k % t), c.cp, t))

AttnTpLists(c) ==
  Lists(World \div AttnTp(c), LAMBDA k : Stride(k * AttnTp(c), AttnTp(c), 1))

MoeDpLists(c) ==
  LET step == MoeTp(c) * c.ep IN
  Lists(c.pp * step, LAMBDA k : Stride((k \div step) * c.tp + (k % step), c.mdp, step))

MoeEpLists(c) ==
  LET t == MoeTp(c) IN
  Lists(c.pp * c.mdp * t, LAMBDA k :
    Stride((k \div (t * c.mdp)) * c.tp + ((k \div t) % c.mdp) * c.ep * t + (k % t), c.ep, t))

MoeTpLists(c) ==
  Lists(World \div MoeTp(c), LAMBDA k : Stride(k * MoeTp(c), MoeTp(c), 1))

PpLists(c) == Lists(World \div c.pp, LAMBDA k : Stride(k, c.pp, World \div c.pp))
SelfPpLists == Lists(World, LAMBDA k : <<k>>)

-----------------------------------------------------------------------------
\* Which coordinator serves each kind of group: a group over all ranks of TP is TP,
\* and context-parallel ranks that share their tokens before MoE are its MOE_DP.
AttnCp(c) == IF c.cp = c.tp THEN "tp" ELSE "attn_cp"
Backing(c) ==
  [tp |-> "tp", attn_cp |-> AttnCp(c), pp |-> "pp",
   attn_tp |-> IF AttnTp(c) = c.tp THEN "tp" ELSE "attention_tp",
   moe_dp |-> IF c.cp > c.mdp THEN AttnCp(c) ELSE IF c.mdp = c.tp THEN "tp" ELSE "moe_dp",
   moe_ep |-> IF c.ep = c.tp THEN "tp" ELSE "moe_ep",
   moe_tp |-> IF MoeTp(c) = c.tp THEN "tp" ELSE "moe_tp"]

NameOf(c, kind) == IF kind \in DOMAIN Backing(c) THEN Backing(c)[kind] ELSE kind

\* A coordinator: its lists of ranks, and the communicators it may have.
Coordinator(name, lists, pynccl, custom, mq) ==
  [name |-> name, lists |-> lists, pynccl |-> pynccl, custom |-> custom, mq |-> mq]

Only(condition, list) == IF condition THEN list ELSE << >>

\* The coordinators in the order of their creation.
Coordinators(c) ==
  LET new(name) == name \in {Backing(c)[k] : k \in DOMAIN Backing(c)} IN
  <<Coordinator("world", <<Stride(0, World, 1)>>, FALSE, FALSE, FALSE),
    Coordinator("tp", TpLists(c), TRUE, TRUE, c.mq)>>
  \o Only(c.pdmux, <<Coordinator("pdmux_prefill_tp", TpLists(c), TRUE, TRUE, c.mq)>>)
  \o Only(c.dcp > 1, <<Coordinator("dcp", DcpLists(c), TRUE, TRUE, c.mq)>>)
  \o Only(new("attn_cp"), <<Coordinator("attn_cp", AttnCpLists(c), TRUE, TRUE, c.mq)>>)
  \o Only(c.overlap /\ c.cp > 1,
          <<Coordinator("attn_cp_overlap", AttnCpOverlapLists(c), TRUE, TRUE, FALSE)>>)
  \o Only(new("attention_tp"),
          <<Coordinator("attention_tp", AttnTpLists(c), c.symm, FALSE, c.mq)>>)
  \o Only(new("moe_dp"), <<Coordinator("moe_dp", MoeDpLists(c), TRUE, TRUE, FALSE)>>)
  \o Only(new("moe_ep"), <<Coordinator("moe_ep", MoeEpLists(c), FALSE, FALSE, FALSE)>>)
  \o Only(new("moe_tp"), <<Coordinator("moe_tp", MoeTpLists(c), FALSE, FALSE, FALSE)>>)
  \o <<Coordinator("pp", PpLists(c), TRUE, FALSE, FALSE),
       Coordinator("self_pp", SelfPpLists, TRUE, FALSE, FALSE)>>

\* The groups that are captured with a graph, each of them once.
Capturing(c) == {Backing(c)[k] : k \in {"tp", "pp", "attn_tp", "moe_ep", "moe_tp"}}
                \cup (IF c.dcp > 1 THEN {"dcp"} ELSE {})

\* Which coordinators own a FlashInfer workspace, and over whose ranks it was set up.
\* Attention is tagged last: a coordinator that backs both is tagged for attention.
MoeGroup(c) == IF c.ep > 1 THEN "moe_ep" ELSE "moe_tp"
Hint(c, name) == IF name = Backing(c).attn_tp THEN "attn_tp"
                 ELSE IF name = Backing(c)[MoeGroup(c)] THEN MoeGroup(c) ELSE "no"

-----------------------------------------------------------------------------
(***************************************************************************)
(* What the groups are meant to be: the ranks that agree with a rank on    *)
(* every coordinate but the group's own.                                   *)
(***************************************************************************)
Place(c, r) ==
  LET i == r % c.tp  t == AttnTp(c)  m == MoeTp(c) IN
  [stage |-> r \div c.tp, i |-> i,
   dp |-> i \div (t * c.cp), cp |-> (i \div t) % c.cp, t |-> i % t,
   mdp |-> i \div (m * c.ep), ep |-> (i \div m) % c.ep, m |-> i % m]

Alike(c, r, coordinates) ==
  {s \in Ranks : \A k \in coordinates : Place(c, s)[k] = Place(c, r)[k]}

Meant(c, r) ==
  LET cp == Alike(c, r, {"stage", "dp", "t"}) IN
  [tp |-> Alike(c, r, {"stage"}), pp |-> Alike(c, r, {"i"}),
   attn_cp |-> cp, attn_cp_overlap |-> cp, attn_tp |-> Alike(c, r, {"stage", "dp", "cp"}),
   moe_dp |-> IF c.cp > c.mdp THEN cp ELSE Alike(c, r, {"stage", "ep", "m"}),
   moe_ep |-> Alike(c, r, {"stage", "mdp", "m"}),
   moe_tp |-> Alike(c, r, {"stage", "mdp", "ep"})]
=============================================================================
