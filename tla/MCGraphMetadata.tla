--------------------------- MODULE MCGraphMetadata ---------------------------
(* Instances of GraphMetadata: the deployments whose forwards are explored *)
EXTENDS GraphMetadata

Base == [model |-> "V41", arch |-> "sm120", kinds |-> {}, role |-> "target", spec |-> "dspark",
         bounded |-> FALSE, cp |-> 1, rank |-> 0, lens |-> <<1, 3>>, online |-> FALSE,
         snapshot |-> FALSE, sparse |-> FALSE]

V41Serving == [Base EXCEPT !.kinds = {"decode", "idle", "verify", "verify_idle", "prefill"}, !.bounded = TRUE]
V41Single == [V41Serving EXCEPT !.kinds = {"prefill"}, !.lens = <<4>>]
V41Sparse == [Base EXCEPT !.arch = "sm100", !.kinds = {"prefill", "pgraph"}, !.sparse = TRUE]
V41Hopper == [V41Sparse EXCEPT !.arch = "sm90"]
V41Ranks == {[Base EXCEPT !.kinds = {"prefill"}, !.bounded = TRUE, !.cp = 2, !.rank = r, !.lens = l] :
                r \in 0 .. 1, l \in {<<1, 3>>, <<3, 4>>, <<5>>}}
V4Serving == {[Base EXCEPT !.model = "V4", !.arch = a, !.online = o, !.spec = s,
                           !.kinds = {"decode", "idle", "verify", "verify_idle", "prefill"}, !.snapshot = (s = "dspark"),
                           !.sparse = TRUE] : a \in {"sm100", "sm120"}, o \in BOOLEAN, s \in {"dspark", "eagle"}}
V4Breakable == [Base EXCEPT !.model = "V4", !.arch = "sm100", !.kinds = {"prefill", "pgraph"}, !.sparse = TRUE]
Drafts == {[Base EXCEPT !.model = "V4", !.arch = "sm100", !.role = "draft", !.kinds = {"block"}],
           [Base EXCEPT !.model = "V4", !.arch = "sm100", !.role = "draft", !.spec = "eagle", !.kinds = {"dextend"}]}

MCConfigs == {V41Serving, V41Single, V41Sparse, V41Hopper, V4Breakable} \cup V41Ranks \cup V4Serving \cup Drafts
LateReads == {[Base EXCEPT !.kinds = {"prefill"}, !.snapshot = TRUE]}
=============================================================================
