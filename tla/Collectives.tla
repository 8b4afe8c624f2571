----------------------------- MODULE Collectives -----------------------------
(***************************************************************************)
(* The ranks of one deployment, each running its own program: they build   *)
(* the coordinators of ParallelGroups, then run forward passes, in which   *)
(* attention and MoE are sharded over them and meet in collectives.  A     *)
(* collective happens when every rank of the communicator has entered the  *)
(* same one, by the same route; a rank that has entered waits.             *)
(*                                                                         *)
(* Sources: distributed/parallel_state.py (GroupCoordinator),              *)
(* device_communicators/pynccl.py, _run_moe_ffn_dp_sync of                 *)
(* models/deepseek_v4.py.  The experts, the transport and the padding of   *)
(* data-parallel batches are modelled from how they are used there.        *)
(***************************************************************************)
EXTENDS ParallelGroups, FiniteSets, SequencesExt

CONSTANTS Layouts,      \* the deployments c to check, see ParallelGroups and below
          RoceRows,     \* rows that an all-reduce over RoCE takes (max_size)
          AccelRows,    \* rows that the other fast all-reduces take
          HiddenWidth   \* elements of a row of hidden states

\* A layout also says how the ranks serve: c.mode is "eager", "graph", "compile" or
\* "piecewise", c.accel the fast all-reduce in use, c.roce whether the TP group has one
\* over RoCE, c.a2a whether experts are reached by all-to-all, c.pad how data-parallel
\* batches are padded, c.gatherv, c.scatter and c.shared the switches of the MoE
\* exchange, c.slices and c.async how stages pass tensors on, c.counts the tokens of
\* each data-parallel replica and c.passes the number of forward passes.

\* The collectives by sizes assert one size for each rank of TP, and have one for each replica.
ASSUME CollectivesAssumption ==
  /\ World \in Nat /\ HiddenWidth \in Nat \ {0}
  /\ \A c \in Layouts :
       /\ Layout(c) /\ c.passes \in Nat /\ c.counts \in [1 .. c.dp -> Nat]
       /\ c.gatherv => c.dp = c.tp

VARIABLES conf,      \* the layout
          group,     \* rank -> name of coordinator -> its ranks
          todo,      \* rank -> the steps it has still to take
          waits,     \* rank -> the collective it has entered
          buf,       \* rank -> the rows of hidden states "x" and of token ids "ids"
          kept,      \* rank -> the output of the shared experts for its own rows
          wire,      \* sender -> receiver -> what is under way, by the CPU and the device group
          sent,      \* rank -> the tensors it has sent to the next stage
          received,  \* rank -> the tensors it has received from the last one
          poisoned,  \* ranks whose RoCE transport has failed
          raised,    \* ranks that have stopped with an error
          results    \* rank -> the passes whose results it has released
vars == <<conf, group, todo, waits, buf, kept, wire, sent, received, poisoned, raised, results>>

data == <<buf, kept>>
links == <<wire, sent, received>>
health == <<poisoned, raised>>

-----------------------------------------------------------------------------
(* Rows.  A row is the bag of contributions it is the sum of; a contribution is
   <<token, kind, shard>>.  Padding adds nothing. *)

Atom(t, kind, shard) == SetToBag({<<t, kind, shard>>})
Pad == EmptyBag
Unit(t) == Atom(t, "hidden", 0)
Bad == Unit(-1)

TokenOf(row) == (CHOOSE atom \in DOMAIN row : TRUE)[1]

\* What shard i of a sharded layer makes of a row: nonsense from nonsense.
Partial(row, kind, i) ==
  IF row = Pad THEN Pad
  ELSE IF row = Unit(TokenOf(row)) THEN Atom(TokenOf(row), kind, i) ELSE Bad

\* A row that is the sum of exactly one contribution of each shard is the layer's output.
Whole(t, kind, shards) == SetToBag({<<t, kind, i>> : i \in shards})
Folded(row, kind, shards) ==
  IF row = Pad THEN Pad
  ELSE IF row = Whole(TokenOf(row), kind, shards) THEN Unit(TokenOf(row)) ELSE Bad

Each(rows, F(_)) == [k \in DOMAIN rows |-> F(rows[k])]
Add(a, b) == [k \in DOMAIN a |-> a[k] (+) b[k]]
SumOver(list, on) ==
  [k \in DOMAIN buf[list[1]][on] |->
     FoldLeft(LAMBDA total, r : total (+) buf[r][on][k], Pad, list)]
JoinOver(list, on) == FlattenSeq([i \in DOMAIN list |-> buf[list[i]][on]])
Start(sizes, i) ==
  LET sum[k \in 0 .. Len(sizes)] == IF k = 0 THEN 0 ELSE sum[k - 1] + sizes[k] IN sum[i - 1]
Chunk(rows, sizes, i) == [k \in 1 .. sizes[i] |-> rows[Start(sizes, i) + k]]

\* tensor.tensor_split(n): the first chunks take the remainder.
SplitSizes(size, n) ==
  [i \in 1 .. n |-> size \div n + (IF i <= size % n THEN 1 ELSE 0)]
Equal(size, n) == [i \in 1 .. n |-> size \div n]

-----------------------------------------------------------------------------
(* The layout as a rank sees it. *)

Kind(r, kind) == group[r][Backing(conf)[kind]]
IndexOf(list, r) == CHOOSE i \in DOMAIN list : list[i] = r
InGroup(r, kind) == IndexOf(Kind(r, kind), r)
FirstStage(r) == r < conf.tp
LastStage(r) == r >= World - conf.tp
Replica(r) == Place(conf, r).dp
UseCp == conf.cp > 1
MoeGather == ~UseCp /\ conf.dp > 1 /\ ~conf.a2a                \* _use_tp_moe_gather
AttnScatter == ~UseCp /\ AttnTp(conf) > 1 /\ conf.a2a          \* _use_tp_attn_a2a_scatter
ReduceScatterV == MoeGather /\ conf.gatherv /\ conf.pad # "max"
\* should_use_dp_reduce_scatterv: experts and replicas over the same ranks.
DpReduceScatterV == ~conf.a2a /\ conf.dp > 1 /\ conf.tp = conf.dp /\ conf.ep = conf.dp
ReduceScatter == /\ conf.scatter /\ MoeGather /\ ~ReduceScatterV /\ ~DpReduceScatterV
                 /\ conf.pad = "max" /\ conf.tp = conf.dp

\* Mutant: the MoE is not told of the equal-chunk reduce-scatter.
MlpReduceScatter_Forgotten == UseCp \/ ReduceScatterV
MlpReduceScatter == UseCp \/ ReduceScatterV \/ ReduceScatter   \* mlp_reduce_scatter
\* The MoE leaves its sum out when told to, and when it sees for itself that the combine
\* sums (should_skip_post_experts_all_reduce).
SumLeftOut == MlpReduceScatter \/ DpReduceScatterV
SharedLocal == conf.shared /\ MoeGather

\* Rows of each replica in the gathered buffer: its tokens, or all padded alike.
MaxRows == LET most == CHOOSE n \in ToSet(conf.counts) : \A m \in ToSet(conf.counts) : m <= n
           IN ((most + AttnTp(conf) - 1) \div AttnTp(conf)) * AttnTp(conf)
RowsOf(d) == IF MoeGather /\ conf.pad = "max" THEN MaxRows ELSE conf.counts[d + 1]
AllRows == [d \in 1 .. conf.dp |-> RowsOf(d - 1)]

\* The tokens of a rank in pass p, those of all ranks or its round-robin share of them.
Own(r, p) == [k \in 1 .. RowsOf(Replica(r)) |->
                IF k <= conf.counts[Replica(r) + 1] THEN 100 * p + 10 * Replica(r) + k ELSE 0]
Share(r, rows) == [k \in 1 .. Len(rows) \div conf.cp |->
                     rows[(k - 1) * conf.cp + Place(conf, r).cp + 1]]
AsRows(tokens, kind) == Each(tokens, LAMBDA t : IF t = 0 THEN Pad ELSE Atom(t, kind, 0))

-----------------------------------------------------------------------------
(* Which communicator an all-reduce takes. *)

CoordinatorOf(c, name) == CHOOSE k \in ToSet(Coordinators(c)) : k.name = name

\* What was set up beside torch.distributed for a coordinator of more than one rank.
Has(c, name, accel) ==
  /\ c.accel = accel
  /\ CASE accel = "custom" -> CoordinatorOf(c, name).custom
       [] accel = "torch_symm_mem" -> name # "attention_tp"
       [] accel = "flashinfer" -> Hint(c, name) # "no"
       [] OTHER -> TRUE
Fast(c, name, size) == {a \in {"custom", "pymscclpp", "torch_symm_mem"} :
                          Has(c, name, a) /\ size <= AccelRows}

HasPynccl(c, name) == CoordinatorOf(c, name).pynccl
\* PyNCCL is disabled outside graph capture, except for prefill multiplexing.
PyncclOn(c, name) == HasPynccl(c, name) /\ ( \/ c.mode = "graph" /\ name \in Capturing(c)
                                             \/ c.pdmux /\ name \in {"tp", "pdmux_prefill_tp"} )

HasRoce(c, name) == c.roce /\ name = "tp"
PyncclRoute(c, name, size) == IF HasRoce(c, name) /\ size <= RoceRows THEN "roce" ELSE "nccl"

InPlaceRoute(c, name, size) ==
  IF PyncclOn(c, name) THEN PyncclRoute(c, name, size)
  ELSE IF "torch_symm_mem" \in Fast(c, name, size) THEN "torch_symm_mem" ELSE "device"

\* _resolve_outplace_all_reduce_method: a method, or "none".
Method(c, name, size) ==
  IF Fast(c, name, size) # {} THEN CHOOSE a \in Fast(c, name, size) : TRUE
  ELSE IF c.mode = "piecewise" /\ HasPynccl(c, name) THEN "pynccl" ELSE "none"

Route(c, name, size) ==
  LET flashinfer == Has(c, name, "flashinfer") /\ size <= AccelRows
      method == Method(c, name, size)
      taken == IF method = "pynccl" THEN PyncclRoute(c, name, size) ELSE method
  IN IF c.mode = "compile"
     THEN IF flashinfer THEN "flashinfer"
          ELSE IF method # "none" THEN taken
          ELSE IF HasPynccl(c, name) THEN PyncclRoute(c, name, size)
          ELSE InPlaceRoute(c, name, size)
     ELSE IF HasPynccl(c, name) /\ c.symm /\ Fast(c, name, size) \subseteq {"torch_symm_mem"}
          THEN PyncclRoute(c, name, size)
          ELSE IF flashinfer THEN "flashinfer"
          ELSE IF method # "none" THEN taken ELSE InPlaceRoute(c, name, size)

\* The other collectives prefer PyNCCL when it is enabled or memory is symmetric.
TensorRoute(c, name) ==
  IF HasPynccl(c, name) /\ (PyncclOn(c, name) \/ c.symm) THEN "nccl" ELSE "device"

-----------------------------------------------------------------------------
(* The program of a rank. *)

Step(do, on, arg) == [do |-> do, on |-> on, arg |-> arg]
Idle == Step("idle", "", << >>)
Unused == [cpu |-> << >>, device |-> << >>]     \* nothing under way

\* What the ranks of a group set up over its CPU group.
Communicators(k, list) ==
  Only(Len(list) > 1,
    Only(k.pynccl, <<Step("unique_id", k.name, list), Step("warm_up", k.name, list)>>
                   \o Only(HasRoce(conf, k.name), <<Step("roce_exchange", k.name, list)>>))
    \o Only(conf.accel \notin {"none", "flashinfer"} /\ Has(conf, k.name, conf.accel),
            <<Step("handles", k.name, list)>>)
    \o Only(k.mq, <<Step("queue", k.name, list)>>))
MyList(k, r) == CHOOSE list \in ToSet(k.lists) : r \in ToSet(list)

\* Mutant: a rank creates only the groups it is in.
SetupOf_OwnOnly(k, r) ==
  <<Step("new_group", k.name, MyList(k, r))>> \o Communicators(k, MyList(k, r))

\* GroupCoordinator.__init__: every rank creates every group, its own or not.
SetupOf(k, r) ==
  [i \in DOMAIN k.lists |-> Step("new_group", k.name, k.lists[i])]
  \o Communicators(k, MyList(k, r))
Setup(r) ==
  LET all == Coordinators(conf) IN FlattenSeq([i \in DOMAIN all |-> SetupOf(all[i], r)])

\* dp_gather_replicate, for hidden states and for token ids.
DpGather(on) ==
  IF conf.gatherv /\ conf.pad # "max" THEN <<Step("gatherv", on, << >>)>>
  ELSE IF conf.pad # "max" THEN <<Step("place", on, << >>)>>
  ELSE Only(AttnTp(conf) > 1, <<Step("zero_scatter", on, << >>)>>) \o <<Step("gather", on, << >>)>>

\* One layer per stage: forward, its exchange before and after the experts.
Forward(r, p) ==
  (IF FirstStage(r) THEN <<Step("embed", "x", <<p>>)>>
   ELSE <<Step("recv", "x", <<p>>), Step("unpack", "x", <<p>>)>>)
  \o <<Step("attend", "x", << >>)>>
  \o Only(MoeGather, DpGather("ids") \o <<Step("shared", "x", << >>)>> \o DpGather("x"))
  \o Only(UseCp /\ ~conf.a2a, <<Step("cp_gather", "x", << >>)>>)
  \o Only(AttnScatter, <<Step("split", "x", << >>)>>)
  \o <<Step("experts", "x", << >>)>>
  \o Only(UseCp /\ ~conf.a2a, <<Step("cp_reduce_scatter", "x", << >>)>>)
  \o Only(MoeGather, <<Step("combine", "x", << >>), Step("add_shared", "x", << >>)>>)
  \o Only(AttnScatter, <<Step("gather_split", "x", << >>)>>)
  \o Only(LastStage(r) /\ UseCp, <<Step("cp_output", "x", << >>)>>)
  \o Only(~LastStage(r), <<Step("send", "x", <<p>>)>>)
  \o Only(LastStage(r), <<Step("release", "x", <<p>>)>>)
  \o Only(LastStage(r) /\ conf.pp > 1, <<Step("send", "ids", <<p>>)>>)

\* The first stage takes the sampled tokens back; with asynchronous sends it first lets
\* every batch go.
Program(r) ==
  LET back == Only(FirstStage(r) /\ conf.pp > 1,
                   <<Step("recv", "ids", <<0>>), Step("unpack", "ids", <<0>>)>>)
      passes == [p \in 1 .. conf.passes |-> Forward(r, p) \o Only(~conf.async, back)]
  IN Setup(r) \o FlattenSeq(passes)
     \o Only(conf.async, FlattenSeq([p \in 1 .. conf.passes |-> back]))

Init ==
  /\ conf \in Layouts
  /\ group = [r \in Ranks |-> << >>]
  /\ todo = [r \in Ranks |-> Program(r)]
  /\ waits = [r \in Ranks |-> Idle]
  /\ buf = [r \in Ranks |-> [x |-> << >>, ids |-> << >>]]
  /\ kept = [r \in Ranks |-> << >>]
  /\ wire = [r \in Ranks |-> [s \in Ranks |-> Unused]]
  /\ sent = [r \in Ranks |-> << >>]
  /\ received = [r \in Ranks |-> << >>]
  /\ poisoned = {}
  /\ raised = {}
  /\ results = [r \in Ranks |-> << >>]

-----------------------------------------------------------------------------
(* Entering a collective. *)

\* A collective: what it does, to which buffer, in which communicator and by which route.
Call(do, on, name, list, route, sizes) ==
  [do |-> do, on |-> on, name |-> name, list |-> list, route |-> route, arg |-> sizes]

\* all_reduce returns at once in a group of one rank.
AllReduce(r, kind, on, size) ==
  LET name == Backing(conf)[kind]  list == group[r][name] IN
  IF Len(list) = 1 THEN Idle
  ELSE Call("all_reduce", on, name, list, Route(conf, name, size), <<size>>)

Tensor(r, do, on, kind, sizes) ==
  LET name == Backing(conf)[kind] IN
  Call(do, on, name, group[r][name], TensorRoute(conf, name), sizes)

\* all_gatherv and reduce_scatterv take PyNCCL whether or not it is enabled.
TensorV(r, do, on, kind, sizes) ==
  LET name == Backing(conf)[kind] IN
  Call(do, on, name, group[r][name], "nccl", sizes)

\* r takes its next step, behind what it has sent synchronously: it leaves rows in its buffer and enters a collective, or none.
Do(r, do) == /\ r \notin raised /\ waits[r] = Idle
             /\ conf.async \/ \A s \in Ranks : wire[r][s] = Unused
             /\ todo[r] # << >> /\ Head(todo[r]).do = do
             /\ todo' = [todo EXCEPT ![r] = Tail(@)]
Enter(r, on, rows, call) ==
  /\ buf' = [buf EXCEPT ![r][on] = rows]
  /\ waits' = [waits EXCEPT ![r] = call]
Current(r) == Head(todo[r])

\* An all-reduce by PyNCCL first reads the health of the RoCE transport, except in the
\* replay of a graph; whether a failure already shows there is not known.
EnterReduce(r, on, rows, call) ==
  \/ Enter(r, on, rows, call) /\ UNCHANGED raised
  \/ /\ call.do = "all_reduce" /\ call.route \in {"roce", "nccl"} /\ HasRoce(conf, call.name)
     /\ conf.mode # "graph" /\ r \in poisoned
     /\ raised' = raised \cup {r}
     /\ UNCHANGED <<buf, waits>>

SetUp(r) ==
  \E do \in {"new_group", "unique_id", "warm_up", "handles", "queue"} :
    LET s == Current(r)
        list == IF do = "new_group" THEN Stride(0, World, 1) ELSE s.arg IN
    /\ Do(r, do)
    /\ waits' = [waits EXCEPT ![r] =
         Call(do, s.on, IF do = "new_group" THEN "world" ELSE s.on, list, "cpu", s.arg)]
    /\ UNCHANGED <<conf, group, data, links, health, results>>

\* The RoCE runtime takes four ranks.
SetUpRoce(r) ==
  /\ Do(r, "roce_exchange")
  /\ IF Len(Current(r).arg) # 4
     THEN raised' = raised \cup {r} /\ UNCHANGED waits
     ELSE /\ waits' = [waits EXCEPT ![r] = Call("roce_exchange", "tp", "tp", Current(r).arg,
                                                "cpu", << >>)]
          /\ UNCHANGED raised
  /\ UNCHANGED <<conf, group, data, links, poisoned, results>>

\* The embedding, and the split of the tokens among context-parallel ranks.
Embed(r) ==
  LET tokens == Own(r, Current(r).arg[1])
      part(kind) == LET rows == AsRows(tokens, kind)
                    IN IF UseCp THEN Share(r, rows) ELSE rows IN
  /\ Do(r, "embed")
  /\ buf' = [buf EXCEPT ![r] = [x |-> part("hidden"), ids |-> part("id")]]
  /\ UNCHANGED <<conf, group, waits, kept, links, health, results>>

\* Attention over the heads of this rank, reduced across attention TP: by the output
\* projection where that is all of TP, by attn_tp_all_reduce where it is a part.
AttnShards == 0 .. AttnTp(conf) - 1
Attend(r) ==
  LET rows == Each(buf[r].x, LAMBDA row : Partial(row, "attn", Place(conf, r).t))
      kind == IF AttnTp(conf) = conf.tp THEN "tp" ELSE "attn_tp" IN
  /\ Do(r, "attend")
  /\ EnterReduce(r, "x", rows, AllReduce(r, kind, "x", Len(rows)))
  /\ UNCHANGED <<conf, group, kept, links, poisoned, results>>

\* The replicated shared experts on the rank's own rows, before they are gathered.
Shards == 0 .. conf.tp - 1
KeepShared(r) ==
  /\ Do(r, "shared")
  /\ kept' = [kept EXCEPT ![r] = Only(SharedLocal, Each(buf[r].x, LAMBDA row :
                Partial(Folded(row, "attn", AttnShards), "ffn", conf.tp)))]
  /\ UNCHANGED <<conf, group, waits, buf, links, health, results>>

\* Rows of all replicas at known places: each replica's first rank puts its own into zeros.
Placed(r, rows) ==
  LET at == Start(AllRows, Replica(r) + 1) IN
  [k \in 1 .. Start(AllRows, conf.dp + 1) |->
     IF InGroup(r, "attn_tp") = 1 /\ k - at \in DOMAIN rows THEN rows[k - at] ELSE Pad]
PlaceRows(r) ==
  LET on == Current(r).on  rows == Placed(r, buf[r][on]) IN
  /\ Do(r, "place")
  /\ EnterReduce(r, on, rows, AllReduce(r, "tp", on, Len(rows)))
  /\ UNCHANGED <<conf, group, kept, links, poisoned, results>>

\* Rows padded alike: shares of each replica's rows, the copies zeroed, then of all.
ZeroScatter(r) ==
  LET on == Current(r).on
      rows == IF InGroup(r, "attn_tp") = 1 THEN buf[r][on] ELSE Each(buf[r][on], LAMBDA row : Pad)
  IN /\ Do(r, "zero_scatter")
     /\ Enter(r, on, rows, Tensor(r, "reduce_scatter", on, "attn_tp",
                                  Equal(Len(rows), AttnTp(conf))))
     /\ UNCHANGED <<conf, group, kept, links, health, results>>

\* The gathers: of padded rows, of rows by size, and of context-parallel shares.
Gather(r) ==
  /\ r \notin raised
  /\ LET on == Current(r).on  rows == buf[r][on] IN
     \/ /\ Do(r, "gather")
        /\ Enter(r, on, rows, Tensor(r, "all_gather", on, "tp", <<Len(rows)>>))
     \/ /\ Do(r, "gatherv")
        /\ Enter(r, on, rows, TensorV(r, "all_gather", on, "tp", AllRows))
     \/ /\ \E do \in {"cp_gather", "cp_output"} : Do(r, do)
        /\ Enter(r, on, rows, Tensor(r, "all_gather", on, "attn_cp", <<Len(rows)>>))
  /\ UNCHANGED <<conf, group, kept, links, health, results>>

\* With all-to-all experts each attention TP rank takes its part of the rows and ids.
SplitRows(r) ==
  LET part(rows) == Chunk(rows, SplitSizes(Len(rows), AttnTp(conf)), InGroup(r, "attn_tp")) IN
  /\ Do(r, "split")
  /\ buf' = [buf EXCEPT ![r] = [x |-> part(@.x), ids |-> part(@.ids)]]
  /\ UNCHANGED <<conf, group, waits, kept, links, health, results>>

\* The experts.  They also take the ids of the rows, which have to match.
Routed(r, k) ==
  LET row == Folded(buf[r].x[k], "attn", AttnShards) IN
  IF UseCp \/ row = Pad \/ buf[r].ids[k] = Atom(TokenOf(row), "id", 0) THEN row ELSE Bad
Expert(r, row) ==
  Partial(row, "ffn", Place(conf, r).i)
    (+) (IF ~SharedLocal /\ Place(conf, r).i = 0 THEN Partial(row, "ffn", conf.tp) ELSE Pad)
Experts(r) ==
  LET rows == [k \in DOMAIN buf[r].x |-> Routed(r, k)]
      partial == Each(rows, LAMBDA row : Expert(r, row)) IN
  /\ Do(r, "experts")
  /\ IF conf.a2a
     THEN Enter(r, "x", rows, Tensor(r, "a2a", "x", "moe_ep", << >>)) /\ UNCHANGED raised
     ELSE EnterReduce(r, "x", partial, IF SumLeftOut THEN Idle
                                       ELSE AllReduce(r, "tp", "x", Len(partial)))
  /\ UNCHANGED <<conf, group, kept, links, poisoned, results>>

\* Each rank its own rows again: summed and scattered in one, or cut from the sum.
Combine(r) ==
  LET rows == buf[r].x IN
  /\ \/ /\ Do(r, "cp_reduce_scatter")
        /\ Enter(r, "x", rows, Tensor(r, "reduce_scatter", "x", "attn_cp",
                                      Equal(Len(rows), conf.cp)))
     \/ /\ Do(r, "combine")
        /\ IF DpReduceScatterV \/ ReduceScatterV
           THEN Enter(r, "x", rows, TensorV(r, "reduce_scatter", "x", "tp", AllRows))
           ELSE IF ReduceScatter
           THEN Enter(r, "x", rows, Tensor(r, "reduce_scatter", "x", "tp",
                                           Equal(Len(rows), conf.tp)))
           ELSE Enter(r, "x", Chunk(rows, AllRows, Replica(r) + 1), Idle)
  /\ UNCHANGED <<conf, group, kept, links, health, results>>

AddShared(r) ==
  /\ Do(r, "add_shared")
  /\ Enter(r, "x", IF kept[r] = << >> THEN buf[r].x
                   ELSE Add(buf[r].x, SubSeq(kept[r], 1, Len(buf[r].x))), Idle)
  /\ UNCHANGED <<conf, group, kept, links, health, results>>

\* attn_tp_all_gather of the parts into a list of tensors of their sizes.
GatherSplit(r) ==
  /\ Do(r, "gather_split")
  /\ Enter(r, "x", buf[r].x, Call("all_gather", "x", Backing(conf).attn_tp, Kind(r, "attn_tp"),
            "device", SplitSizes(RowsOf(Replica(r)), AttnTp(conf))))
  /\ UNCHANGED <<conf, group, kept, links, health, results>>

-----------------------------------------------------------------------------
(* Between the stages, and the result. *)

\* The layer's output for the rank's rows; context-parallel shares back in their order.
Output(r) ==
  LET rows == Each(buf[r].x, LAMBDA row : Folded(row, "ffn", Shards \cup {conf.tp}))
      n == Len(rows) \div conf.cp IN
  IF UseCp /\ LastStage(r)
  THEN [k \in DOMAIN rows |-> rows[((k - 1) % conf.cp) * n + (k - 1) \div conf.cp + 1]]
  ELSE rows

\* The result is complete before the health of RoCE is read, and released after that.
Release(r) ==
  /\ Do(r, "release")
  /\ IF r \in poisoned
     THEN raised' = raised \cup {r} /\ UNCHANGED results
     ELSE /\ results' = [results EXCEPT ![r] =
                          Append(@, [pass |-> Current(r).arg[1], rows |-> Output(r)])]
          /\ UNCHANGED raised
  /\ UNCHANGED <<conf, group, waits, data, links, poisoned>>

\* A tensor on the wire: its elements, or this rank's part of them where they divide.
Width(on) == IF on = "x" THEN HiddenWidth ELSE 1
Elements(rows, width) == FlattenSeq(Each(rows, LAMBDA row : [j \in 1 .. width |-> <<row, j>>]))
RowsIn(elements, width) ==
  [k \in 1 .. Len(elements) \div width |->
     LET row == elements[(k - 1) * width + 1][1] IN
     IF \A j \in 1 .. width : elements[(k - 1) * width + j] = <<row, j>> THEN row ELSE Bad]
Sliced(size) == conf.slices /\ size % AttnTp(conf) = 0

\* Mutant: every rank sends the first slice.
Slice_First(r, elements) ==
  IF Sliced(Len(elements))
  THEN Chunk(elements, Equal(Len(elements), AttnTp(conf)), 1) ELSE elements
Slice(r, elements) ==
  IF Sliced(Len(elements))
  THEN Chunk(elements, Equal(Len(elements), AttnTp(conf)), InGroup(r, "attn_tp")) ELSE elements

\* The ranks before and behind r in its pipeline.
Neighbour(r, step) ==
  LET list == Kind(r, "pp")  n == Len(list) IN list[((InGroup(r, "pp") - 1 + step) % n) + 1]

\* send_object, recv_object: what the tensors are, by the CPU group, here their rows.
WithObject(objects, rows) == Append(objects, Len(rows))
Object(objects) == Head(objects)

\* send_tensor_dict: what is in it by the CPU group, then each tensor that is not empty.
Send(r) ==
  LET on == Current(r).on  to == Neighbour(r, 1)  rows == Output(r)
      elements == Elements(rows, Width(on)) IN
  /\ Do(r, "send")
  /\ wire' = [wire EXCEPT
       ![r][to].cpu = WithObject(@, rows),
       ![r][to].device = IF elements = << >> THEN @ ELSE Append(@, Slice(r, elements))]
  /\ sent' = [sent EXCEPT ![r] = Append(@, rows)]
  /\ UNCHANGED <<conf, group, waits, data, received, health, results>>

\* recv_tensor_dict: the same order, and the parts of the others by an all-gather.
Recv(r) ==
  LET on == Current(r).on  from == Neighbour(r, -1)  link == wire[from][r]
      size == Object(link.cpu) * Width(on)  kind == Backing(conf).attn_tp
      gather == Sliced(size) /\ AttnTp(conf) > 1 IN
  /\ Do(r, "recv")
  /\ link.cpu # << >>
  /\ IF size = 0
     THEN /\ Enter(r, on, << >>, Idle)
          /\ wire' = [wire EXCEPT ![from][r].cpu = Tail(@)]
     ELSE /\ link.device # << >>
          /\ Len(Head(link.device)) = IF gather THEN size \div AttnTp(conf) ELSE size
          /\ Enter(r, on, Head(link.device),
                   IF gather THEN Tensor(r, "all_gather", on, "attn_tp", <<size>>) ELSE Idle)
          /\ wire' = [wire EXCEPT ![from][r] = [cpu |-> Tail(@.cpu), device |-> Tail(@.device)]]
  /\ UNCHANGED <<conf, group, kept, sent, received, health, results>>

\* The received tensor in its shape; every stage has the token ids from the scheduler.
Unpack(r) ==
  LET on == Current(r).on  rows == RowsIn(buf[r][on], Width(on)) IN
  /\ Do(r, "unpack")
  /\ buf' = [buf EXCEPT ![r][on] = rows,
                        ![r].ids = IF on = "x" THEN AsRows(Own(r, Current(r).arg[1]), "id") ELSE @]
  /\ received' = [received EXCEPT ![r] = Append(@, rows)]
  /\ UNCHANGED <<conf, group, waits, kept, wire, sent, health, results>>

-----------------------------------------------------------------------------
(* A collective happens when all its ranks have entered it. *)

Met(do, call) == /\ call.do = do
                 /\ \A m \in ToSet(call.list) : m \notin raised /\ waits[m] = call
Leave(call) == waits' = [r \in Ranks |-> IF r \in ToSet(call.list) THEN Idle ELSE waits[r]]
Fill(call, Rows(_)) ==
  buf' = [r \in Ranks |-> IF r \in ToSet(call.list)
                          THEN [buf[r] EXCEPT ![call.on] = Rows(IndexOf(call.list, r))] ELSE buf[r]]

\* A rank in the new group keeps it as the coordinator's.
Keeping(mine, name, list) ==
  [n \in DOMAIN mine \cup {name} |-> IF n = name THEN list ELSE mine[n]]
FormGroup(call) ==
  /\ Met("new_group", call) /\ Leave(call)
  /\ group' = [r \in Ranks |-> IF r \in ToSet(call.arg)
                               THEN Keeping(group[r], call.on, call.arg) ELSE group[r]]
  /\ UNCHANGED <<conf, todo, data, links, health, results>>

Handshake(call) ==
  /\ \E do \in {"unique_id", "warm_up", "handles", "queue", "roce_exchange"} : Met(do, call)
  /\ Leave(call)
  /\ UNCHANGED <<conf, group, todo, data, links, health, results>>

\* A RoCE transport that has failed stays so, and gives every rank wrong sums.
AllReduced(call) ==
  /\ Met("all_reduce", call) /\ Leave(call)
  /\ \/ /\ call.route = "roce" => poisoned = {}
        /\ Fill(call, LAMBDA i : SumOver(call.list, call.on))
        /\ UNCHANGED poisoned
     \/ /\ call.route = "roce"
        /\ Fill(call, LAMBDA i : Each(buf[call.list[i]][call.on], LAMBDA row : Bad))
        /\ poisoned' = poisoned \cup ToSet(call.list)
  /\ UNCHANGED <<conf, group, todo, kept, links, raised, results>>

Gathered(call) ==
  /\ Met("all_gather", call) /\ Leave(call)
  /\ Fill(call, LAMBDA i : JoinOver(call.list, call.on))
  /\ UNCHANGED <<conf, group, todo, kept, links, health, results>>

Scattered(call) ==
  /\ Met("reduce_scatter", call) /\ Leave(call)
  /\ Fill(call, LAMBDA i : Chunk(SumOver(call.list, call.on), call.arg, i))
  /\ UNCHANGED <<conf, group, todo, kept, links, health, results>>

\* All-to-all: the experts of all ranks see the rows, and each rank gets its own back.
Dispatched(call) ==
  /\ Met("a2a", call) /\ Leave(call)
  /\ Fill(call, LAMBDA i : Each(buf[call.list[i]].x, LAMBDA row :
             IF row \in {Pad, Bad} THEN row
             ELSE Whole(TokenOf(row), "ffn", Shards \cup {conf.tp})))
  /\ UNCHANGED <<conf, group, todo, kept, links, health, results>>

\* The ranks have run their programs, or one of them has stopped the deployment.
Stopped ==
  /\ raised # {} \/ \A r \in Ranks : todo[r] = << >> /\ waits[r] = Idle
  /\ UNCHANGED vars

Next ==
  \/ \E r \in Ranks :
       \/ SetUp(r) \/ SetUpRoce(r) \/ Embed(r) \/ Attend(r) \/ KeepShared(r) \/ PlaceRows(r)
       \/ ZeroScatter(r) \/ Gather(r) \/ SplitRows(r) \/ Experts(r) \/ Combine(r) \/ AddShared(r)
       \/ GatherSplit(r) \/ Release(r) \/ Send(r) \/ Recv(r) \/ Unpack(r)
  \/ \E call \in {waits[r] : r \in Ranks} \ {Idle} :
       \/ FormGroup(call) \/ Handshake(call) \/ AllReduced(call) \/ Gathered(call)
       \/ Scattered(call) \/ Dispatched(call)
  \/ Stopped

Spec == Init /\ [][Next]_vars

-----------------------------------------------------------------------------
SetUpTasks == {"new_group", "unique_id", "warm_up", "roce_exchange", "handles", "queue"}
ReadyToServe(r) == waits[r] = Idle /\ todo[r] # << >> /\ Current(r).do \in {"embed", "recv"}

Formed(r) ==
  LET meant == Meant(conf, r) IN
  /\ \A k \in ToSet(Coordinators(conf)) : k.name \in DOMAIN group[r]
  /\ \A kind \in DOMAIN meant :
       NameOf(conf, kind) \in DOMAIN group[r] =>
         ToSet(group[r][NameOf(conf, kind)]) = meant[kind]

Together(r, s) ==
  LET a == waits[r]  b == waits[s] IN
  a # Idle /\ b # Idle /\ a.name = b.name /\ a.list = b.list => a = b

(***************************************************************************)
(* Ranks that wait in one communicator wait in the same collective, by the *)
(* same route and with the same sizes.  While they set up they create the  *)
(* same group and exchange the same handles, each by its own loops over    *)
(* groups that it is or is not in; in a forward pass each decides alone    *)
(* what it calls next, from its own rows and switches.  When a rank goes   *)
(* on to serve it has a group of every coordinator, and for every kind of  *)
(* group the ranks that the layout means.                                  *)
(***************************************************************************)
GroupsAgreed ==
  \A r \in Ranks :
    /\ \A s \in Ranks : Together(r, s)
    /\ ReadyToServe(r) => Formed(r)

(***************************************************************************)
(* A released result has, for each token of the rank's replica in its      *)
(* place, every shard of attention and of the experts exactly once,        *)
(* whichever way the rows went (mlp_reduce_scatter, padding, shared        *)
(* experts, all-to-all, context parallelism), and nothing that a failed    *)
(* RoCE transport left.  (With deadlock checked, no rank waits for good.)  *)
(***************************************************************************)
ForwardExact ==
  \A r \in Ranks : \A k \in DOMAIN results[r] :
    LET result == results[r][k]  n == conf.counts[Replica(r) + 1] IN
    /\ Len(result.rows) >= n
    /\ SubSeq(result.rows, 1, n) = AsRows(SubSeq(Own(r, result.pass), 1, n), "hidden")

(***************************************************************************)
(* A stage receives the tensors that the stage before it sent, whole and   *)
(* in order, though each rank sends a slice where the size divides and     *)
(* everything where it does not, nothing where it is empty, and metadata   *)
(* and data travel apart (send_tensor_dict, recv_tensor_dict).             *)
(***************************************************************************)
DictExact ==
  \A r \in Ranks : "pp" \in DOMAIN group[r] /\ r \in ToSet(group[r]["pp"]) =>
    LET from == Neighbour(r, -1) IN
    /\ IsPrefix(received[r], sent[from])
    /\ todo[r] = << >> => received[r] = sent[from]
==============================================================================
