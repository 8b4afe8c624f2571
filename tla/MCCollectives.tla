--------------------------- MODULE MCCollectives ---------------------------
(* Four ranks in the layouts that four ranks allow. *)
EXTENDS Collectives

Base == [tp |-> 4, pp |-> 1, ep |-> 1, mdp |-> 1, dp |-> 1, cp |-> 1, dcp |-> 1,
         pdmux |-> FALSE, overlap |-> FALSE, symm |-> FALSE, mq |-> FALSE,
         mode |-> "eager", accel |-> "none", roce |-> FALSE, a2a |-> FALSE, pad |-> "sum",
         gatherv |-> FALSE, scatter |-> FALSE, shared |-> FALSE, slices |-> FALSE,
         async |-> FALSE, counts |-> <<2>>, passes |-> 1]

\* All-reduce: every mode with and without RoCE, and with each fast all-reduce.
Routes == {[Base EXCEPT !.mode = m, !.roce = b, !.counts = <<n>>] :
             m \in {"eager", "graph", "compile", "piecewise"}, b \in BOOLEAN, n \in {0, 2, 3}}
  \cup {[Base EXCEPT !.mode = m, !.accel = a, !.ep = e, !.symm = b] :
          m \in {"eager", "compile"}, e \in {1, 4}, b \in BOOLEAN,
          a \in {"custom", "pymscclpp", "torch_symm_mem", "flashinfer"}}
  \cup {[Base EXCEPT !.pdmux = TRUE, !.roce = b, !.mq = TRUE] : b \in BOOLEAN}
  \cup {[Base EXCEPT !.shared = TRUE], [Base EXCEPT !.dcp = 2, !.mode = "graph"], [Base EXCEPT !.roce = TRUE, !.passes = 2,
                                                    !.mode = "graph"]}

\* Data-parallel attention: two replicas of two ranks, or four of one.
Replicas == {[Base EXCEPT !.dp = 2, !.pad = p, !.counts = n, !.shared = s, !.mode = m] :
               p \in {"sum", "max"}, n \in {<<2, 1>>, <<0, 3>>}, s \in BOOLEAN,
               m \in {"eager", "graph"}}
  \cup {[Base EXCEPT !.dp = 4, !.pad = p, !.counts = n, !.gatherv = g, !.scatter = x, !.shared = s] :
          p \in {"sum", "max"}, n \in {<<2, 0, 1, 1>>, <<1, 1, 1, 1>>}, g \in BOOLEAN,
          x \in BOOLEAN, s \in BOOLEAN}
  \cup {[Base EXCEPT !.dp = 4, !.ep = 4, !.pad = p, !.counts = <<2, 0, 1, 1>>, !.gatherv = g,
                     !.scatter = x, !.shared = x] :
          p \in {"sum", "max"}, g \in BOOLEAN, x \in BOOLEAN}
  \cup {[Base EXCEPT !.dp = 2, !.ep = 2, !.symm = TRUE, !.counts = <<1, 2>>]}

\* Experts by all-to-all, with attention TP and without, and context parallelism.
Exchanges == {[Base EXCEPT !.a2a = TRUE, !.ep = 4, !.dp = d, !.counts = SubSeq(<<3, 1, 0, 2>>, 1, d)] :
               d \in {1, 2, 4}}
  \cup {[Base EXCEPT !.cp = 4, !.a2a = b, !.ep = IF b THEN 4 ELSE 1, !.counts = <<4>>,
                     !.overlap = TRUE, !.shared = TRUE] : b \in BOOLEAN}

\* Two stages of two ranks.
Stages == {[Base EXCEPT !.tp = 2, !.pp = 2, !.slices = b, !.async = a, !.counts = <<n>>,
                        !.passes = 2, !.mq = TRUE] :
             b \in BOOLEAN, a \in BOOLEAN, n \in 0 .. 3}
  \cup {[Base EXCEPT !.tp = 2, !.pp = 2, !.slices = TRUE, !.async = a, !.dp = 2, !.pad = p,
                     !.counts = <<2, 1>>] : a \in BOOLEAN, p \in {"sum", "max"}}
  \cup {[Base EXCEPT !.tp = 2, !.pp = 2, !.roce = TRUE]}

MCLayouts == Routes \cup Replicas \cup Exchanges \cup Stages
=============================================================================
