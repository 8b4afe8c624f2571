----------------------------- MODULE TailLayout -----------------------------
(***************************************************************************)
(* The rows that the late layers of a prefill run over when the decoder's  *)
(* sliding window is replayed bounded: the last w tokens of every request, *)
(* kept under context parallelism on the rank that owned them.             *)
(*                                                                         *)
(* A batch is the sequence of its extend lengths, a token its index in the *)
(* extend, counted from 0 request after request.  Pad is a row that no     *)
(* token owns.                                                             *)
(***************************************************************************)
EXTENDS Integers, Sequences, FiniteSets, SequencesExt, FiniteSetsExt

Pad == -1

Total(lens) == FoldLeft(+, 0, lens)
Start(lens, b) == Total(SubSeq(lens, 1, b - 1))
Tokens(lens) == [i \in 1 .. Total(lens) |-> i - 1]
Request(lens, t) == CHOOSE b \in DOMAIN lens : t \in Start(lens, b) .. Start(lens, b) + lens[b] - 1
OfRequest(lens, rows, b) == SelectSeq(rows, LAMBDA t : t # Pad /\ Request(lens, t) = b)

(* late_layer_tail_layout: the last w tokens of every request.             *)
TailLens(lens, w) == [b \in DOMAIN lens |-> Min({lens[b], w})]
TokenIndices(lens, w) ==
    SelectSeq(Tokens(lens), LAMBDA t : LET b == Request(lens, t)
                                       IN t >= Start(lens, b) + lens[b] - TailLens(lens, w)[b])

(* tail rows are a view when there is one request only                     *)
ContiguousStart(lens, w) == IF Len(lens) = 1 THEN lens[1] - TailLens(lens, w)[1] ELSE Pad

(* Interleaved context parallelism: rank r owns the tokens r, r + cp, ...  *)
Padded(rows, n) == [i \in 1 .. n |-> IF i <= Len(rows) THEN rows[i] ELSE Pad]
Owned(tokens, cp, r) == SelectSeq(tokens, LAMBDA t : t % cp = r)
ExtendRows(lens, cp, r) ==
    Padded(Owned(Tokens(lens), cp, r), (Total(lens) + cp - 1) \div cp)

Counts(tokens, cp) == [r \in 0 .. cp - 1 |-> Len(Owned(tokens, cp, r))]
MaxLocal(tokens, cp) == Max({Counts(tokens, cp)[r] : r \in 0 .. cp - 1})
PadRows(tokens, cp, r) == MaxLocal(tokens, cp) - Counts(tokens, cp)[r]

(* slot: how many tokens before this one have the same owner               *)
Slot(tokens, cp, i) == Cardinality({j \in 1 .. i - 1 : tokens[j] % cp = tokens[i] % cp})
GatherIndex(tokens, cp) ==
    [i \in DOMAIN tokens |-> (tokens[i] % cp) * MaxLocal(tokens, cp) + Slot(tokens, cp, i)]

(* rows of the compact tail metadata that this rank keeps, padding last    *)
PadStart(tokens, cp, r) ==
    Len(tokens) + MapThenSumSet(LAMBDA q : PadRows(tokens, cp, q), 0 .. r - 1)
LocalIndex(tokens, cp, r) ==
    LET mine == SelectSeq([i \in DOMAIN tokens |-> i - 1], LAMBDA i : tokens[i + 1] % cp = r)
    IN mine \o [i \in 1 .. PadRows(tokens, cp, r) |-> PadStart(tokens, cp, r) + i - 1]

(* where this rank's tail tokens are among the rows of its extend          *)
LocalTokenIndices(tokens, cp, r) ==
    [i \in 1 .. Counts(tokens, cp)[r] |-> (Owned(tokens, cp, r)[i] - r) \div cp]
LocalLens(lens, tokens, cp, r) ==
    [b \in DOMAIN lens |-> Len(OfRequest(lens, Owned(tokens, cp, r), b))]

Select(rows, index) == [i \in DOMAIN index |-> IF index[i] < Len(rows) THEN rows[index[i] + 1] ELSE Pad]
=============================================================================
