---------------------------- MODULE CompressPairs ----------------------------
(***************************************************************************)
(* The ratio-2 compressor of deepseek_v4_backend.py: every two tokens of a *)
(* request become one latent in its cache.  The first token of a pair      *)
(* waits for the second in a ring of the request, also across launches.    *)
(* One layer; launches follow each other on one stream, and the rows of a  *)
(* fused launch (c2.cuh) are CTAs that run in any order.                   *)
(*                                                                         *)
(* A token of a request's text is << request, position >>.  All others are *)
(* Wrong: drafts that verification will reject, and what the last request  *)
(* in the slot left.                                                       *)
(***************************************************************************)
EXTENDS Integers, FiniteSets

CONSTANTS Reqs,      \* req_pool_idx; padded rows alias request 0
          RingSize, DraftLen, Wrong,
          Modes,     \* ways to run, see mode
          MaxLen, ChunkLen, Paddings  \* bounds: text of each request, rows of a
                                      \* chunk, padded rows of a launch

ASSUME CompressAssumption ==
  /\ Reqs \subseteq Nat /\ 0 \in Reqs /\ IsFiniteSet(Reqs)
  /\ RingSize \in Nat /\ DraftLen \in Nat \ {0} /\ RingSize > DraftLen
  /\ Modes \subseteq [verify : {"none", "static", "compact"}, fused : BOOLEAN]
  /\ MaxLen \in [Reqs -> Nat] /\ ChunkLen \in Nat /\ ChunkLen >= DraftLen
  /\ Paddings \subseteq Nat

VARIABLES
  mode,     \* [verify |-> none, static or compact; fused |-> use_fused_compress]
  len,      \* per request: tokens whose key and value stay
  ring,     \* per request and slot: kv_score_buffer
  cache,    \* per request and pair: << token, token >> the latent was made of
  launch    \* rows in flight, see NoLaunch

vars == <<mode, len, ring, cache, launch>>

Slots == 0 .. RingSize - 1
Pairs(r) == 0 .. MaxLen[r] \div 2 - 1
Slot(pos) == pos % RingSize

\* Request r has rows first[r] .. first[r] + n[r] - 1, of which kept[r] will be
\* accepted; rows that no request has, up to width, are padding.
NoLaunch == [kind |-> "none", first |-> [r \in Reqs |-> 0],
             n |-> [r \in Reqs |-> 0], kept |-> [r \in Reqs |-> 0],
             width |-> 0, done |-> {}, before |-> <<>>]

Init ==
  /\ mode \in Modes
  /\ len = [r \in Reqs |-> 0]
  /\ ring = [r \in Reqs |-> [s \in Slots |-> Wrong]]
  /\ cache = [r \in Reqs |-> [k \in Pairs(r) |-> <<Wrong, Wrong>>]]
  /\ launch = NoLaunch

-----------------------------------------------------------------------------
(* Rows of the launch.                                                     *)

Rows == 0 .. launch.width - 1
Flying == launch.kind # "none"
Finished == Flying /\ launch.done = Rows

Owner(i) == {r \in Reqs : i - launch.first[r] \in 0 .. launch.n[r] - 1}
Pad(i) == Owner(i) = {}
Req(i) == IF Pad(i) THEN 0 ELSE CHOOSE r \in Owner(i) : TRUE
Pos(i) == IF Pad(i) THEN 0 ELSE len[Req(i)] + i - launch.first[Req(i)]
Text(r, p) == IF p < len[r] + launch.kept[r] THEN <<r, p>> ELSE Wrong
Tok(i) == IF Pad(i) THEN Wrong ELSE Text(Req(i), Pos(i))
Odd(i) == Pos(i) % 2 = 1

\* Pairs that the row attends to; decode and verify clamp the number to 1.
Attended(i) ==
  LET whole == (Pos(i) + 1) \div 2
  IN IF launch.kind = "block" /\ whole = 0 THEN 1 ELSE whole

-----------------------------------------------------------------------------
(* Launches: `extend` prefills a chunk of some requests, and a `block` is a *)
(* token or a block of drafts of each request that decodes.                 *)

Static == mode.verify = "static" /\ DraftLen > 1
Fused == launch.kind = "block" /\ mode.fused /\ (mode.verify = "none" \/ Static)

\* Rows are request-major: the blocks follow one another without a gap.
RequestMajor(n, first) ==
  \A r \in Reqs :
    IF n[r] = 0 THEN first[r] = 0
    ELSE /\ first[r] = 0 \/ \E s \in Reqs : n[s] > 0 /\ first[r] = first[s] + n[s]
         /\ \A s \in Reqs \ {r} :
              n[s] > 0 => first[r] + n[r] <= first[s] \/ first[s] + n[s] <= first[r]

\* Enough for a block of every other request before one.
Widest == ChunkLen * (Cardinality(Reqs) - 1)

\* n[r] rows of each request, of which a prefix is kept, and the padding of a graph.
Launch(kind, n, kept, pads) ==
  /\ ~Flying
  /\ \A r \in Reqs : len[r] + n[r] <= MaxLen[r]
  /\ \E first \in [Reqs -> 0 .. Widest], last \in {r \in Reqs : n[r] > 0} :
       /\ RequestMajor(n, first)
       /\ \A r \in Reqs : first[r] <= first[last]
       /\ launch' = [kind |-> kind, first |-> first, n |-> n, kept |-> kept,
                     width |-> first[last] + n[last] + pads, done |-> {},
                     before |-> IF kind = "block" /\ Static THEN [ring |-> ring, cache |-> cache]
                                ELSE <<>>]
  /\ UNCHANGED <<mode, len, ring, cache>>

Extend ==
  \E n \in [Reqs -> 0 .. ChunkLen], pads \in Paddings : Launch("extend", n, n, pads)

\* A batch of the decoding requests: what a block has of each.
BlockLengths ==
  CASE mode.verify = "none" -> {1}
    [] mode.verify = "static" -> {DraftLen}
    [] mode.verify = "compact" -> 1 .. DraftLen

\* The first row of a block holds a token that is already decided.
Block ==
  \E n \in [Reqs -> {0} \cup BlockLengths], kept \in [Reqs -> 0 .. DraftLen],
     pads \in Paddings :
    /\ \A r \in Reqs : IF n[r] = 0 THEN kept[r] = 0
                       ELSE len[r] > 0 /\ kept[r] \in 1 .. n[r]
    /\ mode.verify = "static" => pads % DraftLen = 0
    /\ Launch("block", n, kept, pads)

-----------------------------------------------------------------------------
(* c2_decode_norm_rope_store and c2_verify_norm_rope_store: a CTA per row.  *)

Carried(i) == ring[Req(i)][Slot(Pos(i) - 1)]

\* Only the first row of a verify block pairs through the ring.
Head(i) == mode.verify = "none" \/ i % DraftLen = 0
FusedPartner_Ring(i) == Carried(i)
FusedPartner(i) == IF Head(i) THEN Carried(i) ELSE Tok(i - 1)

Pooled(i, partner) == [cache EXCEPT ![Req(i)][Pos(i) \div 2] = <<partner, Tok(i)>>]

Cta(i) ==
  /\ Fused
  /\ launch' = [launch EXCEPT !.done = @ \cup {i}]
  /\ \/ Pad(i) /\ UNCHANGED <<ring, cache>>
     \/ /\ ~Pad(i) /\ ~Odd(i)
        /\ ring' = [ring EXCEPT ![Req(i)][Slot(Pos(i))] = Tok(i)]
        /\ UNCHANGED cache
     \/ /\ ~Pad(i) /\ Odd(i)
        /\ cache' = Pooled(i, FusedPartner(i))
        /\ UNCHANGED ring
  /\ UNCHANGED <<mode, len>>

-----------------------------------------------------------------------------
(* _low_ratio_compress_torch: one gather, then one scatter, over all rows.  *)

InBatch_AnyRequest(i) == i > 0 /\ ~Pad(i) /\ ~Pad(i - 1) /\ Pos(i) = Pos(i - 1) + 1
InBatch(i) ==
  /\ i > 0 /\ ~Pad(i) /\ ~Pad(i - 1)
  /\ Req(i) = Req(i - 1) /\ Pos(i) = Pos(i - 1) + 1
TorchPartner(i) == IF InBatch(i) THEN Tok(i - 1) ELSE Carried(i)

Keep_All(i) == ~Pad(i)
Keep_BeforePadding(i) ==
  ~Pad(i) /\ (i + RingSize \in Rows => Req(i + RingSize) # Req(i))
\* The last RingSize rows of a request are written, padding apart.
Keep(i) ==
  /\ ~Pad(i)
  /\ i + RingSize \in Rows => Req(i + RingSize) # Req(i) \/ Pad(i + RingSize)

\* Rows written to a place; RaceFree says that there is one at most.
Publishers(r, s) == {i \in Rows : Keep(i) /\ Req(i) = r /\ Slot(Pos(i)) = s}
Completers(r, k) == {i \in Rows : ~Pad(i) /\ Req(i) = r /\ Pos(i) = 2 * k + 1}

Torch ==
  /\ Flying /\ ~Fused /\ launch.done = {}
  /\ ring' = [r \in Reqs |-> [s \in Slots |->
       IF Publishers(r, s) = {} THEN ring[r][s]
       ELSE Tok(CHOOSE i \in Publishers(r, s) : TRUE)]]
  /\ cache' = [r \in Reqs |-> [k \in Pairs(r) |->
       IF Completers(r, k) = {} THEN cache[r][k]
       ELSE LET i == CHOOSE i \in Completers(r, k) : TRUE
            IN <<TorchPartner(i), Tok(i)>>]]
  /\ launch' = [launch EXCEPT !.done = Rows]
  /\ UNCHANGED <<mode, len>>

-----------------------------------------------------------------------------
(* The scheduler.                                                          *)

\* The rows are over; rejected drafts are cut off the text.
Commit ==
  /\ Finished
  /\ len' = [r \in Reqs |-> len[r] + launch.kept[r]]
  /\ launch' = NoLaunch
  /\ UNCHANGED <<mode, ring, cache>>

\* The slot goes to a request that has a prefix of the text in its pages, and
\* nothing else of it: pages are even, and the ring is not cleared.
Reuse(r, m) ==
  /\ ~Flying /\ m % 2 = 0 /\ m <= len[r] /\ len[r] > 0
  /\ len' = [len EXCEPT ![r] = m]
  /\ ring' = [ring EXCEPT ![r] = [s \in Slots |-> Wrong]]
  /\ cache' = [cache EXCEPT ![r] = [k \in Pairs(r) |->
       IF 2 * k < m THEN cache[r][k] ELSE <<Wrong, Wrong>>]]
  /\ UNCHANGED <<mode, launch>>

Next ==
  \/ Extend \/ Block \/ Torch \/ Commit
  \/ \E i \in Rows \ launch.done : Cta(i)
  \/ \E r \in Reqs : \E m \in 0 .. MaxLen[r] : Reuse(r, m)

Spec == Init /\ [][Next]_vars

-----------------------------------------------------------------------------
(* Properties.                                                             *)

Tokens == (Reqs \X Nat) \cup {Wrong}

\* Types of the state; a request never has more text than its pages hold.
TypeOK ==
  /\ mode \in Modes
  /\ len \in [Reqs -> Nat] /\ \A r \in Reqs : len[r] <= MaxLen[r]
  /\ ring \in [Reqs -> [Slots -> Tokens]]
  /\ DOMAIN cache = Reqs /\ \A r \in Reqs : cache[r] \in [Pairs(r) -> Tokens \X Tokens]
  /\ DOMAIN launch = DOMAIN NoLaunch /\ launch.kind \in {"none", "extend", "block"}
  /\ launch.first \in [Reqs -> Nat] /\ launch.n \in [Reqs -> Nat]
  /\ launch.kept \in [Reqs -> Nat] /\ launch.width \in Nat
  /\ launch.done \subseteq Rows

\* Every pair of a request's text has the latent of exactly its two tokens,
\* whatever chunks and blocks they came in, drafts were rejected and requests
\* had the slot before, also while a launch is in flight.
PairsExact ==
  \A r \in Reqs : \A k \in Pairs(r) :
    2 * k + 1 < len[r] => cache[r][k] = <<<<r, 2 * k>>, <<r, 2 * k + 1>>>>

\* After the compressor's launch, no row attends to a latent of other tokens
\* than those before it: in its text, or in its own block of drafts, kept or
\* not.  The indexer reads the same lengths next.
AttendedExact ==
  Finished => \A i \in Rows : ~Pad(i) =>
    \A k \in 0 .. Attended(i) - 1 :
      cache[Req(i)][k] = <<Text(Req(i), 2 * k), Text(Req(i), 2 * k + 1)>>

\* Ring slots that row i reads for its pair, and those it writes.
RingReads(i) ==
  IF Fused /\ ~Pad(i) /\ Odd(i) /\ Head(i) THEN {<<Req(i), Slot(Pos(i) - 1)>>} ELSE {}
RingWrites(i) ==
  IF Pad(i) \/ (Fused /\ Odd(i)) \/ (~Fused /\ ~Keep(i)) THEN {}
  ELSE {<<Req(i), Slot(Pos(i))>>}

\* No two rows of a launch write one ring slot, and no CTA reads one that
\* another writes: nothing orders the rows of a launch.
RaceFree ==
  \A i, j \in Rows :
    i # j => RingWrites(i) \cap (RingWrites(j) \cup RingReads(j)) = {}

\* One position of every block after what `before` holds, by the decode kernel.
Step(before, j) ==
  LET at == {i \in Rows : i % DraftLen = j /\ ~Pad(i)}
      Even(r, s) == {i \in at : Req(i) = r /\ ~Odd(i) /\ Slot(Pos(i)) = s}
      Whole(r, k) == {i \in at : Req(i) = r /\ Pos(i) = 2 * k + 1}
  IN [ring |-> [r \in Reqs |-> [s \in Slots |->
        IF Even(r, s) = {} THEN before.ring[r][s]
        ELSE Tok(CHOOSE i \in Even(r, s) : TRUE)]],
      cache |-> [r \in Reqs |-> [k \in Pairs(r) |->
        IF Whole(r, k) = {} THEN before.cache[r][k]
        ELSE <<before.ring[r][Slot(2 * k)], Tok(CHOOSE i \in Whole(r, k) : TRUE)>>]]]

\* What is left when the first j positions of every block have been decoded.
Upto[j \in 0 .. DraftLen] == IF j = 0 THEN launch.before ELSE Step(Upto[j - 1], j - 1)
Replayed == Upto[DraftLen]

\* A verify block leaves the ring and the cache that decoding its rows one
\* position at a time would leave (docstring of c2_verify_norm_rope_store).
ReplaySame ==
  Finished /\ Fused /\ Static => [ring |-> ring, cache |-> cache] = Replayed

===============================================================================
