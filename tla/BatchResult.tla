---------------------------- MODULE BatchResult ----------------------------
(***************************************************************************)
(* SchedulerBatchResultProcessor of batch_result_processor.py, for         *)
(* generation with speculative decoding: what the scheduler does with the  *)
(* result of an extend or a decode batch.  With overlap, batch N + 1 is    *)
(* launched, from the state the device has and the host has not, before    *)
(* the result of batch N is processed; a request may then have finished or *)
(* been retracted when its next result arrives.  The scheduler loop and    *)
(* the request are not part of the repository and are modelled as the      *)
(* processor uses them.  The k-th output token of request r is <<r, k>>;   *)
(* Junk is padding or the token of a middle chunk, Bad a token computed on *)
(* a failed RoCE transport or not yet copied to the host.                  *)
(***************************************************************************)
EXTENDS Integers, Sequences, FiniteSets, SequencesExt

CONSTANTS NReqs,        \* requests 1 .. NReqs
          Chunks,       \* per request: chunks of its prompt, one token each
          Limit,        \* per request: output position of its EOS or length limit,
                        \* where its grammar terminates as well
          IllegalAt,    \* per request: token that the grammar does not accept
          MaxAccept,    \* longest accepted run: drafts and bonus
          Modes,        \* set of [overlap, grammar, carries]: is the overlap
                        \* scheduler used, which requests have a grammar, and
                        \* does the copy of a batch carry has_grammar
          MaxRetracts   \* bound: retractions in one behaviour

Reqs == 1 .. NReqs
Junk == <<0, 0>>
Bad == <<0, -1>>
None == -1

ASSUME BatchAssumption ==
  /\ NReqs \in Nat /\ MaxAccept \in Nat \ {0} /\ MaxRetracts \in Nat
  /\ \A r \in Reqs : Chunks[r] \in Nat \ {0} /\ Limit[r] \in Nat \ {0}
  /\ Modes \subseteq [overlap : BOOLEAN, grammar : SUBSET Reqs, carries : BOOLEAN]

VARIABLES
  mode,      \* what this process was started for, one of Modes
  req,       \* per request: what the processor reads and writes, see NewReq
  queue,     \* results launched and not processed
  phase,     \* scheduler loop: "plan", "retract", "verify" or "process"
  launched,  \* per request: chunks of its prompt launched
  gen,       \* per request: output tokens generated by the device
  fault,     \* has the RoCE transport failed?
  raised,    \* none, or why the scheduler process raised
  retracts

vars == <<mode, req, queue, phase, launched, gen, fault, raised, retracts>>

\* committed is kv_committed_len, fsm the tokens its grammar has accepted, kv
\* the allocations not released, aux the tokens given to the observer.
NewReq == [out |-> << >>, inflight |-> 0, finished |-> FALSE, finLen |-> None,
           toFinish |-> FALSE, retracted |-> FALSE, committed |-> 0, fsm |-> 0,
           kv |-> 0, aux |-> 0]

Overlap == mode.overlap
Grammar == mode.grammar

\* With overlap the result is processed with a copy of its batch, otherwise with the
\* batch.  Whether batch.copy() carries has_grammar is decided in ScheduleBatch.
Carried == Overlap => mode.carries

Init ==
  /\ mode \in Modes
  /\ req = [r \in Reqs |-> NewReq]
  /\ queue = << >> /\ phase = "plan"
  /\ launched = [r \in Reqs |-> 0] /\ gen = [r \in Reqs |-> 0]
  /\ fault = FALSE /\ raised = "no" /\ retracts = 0

Up == raised = "no"
Raise(why) == /\ raised' = why
              /\ UNCHANGED <<req, queue, phase, launched, gen, fault, retracts>>

(***************************************************************************)
(* The scheduler: what it launches.                                        *)
(***************************************************************************)
Prefilling(r) == ~req[r].finished /\ launched[r] < Chunks[r]
Running(r) == ~req[r].finished /\ ~req[r].retracted /\ launched[r] = Chunks[r]

\* A middle chunk samples a token that nobody may use.
FirstToken(r) == IF launched[r] + 1 < Chunks[r] THEN Junk ELSE <<r, gen[r] + 1>>

HasGrammar(reqs) == \E r \in Grammar : Contains(reqs, r)
Result(kind, reqs, mixed, tokens, accept, stride) ==
  [kind |-> kind, reqs |-> reqs, mixed |-> mixed, tokens |-> tokens,
   accept |-> accept, stride |-> stride,
   middle |-> {r \in Reqs : kind = "extend" /\ Contains(reqs, r) /\ r \notin mixed
                            /\ launched[r] + 1 < Chunks[r]},
   base |-> gen, copied |-> FALSE, bad |-> fault, advanced |-> FALSE,
   retained |-> << >>,
   hasGrammar |-> Carried /\ HasGrammar(reqs)]

\* A retracted request is admitted again with its output as part of the prompt.
Admitted(r) ==
  LET q == req[r]
      last == launched[r] + 1 = Chunks[r] IN
  [q EXCEPT !.kv = 1, !.retracted = FALSE,
            !.inflight = IF last THEN @ ELSE @ + 1,
            !.committed = IF last THEN Chunks[r] + Len(q.out) ELSE launched[r] + 1]

\* With overlap, the result before the one just launched is processed.
AfterLaunch == IF Overlap /\ queue = << >> THEN "plan" ELSE "process"

LaunchExtend(P, M) ==
  /\ Up /\ phase = "plan" /\ P # {}
  /\ \A r \in P : Prefilling(r)
  /\ \A r \in M : Running(r)
  /\ LET order == SetToSeq(P) \o SetToSeq(M)
         token == [i \in DOMAIN order |->
                     IF order[i] \in M THEN <<order[i], gen[order[i]] + 1>>
                     ELSE FirstToken(order[i])] IN
     queue' = Append(queue, Result("extend", order, M, token,
                                   [i \in DOMAIN order |-> 1], 1))
  /\ req' = [r \in Reqs |-> IF r \in P THEN Admitted(r) ELSE req[r]]
  /\ launched' = [r \in Reqs |-> IF r \in P THEN launched[r] + 1 ELSE launched[r]]
  /\ gen' = [r \in Reqs |-> IF r \in M \/ (r \in P /\ launched[r] + 1 = Chunks[r])
                            THEN gen[r] + 1 ELSE gen[r]]
  /\ phase' = AfterLaunch
  /\ UNCHANGED <<fault, raised, retracts>>

\* The k-th token of a decode batch: the run of each request, padded to the stride.
DecodeToken(order, accept, k) ==
  LET r == order[((k - 1) \div MaxAccept) + 1]
      j == ((k - 1) % MaxAccept) + 1 IN
  IF j <= accept[r] THEN <<r, gen[r] + j>> ELSE Junk

\* All running requests are verified.
LaunchDecode(accept) ==
  /\ Up /\ phase \in {"plan", "retract"}
  /\ LET D == {r \in Reqs : Running(r)}
         order == SetToSeq(D) IN
     /\ D # {}
     /\ queue' = Append(queue, Result("decode", order, {},
          [k \in 1 .. Len(order) * MaxAccept |-> DecodeToken(order, accept, k)],
          [i \in DOMAIN order |-> accept[order[i]]], MaxAccept))
     /\ gen' = [r \in Reqs |-> IF r \in D THEN gen[r] + accept[r] ELSE gen[r]]
  /\ phase' = "verify"
  /\ UNCHANGED <<req, launched, fault, raised, retracts>>

LaunchNone ==
  /\ Up /\ phase \in {"plan", "retract"} /\ queue # << >>
  /\ phase' = "process"
  /\ UNCHANGED <<req, queue, launched, gen, fault, raised, retracts>>

\* Out of memory: the KV of a running request is released, its output is kept.
Retract(r) ==
  /\ Up /\ phase \in {"plan", "retract"} /\ Running(r)
  /\ retracts < MaxRetracts /\ retracts' = retracts + 1
  /\ req' = [req EXCEPT ![r].retracted = TRUE, ![r].kv = @ - 1, ![r].committed = 0]
  /\ launched' = [launched EXCEPT ![r] = Chunks[r] - 1]
  /\ gen' = [gen EXCEPT ![r] = Len(req[r].out)]
  /\ phase' = "retract"
  /\ UNCHANGED <<queue, fault, raised>>

\* An abort ends a request at its next result, and one whose prompt is still
\* being chunked at once.
Abort(r) ==
  /\ Up /\ phase = "plan" /\ ~req[r].finished /\ ~req[r].retracted /\ req[r].kv = 1
  /\ req' = IF launched[r] < Chunks[r]
              THEN [req EXCEPT ![r].finished = TRUE, ![r].kv = @ - 1]
              ELSE [req EXCEPT ![r].toFinish = TRUE]
  /\ UNCHANGED <<queue, phase, launched, gen, fault, raised, retracts>>

(***************************************************************************)
(* The device finishes batches in order; a transport fault spoils every    *)
(* batch that has not been finished.                                       *)
(***************************************************************************)
Copied ==
  /\ \E i \in DOMAIN queue :
       /\ ~queue[i].copied /\ \A j \in 1 .. i - 1 : queue[j].copied
       /\ queue' = [queue EXCEPT ![i].copied = TRUE]
  /\ UNCHANGED <<req, phase, launched, gen, fault, raised, retracts>>

TransportFault ==
  /\ ~fault /\ fault' = TRUE
  /\ queue' = [i \in DOMAIN queue |->
                 [queue[i] EXCEPT !.bad = @ \/ ~queue[i].copied]]
  /\ UNCHANGED <<req, phase, launched, gen, raised, retracts>>

(***************************************************************************)
(* Grammar.                                                                *)
(***************************************************************************)
\* next_token_ids.tolist(): what the host finds.
HostTokens(res) == IF res.copied /\ ~res.bad THEN res.tokens
                   ELSE [k \in DOMAIN res.tokens |-> Bad]

\* Mutant: the transport is checked before the copy has been waited for.
Synchronized_Early(res) == TRUE

\* synchronize_and_check_roce waits for the copy before it checks the transport.
Synchronized(res) == res.copied

\* The run of the i-th request of a batch.
Accepted(res, i) ==
  SubSeq(HostTokens(res), (i - 1) * res.stride + 1, (i - 1) * res.stride + res.accept[i])

\* _accept_grammar_tokens: the prefix up to a terminating or an illegal token.
Stops(r, run) == {k \in DOMAIN run : run[k] \in {<<r, Limit[r]>>, <<r, IllegalAt[r]>>}}
Retain(r, run) ==
  IF Stops(r, run) = {} THEN run
  ELSE LET k == Min(Stops(r, run)) IN
       SubSeq(run, 1, IF run[k] = <<r, IllegalAt[r]>> THEN k - 1 ELSE k)
Illegal(r, run) == Stops(r, run) # {} /\ run[Min(Stops(r, run))] = <<r, IllegalAt[r]>>
AcceptGrammar(r, q, run) ==
  [q EXCEPT !.fsm = @ + Len(Retain(r, run)), !.toFinish = @ \/ Illegal(r, run)]

Ended(q) == q.finished \/ q.retracted
Advances(res, r, q) == r \in Grammar /\ ~Ended(q) /\ (res.kind = "extend" => q.inflight = 0)

\* advance_grammar_fsm: the requests and the result after it.
AdvancesFsm(res) == ~res.advanced /\ res.hasGrammar
Position(res, r) == CHOOSE i \in DOMAIN res.reqs : res.reqs[i] = r
Advanced(res, reqs) ==
  [r \in Reqs |-> IF AdvancesFsm(res) /\ Contains(res.reqs, r) /\ Advances(res, r, reqs[r])
                  THEN AcceptGrammar(r, reqs[r], Accepted(res, Position(res, r)))
                  ELSE reqs[r]]
Memoized(res, reqs) ==
  IF ~AdvancesFsm(res) THEN res
  ELSE [res EXCEPT !.advanced = TRUE,
          !.retained = [i \in DOMAIN res.reqs |->
             LET r == res.reqs[i] IN
             IF Advances(res, r, reqs[r]) THEN Retain(r, Accepted(res, i)) ELSE << >>]]

\* Mutant: the masks are built without the barrier.
Barrier_None ==
  /\ Up /\ phase = "verify"
  /\ phase' = IF Overlap /\ Len(queue) = 1 THEN "plan" ELSE "process"
  /\ UNCHANGED <<req, queue, launched, gen, fault, raised, retracts>>

\* The verify of a batch with a grammar builds its masks behind the barrier: the
\* FSM is advanced over the batch before.
Barrier ==
  LET res == Head(queue) IN
  /\ Up /\ phase = "verify"
  /\ IF Len(queue) = 2 /\ HasGrammar(Last(queue).reqs) /\ AdvancesFsm(res)
       THEN /\ Synchronized(res)
            /\ IF fault THEN Raise("roce")
               ELSE /\ req' = Advanced(res, req)
                    /\ queue' = [queue EXCEPT ![1] = Memoized(res, req)]
                    /\ phase' = "process"
                    /\ UNCHANGED <<launched, gen, fault, raised, retracts>>
       ELSE /\ phase' = IF Overlap /\ Len(queue) = 1 THEN "plan" ELSE "process"
            /\ UNCHANGED <<req, queue, launched, gen, fault, raised, retracts>>

(***************************************************************************)
(* Processing a result.  Each request occurs once in a batch, so what is   *)
(* done with one depends on no other.                                      *)
(***************************************************************************)
Visible(q) == IF q.finLen # None THEN q.finLen ELSE Len(q.out)

\* update_finish_state.
Finish(r, q) ==
  IF q.toFinish THEN [q EXCEPT !.finished = TRUE]
  ELSE IF Len(q.out) >= Limit[r] THEN [q EXCEPT !.finished = TRUE, !.finLen = Limit[r]]
  ELSE q

\* release_kv_cache of a finished request.
Release(q) == IF q.finished THEN [q EXCEPT !.kv = @ - 1] ELSE q

\* Mutant: the requests that finished or were retracted meanwhile are not skipped.
Decoded_Unskipped(res, r, q) ==
  LET run == Accepted(res, Position(res, r)) IN
  Release(Finish(r, [q EXCEPT !.committed = @ + Len(run), !.out = @ \o run]))

\* process_batch_result_decode and _resolve_spec_v2_tokens.
Decoded(res, r, q) ==
  LET i == Position(res, r)
      run == IF r \in Grammar THEN res.retained[i] ELSE Accepted(res, i) IN
  IF Ended(q) THEN q
  ELSE Release(Finish(r, [q EXCEPT !.committed = @ + Len(run), !.out = @ \o run]))

\* Mutant: the token of a mixed batch is not committed.
Emitted_Uncommitted(res, r, q) ==
  Release(Finish(r, [q EXCEPT !.out = @ \o Accepted(res, Position(res, r))]))

\* process_batch_result_prefill: the last chunk, or a request of a mixed batch.
Emitted(res, r, q) ==
  LET token == Accepted(res, Position(res, r))
      f == Finish(r, [q EXCEPT !.out = @ \o token]) IN
  Release([f EXCEPT !.committed = IF ~f.finished /\ r \in res.mixed THEN @ + 1 ELSE @])

\* _apply_prefill_grammar.
PrefillGrammar(res, r, q) ==
  IF r \in Grammar /\ ~res.advanced THEN AcceptGrammar(r, q, Accepted(res, Position(res, r)))
  ELSE q

\* Mutants: an aborted chunk is skipped, or every finished request is drained.
Extended_Skips(res, r, q) ==
  IF Ended(q) THEN q
  ELSE IF q.inflight <= 0 THEN PrefillGrammar(res, r, Emitted(res, r, q))
  ELSE [q EXCEPT !.inflight = @ - 1]
\* An aborted middle chunk stays in the chunked branch.
Extended(res, r, q) ==
  IF q.retracted \/ (q.finished /\ q.inflight <= 0) THEN q
  ELSE IF q.inflight <= 0 THEN PrefillGrammar(res, r, Emitted(res, r, q))
  ELSE [q EXCEPT !.inflight = @ - 1]

\* Mutant: the snapshot counts the tokens behind the end of a finished request.
SnapshotStart_Raw(q) == Len(q.out)

\* _build_auxiliary_commits: the observer is given what became visible since
\* the snapshot.
SnapshotStart(q) == Visible(q)
Observed(old, new) ==
  [new EXCEPT !.aux = IF Visible(new) = SnapshotStart(old) THEN @
                      ELSE IF SnapshotStart(old) = @ THEN Visible(new) ELSE None]

\* A decode result advances the grammar first, if no barrier has.
Resolved == IF Head(queue).kind = "decode" THEN Memoized(Head(queue), req) ELSE Head(queue)
Resolving == IF Head(queue).kind = "decode" THEN Advanced(Head(queue), req) ELSE req

Processed(r) ==
  LET q == Resolving[r] IN
  IF ~Contains(Resolved.reqs, r) THEN req[r]
  ELSE Observed(req[r], IF Resolved.kind = "decode" THEN Decoded(Resolved, r, q)
                        ELSE Extended(Resolved, r, q))

\* The processor raises: the transport has failed, a request with a grammar has
\* no retained run, or its output became shorter.
Alarm ==
  LET Of(P(_)) == \E r \in Reqs : Contains(Resolved.reqs, r) /\ P(r)
      Unretained(r) == r \in Grammar /\ ~Ended(req[r])
      Backwards(r) == Visible(Processed(r)) < SnapshotStart(req[r]) IN
  IF fault THEN "roce"
  ELSE IF Resolved.kind = "decode" /\ ~Resolved.advanced /\ Of(Unretained) THEN "grammar"
  ELSE IF Of(Backwards) THEN "backwards" ELSE "no"

Process ==
  /\ Up /\ phase = "process" /\ Synchronized(Head(queue))
  /\ IF Alarm # "no" THEN Raise(Alarm)
     ELSE /\ req' = [r \in Reqs |-> Processed(r)]
          /\ queue' = Tail(queue) /\ phase' = "plan"
          /\ UNCHANGED <<launched, gen, fault, raised, retracts>>

Step ==
  \/ \E P, M \in SUBSET Reqs : LaunchExtend(P, M)
  \/ \E accept \in [Reqs -> 1 .. MaxAccept] : LaunchDecode(accept)
  \/ LaunchNone
  \/ \E r \in Reqs : Retract(r) \/ Abort(r)
  \/ Copied \/ TransportFault \/ Barrier \/ Process

Next == Step /\ UNCHANGED mode

Spec == Init /\ [][Next]_vars

(***************************************************************************)
(* Properties.                                                             *)
(***************************************************************************)
TypeOK ==
  /\ \A r \in Reqs : LET q == req[r] IN
       /\ q.out \in Seq((0 .. NReqs) \X Int) /\ {q.inflight, q.committed, q.fsm} \subseteq Nat
       /\ {q.finished, q.toFinish, q.retracted} \subseteq BOOLEAN
       /\ q.finLen \in {None, Limit[r]} /\ launched[r] \in 0 .. Chunks[r] /\ gen[r] \in Nat
  /\ phase \in {"plan", "retract", "verify", "process"} /\ Len(queue) <= 2
  /\ retracts \in 0 .. MaxRetracts

\* The output of a request is the tokens that the model computed for it, each
\* once and in order, whatever was retracted, aborted or launched ahead: no
\* padding of a stride, no token of a middle chunk or of another request, and
\* none of a batch whose transport failed or whose copy had not ended.  It ends
\* with the token that terminates the grammar, and the observer of auxiliary
\* output has been given what is visible of it, each token once.
OutputExact ==
  /\ TypeOK
  /\ \A r \in Reqs :
       /\ \A k \in DOMAIN req[r].out : req[r].out[k] = <<r, k>>
       /\ r \in Grammar => Len(req[r].out) <= Limit[r]
       /\ req[r].aux = Visible(req[r])

Queued(r, P(_)) == {i \in DOMAIN queue : Contains(queue[i].reqs, r) /\ P(queue[i])}
Settled(r) ==
  LET Prefill(res) == res.kind = "extend" /\ r \notin res.mixed IN
  Running(r) /\ Queued(r, Prefill) = {}

\* kv_committed_len is the length of the prefix whose KV is written, all of
\* prompt and output but the last token: the next verify reserves from there.
CommittedExact ==
  \A r \in Reqs : Settled(r) => req[r].committed = Chunks[r] + Len(req[r].out) - 1

\* The KV of a request is released once, when it finishes or is retracted,
\* though results of batches launched before still name it.
KVBalanced ==
  \A r \in Reqs : req[r].kv = IF req[r].finished \/ req[r].retracted \/ launched[r] = 0
                              THEN 0 ELSE 1

\* inflight_middle_chunks counts the launched chunks whose result is to come,
\* those of a request that was aborted while it was chunked included.
InflightExact ==
  \A r \in Reqs : LET Middle(res) == r \in res.middle IN
     req[r].inflight = Cardinality(Queued(r, Middle))

\* A verify samples under the grammar state behind the token before it: where the
\* copy of a batch carries has_grammar, the FSM has accepted all that was generated
\* when the batch was launched.
MaskFresh ==
  Carried => \A i \in DOMAIN queue : \A r \in Grammar :
     LET res == queue[i] IN
     /\ i = Len(queue) /\ phase # "verify" /\ res.kind = "decode"
     /\ Contains(res.reqs, r) /\ ~Ended(req[r]) /\ ~req[r].toFinish
     => req[r].fsm \in {res.base[r], Limit[r]}

\* The processor raises because the transport has failed, or because the copy of a
\* batch has lost has_grammar and there is no retained run of a request with a
\* grammar.  A copy that carries the flag never meets this, and no output shrinks.
NoAlarm == \/ raised \in {"no", "roce"}
           \/ raised = "grammar" /\ ~Carried
=============================================================================
