# A verification of the DeepSeek V4.1 serving stack on four DGX Spark nodes

The repository runs one language model, tensor-parallel over four machines, on
SGLang.  It carries its own row store for the Engram tables (C++ and Python),
the scripts that pack, stage, start, watch and stop the cluster, and full
copies of the SGLang files it patches.  This directory holds TLA+ modules of the
parts whose correctness depends on an order of events, the TLC configurations
that check them on small instances, and the TLAPS proofs that hold for every
instance.  Paths below are relative to the repository's root.

    tlc -config MCRowPool.cfg MCRowPool      # model-check one configuration
    tlapm RowPoolProofs.tla                  # check the proofs

`PROJECT.json` is the index: every component, every run, the lines of code that
each definition models, one seeded bug per property that the property finds, the
hazards, and the theorems.

## 1. The system

| component | state it keeps | operations | interacts with |
|---|---|---|---|
| Row store: I/O pool (`adapter/row_store.cpp` 170-258) | `caller_`, `mutex_`, `job_`, `next_`, `chunks_`, `remaining_`, `active_`, `generation_`, `stop_` | `run`, `drain`, `loop`, destructor | called by a CUDA host callback on each stream; workers call `serve` |
| Row store: data path (`adapter/row_store.cpp` 40-168, 267-429) | owned range, attached shard, pinned scales, cache keys/rows/cursors, 256 set locks, counters | open, range, attach, lookup, counters | the adapter (load order), the packed shards, the checkpoint |
| Engram packing (`scripts/pack_engram.py`, `scripts/pack-verified.py`) | `.partial` and `.bin` files, manifest | reuse, repack, verify, write manifest | started per rank by `cluster.py pack`; its files are attached by the row store |
| Cluster controller (`scripts/cluster.py`) | containers of the ranks, `boot-state.json`, receipts in the container logs | serve, start, stop, status, layout, stage, pack | docker over ssh on four nodes; other operators; the guard |
| Memory guard (`scripts/memory-guard.py`) | its own state file, the recorded restart counts | sample, stop all | the same containers, next to a running serve |
| GPU qualification (`scripts/qualify-gpu.py`) | none between commands | one session over the four nodes | ssh |
| Staging, overlay, launch gate (`cluster.py` stage, `scripts/apply-overlays.py`, `runtime/launch.py`) | working copy, the run_dir of every rank, `stage.json`, files of the image | hash, archive, unpack, verify, build, record; check and exec | other operators, editors of the working copy, the containers that serve starts |
| Batch result processing (`.../scheduler_components/batch_result_processor.py`) | per request: output, finish state, KV lengths, FSM; per result: retained runs | process extend and decode results, grammar barrier | scheduler loop, workers, RoCE health check, auxiliary observer |
| Process groups, collectives and RoCE (`.../parallel_state.py`, `.../pynccl.py`) | one coordinator per kind of group, its communicators, what is captured, the health word | build the groups of a layout, all-reduce and gather by one of several routes, pass tensors between stages, check, close | every rank of the group; the model's layers; the result processor, which reads the health |
| DSpark worker (`.../dspark_worker_v2.py`) | draft state, KV reservation | draft, verify, accept | backend, result processor |
| Engram backend (`adapter/engram_backend.py`) | pinned staging buffers per capacity | build, stage, attach | row store, CUDA streams of the forward |
| Engine adapters (`adapter/admission.py`, `prefill_empty_cache.py`, `mxfp8_b12x.py`, `sitecustomize.py`) | replaced methods | import hooks, admission | the engine |
| Attention backend (`.../deepseek_v4_backend.py`, `flash_mla_sm120.py`) | current metadata, metadata kept per graph, late-layer tail, candidate masks, projection buffers, compressor ring | build metadata eagerly, for capture and for replay, enter and leave the tail, write caches, tell the scheduler when the shared tables have been read | graph runner, scheduler, worker, kernels |
| Compressor and indexer kernels (`c2.cuh`, `dsv4/*.py`) | pair ring, indexer caches | pool pairs, select blocks | backend |
| Model definition (`models/deepseek_v4.py`) | weights, side streams, persistent query buffer | forward: what runs on which stream, the exchange of rows around the experts; load weights | backend, Engram backend, groups |
| Benchmarks (`bench/`) | job machines of the collectors | start, stream, cancel | HTTP endpoint |
| Validation, tests, experiments | none | offline checks | recorded results |

### What is hard in it, and what makes each part correct

*Threads without one lock.*  `Pool` lets two streams enter `run`, hands out tickets
with an atomic that is reset between jobs, and counts down one of its two
counters outside the mutex.  Correct means: a lookup that has returned is
complete and nobody still writes to it; a job is published only while nobody
is drawing tickets; no wakeup is lost.  The cache reads a miss outside the lock of its
set, so two threads may fetch and insert the same row: correct means that a key
never names other bytes than its own, and a lookup returns its own row in every
layout (RAM, checkpoint, packed shard, pinned scales).

*Crashes and a disk that lies.*  Packing may be killed at any step, lose power,
have a write fall short, or meet a checkpoint that was replaced.  Correct means:
a file that can be attached is whole, a manifest vouches only for exact shards
that stay on disk, and a run passes only over shards that are exact then.

*Remote commands that may be lost, late or refused.*  `serve` checks, launches,
samples and cleans up over ssh.  Correct means: after a failed serve, what runs
of its own is known; it never stops another operator's containers; READY rests on
receipts of this start; it ends within its deadline.

*Files that change while they are installed.*  `stage` reads the working copy twice and
installs four nodes at once; it leaves what it has done where it fails, and `serve` never
looks at its result.  Correct means: what a stage has passed is one set of sources with one library
built of it, on all ranks, for good; an engine runs from files that belong together and that nobody
changes under it.

*Results that arrive late.*  With overlap the next batch is launched before the
last result is looked at.  A request may have finished, been aborted in the
middle of its prompt, or been retracted when its result arrives; its grammar is
advanced either by the next verify or by the processor.  Correct means: the
output is what the model computed, each token once; the KV is released once; the
committed length is what the next verify may build on; a mask is built from the
state behind the token before it.

*State that outlives a guess.*  The ratio-2 compressor keeps the first token of a pair
in a small ring until the second arrives, in the same launch or in a later one.  In
between, drafts are rejected, the request's slot goes to another request, and a prompt
arrives in chunks longer than the ring; the rows of a launch have no order among
themselves.  Correct means: a latent is made of exactly its two tokens, a row
attends to latents of its own text only, and no two rows touch one ring slot.

*Kernels that run later than they were issued.*  The host launches a forward on up to
four streams, drops its tensors while kernels still use them, and lets micro-batches
overlap.  Correct means: every kernel finds what one stream would have left it,
and no buffer is given out again under a kernel that still reads it.

*Addresses that outlive their forward.*  A CUDA graph holds the addresses it was
captured with.  Metadata is copied into them, replaced beside them, or computed
again inside the graph; some of it is built for raw inputs and upgraded later; the
late layers of a prefill run over a cut of the batch.  Meanwhile the scheduler
rewrites the request tables as soon as a forward says that it has read them.  Correct
means: a kernel reads only what was computed for this forward, row by row for the
token it works on, from memory that is still held.

*Ranks that decide alone.*  Each rank computes from its own sizes and switches which
collective comes next, and by which of six routes.  Correct means: those who meet have
entered the same call, every shard is in each result once, and nobody releases what
a failed transport summed.

`hazards` in PROJECT.json lists each of these at its line, with the properties
that would notice it, or the reason why none does yet.

## 2. The modules and the code

### RowPool, RowLookup, RowPoolProofs: the thread pool

A caller is a thread that runs the host callback; it owns one `Work`, so its name
stands for the pointer.  `pc[t]` is where a thread is; the variables `callerLock`,
`mutex`, `job`, `next`, `chunks`, `remaining`, `active`, `generation`, `stop`
are the members of `Pool`, `work`, `ticket`, `seen` the locals of `drain` and
`loop`, and `writes` counts how often each row of a `Work` was served.

| code | action |
|---|---|
| `row_store_lookup` (serial or pooled) | `Lookup`, `ServeSerial` |
| `Pool::run`: lock, publish, notify, wait, unlock | `Serialize`, `Publish`, `WakeWorkers`, `Join`, `Block` |
| `Pool::drain`: `next_++`, serve, `--remaining_`, notify | `Claim`, `Serve`, `Finish`, `Signal` |
| `Pool::loop`: wait, enter, leave | `Loop`, `Leave` |
| `~Pool` | `Destroy` |

A critical section that shares nothing with unlocked code is one step.  The wait
of `run` is two (`Join` tests with the mutex held, `Block` gives it back), because
`remaining_` is decremented without the mutex: a notification between the test
and the sleep is exactly what could be lost.  RowLookup is the abstract
specification: rows are filled in any order, each once, and nothing happens to a
lookup that has returned.  `ImplementsLookup` maps `busy` to `pc # "idle"`, `size`
to `count`, and `filled` to the rows written.

### RowStore, RowStoreProofs: the data path

Init is `row_store_open` (RAM mode or a cache of `sets` by `ways` derived from a
byte budget); `SetRange`, `AttachPacked`, `AttachMissing` are the load; `Serve`,
`ProbeHit`, `CopyHit`, `ProbeMiss`, `Read`, `InsertRow`, `InsertKey` are `serve` and
`fetch_row` for one thread; `Fail` is `fail()`, which aborts the process.  A row is a
weight part and a scale part, each the number of the row it came from, so a wrong
offset or a torn copy is a visible value.  A copy made under a lock is a step of
its own: without the lock the other thread gets in between.

### EngramPack, EngramPackProofs: packing

A run of `pack-verified.py` is a record that walks through `main` and
`pack_layer` (`Begin`, `Old`, `Fresh`, `Open`, `Write`, `Rename`, `Verify`, `Replace`).
A file is an inode and its rows; a row remembers its number and the checkpoint it
was read from; the digest of a shard is its contents.  The identity that a manifest records is not: it is the
digest of `config.json` and of the index (65-70), which say nothing of the rows, so `Identity`
may be the same for several checkpoints.  `WriteShort` is an unbuffered write whose
result nobody looks at, `WriteFails` an error, `Kill`, `PowerLoss`, `Rot`, `Sync`,
`NewCheckpoint`, `Remove` are the environment.  The container name is what keeps
two runs apart (`NameFree`).

### ClusterServe, ClusterProofs: serve, start, stop and the guard

One record per operator (`op`) and one for the guard.  A call that `cluster.py`
maps over the nodes is one step per node in any order; the error, if there is
one, is raised when all calls have ended (`Map`, `Mapped`).  A launch may be
refused (`LaunchRefused`), done (`LaunchOk`), done with its reply lost
(`LaunchLost`), or still to be done after its timeout (`LaunchLate`, `LateRun`).
`SaveFailed`, `SaveRaises`, `StopOk`, `StopFails`, `Raise` are the except block.  The
variable `session` says who does what: who runs a command, whether it is
`serve` (fresh containers) or `start` (preserved ones), and whether the guard runs.

### Staging, ClusterProofs: the stage command and the launch gate

The state is the working copy, one record per operator for the head's side of `stage`, the next
step of every node's session, the run_dir of every rank (`kit`), who has written PASS, and the kit each
running engine was executed from.

| code | action |
|---|---|
| read the manifest, hash, compare, archive | `ReadManifest`, `HashSources`, `Archive` |
| `one(node)`: base check, mkdir, tar, verify with configs and B12x, g++, record | `CheckBase`, `MakeRunDir`, `Unpack`, `UnpackPartly`, `VerifyKit`, `BuildLibrary`, `RecordBuild` |
| a command that fails, or succeeds with its reply lost | `NodeFails`; the choice in `Continue` |
| compare the libraries, write `stage.json`, or raise | `StagePass`, `StageRaises`, `StageDies` |
| `launch.py` | `Execute` with `Verified` |
| the working copy and the engine's process (outside) | `Edit`, `EngineEnds` |

Files are four groups (adapter sources, overlays, the manifest that lists the overlays' hashes, the lock that
lists the adapters'), and the contents of a group is a version; a manifest or lock fits the sources of its own
version.  The locals of a stage are cleared when it has ended.  Staging extends ClusterServe:
`main` runs one command per operator, and `ClusterNext` is a step of either.  An engine may
be executed at any time, because `serve` does not wait for a stage; which containers are running when is
ClusterServe's business.

### BatchResult, BatchResultProofs: what becomes of a result

The processor's functions are operators on one request's record: `Extended`
(`process_batch_result_prefill`), `Decoded` (`process_batch_result_decode` with
`_resolve_spec_v2_tokens`), `AcceptGrammar` (`_accept_grammar_tokens`), `Advanced` and
`Memoized` (`advance_grammar_fsm`), `Observed` (`_build_auxiliary_commits`), `Synchronized`
(`synchronize_and_check_roce`).  `Process` applies them to the head of the queue.  The
scheduler loop, the request and the device are outside the repository and are
modelled as the processor uses them: `LaunchExtend`, `LaunchDecode`, `LaunchNone`,
`Retract`, `Abort`, `Copied`, and `Barrier` for the masks of a verify.  Whether the copy of a batch that is
queued with its result carries `has_grammar` is decided there too (`Carried`), and both answers are explored.  Token k of
request r is the pair `<<r, k>>`, so a token that is doubled, lost, padded or another
request's is a visible value.

### CompressPairs, CompressPairsProofs: the pairs of the ratio-2 compressor

One layer of `_low_ratio_compress`.  A token that a request keeps is `<<request,
position>>`; every other token (a draft that will be rejected, what the slot held
before) is `Wrong`, so a pair made of anything but its own two tokens is a visible
value.  `ring` is the compressor's state pool, `cache` says of which two tokens each
latent was made, and `launch` is the batch in flight, row by row.

| code | action |
|---|---|
| a forward that extends, its rows request-major | `Extend` |
| a decode or a target-verify block, padded for its graph | `Block` |
| `flash_c2_decode_kernel`, one CTA | `Cta`, in any order of the rows |
| `_low_ratio_compress_torch` and `_low_ratio_pair_partners` | `Torch`: one gather, one scatter |
| acceptance of a verify, end of a prefill (outside) | `Commit` |
| the request slot changes hands, prefix cache hit (outside) | `Reuse` |

`mode` chooses in Init what the server was started with: no speculation, static or
compact verify blocks, and whether the fused kernel is used.  A fused launch is a
CTA per row; `Torch` is one step, and the `CHOOSE` in its scatter picks the only
writer there is, which is what `RaceFree` says.  A padded row reads as position 0
of request 0, which is what its zeroed metadata says, and not as a row without an
owner: that alias is what `Keep` has to look out for.  What verification will
accept is decided when the block is launched, so that the model can call a draft `Wrong`
before anybody in the program knows.

### StreamOrder, ModelStreams, ForwardProofs: the streams of a forward

A program is what the host issues for one forward of `models/deepseek_v4.py`, in host
order: kernels on streams, `wait_stream`, events, `record_stream`, and the points at which
the last reference to a tensor goes.  StreamOrder says how a device runs a program: a kernel may
run when everything that its stream, its waits and its events put before it has run.  `mem`
holds for every buffer the kernel that wrote it last.  A buffer is
`<<name, micro-batch, layer>>`; what is one persistent tensor in the code is one
name with layer 0.  ModelStreams translates the methods into programs under their own
names (`forward_prepare_multi_stream`, `forward_low_ratio_sources`, `hc_pre_mlp_overlap`, `op_*` of the
two-batch overlap, ...): a kernel there stands for the launches between two
synchronisations that touch the same tensors.  A configuration is the set of
conditions by which the code chooses its path.

### TailLayout, GraphMetadata, ForwardProofs: the metadata of eager and captured forwards

A tensor is an address.  What matters of its content is its origin, a set of tags
(`<<"in", n>>` for the inputs of forward n, `<<"tab", n>>` for the request tables
as they were for it), and for each of its rows the token that it is about.  A captured graph is
the sequence of kernels recorded, with the addresses they were launched with; `Replay`
runs them again on those addresses.  The host works off `host.todo`, one step per call of
the runner, the model or the backend:

| code | action |
|---|---|
| the runner loads its static inputs | `LoadBatch` |
| `init_forward_metadata_out_graph`, `replay_cuda_graph_metadata_from`, `copy_` | `OutGraph`: `ReplaceMetadata`, or `KeepMetadata` on an idle rank of a verify |
| `init_forward_metadata_in_graph` (raw to full, live fields) | `InGraph` |
| `on_after_cuda_graph_warmup` | `AfterWarmup` |
| breakable graphs of a prefill: capture, refresh for replay | `BreakableCapture`, `BreakableReplay` |
| `init_forward_metadata` | `InitForwardMetadata` |
| `prepare_prefill_shared_read_snapshot`, `shared_read_ends` | `Snapshot`, `Publish`, `Done` |
| compressor, indexers, their breaks | `Sources` |
| `store_cache`, `_forward_attention` | `Store`, `Attend` |
| `enter_late_layer_tail`, `exit_late_layer_tail` | `EnterTail`, `ExitTail` |
| the scheduler prepares the tables for the next batch (outside) | `NextTables` |

TailLayout has the pure part: which rows the late layers keep, contiguous or gathered,
also when context parallelism deals the tokens out to ranks.

### ParallelGroups, Collectives, CollectivesProofs: ranks that meet

ParallelGroups computes the lists of ranks of every kind of group as
`initialize_model_parallel` does, and `Meant` says in coordinates who should be together.  In
Collectives each rank has a program (`Program`): build every coordinator, then run forward passes.
A rank that enters a collective waits; the collective happens when every rank of its communicator
waits in the same call by the same route (`Met`).  A row of hidden states is the bag of the
contributions it is the sum of, one per token, layer and shard, so a shard that
is missing or summed twice is a visible value.  `Route` is the decision of `all_reduce` and what
it calls; `Forward` is the exchange of `_run_moe_ffn_dp_sync` with its gathers, scatters
and switches; `Send` and `Recv` are the tensor dictionaries between stages, whose parts
travel on two groups.  Whether the MoE leaves its own sum out is for the MoE to decide (`SumLeftOut`): it obeys
`mlp_reduce_scatter`, and asks `should_use_dp_reduce_scatterv` itself, as `Combine` does.  That side is not in the patched files;
it is taken from the copy of the engine's `moe_utils.py` in `validation/reference/`.  A RoCE failure poisons all members for good, which is what
`validation/check-roce-integration.py` expects; `EnterReduce` and `Release` are the two
places that look.

## 3. What the runs check

A run is one question to the system.  Configurations that differ in a mode of the
program are one run whose initial states choose the mode.

| run | instance | shows | distinct states |
|---|---|---|---|
| `pool` | 2 streams, 2 workers, 2 lookups of 1 to 3 rows, lookups below 2 rows serial | safety, liveness and refinement of the pool | 177 thousand |
| `store_safety` | 2 threads, 4 rows of which this rank owns 3, 0 to 3 sets of 1 or 2 ways, 2 locks, 5 lookups | every row served is exact, the cache names no other bytes than its own | 363 thousand |
| `pack` | 3 runs over 2 shards of 3 rows, 4 checkpoints with 2 identities, 2 losses | what packing leaves behind, and what a pass means | 1.3 million |
| `serve` | 2 ranks; two operators serving, one starting preserved containers, one serving under the guard; two operators staging, 2 versions, 3 kinds of edit, 2 ways a build may turn out | clean-up, ownership, evidence of READY, the guard; what is staged and executed | 1.2 million |
| `serve_live` | 1 rank, 2 rounds, guard | serve ends, the guard reacts | 19 thousand |
| `startup_guard_promise` | 2 ranks | violation, see section 6 | |
| `batch` | 2 requests with 1 and 3 chunks, ends at output 4 and 3, runs of up to 2, 1 retraction; every combination of overlap and grammars, with copies that carry `has_grammar` and not | output, committed length, KV, chunks in flight, masks, observer, and when the processor stops | 848 thousand |
| `pairs` | 2 requests with up to 6 and 3 tokens, ring of 3, blocks of up to 2, chunks of up to 4, padding of 0 or 4 rows; the three ways to verify, fused | the latents, what rows attend to, races between rows, a verify block against its replay | 89 thousand |
| `streams` | forwards of 2 layers, every way to prepare attention with every combination of its switches, 2 micro-batches | what kernels find, reuse of memory, what is stored, and the rules from which more is proved | 5.5 thousand |
| `metadata` | 4 captures and forwards per server; batches of 1+3, 3+4, 4 and 5 tokens, window 2, one or two context-parallel ranks; V4 and V4.1, three architectures, targets and drafts, ranks that idle: 21 deployments | what kernels read, row by row, and from what memory | 83 thousand |
| `late_reads` | 2 prefills with the early release of the tables | violation, see section 6 | |
| `collectives` | 4 ranks, 144 layouts, up to 3 tokens a replica, 1 or 2 passes | the set-up and the groups that ranks agree on, pairing of collectives, exactness of results, tensors between stages | 116 thousand |

Type correctness is an invariant of its own in `pool`; for `store_safety`, `pack`, `serve`, `batch` and `pairs`
it is part of what is proved.  In the other modules the properties say of every value what it must be, so a value outside its type violates
them.

### Why the bounds are enough

* `pool`: a race of the pool needs a caller that publishes, one that waits at
  `caller_`, a worker that is late and one that is in time; a second lookup makes
  a late worker meet a new generation.  One to three rows give fewer, as many and
  more tickets than threads.  `kChunk` is 1 in the code.  For more callers,
  workers and rows the safety properties are proved (section 5).
* `store_safety`: two rows of one set, one of another set that shares its lock,
  and one row of another rank; one and two ways separate replacing from filling; two
  threads are the most that can meet in one slot.  Five lookups fill a set of two
  ways and go once round.
* `pack`: the first and the last row are sampled and the middle one is not.  Of four checkpoints
  two differ in the middle row only, where verification sees neither a mixture nor a replacement; a third
  differs from them in a sampled row as well, all under one identity; the last one has another.  Three runs are one that dies,
  one that meets its remains, and one that meets a manifest.
* `serve`: two ranks are a head and a worker: the order of launches, a launch
  after one that was acknowledged, and a clean-up with something left to stop.
  Two operators are the fewest that can pass the idle check together.  Two rounds
  of the watch loop would repeat the first for safety; `serve_live` has two.
  Two operators that stage meet in one run_dir, at once or one after the other; of the mixtures of two versions
  the run has the whole new version, new adapters under the old lock, and a new manifest over old overlays.
  `StagedHolds` and `ExecutedHolds` need none of these bounds (section 5).
* `batch`: at most two results are queued, so a request can be in the one being
  processed and in the one behind it.  Three chunks give a middle chunk that is
  followed by another; runs of one or two tokens end before, at and behind the limit;
  the second token of request 1 is the one its grammar refuses.
* `pairs`: three slots for blocks of two is the narrowest ring that the launch check
  of `c2.cuh` admits (line 418), so every slot that could be needed by two rows is.
  Chunks of four are longer than the ring and make the scatter wrap; padding of four rows
  reaches from a request's last rows back over a whole ring.  Six tokens are three
  pairs: one from a prompt, one across a rejected block, one behind it.  The second
  request is there to be mixed up with the first and needs one pair and a half.
* `streams`: layers hand on buffers to the next one only, so two layers hold every
  conflict between layers; more than two micro-batches do not exist.  That a program which follows the rules is run as one stream would run it, reuses no memory early and
  ends with its main stream is proved for every program (section 5); the run
  shows that the programs of the code follow them (`Disciplined`).
* `metadata`: four forwards are two captures and two replays, or a capture that
  is followed by a larger one and replays of both; that is also the least for a graph
  to meet metadata that another graph has refreshed in between.  A window of 2 over requests of 1, 3, 4 and
  5 tokens gives requests shorter than the window, as long, and longer; two requests
  separate a cut per request from a cut of the batch; 5 tokens on 2 ranks leave one
  rank a row short, so there is padding to select.
* `collectives`: four ranks are the cluster of the repository, what the RoCE runtime takes,
  and the fewest on which two kinds of parallelism have more than one group each.  The
  thresholds (`RoceRows`, `AccelRows`) are 2 rows, so batches of 2 and 3 take different routes; replicas
  with no token, with fewer than others and with as many occur.  That ranks form the groups which
  their layout means, and that those who wait together wait in the same call, is proved for any number
  of ranks (section 5).

### Fairness

Safety properties are checked under `Init /\ [][Next]_vars`, where nothing has
to happen.  Liveness is claimed in two places.

* `RowPool!FairSpec`: the operating system runs every thread that can run, so each
  thread's own steps are weakly fair.  No lookup and no destructor is forced.
  `caller_` is a plain mutex, not a queue, so taking it is not strongly fair: the
  property starts at a published job, after that lock.  Spurious wakeups may come
  at any moment but not without end, for a waiter that takes the mutex again and
  again for ever could keep it from the thread it waits for.
* `ClusterServe!FairSpec`: every command of `cluster.py` and `memory-guard.py` has a
  timeout, after which the step has an outcome; so a running serve or guard takes
  its next step.  Containers, networks and other operators are not fair.

`CHECK_DEADLOCK FALSE` stands where the system really may stop: operators that have
ended, runs that have been used up, requests that have all finished or a scheduler that
raised, the forwards of a bounded session.  RowPool, RowStore, StreamOrder and Collectives
say with an action of their own when everything has been done, and are checked for deadlock,
as is CompressPairs, where a slot can always be given to the next request.  For Collectives this is half of
what the run is for: ranks may only stop when all have finished, or when one has raised an
error, which ends the deployment.

## 4. Only model-checked

The liveness properties `PublishedJobReturns`, `WorkersExit`, `ServeEnds` and `GuardReacts`
need fairness and stay with TLC.  So do `StoredOnce` and `Disciplined` of the streams: they speak of the finished
programs that ModelStreams builds for a configuration, sequences put together by folds and
concatenation, and of no step that runs them.  What a fold computes for all data
needs induction over an operator, which the installed provers cannot instantiate.
Of GraphMetadata it is proved where the kernels of a graph may reach (`CapturedAlive`).  What they find there,
`ReadsOwn` and `RowsMatch`, depends on the contents that a whole forward has left, through kernels that read what earlier
ones wrote, and on the cut of a batch into rows; both are checked only.
Of the collectives `GroupsAgreed` is proved, which is about the calls and the numbers of rows in them.  `ForwardExact`
is about what is in the rows, bags of contributions summed over folds; `DictExact` follows elements through
concatenation and slicing.  Both are checked only.  So is that no rank waits for good, which TLC reads off the state graph:
pairing excludes that two ranks wait in different calls of one communicator, not that ranks wait around a
cycle of several.

## 5. What is proved

`RowPoolProofs` proves about `RowPool`, for every set of callers, every finite set of
workers (the null pool included), every set of counts and every bound on lookups:

| theorem | statement |
|---|---|
| `TypeCorrect` | the variables have their types; `remaining_` and `active_` never go below zero |
| `ReturnsComplete` | a lookup that has returned has every row, each written once |
| `PublishesAlone` | `run` resets the ticket counter only when nobody is in `drain` |
| `WorkOutlivesWorkers` | the `Work` of a worker in `drain` is that of a `run` that has not returned |
| `SingleWaiter` | at most one thread waits on `done_`, so `notify_one` is enough |
| `Implements` | every step of the pool is a step of RowLookup, or none |
| `Invariance` | the inductive invariant `Inv`, on which the others rest |

They assume `RowPoolAssumption` and nothing else: workers are finite, callers are
not workers, `NoWork` is neither, counts and bounds are naturals.  TLC evaluates
it in `pool`.

None of the safety properties is inductive: that a returned lookup is complete
depends on which thread holds which ticket.  `Inv` says it.  *Owned*: `caller_` and
`job_` belong to the caller inside `run`, `mutex_` to the one between its test and its
sleep.  *Entered*: a worker in `drain`, or leaving it, works on the job that is
published now.  *Tickets*: a thread that serves holds a ticket that was drawn, and two
threads never hold the same one.  *Rows*: a row of the job has been written once if
its ticket was drawn and its holder has served it, and not at all otherwise.
*Counting*: `active` is the number of workers inside, `remaining` the number of
tickets that are not drawn or whose holder has not counted them.  From counting,
`remaining = 0 /\ active = 0` means that every ticket is written and nobody is left
in `drain`, which is `ReturnsComplete` for the caller about to return and
`PublishesAlone` for the next.  The two cardinalities are why the proof cites
FiniteSetTheorems; everything else is one step per action and one per conjunct
that the action can disturb.

`CompressPairsProofs` proves about `CompressPairs`, for every finite set of requests,
block length, ring wider than a block, chunk, text length and padding, and every
set of modes:

| theorem | statement |
|---|---|
| `TypesHold` | the variables have their types; a text never outgrows its pages |
| `PairsHold` | every pair of a text has the latent of exactly its two tokens |
| `AttendedHolds` | after a launch a row attends to exact latents only, kept drafts or not |
| `RaceFreedom` | no two rows of a launch write one ring slot, and none reads one that another writes |
| `ReplaySameHolds` | a verify block, whose rows run in any order, leaves the ring and the cache of decoding its rows one position at a time |
| `Invariance` | the inductive invariant `IInv`, on which the others rest |

It assumes `CompressAssumption`: requests are finitely many numbers and 0 is one of
them, the ring is wider than a block, a chunk holds a block.  `IInv` adds three
things to `TypeOK` and `PairsExact`.  *Shape*: the rows of a launch are disjoint
blocks, one per request, and what is kept is a prefix; in a static verify each
block starts at a multiple of the block length, so the first row of a block is where
the kernel looks for it.  *Waiting*: if a request's text ends on the first token of a
pair, the slot of that token holds it until a launch has overwritten it with what
comes next.  *Done*: a row that has ended has cached the pair it completes, made of its own
two tokens, and if it is the last to stay and completes none, it waits in its slot.  The two
arguments that need arithmetic are that positions less than a ring apart have
different slots (`SlotsDiffer`), from uniqueness of quotient and remainder, and that
blocks of a static verify start at multiples of the block length (`Multiples`), which takes the
least block that does not and looks at the block before it.

`ReplaySameHolds` compares two ways to run the same rows, and rests on one more invariant.
*Replaying* says that a verify block in flight has done to the ring and the cache it found
what its rows that are done do, whichever they are: each slot and each pair belongs to one
row at most, and what a row pairs with does not depend on which rows have run (`After`, which
determines both, by `AfterUnique`).  A step of the replay keeps `After` too and takes in the
rows of one more position (`StepAdds`): a row finds in the ring what the row before it left one
step earlier, which is the token that the kernel takes from the block itself.  With all rows in, both have the same
`After`.  `Upto`, the replay, is recursive; that its equation has a solution (`UptoUnfolds`) and what it yields
(`UptoLeft`) follow from the least position at which they would not.

`ForwardProofs` proves about `StreamOrder`, for every set of programs:

| theorem | statement |
|---|---|
| `SerialHolds` | if conflicting kernels are `Ordered`, a kernel that may run finds in each buffer it reads the last write before it in host order |
| `NoEarlyReuseHolds` | if dropped tensors are `Kept`, no memory is given out again under a kernel that still uses it |
| `MainEndsLastHolds` | if side streams are `Joined`, nothing is under way when the main stream has run its last kernel |

They assume `StreamAssumption` (what a program is) and one rule each about the text of the programs, stated with
chains of waits: a chain leads from the earlier of two conflicting kernels to the later one (`Ordered`); whoever used a
buffer before its last reference went ran on the stream it came from or on one recorded for it, or a chain leads from it to any
later allocation there (`Kept`); a chain leads from every task to the end of the main stream (`Joined`).  The
rules need no exploration of interleavings, and the run `streams` evaluates them for the programs of the code
(`Disciplined`).  The lemma `ChainHolds` connects the two: what has run is always closed under waiting, and a set
that is closed and lets a task run holds every chain that leads to it; the least task for which it did not would have a
link to an earlier one.  For `SerialHolds` the invariant adds two parts: no kernel has run before a conflicting one that the
host issued first, and `mem` is, for each buffer, the largest of its writers that are done.  The first is where being
ordered is needed, and it is what makes the second stay true when writers of one buffer run on
different streams.

`ForwardProofs` also proves about `GraphMetadata`, for every set of deployments, any number of forwards and every window:

| theorem | statement |
|---|---|
| `CapturedAliveHolds` | the kernels of a captured graph touch tensors of their own recording, or tensors that somebody still holds |

It assumes `MetadataAssumption`, that deployments run the kinds of forward there are.  The property is far from inductive: a graph is
recorded over many steps, from metadata built earlier in the session, and lives on while later sessions copy into that metadata,
replace parts of it, and grow the projection buffers.  The inductive invariant `AliveInv` has five parts.  *GraphsKept*
strengthens the property itself: of what its bucket's metadata holds a graph touches only the fields that last (`Lasting`), those which
no copy, refresh or plan ever replaces.  Which these are differs per bucket: a raw bucket is copied field by field into its own tensors, a
block's window indices lend their storage, breakable graphs get new pages and window indices with each refresh, and plans and write targets are
assigned.  *Bucketing*: each bucket has an object of its own, of the kind it is for, so a refresh for one bucket
leaves the graphs of the others alone.  *Capturing* says where a session that captures stands in its program and what holds there: when recording
begins the metadata is the bucket's, and while it lasts every field of the current metadata, and the candidate masks once
the first source has run, is one that the graph may touch.  Without the reset after the warm-up (`AfterWarmup`) this fails where recording
begins: the upgraded metadata of the warm-up would be recorded, and dropped.  *ServingOnly*: a session that serves records nothing and has
only steps of serving left, which refresh metadata of graphs that exist.  *Framed* has the shapes of the variables.  A graph that breaks
records its breaks, not the kernels run there, so `Attend` and `Sources` may do there what could not be recorded.

`ClusterProofs` proves about `ClusterSpec`, for every number of ranks and operators, every set of versions
and edits, and whatever the compilers build:

| theorem | statement |
|---|---|
| `StagedHolds` | the kits of a stage that has passed are exact on all ranks, and stay so |
| `ExecutedHolds` | an engine runs from overlays, adapters and a library that belong together and do not change under it |
| `StagingInvariance` | the inductive invariant `StageInv`, on which both rest |

They assume `ClusterAssumption` and `StagingAssumption`: `Nobody` is no operator, versions are positive and
builds are naturals.  Neither property is inductive, because a session compares files with hashes long before
anybody relies on the result.  *Working* says what each step of a session may take for granted: the run_dir is its own, has no
record yet, holds what was hashed, and so on.  *Whole*: a record names the library
beside it, built of the sources beside it.  *Passes* and *Running* hold on because a kit with a record is never written again:
whoever is at work in a run_dir made it and has not recorded its build.  The lemma `Command` says so once
for all eight commands of a session.

The composition adds nothing to what `serve`, `start` and the guard may do: `ServeKept` says that every behaviour of
`ClusterSpec` is one of `Spec`, so all that follows for ClusterServe holds while operators stage.

It also proves about `Spec` of ClusterServe, for any number of ranks, all sets of sessions, and every number of rounds:

| theorem | statement |
|---|---|
| `StoppedOrKnownHolds` | what a failed serve leaves running is a rank whose stop failed, or whose launch was never acknowledged |
| `GuardStopsAllHolds` | when the guard has given up, only ranks whose stop failed still run |
| `StopsOwnOnlyHolds` | a failing serve stops no container of another operator |
| `ReadyOnEvidenceHolds` | READY rests on receipts of the starts that are running, of all ranks, if `RestartsAlone` |
| `Invariance` | the inductive invariant `ServeInv`, on which the others rest |

They assume `ClusterAssumption`.  `ReadyOnEvidenceHolds` has a hypothesis of its own: in no session do two operators both
restart preserved containers.  It is needed.  TLC finds the counterexample when two operators do: the first has seen the receipt of a
rank, the rank ends, the second one's `docker start` brings it up again, and the first writes READY.
The instance of `serve` has one such operator, next to one that launches fresh containers.
`ServeInv` adds to the types what every step of a command may rely on.  *Counted*: a container that exists has been started, so that a
new start has a number that no log knows; without it not even the types are inductive.  *Known*: who launched a container that runs has listed it and not yet reached it with its stops, has recorded a failing stop, or
got no answer to the launch.  *Late*: a command left behind by a timeout is one of an operator that got no answer.  *Enrolled*
reads the progress of a serve off its locals: launches follow the order of ranks, and the watch loop is entered
when every rank is listed and every launch was acknowledged.  *Own*: with fresh containers, an operator has launched what it
lists, and nobody launches it again.  *Guarded*: each rank that the guard has reached has ended or is recorded.  *Seen*: with one
operator, the receipts that its sample has found so far are those of the starts that run.

`RowStoreProofs` proves about `RowStore`, for any number of rows, sets, ways, locks, threads and lookups:

| theorem | statement |
|---|---|
| `ServedExactHolds` | a row that was served is its own in both parts, and zero if another rank owns it |
| `CacheExactHolds` | a keyed slot holds the row of its key, outside the critical section; the counters count each owned row once |
| `LocksExclude` | two threads in the critical section never share a lock |
| `Invariance` | the inductive invariant `IInv`, on which the others rest |

They assume `RowStoreAssumption`: threads are finitely many, there is a lock, sizes and ranges are naturals; the range
itself is checked by the code.  `IInv` adds five parts to the types and `ServedExact`.  *LoadedInv*: attached shard and pinned scales
start at the first owned row, and a thread serves only owned rows.  *LockInv*: who copies or keys holds the lock of its set.
*FetchInv*: what a thread carries from its read to its insert is the row it was asked for, and so is what its slot holds
between copy and key.  *SlotInv*: a keyed slot holds the row of its key, unless a thread is about to key it.  *CountInv*: hits,
misses and the threads between the two counts add up to the lookups, a cardinality.  What keeps two threads apart
that miss the same row is not their order: both may insert, and *SlotInv* says that each leaves a
slot which names what it holds.

`EngramPackProofs` proves about `EngramPack`, for any number of runs, shards, rows, checkpoints and losses:

| theorem | statement |
|---|---|
| `AttachWholeHolds` | a file that may be attached has all rows in place and of one checkpoint, but for rot |
| `ManifestExactHolds` | a manifest vouches for shards that are exact of one checkpoint with the identity it names, and stay on disk |
| `PassExactHolds` | a run that packed passes over shards exact of the checkpoint in place; one that met a manifest, over shards exact of one checkpoint of the same identity that agree with the one in place in the sampled rows |
| `Invariance` | the inductive invariant `IInv`, on which the others rest |

They assume `PackAssumption`: there is a layer, a row and a checkpoint, and `None` is no run, checkpoint or identity.  Which
checkpoints share an identity is free.  `IInv` consists of
the types, *OneRun* (the run at work is the one whose container has the name, and its identity is that of the checkpoint it reads), `AttachWhole`, *Vouched*
(`ManifestExact` as a step needs it), and *Orderly*, which says for each place of a run what is on disk.  While it
packs (*PackingOf*) there is no manifest, the layers before its own are whole or too short, and those after it are not there.
While it writes (*WritingOf*), its file is no longer than what was read, and exact if it is as long.  While it verifies
(*VerifyingOf*), each complete file is exact, and the digests it has are those on disk.  The proof never uses which rows
the verification samples: a short write shows in the length, a mixture of checkpoints cannot arise within one run, and
what an earlier run left is used only under its manifest.  Rot between runs may spoil a file that the manifest vouches for; `PassExact`
then rests on the comparison of digests.

`BatchResultProofs` proves about `BatchResult`, for any number of requests, chunks of a prompt, limits, lengths of accepted
runs, retractions, and with every combination of overlap, grammars and copies that carry `has_grammar` or not:

| theorem | statement |
|---|---|
| `KVBalancedHolds` | the KV cache of a request is released once, by whichever of its end, a retraction and an abort comes first |
| `InflightExactHolds` | the chunks counted in flight are those in the queue, also of an aborted prompt |
| `NoAlarmHolds` | the processor meets no output that shrank, and no grammar without its retained run unless the copies of batches do not carry `has_grammar` |
| `OutputExactHolds` | the output is what was computed, each token once, up to the one that ends it; so is what the observer got |
| `CommittedExactHolds` | the committed length of a settled request is that of prompt and output without the pending token |
| `MaskFreshHolds` | where the copies carry `has_grammar`, a verify samples when the grammar has accepted all that was generated before |
| `FrameInvariance`, `Invariance` | the two layers of the inductive invariant |

They assume `BatchAssumption`: every prompt has a chunk, every limit and every run a token.  The invariant has two layers.  `Frame` says
which results may name which request, and holds whatever the tokens are.  *Phased*: how long the queue is in each phase of the scheduler loop, at most two.  *Shape*: a batch names a request once, and the
run of each lies where the stride says.  *Drained* and *Prompted* say where a request that was retracted or has a prompt
under way can still occur in the queue; *Balanced* that it holds its KV from its first launch until it ends or is retracted, and
that the counter of its chunks is what the queue shows.  `Content` says what the tokens are.  *Continues*: a queued run begins where the output, with the run queued before
it, stops.  *Retained* and *Fsm*: what the barrier retained of the head is the accepted prefix of its run, and the
grammar is ahead of the output by exactly that.  *Masked*: no verify with a grammar has passed the barrier by.  *Committed* and
*Limited* follow the committed length and the end of the output.  Neither layer is inductive
without some facts that no property mentions: an extend result has stride 1, only the head of a queue of two is advanced
(*Advancing*), and a middle chunk at the head leaves a prompt that is unfinished or whose next chunk is queued.  `Process` applies
the processor to each request of the head in turn; the proof is one lemma per kind of row (`Decoded`,
`Extended`, absent) and a frame lemma for the requests that the result does not name.

`CollectivesProofs` proves, for any number of ranks:

| theorem | statement |
|---|---|
| `GroupsAsMeant` | in every layout each rank is in exactly one list of each coordinator, and the list has the ranks that are meant |
| `OverlapAsserted` | the second context-parallel communicator has the lists of the first, as `_init_attn_cp_overlap_group` asserts |
| `GroupsAgreedHolds` | ranks that wait in one communicator wait in the same call, by the same route and with the same sizes, while they set up and in every forward pass; and a rank that begins to serve has its group of every coordinator, with the ranks that are meant |

The first two are about every `Layout`: the number of ranks is `tp * pp`, `dcp` divides `tp`, as `initialize_model_parallel`
checks, and so do `cp * dp` and `ep * mdp`, which it leaves to its caller.  Without the last two the quotients that are
the widths of attention TP and MoE TP are not widths of anything.  The argument is arithmetic on quotients and remainders.  Each
list has a fixed stride *w* and length *n*, so it holds the ranks that share `s \div (w * n)` and `s % w`
(`StrideSet`, `StrideFree`): the outer and the inner digits are fixed and the digit between runs free.  Each loop of the code counts
these pairs of digits once (`CanonicalPartition`), though it
nests two or three ranges in orders of its own (`ListsCanonical`).  And what is meant, in
coordinates, comes to the same digits (`Agreeing`, `MeantClasses`).  A
coordinator that is used for a second kind of group has the same stride and length for both (`SharedWidths`): that is what the
comparisons of widths in the code amount to.

`GroupsAgreedHolds` is about `Spec`.  It assumes `CollectivesAssumption`: that every layout to be run is a `Layout` with some number of passes
and a number of tokens for each data-parallel replica, and that the collectives by sizes are switched on only where each replica
is one rank, since `all_gatherv` and `reduce_scatterv` assert one size per rank (`parallel_state.py` 1190, 1387) and are given one per replica.  Numbers of ranks, passes and tokens,
the widths, the thresholds of the routes and all switches are free.  The invariant has six parts.  The groups follow from two of them.
*Rightly*: a rank's program is set-up steps and then serving steps, only lists of a coordinator are
waited for or kept, and a list is kept only by ranks in it.  *Pending*: for each coordinator a rank has a group, or it is waiting for the
group to be formed, or its program still has the step that does.  A rank that is about to serve waits for
nothing and has only serving steps left, so it has a group of each; by
*Rightly* the group is one of the coordinator's lists, and by `GroupsAsMeant` that list is the meant one.  That the
program has those steps at all is a fact about a flattened sequence of sequences (`FlattenSeqHas`), shown
by the least place at which the flattening would have lost one.

That ranks meet in the same call while they set up takes two more.  *Within*: a rank waits only in a communicator that it is in, and sets up none but its
own.  *Agreed*: for each communicator there is one sequence of steps, which every rank in it that has not raised is at the first step of or
before.  `Selects` says what of a program concerns a communicator; the programs of two ranks differ, but what they
select is the same (`ProgramSelects`), because each coordinator contributes the same part for all ranks of a list
(`SetupOfSelects`), and its groups for all ranks whatsoever.  A step of a rank takes the head of its own selection (`SelectsTail`), a call
that is met takes the head of the common one.  With a loop that creates only a rank's own groups *Agreed* fails in the initial state, at the
world's communicator.

In forward passes the programs of two ranks of one communicator need not agree: what they call depends on the stage, on the rows that a rank holds,
and on the group it is in.  The last three parts say why they still meet.

* *Holding*: what is left of a rank's program can be taken from the numbers of rows that it has in its two buffers, or will have when the
  collective that it waits in has happened.  Those numbers are tables over the steps (`Before`, `During`, `After`), from which `Entry`
  tells the call that the step makes, a function of the layout and of the rank's groups; `Flow` chains them along a program.  `ForwardRuns` and
  `ProgramRuns` show that the tables fit: each step of `Forward`, in each layout, finds the rows that the steps before it leave.  `ServingComes` shows,
  one lemma per step, that the model's step enters the call of the table, and `MeetsRows` that the call leaves those rows.
* *Wired*: what is under way on a link is the number of rows that the sending stage lets go, so that it is
  what the receiving one expects (`ComesFrom`).  `Recv` decides by it whether to gather slices.
* *Paired*: for each communicator there is one sequence of serving steps, which every rank in it that has not raised is at the first step of or
  before, as in *Agreed*.  In two ranks of one group the steps that enter it are the same, and so are the
  calls (`EntryAgrees`): the sizes depend on the replica only where the group lies within a replica, or the rows are padded alike.

`PairedNext` takes the actions in turn: a rank enters the first step of its own selection (`PairedServes`), and the ranks that are met leave with the
rows of the table (`PairedMeets`), since they agree on the call and hold what it takes.  A combine that does not ask the same switches as the MoE, or a gather whose sizes are
those of the rank's own replica, has no such table.

## 6. Where code and documents differ

With a run that shows it:

* `startup_guard_promise`: `docs/reproduction.md` says the startup guard stops the
  experiment after a failed container, OOM, restart or low memory.  The except block
  writes `boot-state.json` before it stops anything, and an error of `docker stop` is
  swallowed (`scripts/cluster.py` 260-265), so containers may run on.  What does hold
  is `StoppedOrKnown`: those are ranks whose stop failed or whose launch was never
  acknowledged.
* `late_reads`: with `SGLANG_ENABLE_PREFILL_WAR_READ_DONE` under a draft of the DFLASH family a dense prefill
  is marked as having snapshotted all that it reads of the shared tables, and the scheduler may rewrite
  them before the launch.  The comment says that this path reads the core metadata only
  (`deepseek_v4_backend.py` 2397).  The indexers of a V4.1 prefill read `req_to_token` in every
  layer that selects (3171, 3562).  `metadata` sets the switch only where nothing reads late.

Met while modelling, without a run because what would show it lies outside `src/` or needs an
operation that is not modelled:

* `docs/reproduction.md` 30 says that all four compiled-library hashes must agree.  `stage` raises if they do not,
  but leaves the kits, each with its record, and neither `serve` nor `launch.py` looks at `stage.json`
  (`scripts/cluster.py` 123-126, 213-224): ranks with different libraries can be served, as well as ranks staged by two
  commands from two versions, where the first failed on some nodes before their run_dir was made.
  What holds is per rank (`ExecutedExact`), and for all ranks after a PASS (`StagedExact`).
* `row_store_range` refuses to move the range when scales are pinned, but not when a packed
  shard is attached, which is indexed off the same number (`adapter/row_store.cpp` 127, 409); the comment
  there says that anything else than one range is a bug.  The adapter calls it once, before the attach, and that
  is what `store_safety` assumes.
* A comment says that advancing the FSM gates itself per request because the queued copy of a batch does
  not carry `has_grammar` (`batch_result_processor.py` 751-753); the function returns at once without that
  flag (834), and the retained runs subscripted at 768 are then missing.  Whether the copy
  carries it is decided in `ScheduleBatch`, outside the repository.  `batch` has both cases: if the comment is right about the copy, a
  decode result under overlap stops the processor if one of its requests goes on and has a grammar; if it is
  not, nothing but the transport stops it (`NoAlarm`), and the masks are built from the right state (`MaskFresh`).
* The identity of a checkpoint is that of `config.json` and the index (`scripts/pack-verified.py` 65-73).  A rerun over
  a checkpoint that was replaced under the same two files keeps the shards of the old one, and passes if the two agree in the
  sampled rows.  `docs/results.md` says that complete weight hashes are not computed; `pack` shows what a pass does mean (`PassExact`).
* An idle rank of a verify under the online compressor returns before it prepares anything
  (`deepseek_v4_backend.py` 2264-2269), and its graph runs over the slots, extend lengths and plan that the bucket's metadata still
  has.  A comment says that its metadata may be stale (3613), and takes the window slots from the batch for that reason; the other
  kernels of the graph read it.  `ReadsOwn` names these three fields as the exception and shows that there is no other.
* `mlp_reduce_scatter` (`models/deepseek_v4.py` 2942) does not name the switch by which the combine sums over replicas (3023).
  The sum is not made twice only because the MoE asks the same switch itself
  (`validation/reference/moe_utils.py` 709); without that test `ForwardExact` fails in `collectives`.
* `_mamba_check_track_boundary` (1360-1388) computes the previous length from the number of accepted
  drafts while the length of the request has been cut by its grammar: a request that ends this way may
  record an earlier boundary than its slot was written for.
* `destroy_model_parallel` "set[s] the groups to none and destroy[s] them" (`parallel_state.py` 2991) but leaves
  the group of single ranks (`_SELF_PP`), so a second initialisation meets the old one.
* A fast all-reduce that fails to set up on one rank is switched off there (`parallel_state.py` 484-488) with a
  warning; the other ranks keep it, and the routes would differ.  `collectives` assumes that set-up succeeds
  on all ranks or on none.
* With fused Q/K normalisation and context parallelism the keys are gathered, as the comment says, to be written to
  the cache afterwards (`models/deepseek_v4.py` 1731-1739); without the unified cache the backend is then told not
  to store anything (2013), so only the rows of the rank's own fused store are there, and nothing reads what was gathered.
  `StoredOnce` states this combination as it is and demands the gathered rows in every other.

## 7. Not modelled

*Data without control.*  Floating-point computation (model layers, attention and MXFP8 kernels) has no
state that TLC could explore; packaging, argument parsing, logging, metrics
and recorded results have none at all.  Embeddings, beam search and log-probabilities of
the result processor share the control that is modelled and add data to it.

*Single passes.*  `start` and `stop` share the actions of `serve`.  The loop of `pack` over the nodes is a single
pass over runs that EngramPack models; `qualify-gpu.py` and `apply-overlays.py` are sequences of checks, the
latter in one layer of an image build that is dropped as a whole when it fails.  Benchmarks and validation are clients and offline analyses.  The engine
adapters are conditions around single methods of an engine that is not in the repository.

*Paths left out of modules that exist.*  ModelStreams: the multi-stream path of HIP (1436-1548) and weight
loading.  GraphMetadata: the backend of several draft steps (4354-4458), request windows, the
quantized sparse prefill, an idle batch without multi-token prediction outside a graph, V4.1 decoding
on sm90, the snapshot or the online compressor together with breakable graphs.  Collectives: broadcasts,
the fused all-reduces of ROCm, elastic joins, destruction of groups; context
parallelism is followed only where it spans tensor parallelism, and token ids not under it; the FP4
all-gather of the experts is taken to be off.
BatchResult: the Mamba track buffers.

*Outside the repository*, modelled as it is used: the scheduler loop and its requests, the graph
runner, the gather of data-parallel attention, the experts and their all-to-all, the ratio-4 and
ratio-128 compressors, docker and ssh.

One hazard has no property, with its reason in PROJECT.json: a restart that adopts another operator's
container (`cluster.py` 221).

## 8. Plan

| step | module | models | properties | theorems |
|---|---|---|---|---|
| 1 | DSparkWorker | `dspark_worker_v2.py`: draft, verify, `fold_eligible`, `folded_accept`, `folded_commit`, static and compact blocks, KV reservation | the hidden state of each accepted token is committed once, none of a rejected one; refines decoding one token at a time | committed once |
| 2 | MambaTrack | `batch_result_processor.py` 1123-1401 with the worker's commit of Mamba states | the state of a tracked slot is that of the length recorded for it | |
| 3 | IndexTopK | `candidate_blocks.py`, `indexer_postprocess.py`, backend 3228-3604 | selected blocks against a reference top-k over small inputs | bounds of the selection |
| 4 | WeightLoad | `models/deepseek_v4.py` `load_weights` | each parameter is loaded once, by the shard that owns it | |

Proofs of the modules that exist: what GraphMetadata's kernels find where they read (`ReadsOwn`, `RowsMatch`), on top of where they may
reach; and `DictExact`, on top of the numbers of rows that are under way, for which the ranks of one attention group have to be shown
to send the same rows.
