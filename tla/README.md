# TLA+ models of the RTX 3090 LLM lab

The repository runs language models on one 24 GB graphics card and measures them. Most of its
files are measurements. The programs fall into two groups: code that lives inside the inference
server (a quantised KV cache for vLLM, a plug-in for a quantised weight format, speculative
decoding, launch scripts), and the tools around it, which share the card between a live service,
benchmark campaigns and the data jobs of a drafter, run the benchmarks, and put the service back.
What goes wrong in both is rarely a formula: it is an order of events. This directory models that
part.

Paths below are relative to the repository's root; `kvarn_attn.py`, `config.py` and so on name
the files listed in `PROJECT.json`, whose `map` ties every definition to its lines.

## The system and its parts

| Part | State it keeps | Operations | Meets |
|---|---|---|---|
| **KVarN tail pool** (`vllm/syv-ai/kvarn/.../kvarn_attn.py`, `triton_kvarn_decode.py`) | which cache block has an fp16 slot, free slots, sink labels, retired sinks, fill counts, the GPU mirror of the slot map; pool and int4 tiles | `build()`: mark sinks, flush and reclaim, allocate, evict; store; attend; drafter passes | vLLM's scheduler, block pool and prefix cache decide what the next batch is |
| **KVarN attention routing** (the same files) | persistent buffers of the verify plan, metadata of a step | split the batch, plan one row per decode token, choose a kernel or fallback for each part, share a row's blocks out among KV splits | the tail pool says what a position holds, this part which positions are read |
| **KVarN builder registry** (`kvarn_attn.py`) | owner of each layer, owned layers, slot dictionaries and mirrors by group, pointers of impls, compiled kernel variants | construct, claim, reset, `_ensure_pool`, build, launch eagerly, captured or replayed | vLLM creates the builders anew for every KV cache, captures and replays graphs |
| **KVarN tile** (`kvarn_attn.py`, `kvarn_store.py`, `sinkhorn.py`, `config.py`, the decode kernels) | the packed record of a block and head | choose the block size, gather, balance, round, pack, write by one of two paths; read by kernels or by the slow gather | the tail pool decides when a block is flushed |
| **KVarN pool sizing** and **budget** (`kvarn/config.py`, `kvarn-0.27.1.patch`) | cap on requests, pool size | measure the weights on disk, derive budget and cap, allocate | fixes the size the tail pool must live with |
| **OrcaSAQ plug-in** (`vllm/image-orcasaq/orcasaq2/`) | wrapped constructors, the tensors a placeholder has captured, a layer's shards | register, construct, capture, decide, apply | vLLM's loader and model code |
| **GPU lock** (`tools/bench/gpulock.sh`) | lock directory with owner, heartbeat, pid file; refresher processes | acquire, release, steal, status | every campaign |
| **Container watcher** (`tools/bench/container-health.sh`) | seconds slept, last status | `wait`, `check` | dockerd |
| **Restoring GPU window** (`benchmarks/orca-thinkingcap-2026-10-07/run.py`) | the service's replicas and Flux suspension, containers, `state-before.json`, `state-restored.json`, monitor threads, two events | take the service down, launch, measure, restore | Kubernetes, Flux, docker, signals |
| **Paired harness** (`benchmarks/paired-harness/harness.py`) | plans, output directories, rows | freeze, run, compare | the server under test, graders, the operator |
| **K2 drafter data** (`archive/experiments/k2-horizon-dflash2/`) | transcripts, prompts, the resumable output, the capture set; lock, deployment, Flux; the notifier's state file | mine, build prompts, regenerate, capture, stop, notify | systemd, Kubernetes, Flux, SGLang, a chat |
| **Draft vocabulary tools** (`tools/build_draft_vocab.py`, `truncate_drafter.py`, `validate_drafter.py`) | counts, id set, the partial and the published GGUF file | count, choose, truncate, publish, validate | llama.cpp loads the file |
| **Suffix lookup drafter** (`archive/experiments/mtp_suffix_lookup.py`) | the history of tokens | find a match, arbitrate, rewrite distributions, verify | the MTP head and the target |
| GSQ campaign runners, other windows | like the window, with pauses under memory pressure | | |
| Speculative decoding patches; runner and cache patches of vLLM | n-gram and suffix indices; order of state checkpoints, block promotion | | vLLM |
| Launch scripts, workload tools, benchmark clients, training, llama.cpp patches | none that outlives a call | | |

How they interact: a campaign takes the **lock**, its **window** removes the live service from the
card and starts a server container, the **watcher** says whether it came up, the **harness** sends
the frozen jobs and writes rows, the window restores the service and the lock is released. The
**drafter's jobs** borrow the card from the same service under a lock of their own and prepare the
data a drafter is trained on; the **vocabulary tools** cut its head down. Inside a vLLM server the
**tail pool** sits between the scheduler and attention, with as many slots as **budget** and
**sizing** have given it; a full block leaves it as a **tile**; the **registry** says which builder
drives which layer, and through which tensors a launch sees the pool.

What is hard about each, and what makes it correct:

* *Tail pool.* Quantising a block is permanent, while speculative tokens in it may still be
  rejected. A block is freed, cached, handed out again, shared, evicted and re-adopted without
  the builder being told: it sees only the next batch's block tables. A slot freed too early, a
  label kept too long, or one lost slot shows up many steps later as wrong attention or as a dead
  engine. Correct: attention reads what the block's present owners wrote, and nothing is leaked.
* *Routing.* Six ways to serve a token, chosen by flags over the whole batch; batches mix decodes,
  verify steps, fresh prompts, continued prompts and padding; a plan lives in buffers of earlier
  steps. Correct: each token reads each position it may see exactly once.
* *Registry.* Two generations of builders, two claimants of one layer, class-level maps under keys
  that change, and graphs that keep the tensors they were captured with. Correct: one driver per
  layer, and a layer's cache behaves like a plain paged cache.
* *Tile.* Writers and readers each compute strides and offsets from bit widths; vLLM asks for the
  block size with and without a configuration in scope. Correct: readers load the bits last flushed.
* *Sizing and budget.* A bound over every way to fill a step, with floor divisions; a guess at the
  size of the weights, made before the loader chooses its files.
* *Plug-in.* What a fused layer is made of is only known when its last tensor has come, in any order.
* *Lock.* A directory removed in several system calls, refreshers that outlive the command that
  started them, shells that die anywhere, a takeover decided by sampling.
* *Window.* `finally` blocks that raise, signals that arrive in them, a monitor thread that acts
  on the container and the events while the main thread does, a GitOps controller that puts the
  service back, and restarts after a kill.
* *Watcher.* Docker moves on between two polls.
* *Harness.* Overlapping and killed runs, a harness edited between two arms, failures in the middle.
* *Drafter's jobs.* Shell scripts that are stopped at any step of a trap, a resumable append-only
  output, and a notifier that reads the status and the journal of a unit at two moments.
* *Vocabulary tools.* Caps that cut a walk anywhere; a truncator stopped between two tensors and
  run again for another id set.
* *Lookup.* Overlapping matches and ties; a token replaced without its distribution.

## Modules

| Module | Models | Composes / extends |
|---|---|---|
| `KvarnPool` | one builder's pool against an adversarial scheduler | |
| `MCKvarnPool` | values, symmetry and view for TLC | `KvarnPool` |
| `KvarnPool_proofs` | seven theorems | `KvarnPool` |
| `KvarnAttend` | plan, routing, kernels as sets of positions read | |
| `PagedCache` | what a layer may expect of its KV cache (abstract) | |
| `KvarnOwnership` | registry, tensors, builds, launches | implements `PagedCache` |
| `KvarnBackend_proofs` | eight theorems | `KvarnAttend`, `KvarnOwnership` |
| `MCKvarnBackend` | a behaviour is one of routing or registry (`side`) | `KvarnAttend`, `KvarnOwnership` |
| `KvarnTile`, `MCKvarnTile`, `KvarnTile_proofs` | the record, from block size to bits read; two theorems | |
| `KvarnSizing` | cap, pool size, demand of a step | |
| `KvarnBudget` | files of a checkpoint, estimate, budget | |
| `KvarnMemory` | the pool on the budget, beside the weights | `KvarnSizing`, `KvarnBudget` |
| `Exl3Load` | one layer of an OrcaSAQ pack, from registration to `apply` | |
| `DraftVocab` | walk, choice of ids, truncation, validation | |
| `SuffixLookup` | match, arbitration, rejection sampling | |
| `ContainerHealth` | the `wait` command and docker | |
| `MCLabTools` | a behaviour is one of these programs (`program`) | `KvarnMemory`, `ContainerHealth`, `SuffixLookup`, `DraftVocab`, `Exl3Load` |
| `LabTools_proofs` | nine theorems | `KvarnMemory`, `ContainerHealth`, `SuffixLookup`, `DraftVocab`, `Exl3Load` |
| `GpuLock`, `GpuLock_proofs` | the lock, refreshers, deaths and steals; five theorems | |
| `GpuWindow`, `GpuWindow_proofs` | `run.py` and what it acts on; five theorems | |
| `PairedRun`, `MCPairedRun`, `PairedRun_proofs` | freeze, run, compare; two theorems | |
| `SessionMining` | transcripts to prompts | |
| `Regeneration` | both jobs, Flux and the deployment, the notifier | |
| `Regeneration_proofs` | six theorems: five of the jobs, one of the miner | `Regeneration`, `SessionMining` |
| `MCK2Pipeline` | mining delivers the input of the jobs | `SessionMining`, `Regeneration` |

`MCKvarnBackend` and `MCLabTools` are sums: their parts share no state (except the two named), so
one run checks each part alone, and a property of a part is vacuous on the others' behaviours.

### KvarnPool

A step of the engine is a walk through `phase`: `idle` (scheduler) → `mark` → `flush` → `alloc` →
`attend` → `idle`, or `mark` again for a drafter pass. `pass` is vLLM's `draft_index`.

| Code (`kvarn_attn.py`) | Model |
|---|---|
| `_block_to_slot_dict`, `_b2s_t`, `_free_slots` | `dict_map`, `b2s_t`, `free_slots` |
| `_global_sink_blocks`, `_retired_sinks`, `_block_fill` | `sinks`, `retired`, `fill` |
| `blocks_needed` | `needed` |
| sinks marked and un-retired, fill recorded | `MarkSinks` |
| walk back from the committed boundary, reclaim, retire, discard | `FlushAndReclaim` (with `WalkBack`, `ToRetire`, `ToFlush`, `ToDiscard`) |
| `draft_index >= 1` skips both | `SkipFlush` |
| the allocation loop, eviction of retired sinks, `RuntimeError` | `Allocate`, `EvictRetired`, `PoolExhausted` |
| scatter-store kernel, pool-or-tile choice of the pack kernel | `Store`, `View` |
| `_reset_group_state`, `_ensure_pool` after a restart | `Restart` |

Token values are abstracted to *freshness*: an offset is in `poolFresh[s]` or `tileFresh[b]` when
that copy is the last token the block's present owners wrote there. That is all a correctness
statement about a paged cache needs, and it makes stale data of an earlier owner visible.

The scheduler (`Arrive`, `Leave`, `ScheduleRow`, `Dispatch`, `Sample`, `Draft`) is external: vLLM's
sources are not in the repository, so it is modelled from how `build()` uses its batches and is
left free to choose: which requests come and go, prefixes hit, chunk lengths, accepted drafts,
which free block is reused. Assumed of it, and by name in the module: every running request is in
each target batch; a request does not hit a block that is written in the same step; a verify step
is no longer than a tile (`MaxQuery <= Group`). Padded rows, the null block and the resizing of
the mirror are `KvarnOwnership`'s and `KvarnAttend`'s.

### KvarnAttend

A step is `AddRow`s and `Pad`s (the runner composes the batch), `BuildMetadata`, one of the four routes of
`forward()`, `NextBatch`. The result of a token is the block-table row that was read for it and
the set of positions each KV split saw; heads, rotation, dequantisation and softmax are left out.

| Code | Model |
|---|---|
| `_vq_req_buf`, `_vq_seqlen_buf`, filled and zeroed in `build()` | `vq`, `Planned`, `Unfilled` |
| `has_cached_multiquery`, `vq_qlen`, `is_prefill` | `HasCached`, `UniformLen`, `IsPrefill` |
| the branches of `forward()` | `DecodePath`, `VerifyPath`, `PrefillPath`, `MixedPath` |
| `kvarn_decode_attention`, `kvarn_verify_attention`, shared-dequant kernel | `DecodeAt`, `VerifyAt`, `SharedAt` |
| `_prefill_first_chunk`, `_cached_multiquery_path` with its fused, packed and slow ways | `FirstChunkAt`, `CachedAt` |
| `blk_lo`, `blk_hi` of stage 1, the block loop of the kernels | `PerSplit`, `SplitBlocksOf`, `Part` |

Assumed of the runner (external): decodes come first, a row as short as a decode behind a longer
one is a fresh prompt, and only a uniform decode batch is padded, with requests of no tokens. The
environment variables are constant in a deployment (`option`). Not modelled: sliding windows
(`kvarn-0.27.1.patch` keeps such layers off this backend), the freezing of a route in a captured graph,
the resizing of the buffers, `KVARN_NUM_KV_SPLITS`.

### PagedCache and KvarnOwnership

`phase` is the life of the engine: `profile` (a forward without metadata or cache) → `attn` (a cache,
its builders) → `warm` (dummy runs, capture) → once more for the real cache (`epoch` 2) → `serve`.
vLLM's order is external; the profiling cache may be skipped.

| Code (`kvarn_attn.py`) | Model |
|---|---|
| `_owner`, `_impl_by_name`, the claim rule, `_reset_group_state` | `owner`, `impl_by_name`, `MayClaim`, `NewBuilder`, `ResetGroupState` |
| `impl._group_key`, `_kv_cache_ref`, `_block_to_slot_t` | `group_key`, `kv_cache_ref`, `b2s_ptr` |
| `_block_to_slot_dict`, `_block_to_slot_t_per_device`, the tensors | `dict_map`, `current`, `mirror` |
| `_ensure_pool`, the resynchronisation of a new mirror, the warm-up of kernels | `EnsurePool`, `Resynced`, `WarmDecodeKernels` |
| a build: owned layers only, the flush through `_kv_cache_ref` | `Build`, `Owned`, `Flushed` |
| `forward()` eagerly, under capture, replayed | `RunEager`, `RunCapture`, `RunReplay` |

Which blocks a build flushes is `KvarnPool`'s subject; here a build may give up any complete block and
use any cell not yet written, so a cell is written once per cache and the writer need not be
told from the reader. `PagedCache` knows only `ran` (cells a layer's forward passes have written) and
`stored` (cells whose data it would read). `KvarnOwnership` implements it under
`stored <- Readable`: a cell is readable when every launch the layer may make, eager or replayed,
finds the cell's own data in the slot its mirror names or in the tile.

### KvarnTile

`AlignBlockSize`, `ConstructImpl`, `SelectBlockSize`, `AllocateCache` are the way from
`--kv-cache-dtype` to a cache, with the configuration in scope chosen by vLLM at each call; `Fill` and
`Flush` serve. A number is a tag (the element of the pool and the Sinkhorn iterate it was computed
at), a bit a tag and a position, a byte eight bits; so the layout is exact and precision is not
modelled. `FastRecord` and `LegacyRecord` are the two flush paths in their chunks,
`KernelK`/`KernelV` and `GatherK`/`GatherV` the two readers. The Sinkhorn loop keeps its control
(best iterate so far) over given imbalances.

### KvarnSizing and KvarnBudget

`PoolSlots` and `Supported` are `pool_slots` and `max_supported_seqs`; `Init` is
`check_and_update_config` with the allocation in `_ensure_pool`; `Schedule` adds one row to a step
in any way the limits allow and counts the slots that `build()` will mark as needed. `KvarnBudget` is
a function of a snapshot: `EstimateWeightBytes` walks manifests, single files and the glob in the
code's order, `PoolBudgetBytes` takes the share, `NumKvarnLayers` divides it; `LoadedFiles` is what
vLLM then loads. Weights have one width and sizes are small numbers. `KvarnMemory` gives the slots
of the budget to the pool (`MemorySpec`), as `check_and_update_config` does before anything is allocated.

### Exl3Load

`RegisterPlugin`, `Construct` (the choice of a method, the placeholders), `Capture` (a tensor arrives under a
shard id of one of four forms), `ProcessWeights` (accept or refuse), `Apply` (the outputs in order). A
matrix product is the set of outputs it computes, garbage if one of its tensors, its markers or its
width is another shard's. Layers share nothing but the plug-in, so a behaviour follows one.
`ModelAssumption` says what a model may be: fused layers have the three or two parts their shard ids name, any other
layer of vLLM has one, every linear layer is given its configuration, and widths come in the steps exllamav3 writes.

### DraftVocab

The walk (`SkipSource`, `EndSource`, `SkipFile`, `OpenFile`, `CountUnit`, `CloseFile`) ends in `Build`,
which may choose any ranking of the tokens seen; `Begin`, `WriteTensor`, `Stop`, `Publish` are the truncator, and
`Validates` is the validator's verdict on the published file. A byte is a tag. `LayoutAssumption` says what a drafter's file
is (distinct names, one of them the head, none `d2t`), `VocabAssumption` that no size asked for is so large that the ids are
just the first rows of the head, which the validator would take for a table that maps nothing.

### SuffixLookup

`FindSuffixMatch`, `Arbitrate`, `RewriteRows` are the code's functions; `Draft` and `Verify` are the loop
they are written for, whose own code is vLLM's. `Lossless` is rejection sampling in whole numbers.

### GpuLock

Each agent is a campaign shell that runs the script's commands one after another; each file-system
call is a step (`Mkdir`, `WriteOwner`, `ForkRefresher`, `WritePid`; `ReleaseCheck`, `StopChild`,
`Unlink`, `Rmdir`; `StealStart`, `Sample`, …, `StealMkdir`, `StealOwner`). `rm -rf` is two steps, the
entries and the directory, and the second fails when a refresher has put a heartbeat back. The
refresher of each acquisition is a process of its own (`RefresherCheck`, `RefresherWrite`). `creator`
and `stolen` are history variables. Assumed: an agent that is killed takes the command it is running
with it, and does not start again under the same name; `status` only reads.

### GpuWindow

One action per step of `main`, of `launch` and of the monitor that changes the cluster, a container,
a file, an event or a thread. Every command can return, do its work and raise (a timeout), or raise
without effect; a signal is a raise wherever the main thread is, which includes the SIGTERM that
`stop-after-orca.py` sends when an arm's cleanup begins. `Handler` is the nest of `try`/`finally`.
Failures of ordinary commands are always admitted; `Faults` names three more, and a behaviour has
none or all of them (`faults`): `rm_timeout` (its `docker rm` times out), `rm_error` (a `docker rm` fails
with `check=False`), `late_signal`. Kubernetes, Flux and docker (`Reconcile`, `ServerDies`) act at any
time. The two start scripts never overlap: one process at a time.

### ContainerHealth

`Inspect`, `Sleep` and `Answer` are the poll loop; docker changes the container between any two of them.
`elapsed` is counted no further than the grace period needs. `docker inspect` is assumed to
answer; `check` is one pass of the loop.

### PairedRun

`Start` … `WriteRow` are the steps of `run` between two effects on disk, `Kill` interrupts them
anywhere and may leave a torn row, `Compare` is `load_run` of two directories and the report.
`EditHarness` is the author changing `harness.py`. A plan's shuffled order is a fixed order of job
numbers; a request that failed and was recorded is a row like any other. Plan files are not edited.

### SessionMining, Regeneration, MCK2Pipeline

`SessionMining` reads one line per step (`SkipLine`, `UserLine`, `ResultLine`, `AssistantLine`) and cuts
the samples of a file at its end (`EndFile`: `Trimmed`, `Sampled`, `Windows`); `BuildPrompts` joins them with
the public first turns. A text is its size. `TranscriptAssumption` says of the files found that a tool's results come after
its call and before the user's next turn, as the API the coding agent talks to demands; nothing is assumed of how a turn is
streamed, of what stands between the lines, or of sizes. A file's name is its first eight characters, which are the id
of its session, and the rest, so two files may give their samples the same ids.

In `Regeneration` a job is a program counter over its script's commands (`Steps`). `Ends` is `set -e`
with the trap: a failure before the trap ends the script, one under it goes to the cleanup, and a TERM
that came during a foreground command is handled when the command has ended. `Stop` is `systemctl stop`, `Kill` the
SIGKILL that follows, whatever command runs. The input is a sequence of rows, known by their ids, which may repeat; an answer
names the id it carries and, for the properties, the place of the row it answers. `Todo` leaves rows out by id, as the
program does, and submits every row that is left. `Seed`, `Answer`, `Regenerated`, `BuildCaptureSet` are the resumable
regeneration and its filter; `Monitor`, `Poll`, `Judge`, `Queue`, `SaveState` the notifier, whose
crash loses its memory. Both jobs take one lock. `Repair` is the operator; `Reconcile`, `PodStarts`,
`PodEnds` are Flux and the cluster. `Deliver` is the input appearing, once; `MCK2Pipeline` hands it over when
the miner's process ends (`HandOver`). Not modelled: a reconciliation of Flux already under way when it is
suspended, a journal that lags behind the script.

## Runs

| Run | Instance | Shows |
|---|---|---|
| `pool` | 4 blocks, 3 slots, 2 requests, tiles of 2, prompts of 3, length ≤ 6, chunks and verify steps of 2, one drafter pass | `SlotPartition`, `ReadsAsWritten`, `CacheHitsFindData`, `RetiredIsSpare`, `ExhaustedOnlyByDemand`, `LiveSinkStays` |
| `backend` | 2 rows, 6 tokens, length ≤ 5, tiles of 2, verify steps of 2, 2 splits, five settings; or 3 layers in 2 groups and a drafter, caches of 2 and 3 blocks, 2 slots, 2 lookup bounds; 1.9 million states | `AttendsExactly`, `DecodesSeeContext`; `OneOwner`, `GraphsReadTheLiveMirror`, `CompiledWhenProfiled`, refinement `PagedSpec` |
| `tile` | tiles of 4 with values of 2 and of 4 bits, tiles of 6; heads of 4 and of 8, the latter beyond the fused kernel's limit; 2 layers, 2 heads, 3 blocks, 3 slots, 3 fills, chunks of 4 | `BlocksAreTiles`, `ReadersFindTheTile` |
| `tools` | see below; 209 000 states | `DemandBounded`, `PoolLeavesTheWeights`, `ServedAsPacked`, `IntactPackLoads`, `PublishedIsWhole`, `ValidatedIsCurrent`, `OutputIsTheTargets`, `NoFalseFailure`, liveness `Answers` |
| `longest` | the same instance | **violation** of "Find the longest recent continuation" |
| `lock` | 2 agents, 2 acquisitions each, a window of 2 samples; 1.3 million states | `Exclusive`, `HeartbeatIsTheOwners`, `ReleaseUnstolen`, liveness `DeadGoesQuiet` |
| `lock_owner` | 2 agents, 1 acquisition | **violation** by a steal |
| `window` | 2 arms, 2 rounds, 2 starts; without and with the three faults; 348 000 states | without faults `OneOnGpu`, `RestoredUnlessStruck`, liveness `ProcessEnds`; in any case `RestoredIsTrue`, `ComparedUndisturbed` |
| `window_hung` | the same with `rm_timeout` alone | **violation** of `ServiceRestored` |
| `paired_whole` | 2 jobs, 2 plans, 2 arms, 3 directories, 2 processes, 2 harness versions | `ReportsWholeRuns`, `ReportedIsFixed` |
| `regen` | 4 sets of transcripts, 3 public rows; 2 invocations, 1 crash of the notifier; 1.4 million states | `ContextsAreWhole`, `OneOnGpu`, `RowsOnce`, `VerdictIsTrue`, `DoneMeansReady`, liveness `Notified` |
| `stop` | the same instance | **violation** of "restore both on success, failure, or TERM" |

Why the bounds are enough. *Pool:* three slots are fewer than two requests need at their peak (a
sink and up to two written blocks each), so retirement, eviction and exhaustion occur; four blocks
for two requests of up to three force reuse of freed blocks within a step or two; a length of six
gives a first, a middle and a last block; both requests continue one conversation, so every prefix is
shared. Slots are interchangeable, and the view of `MCKvarnPool` identifies states that differ only
in which slot a block holds; `SlotPartition` and `TypeOK`, which could tell, are evaluated inside the view.
*Routing:* two rows give each pair of decode, verify step, fresh and continued prompt; six tokens hold a
verify step beside a prompt longer than one; a length of five makes three blocks, an odd number for two
splits, with a partial last one; each limit (`SMs`, `ScratchRows`, `MinBlocks`, `MaxFused`) falls
inside the range. Any number of rows is covered by the theorems.
*Registry:* the drafter's layer has a target layer beside it, so claims of one and of two layers compete, and
a group without a drafter shows that groups do not meet; a lookup bound of 0 lets the mirror grow while
serving, one of 4 covers the cache; two blocks in two slots force a flush before a slot is
used again. One part per block suffices for the question, because a block is flushed only when complete.
*Tile:* three blocks of two heads cross both chunk limits; imbalances are best at
once, late, twice over and never again; two fills after a flush reuse slots.
*Lock:* two agents suffice for every race of the protocol, each over one directory; the second
acquisition lets an old refresher meet a new directory of its own agent. The theorems cover any
number. *Window:* two arms let a late thread of the first meet the second; two starts let a
second find the remains of a first. *Harness:* two processes race for a directory; three directories
let a killed run be repeated elsewhere. *Jobs:* two invocations give one of each unit, or one
that resumes the other's output; an error share of a half puts the error rate on both
sides of its limit; one of the sets is two files whose names begin alike, which give two rows of the input one id. *Tools:* sizing has tiles of 4, batches of 8 and 40 tokens and up to 20
rows (the theorems cover the rest); budget has a sharded checkpoint, a second copy in one file,
a third in another format, every snapshot of each, and a hybrid and a sliding-window model; the pack has
one layer per form of shard id and a linear layer of one part, with every dense or quantised part and every single loss, in every order of
arrival; the vocabulary has a source with directories, generated files and a holdout and one of
documents, each cap falling within them; a lookup history of eleven tokens over two has matches below,
between and above the limits of 2, 3 and 4; the watcher has a grace of 5, polls every 2 and one restart.

Deadlock is checked in `pool`, where the engine never stops. Elsewhere the system may stop: agents die
or have used their acquisitions, scripts end, a file is published, and in `backend` each cell is written once.

### Fairness

* `GpuLock`: weak fairness of each refresher. It is a loop of a live process that only sleeps;
  nothing is assumed of agents, which may stop for ever or die.
* `GpuWindow`: weak fairness of the main thread and of each monitor, because every command either
  has a timeout or only computes, and the interpreter schedules both. Nothing is assumed of Flux or docker.
* `ContainerHealth`: weak fairness of the loop, nothing of docker; `Answers` asks only about
  containers that settle.
* `Regeneration`: weak fairness of the notifier as a whole, which its unit restarts on failure
  until it ends well. Nothing is assumed of the jobs, the operator, Flux or the cluster.

Safety properties need none of it.

### What the violations say

* `window_hung`: `run.py:211` calls `docker rm` with a timeout inside the restoring `finally`, outside
  the per-command `try`. A timeout there leaves the service at zero replicas with Flux suspended and
  writes no report. A late signal does the same.
* `lock_owner`: `cmd_steal` calls `start_heartbeat_child` without the holder's pid; `set -u` ends the
  script with status 1 after it has named itself the owner. The lock is then held by an agent
  whose command failed, and nothing refreshes it.
* `longest`: `mtp_suffix_lookup.py:99` accepts a candidate that is longer *or later*, and candidates come in
  ascending order, so the most recent match of the least length wins over a longer one.
* `stop`: the cleanup of both jobs resets its traps, so a TERM during the restoration ends it; and
  bash handles a TERM only when the foreground command has ended, later than systemd's SIGKILL. In both
  cases Flux stays suspended and the API at zero replicas.

### Observations

Seen while modelling, without a run of their own:

* *Release after a steal* (`gpulock.sh:145`): the owner is checked, then the refresher is stopped (with a
  sleep), then the directory is removed. A steal in between loses its new directory to the release;
  `ReleaseUnstolen` and `Exclusive` hold until the first steal. A shell that dies between `mkdir` and the
  owner file leaves a directory that only a steal removes.
* *Unrecorded attempts* (`harness.py:214`): `http.client.IncompleteRead` is no `OSError`; a server that dies
  within a chunk, like a choice without the expected fields, ends the whole run without a row for the attempt.
* *Peak of the pool* (`kvarn_attn.py:1335-1340` calls the size exhaustion-safe): rows that write across a
  block boundary need three slots, the pool has two per request and a headroom of eight.
  `SizingDemandBounded` says exactly how large the gap can be, `max_seqs - 8`: eight requests or
  fewer are always safe. The comment at `kvarn_attn.py:722` ("caps the live-slot peak at 2·B") overlooks
  the same rows.
* *Estimate of a partial snapshot* (`config.py:379-382` of KVarN calls it conservative): when files are
  missing the glob counts only those present, so the budget is too large rather than too small.
  Where files are complete, `EstimateIsTheWeights` holds; a manifest of bins would be preferred to
  a single safetensors file of another precision, if a repository had both. The drafter's layers
  are not counted in `num_kvarn_layers`; the share of one half covers them (`PoolLeavesTheWeights`).
* *Dense shards* (OrcaSAQ): the number of outputs is checked for quantised shards, not for
  dense ones, so a dense part that the pack lacks goes unnoticed at load; `ServedAsPacked` says so.
  `config.py:137` says a fused module is quantised "iff every constituent is", `:143` asks for `any`.
* *Repeated ids* (`regenerate_sessions.py:146,152`): rows are left out by the ids already in the output, and every
  other row is submitted. Nothing makes ids unique: `extract_claude_sessions.py:176` cuts the name of a file to eight
  characters, and the ids of public rows are taken as they are. Two rows with one id are therefore both answered, and
  `resume-regeneration.sh:47` ("Duplicate output IDs") then refuses every later start; had only one been answered when
  an invocation ended, the other is never submitted again. `RowsOnce` says that an id is in the output twice only for two
  rows that share it, and `RegenIdsOnce` that the check cannot fail if neither prompts nor the first output repeat one, as in
  the data used so far (`RUNBOOK.md:112`, "no duplicates").
* *Prefix hits within a step* (`kvarn_attn.py:665`): that a request never hits a block written in the
  same step is assumed of vLLM, not proved.
* *Negative slice* (`build_draft_vocab.py:244`): a size smaller than the forced ids would cut the
  ranking from its end; the sizes in use are far larger.
* *Journal*: the notifier would conclude "stopped" if journald delivered the script's last line
  after systemd's status; the model's journal does not lag.
* Without causality a row on the prefill side goes through the causal `_fused_verify_path` or
  `_decode_path_slow` when it has cached history, although `kvarn_attn.py:392-395` says that each query
  row then attends to the full context (`DecodesSeeContext` is about the decode side only).
* `KVARN_FUSED_DECODE=0` has no check of the scratch size; a recycled block sheds its sink label only if
  it was retired (`kvarn_attn.py:758` says so of every recycled block), which costs a slot but no
  correctness (`ReadsAsWritten` covers it); `max_supported_seqs` returns 1 even if the budget does
  not hold a pool for one request; the watcher's status 2 ("never appeared") is also given for a container that
  appeared and was removed.

## Proofs

Proved with TLAPS, for all values of the constants that satisfy the modules' named assumptions:

| Theorem | States |
|---|---|
| `PoolTypeCorrect`, `PoolSlotPartition`, `PoolRetiredIsSpare`, `PoolExhaustion`, `PoolLiveSinkStays` | the pool keeps its types; slots are partitioned; retired sinks are spare; only demand exhausts; live sinks stay |
| `PoolReadsAsWritten`, `PoolCacheHits` | attention reads what a block's present owners wrote; a block a later request may hit reads whole |
| `AttendTypeCorrect`, `AttendExactly`, `AttendContext` | the plan keeps its types; a token of a causal batch reads its request's positions up to its own exactly once, on every route and under every setting; without causality a decode reads its whole request |
| `RegistryOneOwner` | for any groups of layers, each layer is driven by one builder, a draft layer by the drafter's |
| `CacheInvariant`, `RegistryGraphs`, `RegistryCompiled` | the inductive invariant of the tensors; graphs launch on the live mirror of the present cache; nothing is compiled after the profile run |
| `RegistryPaged` | refinement: every behaviour of the registry is one of `PagedCache` |
| `TileBlocks`, `TileReaders` | in whatever scope vLLM asks, the block size is the tile and the pages hold the records; by either flush path, both readers load from a record exactly the bits last flushed to its block |
| `WindowTypeCorrect`, `WindowRestoredIsTrue`, `WindowCompares` | types; a report of restoration is true; compared arms were undisturbed, with any faults |
| `WindowOneOnGpu`, `WindowRestores` | without the three faults, one user of the card, and a window that ends by itself has put the service back or reports that it needs attention |
| `MinedWhole` | for any transcripts and limits, a mined context opens with the user, alternates, fits, and holds each result behind its call, whose arguments the tool's schema names |
| `RegenOneOnGpu`, `RegenRowsOnce`, `RegenIdsOnce`, `RegenVerdictIsTrue`, `RegenDoneMeansReady` | one user of the card; no row is answered twice, ids repeated or not; no id twice if none repeats; the notifier's message is what happened; a status of 0 means data and API are ready (action property) |
| `SizingDemandBounded`, `SizingCapIsTight` | the bound of a step's need; the cap inverts the pool size |
| `MemoryLeavesTheWeights` | for any checkpoint, device and model, a complete checkpoint is estimated as it is loaded, and the pool of the cap fits beside it |
| `HealthNoFalseFailure` | for any grace and poll interval, the watcher reports no container lost that neither exited nor was removed and was registered within the grace |
| `LookupOutput` | the token that is output has exactly the target's distribution, whether the lookup or the drafter proposed it, for distributions over any vocabulary |
| `VocabPublished` | for any drafter, sizes and stops of the truncator, the published file is one a loader accepts and holds the kept rows, their ids and every other tensor byte for byte |
| `VocabValidated` | the validator accepts a file exactly when it was written from the ids it is given |
| `LoadServes` | a layer that is served computes the pack's outputs in vLLM's order, for any sizes, widths, forms and losses and any order of arrival |
| `LoadAccepts` | no intact layer is refused |
| `LockTypeCorrect`, `LockExclusive`, `LockOwnerHolds`, `LockHeartbeat`, `LockReleaseRemovesOwn` | types always; the rest until the first steal |
| `PairedReports`, `PairedReportedIsFixed` | a report rests on whole runs and stays what it was made from |

The type theorems, `LockOwnerHolds`, `CacheInvariant`, `SizingCapIsTight` and `RegenIdsOnce` stand on their proofs alone; the
other properties are also checked by a run. Every inductive invariant was checked with TLC on the instance of its
run before it was proved, but for `VocabInv` and `LoadInv`, which speak of all files and lists there can be.

*Tail pool.* Types alone are not inductive: an action reads `table[r][k + 1]`, so `RowsCovered` says
that a row never outgrows its block table. The slot partition then needs nothing more, and is
itself what makes retirement safe (a retired sink has a slot, and is none of `needed`). Exhaustion
counts: when no slot is free and no sink retired, every held block is needed because a target
build has just reclaimed the others. The sink theorem adds that the first block of a request that
has begun is in its row for as long as it runs, so each target build marks it needed
before anything is reclaimed.

What attention reads needs `DataInv`. A block of a row is *full* when every token of it is computed
and not rejected, else *open*. Open blocks belong to one request, at one place of its row, and have no hash until
the batch that completes them (`OwnInv`): that is what makes it impossible that two requests write the same block.
What is *settled* (full in some row, or hashed and open in none) reads whole, and if it still has a slot its fill
count says that it is complete (`SettledInv`), so retiring or flushing it packs whole data. Tokens of
open blocks are in the pool, in a slot that is not retired (`TailInv`): a flush may not take them, and the walk
back from the committed boundary does not. `NeedInv` and `FillInv` say what the build in progress has still
to allocate and that the counts it has recorded are those of the batch. The hard steps are
`FlushAndReclaim`, where every block that loses its slot is shown to be settled or nobody's, and `Sample`, where rejected tokens
reopen no full block.

*Routing.* `AttendInv` has three parts. `Layout` says how rows lie among the tokens: one after another,
decodes first, rows of one length at its multiples, each decode with at least one place. It is what
makes the place `i` of a token lead back to its request: the single-token kernel takes row `i`, the
shared kernel row `i ÷ qlen`, and both are right only because of it. `Planning` says that metadata and plan
agree with the batch when `forward()` runs. Then each way to serve a token is one lemma, over
`SplitsShareOut`: with a quotient rounded up, the splits cover the blocks and are disjoint.

*Registry.* A layer's owner may be a builder of an earlier cache that claimed fewer layers than the
present target's builder, which then leaves it alone; only the drafter's builder, which comes last, takes
it over. `RegistryInv` therefore says nothing of a draft layer until that builder exists (`ClaimedLast`),
but of every owner that is of the present cache that vLLM holds it (`OwnerIsKnown`). Assumed
(`OwnershipAssumption`): target groups are disjoint and finite, so are the drafter's, each of these is a proper part of
a target group, the profiling cache is no larger than the real one, and `None` is no value.

The tensors need `CacheInv`. `MirrorInv`: the mirror of a key is the dictionary of that key, cut or padded to the
mirror's size, and no slot is given twice. `PointerInv`: a layer that knows its cache points at its key's
mirror, which covers the cache, so no later call finds it too small; a graph was captured on that pointer,
hence is never left behind by a resize. `RefInv` gives that its start, since no layer knows
a cache before its builders are made, and a takeover makes it forget the cache. `CellInv`: a
cell written is in the slot its block holds, or in the tile when the block holds none; a tile is complete, so a
block that was flushed is never given a slot again; data tagged with the present cache was written in
it, so what an earlier cache left in a pool is never taken for it. `RunsInv` ties the layers still to run to
the builds that have run. Then `Readable = ran` (lemma `ReadsWhatItWrote`), under which each step is a step of
`PagedCache` or a stutter (`RanStep`). `SizeInv` is the case of a bound that covers the cache: one size only,
compiled for every layer by the profile run.

*Tile.* `TileAssumption` says of a configuration what packing needs (`Fits`): widths that divide a byte, even tiles,
whole bytes to a row. `SetupInv` carries the preset from the command line to the cache: the manager's block is a multiple of the
tile, and once the impls exist every scope answers with the preset's group, so the largest size that divides the block is
the tile. The bits go through five groups of lemmas. Sinkhorn keeps the last of the best
iterates, per tile in the kernel and under a mask in the batch, whatever the imbalances (`BestIsLast`, by induction from `NatMin`). A
launch, fused or not, packs for tile `n` the ideal record of source `n ÷ Hk` and head `n mod Hk` (`PackedIs`). The fields of a
record lie at the offsets of the configuration when they are joined and when they are written as slices, because sizes and offsets add up
and slices do not overlap (`JoinedHolds`, `WrittenHolds`). A chunk starts below every position in it and reaches it, so
a block finds its own tile in its chunk (`FastHolds`, `LegacyHolds`). In a record that holds a tile, the
shifts, strides and 16-bit loads of both readers give the expected bits (`ReadsK`, `ReadsV`): this is where
widths must divide eight and offsets be even. `TileInv` adds that layers agree on what a slot holds, that no
slot is filled while a block is in it, and that a block with something to find has a record that holds it.

*Sizing.* A row of q tokens writes at most two blocks and those its tokens fill; quotients of a
sum bound the sum of quotients, so a step of n rows needs at most 3n + ⌊T/G⌋ slots, against
2n + ⌈T/G⌉ + 8.

*Budget.* The estimate takes the first manifest whose files are on disk, else a single file, else the glob; the
loader takes the manifest of its format, else the glob. `WholeSize` says that files which hold every parameter once are as
large as the parameters (a bijection between parameters and pairs of file and parameter); in `EstimateExact` each
branch of the estimate ends in such a set of files. `ShareCovers` is the arithmetic of the share: what the quotients
round off is in favour of the weights, and the drafter's layers, which are not counted, fit into the share that is kept
back. `CheckpointAssumption` and `BudgetAssumption` say what a repository and a model may be.

*Watcher.* What `Inspect` has read is history when it is judged. `HealthInv` therefore relates the reading, and
not only the present state, to what has happened: a container polled as gone has failed; one polled as
absent with the grace over has failed or was never registered in time; so no verdict depends on what docker did
after the poll.

*Lookup.* In whole numbers, a token is kept with weight `min(p, q)` and the residual is `p - min(p, q)`; both are sums over the
vocabulary scaled by one product of denominators. `SumIs` and `ProductIs` say that the folds of the community modules compute the
recursive sum and product of a finite set, whatever order `CHOOSE` takes, and `SumDifference`, `SumScaled` and `SumCovers` that the sum is
linear. The induction behind them is over the cardinality of the set, and comes from
`NatLessThanWellFounded` and `WFMin` (`NatMin`: a set of naturals that is not empty has a least element), since
the induction theorems of the library take an operator as a parameter.

*Vocabulary.* `VocabInv` says that the partial file is, after each tensor, the prefix of the file of the present ids, and that what is published is the
whole file of the ids of *some* run: a stopped run leaves no more than a partial file, which the next one begins anew. The work is in what a
whole file holds. A table of infos (`LayoutIs`, `TableIs`) has aligned offsets, each the end of the tensor before it with its
padding, so the tensors' bytes can be written one after another and found again (`TensorWhole`, `TensorRead`). Copied runs of
neighbouring rows give the kept rows in their order (`RunIs`, `HeadRowsAre`), and entry `k` of `d2t` reads back as
the id of row `k` (`IdsRead`). For the validator the other direction is needed as well: two sets of one size differ in
an entry of `d2t`, and files of two sizes in the size of their tensors.

*Plug-in.* `LoadInv` has, while tensors arrive, `Placed`: what has come is in its placeholder under its slot, and slots increase with
parts whatever the form of shard id. Hence `sorted(slots)` is the order of the parts whatever the order of arrival
(`SortedIs`, `TrellisOrder`). From then on it is a question of what `process_weights_after_loading` decides: a missing tensor
shortens a list, and the sum of the outputs found is then less than that of the layer (`ListedSumLess`), so a shard
that is served has all its tensors, with its own markers and width (`Right`); a refusal means that one was lost or that forms
are mixed (`Mixed`). `RightServes` then follows each shard through both matrix products.

*Mining.* `MineInv` says of the messages so far that no two turns of the assistant are neighbours (`Alternate`: streamed blocks are joined), that a
result follows its call with no user's turn between (`ResultsFollow`), and that the schemas know every argument of
every call (`Taught`: merging never loses one). To keep `ResultsFollow` it needs `Heard`: a call in a line already read is
in a message, after which the user has spoken only if a line since has been a user's turn; with the
assumption on transcripts, the call of the next result is such a call. A context is then cut from its first user turn that fits, so
a result in it cannot be separated from its call (`WindowsAskable`): the call would lie before a user's turn. That
is why the code drops messages until a user's turn and not just until the size fits. `Joined` merges a line into the last message, so
a message may change after a result referred to it; `Grown` says how much.

*Lock.* The invariant `LockInv` says of every file whose it is: an agent inside is the directory's creator, the
owner file and the pid file name it from the step that writes them to the step that removes them,
and a running refresher is its creator's current one. The last conjunct is what rules out a
heartbeat in somebody else's directory, since the release that could leave one behind finds it in
the pid file. With steals only the types survive; `StolenInv` is `LockInv` for as long as nobody
has passed an idle window.

*Window.* `WindowInv` follows the program counter: what `state-before.json` holds (`RecordInv`), where
the service is held at zero and where its pod is gone, and, after each command of the restoration that did not
fail, that the service is as that command left it (`ServiceInv`). A container runs only while
its arm is at work or after a kill, and then the service is off the card (`GpuInv`); a disturbed arm leaves the
window failing, with `abort` set, or with a container that its last panel will find gone (`MeasureInv`). Where a
theorem excludes faults, its property does.

*Jobs.* The theorems are about `Pipeline`, the jobs whose input is any sequence of prompts, their ids repeated or not, delivered
at any time (in `Spec` alone it never comes; the run takes it from the miner). The lock belongs to the one job that lives
(`UnitInv`), and from each step on the API is where that step has put it (`ApiInv`). `RowsInv` says that
the output begins with what was kept, parses while a regeneration is at work, and names behind that, for each line, the
row it answers (`Seeded`, `Numbered`); and that a row left to answer is open: lines that have its id were written
for other rows (`Open`), over every torn line, kill and repair. `DoneInv` bounds the rows that are missing by the errors, so a
trap with status 0 has all but the allowed share and the capture set made from them. `JournalInv` and `NotifierInv` relate
the notifier's memory, the journal and the unit at the moments it reads them: once an invocation is over its line does not
change, so a stale reading is still a true one. `LegacyAssumption` says of the rows kept from the first generation that
they are a sequence of whole rows with ids; that these differ is a hypothesis of `RegenIdsOnce` alone. The filter
that keeps such rows is a fold over a sequence; what it returns is assumed, and TLC evaluates the assumption for the instance.

*Harness.* `RunInv` says that the rows of a directory are a prefix of its plan's jobs, each attempted
once under the frozen harness, and that a directory has at most one process at work. A directory
that names every job is therefore full, and a full one has no process left that would change it.

Twice a proof that would not go through corrected the model or a statement: the arms of `GetQuantMethod` overlapped in a
layer without a configuration; and `ServedAsPacked` was false of a dense layer with no part found, which the run did not
contain before its model had a linear layer of one part.

Only model-checked: liveness (`DeadGoesQuiet`, `ProcessEnds`, `Answers`, `Notified`), which with fairness and
ENABLED is out of the prover's reach, and with it nothing else: every safety property of a passing run is stated
by a theorem. Induction over data has to be led by hand from `NatMin`. No module declares a RECURSIVE operator.

## Not modelled

* **vLLM, Kubernetes, Flux, docker, systemd**: environment, as described above.
* **Numbers**: rotation, rounding, softmax, the CUDA and llama.cpp kernels. Their discrete effect is in
  `KvarnPool` (which copy is written and read), `KvarnTile` (which bits) and `KvarnAttend` (which positions).
* **Runner, speculative and cache patches of vLLM**: diffs against sources that are not in the repository. The
  order of target and drafter passes is `KvarnPool`'s environment; the rest would need vLLM's
  code to be modelled faithfully.
* **Other patches, launch scripts**: one-line repairs, and the derivation of a command line.
* **GSQ campaign runners, concurrent and one-off windows, frozen copies**: variants of `run.py`
  (`GpuWindow`), evidence of past runs.
* **Of modelled parts**: tensor parallelism of OrcaSAQ (refused by its code) and `patches/int8_embedding.py`; the
  coverage figures of the vocabulary report; the patterns that take secrets and noise out of transcripts;
  `--prepare-only`; the stream parser, graders and statistics of the paired harness (`PairedRun` has
  only whether they return).
* **Workload builder, benchmark clients, training, weight preparation, `quiesce.sh`, `bench-post.sh`**:
  batch programs without state that outlives a step.

## Plan

In order of weight:

1. The GSQ runners' pauses under memory pressure (`run-resume.py`), as a refinement of `GpuWindow`.
2. The index of lookup drafting in the n-gram patch, checked against a naive definition.
3. The cache and runner patches, as far as their context lines carry.
4. The arithmetic of `start_qwen.sh` as a pure module beside `KvarnSizing`.
