# A verification project for the DSV4.1 Spark adapter

TLA+ models, TLC runs and TLAPS proofs for the code in this repository: the
out-of-tree adapter that serves DeepSeek-V4.1-Flash with SGLang on DGX Spark
nodes, the tools that stage and verify its data, and the scripts that launch it.

- [1. The system](#1-the-system)
- [2. Modules, and how they correspond to the code](#2-modules-and-how-they-correspond-to-the-code)
- [3. Runs: what TLC checks, with which bounds](#3-runs)
- [4. Three disagreements between code and text](#4-three-disagreements-between-code-and-text)
- [5. Proofs](#5-proofs)
- [6. What is not modelled or only model-checked](#6-what-is-not-modelled-or-only-model-checked)
- [7. Plan](#7-plan)

Run `tlc -config <cfg> <MC module>` for a run, `tlapm <module>.tla` for a proof.

## 1. The system

The server is SGLang's; this repository replaces three of its parts in every
worker process and brings it up on four or eight hosts. The core is small:
134 lines of C++, about 2200 of Python. The rest of the repository
is recorded results.

| Component | Code | State it keeps | Operations | Talks to |
|---|---|---|---|---|
| Native row store | `patch/row_store.cpp` | a direct-mapped cache (keys, 264-byte rows), 256 striped mutexes, the ownership range, the shard's descriptor or mapping | open, range, lookup, close | called by the Engram backend; lookups are CUDA host callbacks |
| Row ownership | `patch/engram_backend.py:39-78`, `tools/stage_local_engram.py:26`, `tools/verify_engram_rows.py:25` | `row_start`, `end` | the split, computed in three places | the store's range; the model's all-reduce over ranks |
| Engram staging | `tools/stage_engram_rows.py`, `tools/stage_local_engram.py` | sparse local shard, `engram-local.json`, `verified.json`, `verified.json.tmp` | copy, record ranges, verify, rename the record | files read by the loader; remote processes over ssh |
| Local cache acceptance | `patch/engram_backend.py:59-75` | none of its own | accept or refuse the staged copy | staging's files, the source checkpoint |
| Direct reads | `patch/row_store.cpp:38-52, 61-64` | a page buffer per read | aligned read and copy out | the kernel's `O_DIRECT` |
| Engram GPU pipeline | `patch/engram_backend.py:96-126` | staging buffers per capacity, `Work` records per count | copy ids, host callback, copy rows, gather; graph capture and replay | the row store, CUDA streams and graphs |
| Launch and recovery | `launch/recover_eager.py`, `launch/launch_spark_v41.py` | containers and their names on the hosts, run directories with logs | preflight, inspect, save logs, stop, rename or remove, run | ssh, docker |
| Archiving groups | `launch/archive_stop_groups.py` | archive directories | inspect, logs, write, stop on eight hosts at once | ssh, docker |
| Page split | `patches/flash_mla_sm120.py:380-584` | a scratch buffer and a page mask per tag and device, which only grow | mark referenced pages, copy them into 64-token pages | KV pools, FlashInfer, CUDA graphs |
| Attention dispatch | `patches/flash_mla_sm120.py:206-377`, `patch/sitecustomize.py`, the command `recover_eager.py:41-96` renders | none but the environment and the flag file | route a batch to FlashInfer, Triton or the reference | the launch sets backend and environment, the suite arms the flag |
| Benchmark suite | `bench/finish_spark_bench.py`, `check_*.py`, `bench_c1_reference.py` | receipts, a manifest, the armed flag, the saved parity log | gates in order, cache flush, comparison, timings | the service, ssh |
| Benchmark matrix | `bench/bench_matrix.py`, `tools/verify_final_data.py` | the checkpoint of cells | barrier-started streams, output check, stop | the service |
| Telemetry | `tools/measure_c1_jitter.py`, `probe_gpu_state.py` | readers per host, shared dictionaries | readiness, sampling, benchmark, shutdown | ssh, the service |

What makes each hard, and what makes it correct:

- **Row store.** Lookups run concurrently on CUDA callback threads over one
  cache; a slot is two byte ranges and a key, written one after the other, and
  slots share mutexes. Correct: every row delivered is exactly the table's (or
  zero for another rank's), and what cannot be served aborts the process
  ("Never allow a generation to continue with missing/stale rows").
- **Ownership.** Ranks' results are summed, so a row without an owner is
  silently zero and one with two is doubled. Correct: the split is a partition,
  with any remainder.
- **Staging and acceptance.** Stagers crash, are rerun with other ranges, run
  twice at once when the control host gave up on the first, and leave the records
  of different runs side by side; `pwrite`'s result is not looked at. Correct:
  what the loader accepts holds the rank's rows of the current checkpoint.
- **Direct reads.** Rows straddle pages and the file ends in a partial page.
  Correct: an extent accepted at open never reads short, no copy leaves the buffers.
- **Launch.** ssh calls fail, time out with the remote command still running,
  and attempts break off anywhere; the next attempt starts from what is left.
  Correct: what a launch reports up is its own containers on every host, logs survive,
  a relaunch works. (A command that was given up on and takes effect late breaks the
  first of these: see 4.)
- **Page split.** One buffer serves layers of different sizes and is only
  partly rewritten; graphs keep raw pointers. Correct: attention reads the pool's
  current tokens and captured buffers stay alive.
- **Pipeline.** The host runs ahead of the GPU over buffers that all batches of one
  power-of-two capacity share; callbacks get a pointer to a `Work` kept per count;
  graphs keep raw pointers of capture time. Correct: a forward returns the rows of
  its own ids, and nothing that was never written comes out.
- **Matrix.** Streams start on a barrier; requests fail, checks fail, runs are
  interrupted and repeated under one label over the same file. Correct: what calls
  itself complete passes the published verification, nothing finished is lost, and
  every run ends.
- **Archiving.** Eight workers archive and stop at once; one fails while the others
  go on. Correct: what is stopped was archived first, and a summary is written only
  when all of it is true.
- **Dispatch.** The command is another launcher's text, changed by a chain of
  `str.replace` that do nothing when their text is not there; which kernel serves a
  batch depends on the environment, the overlay, the hook and the batch's size.
  Correct: the launch serves what was asked for, and decode batches stay on the fast
  kernel.
- **Suite.** Gates, receipts and a diagnostic that is armed on one host over ssh and
  must be gone before timings. Correct: a completed suite timed a model that passed
  its checks, with nothing armed, and its evidence is its own.
- **Telemetry.** Reader threads add to dictionaries the main thread waits on and
  iterates over, with three time limits that are independent. Correct: no repeat
  before a sample of every host, and every run ends.

`PROJECT.json` lists every component with its status, and the hazards at the
lines where they bite, each with the properties that would notice, or the reason why
none does.

## 2. Modules, and how they correspond to the code

| Module | Models | Proofs |
|---|---|---|
| `ExactRetrieval` | what the row store promises: no cache, lock or file | refined by `RowStore` |
| `RowStore` | `row_store.cpp`, every thread, step by step | `RowStoreProofs` |
| `DirectRead` | `read_bytes` and the extent check, byte positions | `DirectReadProofs` |
| `EmbeddingGather` | the split over ranks, all-reduced | `EmbeddingGatherProofs` |
| `EngramStaging` | stagers, loader, server, checkpoint versions | `EngramStagingProofs` |
| `Launcher` | both launchers over a set of hosts with docker | `LauncherProofs` |
| `ArchiveStop` | `archive_stop_groups.py`, composed with `Launcher` | `LauncherProofs` |
| `PageSplit` | the split's host code and its two kernels, for both sources of a call | `PageSplitProofs` |
| `EngramPipeline` | `owned()`: buffers, `Work` records, the stream, graphs | `EngramPipelineProofs` |
| `BenchMatrix` | a matrix run with its files, and `verify_final_data.py` | `BenchProofs` |
| `HybridDispatch` | the command of a launch, the hooks, the kernel for a batch, the service as a client sees it | `BenchProofs` |
| `BenchSuite` | `finish_spark_bench.py` and its scripts, on `HybridDispatch` | `BenchProofs` |
| `JitterTelemetry` | `measure_c1_jitter.py`, thread by thread, on `HybridDispatch` | `BenchProofs` |
| `Campaign` | suites, jitter runs and relaunches of one service, one after the other | `BenchProofs` |

`MC<module>` holds the values of the small instances. `PROJECT.json`'s "map"
gives the source lines of every definition. Operators called `Mut...` are not part of
the models: each is a plausible bug in the definition next to it, used to see
that a property would notice.

**RowStore.** `phase` is the life of a store: closed, open, ready (range set),
refused (`row_store_open` returned null), aborted (`fail`). Per thread, `pc` says
where in the loop body of `row_store_lookup` it is; `ids`, `pos`, `row`, `out` are
`work->ids`, `i`, the local `row` and the caller's buffers. One action is one
access to shared state: taking the mutex, copying 256 and 8 bytes out of the
cache, reading 256 and 8 bytes of the shard, copying them into the cache, writing
the key, unlocking, delivering. Bytes are abstracted to a value per range, so a
mixture of two rows is visible. Memory that is not initialised (`torch.empty`,
the stack's `row`) holds `Garbage`. `OpenFails` covers the calls to `fail` in open,
including the mapping of the cache and the locking of the shard. Callers call
range once before the first lookup and close with no lookup running, as the
backend does (the loader never closes; `tools/check_engram_graph.py` ends).

**ExactRetrieval** has one step for a row: it appears whole and right. `RowStore`
implements it with `busy[t] = (pc[t] # "idle")` and the other variables as they are;
a locked, cached, two-part retrieval is one step, everything before it stutters.

**DirectRead.** A byte is its position in the file. `Requested`, `Delta`, `Base`
are `request`, `delta` and `base`; `Got` is what `pread` returns near the end
of the file. Values are the real ones (4096, 8192, 256, 8).

**EmbeddingGather.** Each rank looks up the same id; `Start(r)` is
`num_embeddings * r // tp_size`. The all-reduce is external and sums. The division of the
cache budget among ranks and layers (line 76) is one assignment and not modelled;
`RowStore` takes what comes of it as a number of bytes.

**EngramStaging.** The checkpoint has versions, and a row's bytes are the
version they were read from. A stager's `pc` follows the script: header and
truncate (`Start`), chunks of two jobs, the truncating open and the write of
`engram-local.json`, the comparison with the source (both ends and any other
rows: the script draws them), the record through `verified.json.tmp` and the
rename. The descriptor of the temporary file follows the file through another
stager's rename (`fd`). A file is its text, as a range or a record, and its size: two
stagers that have both truncated one file write it from the start through their own
descriptors, and of a longer text the end remains behind a shorter one (`Over`), which
is no JSON. The loader's acceptance is a predicate on the files.
Assumed of the operator: the checkpoint is only replaced while no server and no
stager runs; two versions that share a header have different indices (`Index`
is injective in the runs: safetensors shards of one model share their layout, and
the loader has only the index's hash to tell versions apart); the server reads the
local file for as long as it runs. `mode` is chosen at the start: a node on
which stagers crash and are asked for two ranges, one where they do not and both
ranges cover the rank, or one whose disk takes less than it is given; it never changes.

**Launcher.** One attempt at a time (the operator waits for the end), numbered by
`launch`, which stands for the time stamp of the run directory. A call over ssh
has its effect and returns; or fails without effect, with effect, with half of it
(`docker run` that created and did not start), or is given up and runs later
(`late`, when `setup.late`). Docker's side is external: names are exclusive per
host, stop and rename of a missing name fail, `rm -f` never does. Preflight's
probes change nothing and are one action. Servers die on their own (`Dies`). A
`setup` is a way of working, chosen at the start: the names, the tools in use, whether
commands run late, and how many attempts there are.

**ArchiveStop.** A worker per host is a small process (`work[h]`): inspect, fetch the
log, write the configuration, stop; any of its ssh calls may fail and ends it. The
pool is joined by `EndArchive`, which raises what a worker raised. It runs in
`Launcher`'s world, between its attempts, so that what archiving leaves behind is
what the next launch finds.

**PageSplit.** A page is a row of lanes (`u64` in the kernels): data, scales,
padding, with the layout's real offsets as functions of `Stride` and
`ScaleStride`. A call is the host part (grow the buffer and the mask, never
shrink) and then, in stream order, zero the mask, mark, split, attend; the
programs of a kernel run in any order (`todo`). A prefill call may have a second
source of keys and values with a pool, a list and page size of its own; the code
gives the two sources different tags, and each tag a buffer and a mask (`Tag`,
`mem[t]`, `masks[t]`). A captured graph keeps the numbers of the buffers of capture
time, and a replay takes new indices of the captured length. What the attention
kernel reads (`ReadsData`, `ReadsScale`) is compared with how the torch reference in
the same file addresses the pool (`PoolData`, `PoolScale`).

**EngramPipeline.** `staging` and `works` are the two dictionaries of the
backend; `bufs` holds the pinned ids and rows and the rows on the GPU. A call of
`owned()` is `Forward`, which only appends to `queue` what the stream will do:
copy of the ids, callback, copy of the rows, gather. The GPU's actions take
them off one by one, while further calls, captures and replays come in. All
streams are one queue, because the code that changes streams orders them with
`wait_stream`. `Capture` records the same four operations with the buffers of
that moment; `Replay` launches them between the filling of the static input and the
reading of the static output. A row is a number that tells it from all others; a
lookup is exact or ends the process, which is what `ExactRetrieval` promises and
`RowStore` is shown to keep. `ForwardRaises` is a callback that CUDA refused: the
copy of the ids stays behind.

**BenchMatrix.** Jobs are numbered in the order of `main()`: warm-up batches,
cells level by level, and prefill points with their shape warm-ups. `stream`
is each request's state: queued in the pool, waiting at the barrier, sent, answered or
failed. The result file is absent, partial (truncated, not yet written) or a
record of the results in memory, receipts carry the run and the job, which stand
for their random names. Runs follow each other under one label in one directory. `Kill` is
an interrupt at any point. `Verifies` is `verify_final_data.py` with the levels and
categories as parameters.

**HybridDispatch.** A command is a record of the settings that its text carries, and
an edit what it replaces and by what; `Apply` leaves a command alone that does not
have the old text, as `str.replace` does. `Kernel(n)` is the choice for a batch of `n`
query tokens: `flash_mla_with_kvcache_sm120` of the overlay when it is mounted, else
the image's module with the hook of `sitecustomize.py` in front of its prefill
function. A prompt is its length; a batch is what the prefix cache does not hold of
it, at most a chunk. The image's module and the server's scheduler are external.

**BenchSuite.** `spc` is what the suite does next; a script is the prompts it sends
(`Script`), a request may fail at any point, an answer is right or wrong (`wrong` is
drawn with the model and does not change under it). `verdicts` are the
`results.json` of the correctness scripts, which outlive their suite, as
`--reuse-correctness` needs. An ssh call returns with its effect, or fails without,
with it, or before it (`ssh.late`); `ssh.hosts` remembers where. `lines` is what the
containers' logs hold of comparisons, `evidence` what was saved of them.

**JitterTelemetry.** One reader per host: its event appears, then its process, then
a first valid sample; it may end at any time. The main thread decides at any moment
whether the deadline has passed. The loop of the `finally` clause remembers the
dictionary it began with (`loop`): a dictionary that has grown makes it raise.

**Campaign.** The operator runs one tool at a time on a service that is relaunched,
dies and comes up at any time. What a tool held in memory is gone when the next
begins; its files, the containers' flag and log, and calls still to take effect, are
not.

## 3. Runs

| Run | What it shows | Bounds, and why they are enough |
|---|---|---|
| `RowStore_two` | coherence, exclusion, exactness, refinement and liveness under two lookups with open, range, id and disk errors and reopening, for the cached (nvme) and the mapped (ram) store | 4 rows, 2 threads, 2 mutexes, 0, 1 or 3 slots, 2 lookups of up to 2 rows: rows 0 and 3 share a slot, slots 0 and 2 a mutex, row 0 and key 0 are distinct, each thread evicts what the other cached |
| `DirectRead_all` | reads never short, in bounds, in both modes | up to 17 rows at offsets around page boundaries in files around one and two pages |
| `EmbeddingGather_small` | sums are the table's rows, in whatever order ranks add | up to 9 rows over 1 to 4 ranks: fewer rows than ranks, every remainder |
| `EngramStaging_faults` | an accepted copy is right through crashes, reruns with another range, concurrent stagers and a server above them; on a disk that takes less than given both ends of a copy are checked; a success loads, also with two stagers of different covering ranges of one text length | 2 stagers, 2 versions moving forward, 4 rows in chunks of 2, the rank owns 3 of them; crashing nodes with 2 ranges of different lengths of text, two covering ranges of one length without crashes, and short writes |
| `EngramStaging_rollback` | violation, see 4 | 1 stager, the checkpoint may return |
| `Launcher_setups` | a launch that ends well has its own container on every host, unless a late rename put it aside; logs kept, relaunch works, rank 0 last; what is archived is archived before it is stopped, and the summary is true | 3 hosts (rank 0, a first and a last other), 2 faults; both names and both launchers with 3 attempts (one breaks off, the one that clears it does, a third succeeds), one name with late commands and 4 attempts, one name beside the archiver with and without late commands and 3 |
| `Launcher_default` | violation, see 4 | 2 hosts, 2 attempts, 1 fault |
| `PageSplit_two` | attention reads current tokens of its own layer and source, graphs keep live buffers | two layers whose pools have pages of 4 and of 6 tokens (ratios 2 and 3) into pages of 2, each with a second source of the other size; lists with a partial last block, no tokens, and no list; 1 write per page, 3 calls or replays: a large call follows a small one, a replay follows a capture |
| `EngramPipeline_shared` | forwards return their own rows, tables are what their keys say, pointers stay in range | lists of lengths with shared and with different capacities and of none, 3 forwards or replays: two counts of one capacity follow each other, with a captured graph and a refused callback between |
| `BenchMatrix_reruns` | complete files verify, nothing is lost, cells do not overlap, runs end | levels 1 and 2, one category and the ceiling, one prefill point with its warm-up, 2 runs with one label: the second overwrites what the first left in whatever way it ended |
| `Campaign_tools` | launches serve what was asked for; completed suites checked what they timed, with nothing armed and with their own evidence; jitter runs are whole; tools end | 2 ranks, 2 suites with jitter runs and relaunches between, with and without the overlay, 1 failed ssh, 3 models (two of them wrong once). All 5120 combinations of the launch's options are initial states; only README's four-node hybrid is then measured |
| `Campaign_parity` | violation, see 4 | the hybrid with the overlay, 1 suite, no fault |

Deadlock is checked where the system cannot stop (`EngramStaging`,
`EmbeddingGather`); elsewhere the bounds or an abort end a behaviour.
The counters that bound a run are `MaxCalls` (RowStore, PageSplit), `setup.launches`
and `MaxFaults` (Launcher), `MaxWrites` (PageSplit), `MaxForwards` (EngramPipeline),
`MaxRuns` (BenchMatrix), `MaxRows` (EmbeddingGather), `MaxSuites` and `MaxFaults`
(BenchSuite), `Measured` (HybridDispatch); a jitter run begins only before the last
suite. Numbers of the code that are smaller in the runs: `FlushTries` (10 in the
code, 2: first and last attempt), `Repeats` (6, 2).

**Fairness.** Three specifications have any. `Spec` of `BenchMatrix` has `WF(Step)`:
the pool's threads are scheduled, and a request ends, because `max_tokens` bounds
the answer and `urlopen`'s timeout the wait for each part of it. Beginning a run and
interrupting it are not fair. `FairSpec` of `RowStore` has `WF(Step(t))` for every
thread, because the operating system schedules a running callback and its reads
end. Nothing makes a caller begin, open or close. A mutex is not fair, so a
thread could in principle be overtaken for ever while it waits; weak fairness is
enough here because `MaxCalls` bounds the lookups begun, as a decoding step
bounds them in the server: it submits its callbacks and waits for them.
`CampaignSpec` has `WF(Tool)`, the steps of the tool that runs: `/health` is polled for
30 minutes, `/flush_cache` ten times, ssh calls have a limit of 60 s, requests a
timeout, the samples 12 s, the benchmark 180 s, a join 3 s. Readers, the service, late
effects and the operator are not fair: `ToolEnds` does not need them.
`LookupReturns` thus shows that no mutex stays locked and no lookups wait on each
other, not that a mutex is starvation-free.

## 4. Three disagreements between code and text

- `EngramStaging_rollback`: the stager never removes the `verified.json` of an
  earlier run, and the record says nothing of the copy it was written for. In
  TLC's trace version 1 is staged and verified; the checkpoint moves to version 2 and
  a stager crashes after its first chunk; the checkpoint goes back to version 1: the
  record and the range match, and the server serves rows of version 2 under version 1.
  `engram_backend.py:68` and `row_store.cpp:35` say otherwise. Without a return to an
  earlier version (`EngramStaging_faults`) it cannot happen.
- `Launcher_default`: an ssh that did not connect (255) during `docker inspect`
  reads as "no such container". With the two default names the launch then ends
  well beside a running container of the other name, although
  `recover_eager.py:3-4` says that it stops them.
- `Campaign_parity`: with `DSV41_PREFILL_TRITON` set, the 0.7 overlay answers every
  batch above 64 tokens from Triton inside `flash_mla_with_kvcache_sm120`
  (`flash_mla_sm120.py:297`) and never reaches the prefill function that
  `sitecustomize.py:54` wraps with the comparison. A suite with `--parity-host` then
  completes, with an empty log as its evidence, while no rank has compared anything;
  `docs/RUNBOOK-SGLANG-SPARK.md:48` says that the diagnostic enables the double
  computation on the rank, `README.md:45` that it can compare both outputs. With the
  image's own module it does (`HookCompares`).

Smaller observations, without a run: a file is marked valid for comparison
(`bench_matrix.py:197`) also when answers of it could not be timed (all tokens in one
event), and `verify_final_data.py:35` then refuses it, so `CompletedVerifies` is stated
for files whose answers have a rate; an interrupt in the middle of a checkpoint leaves
a part of the file and with it the earlier cells are gone, so `NothingLost` does not
speak of interrupted runs; the remark at `flash_mla_sm120.py:391`
gives 37888 bytes for a padded page where the code computes 37376; a rename that
was given up on and takes effect in a later attempt renames that attempt's
running container, whose log was never saved (`Preserved` is therefore checked
without late effects), and a `docker run` given up on by another attempt may then fill
the name: the launch ends well, and ranks of two attempts are up as one group
(`OneGeneration` allows the displaced container, `RelaunchSucceeds` says nothing of
attempts begun while a command may still run); two stagers asked for ranges whose texts
differ in length can leave the end of the longer in `engram-local.json` or
`verified.json`, one of them exits with 0, and the loader refuses the copy
(`SuccessLoads` is stated for one length); after a verified stage, a wider restage for the same
version is accepted from the moment its `engram-local.json` is written, before
its own verification (on the crashing nodes of `EngramStaging_faults` the rows are
then already copied; with short writes the samples of the narrower run are all that
was compared).

Of the tools: the overlay reads `DSV41_PREFILL_TRITON` by truth, so that `0` turns
Triton on, where the hook compares with `1`; an ssh that set the flag and failed, or a
removal that never arrived, leaves the diagnostic armed, and a later suite or jitter
run on the same containers is timed with it (`TimedDisarmed` exempts the hosts in
`ssh.hosts`), as does a suite that is killed in between (not modelled: here a suite ends
through its `finally`); `--reuse-correctness` accepts the results of an earlier service, and of
a script that broke off after some right answers (`GatesHeld` speaks of the checks a
suite did itself, and no property notices the other case);
a suite whose own comparison never ran saves the lines of an earlier one from the same
container's log; `c1-repeat`'s wrong answers stop nothing;
a `docker stop` of the archiver that was given up on may stop the next container of
the name, unarchived (`ArchivedFirst` and `SummaryTrue` are about setups without late
commands); a jitter run is accepted when readers ended right after their first
samples, with rows that lack hosts; and one that has failed may die of a
`RuntimeError` in its `finally` loop, or leave a reader that was started later, which no
property demands to be ended.

## 5. Proofs

For every value of the constants that satisfies the named assumptions of the modules
(all evaluated by TLC in the runs):

- `TableAssumption`, `LockAssumption`, `CallerAssumption`, `ReadAssumption`,
  `GatherAssumption`, `SplitAssumption`, `StagingAssumption`, `LauncherAssumption`,
  `PipelineAssumption`, `MatrixAssumption`, `DispatchAssumption`, `SuiteAssumption`,
  `JitterAssumption`: the types of the constants, and what the code is called with.
- `AbsentAssumption`, `FileAssumption`: the values that stand for "no file" and "a file
  cut off" are none of the contents a file may have.
- `PowersAssumption`: for a count `n`, a power of two with an exponent below `n` is the
  first above `n - 1`. It is true of every `n`, by an induction that is out of the
  provers' reach; TLC evaluates it for the counts of the run.

Six theorems have a hypothesis about the constants besides, because the property is
false without it (the passing runs meet all of them):

| Hypothesis | Theorem | Why |
|---|---|---|
| `NewIndices`: the checkpoint only moves to indices it never had | `ServedRowsAreExact`, `EndsAreChecked` | otherwise two versions' rows are served together: `EngramStaging_rollback` |
| `OwnRange`: where the disk writes less than it is given, stagers are asked for the rank's own range | `EndsAreChecked` | only the ends of what was asked for are compared for certain; the control side asks for the rank's range (`stage_local_engram.py:27`) |
| `Covering`: where no stager dies, each is asked for all the rank's rows | `SuccessIsAccepted` | the loader refuses a copy that does not cover its rank, and rightly so |
| `OneLength`: where no stager dies, the texts of all ranges they are asked for have one length | `SuccessIsAccepted` | otherwise the end of a longer text may remain behind a shorter one, and the loader refuses the file; the control side asks for one range per host (`stage_local_engram.py:27`) |
| `NoLateRemoval`: where commands run late, the base launcher with its `docker rm -f` is not used | `EveryHostStarted`, `RankZeroIsLast` | TLC finds the counterexample with `late` and both tools: a removal that was given up on removes the next attempt's container behind it. Commands that `recover_eager.py` gave up on may be `stop`, `rename` and `run`: `OneGeneration` allows for a late rename, and none of the three changes the order of starts |
| `ParityPrompt`: the parity script sends a prompt above 64 tokens | `ComparisonIsEvident` | shorter prompts never take the way that is compared |

| Theorem | Says |
|---|---|
| `RowStoreProofs!TypeCorrect` | `Spec => []TypeOK` |
| `RowStoreProofs!SlotsExclusive` | `Spec => []SlotExclusion` |
| `RowStoreProofs!CacheIsCoherent` | `Spec => []CacheCoherent` |
| `RowStoreProofs!LookupsAreExact` | `Spec => []ExactDelivery` |
| `RowStoreProofs!StoreImplements` | `Spec => Implements`, the cacheless specification |
| `DirectReadProofs!AcceptedNeverShort`, `ReadsInBounds` | accepted shards never read short; copies stay in bounds |
| `EmbeddingGatherProofs!TypeCorrect` | `Spec => []TypeOK` |
| `EmbeddingGatherProofs!GatherExact` | `Spec => []ReducedExact`: sums are the table's rows for every table and rank count |
| `PageSplitProofs!CallsFit` | `Spec => []TypeOK`: kernels stay inside the buffers of their call |
| `PageSplitProofs!GraphsKeepBuffers` | `Spec => []GraphBuffersKept` |
| `PageSplitProofs!AttentionIsExact` | `Spec => []AttentionReadsPool`, for every page size, list and order of a kernel's programs |
| `BenchProofs!CompletedMeansChecked` | `CampaignSpec => []GatesHeld`, for any scripts, suites and faults |
| `BenchProofs!TimingsDisarmed` | `CampaignSpec => []TimedDisarmed` |
| `BenchProofs!JitterRunsWhole` | `CampaignSpec => []JitterWhole`, for any number of hosts |
| `BenchProofs!CommandIsAsAsked` | `CampaignSpec => []RecipeServes`, for every combination of options |
| `BenchProofs!ComparisonIsEvident` | `CampaignSpec => []HookCompares` |
| `BenchProofs!CampaignTyped` | `CampaignSpec => []TypeOK` |
| `BenchProofs!MatrixTyped`, `CellsAreIsolated`, `NoDataIsLost`, `CompleteFilesVerify` | `Spec => []` of `ResultsTyped`, `CellIsolated`, `NothingLost`, `CompletedVerifies`, for any matrix, runs and interrupts |
| `EngramStagingProofs!TypeCorrect`, `ServedRowsAreExact`, `EndsAreChecked`, `SuccessIsAccepted` | `Spec => []` of `TypeOK`, `ServedRowsExact`, `EndsChecked`, `SuccessLoads`, for any stagers, versions, ranges and chunks |
| `LauncherProofs!TypeCorrect`, `EveryHostStarted`, `RankZeroIsLast`, `PutAsideIsPreserved`, `RelaunchWorks`, `SummaryIsTrue` | `ArchiveSpec => []` of `TypeOK`, `OneGeneration`, `RankZeroLast`, `Preserved`, `RelaunchSucceeds`, `SummaryTrue`, for any hosts, names, faults and attempts |
| `LauncherProofs!StopsAfterArchiving` | `ArchiveSpec => ArchivedFirst`, an action property |
| `EngramPipelineProofs!TypeCorrect`, `OutputsAreExact`, `BuffersSuffice` | `Spec => []` of `TypeOK`, `OutputsExact`, `NoOverrun`, for any lists and any number of forwards |

**RowStore.** `ExactDelivery` is not inductive: that a row delivered is right
depends on what the private buffer holds, which on a hit depends on the cache,
which depends on what the thread that filled it had read and that nobody else
was writing. The invariant `IInv` adds, to `TypeOK`, `CacheCoherent` and
`ExactDelivery`:

- `Quiet`: before the range is set no lookup runs (so that `Open` and `SetRange`
  may change the table's geometry and ownership under nobody);
- `Serving`: inside the loop body a thread serves a row of the table that it owns;
- `LockHeld`: between lock and unlock it holds the mutex of that row's slot.
  `SlotExclusion` follows at once, because the stripe is a function of the slot;
- `RowBuffer`: what `row` and the slot being replaced hold at each label, e.g. at
  `publish` the slot holds both ranges of the row whose key is about to be set.

Each action is a lemma with one step per conjunct it can disturb. The refinement
uses the same invariant: `Deliver` and `ServeUnowned` map to `AbsServe` because
`RowBuffer` says that `row` is the table's row; opening, aborting, closing,
beginning and finishing map to their counterparts; everything else stutters.

**DirectRead.** Arithmetic: a row of at most 256 bytes at any offset needs one or
two pages (`RequestCovers`), a row inside the file is read whole wherever
the file ends (`RowInFileIsRead`), and the extent check puts every row inside the
file (`RowInFile`, a fact about `\div`). The invariant adds that an open store's
extent was accepted.

**EmbeddingGather.** `rows * r \div tp` is monotone in `r`, 0 at 0 and `rows` at
`tp`; so the intervals partition the table and exactly one rank owns an id. The
invariant says that the running sum is the table's value if the owner has
contributed and 0 if not.

**PageSplit.** The property speaks of the moment of attention, so the invariant says
what holds on the way there. `Stores` gives shapes. `Kept`: what a layer has once
been called with is held for good, because a list of buffers is only extended by a
longer one (`Grows`); once a graph is captured every layer has been called, nothing
is ever extended again, and so the graph's buffers are the ones kept. `CallFits`: the
call under way has buffers that are there and long enough. `Phase`: while the mark
kernel runs, the programs that have run have marked their pages; while the copy
runs, the wanted pages are marked and the sub-pages whose programs have run are
where attention looks for them (`Copied`); the first source stays ready while the
second is copied, since their tags differ. Programs do not disturb each other
because pages and sub-pages are numbered without clashes (`SubPageUnique`). What is
left is the identity of the two addressings: `TokenIndex` and `LaneIndex`, about `\div`
and `%`, say that lane `x` of token `t` in 64-token pages is the lane the reference
computes in pages of `SrcPbs`.

**EngramStaging.** What the loader accepts is a record and a range, often of different
runs. `ServedRowsExact` therefore needs to know what a record vouches for: `RangesHold`
says that as soon as anybody has recorded, or has come as far as to verify and may
still record, the checkpoint of this moment (`Claimed`), every row of the range
that the file `ranges` names is from it. A stager that starts keeps that, because it
writes the same rows again (`CopiedHold`: what a running stager has copied is from the
checkpoint, which does not move while it runs), and a checkpoint that moves on ends
every claim, because no record has a later index (`Past`, where `NewIndices` is used).
`EndsHold` is the same for the two rows that are always compared, on a disk that writes
less than it is given. For `SuccessLoads`, `FilesInv` says who is writing each file that
is cut off, and whose descriptor still refers to the record after a rename, so that
once nobody runs no file is left cut off; with `OneLength` no file is longer than a text
written over it (`Fits`).

**Launcher, ArchiveStop.** One invariant, composed of parts that are each kept with the
help of the first two. `Stage`: one tool at a time, in its own stages. `Starts` is
about containers as started by an attempt, wherever they are now (under their name, put
aside under another, or a `run` given up on that may yet come): none carries a number
above the attempt's own, none exists before the attempt starts any, they appear in the
launcher's order, rank 0 only when all others have; a late command can only move or
start one, which is why `NoLateRemoval` is needed. `Group`: until an attempt breaks off,
what may still run is of earlier ones; so what it started is under its name, or was put
aside by one of those (`Held`). `Aside`: a container that is about to
be renamed has been logged and stopped. `Clean`: while an attempt has met no fault, what
it has passed is gone and what it is about to handle is there, which is why no docker
command of its own can fail. `Workers`: what each worker of the archiver has
established for the container it found, by where it is; other workers touch
other hosts. Every ssh call is analysed once (`Effect`, `EndsWell`, `EndsBadly`).
`ArchivedFirst` follows from `Workers` at the step that stops.

**EngramPipeline.** The order of the queue is what makes outputs exact. `Tables`: the
buffers, `Work` records and graphs are what their keys say, and nothing of them is ever
replaced. `Chained`: neighbours in the queue belong together (`Linked`: a lookup follows
the copy of the ids of the same forward, and so on; only a copy of ids may stand alone,
as a refused callback leaves it), and the operations of a replayed graph, which do not
name a forward, stand at known distances before the operation that takes the output
(`Gap`, `Enclosed`). `HeadReady` says of the head alone what its predecessor left
for it in the shared buffers: an invariant about the head suffices, because by `Linked`
the next operation is of the same forward or begins a new one. Its lemmas append
the four operations of a forward, or the six of a replay, to such a queue.

**Campaign.** `JInv`: what the dictionaries say of
the threads, and what has been established when the main thread is where it is (all
hosts ready in the benchmark and once a repeat was answered, nothing terminated before
the end); a reader only adds.
`DInv`: a rank has the file only while its suite compares, or when an ssh to it has
failed, now or with its effect still to come; and one tool runs at a time. `GInv`
remembers a gate by where the suite is: what the running script has noted is what
its prompts deserve (`GChecked`), and the manifest has a failed step only of the
comparison, and only until the file is removed (`GSteps`), which is why a suite
that goes on had none. `OInv`: the command is the one rendered
from the options. That it says what was asked for is a chain of twelve edits
(`Edited1` to `Edited12`), each of which finds its text because those before it
left it there: `After(c, k, o)` gives the fields of the command after the first `k`,
for any options. `KInv` follows the lines of one suite: the cache is empty and the
flag is there when the parity script starts, so the first long prompt is compared, and
what a later one finds in the cache was put there by a request that was. `TInv` adds
the types.

**BenchMatrix.** `MInv` relates four things that are only equal at times: the results in
memory, the file, the receipts and the job under way. `Sound` is what both memory and
file keep all the time: every answer has a receipt of its run, and a "completed" one is
whole and clean. `Progress` says how many cells and points there are at each stage
(`UpTo`), that the file has what memory has once it was written (`InFile`), and that
only the cell just added may hold a failed check (`CleanButLast`), which is what the
judgement after the write is about. `CellsBefore` and `PointsBefore` turn job numbers
into positions, with facts about `\div` and `%`.

## 6. What is not modelled or only model-checked

Only model-checked: liveness (`LookupReturns`, `RunEnds`, `ToolEnds`), which is outside
the prover's reach. Every safety property of the passing runs, and the action property
`ArchivedFirst`, are proved as well, under the assumptions and hypotheses of section 5.
Of the refuted statements of section 4, `EngramStaging_rollback` shows what the
hypothesis `NewIndices` excludes; `OldStopped` and `ParityCompares` are not true of the
code under any hypothesis used here.

Not modelled at all:

- `tools/check_attention_numeric.py`, `tools/gpuflip.py` and the kernels' arithmetic:
  floating point, no state. Of the torch reference its addressing and masking are
  modelled, as what the kernels' reads are compared with.
- `tools/probe_gpu_state.py`: one worker per host with a telemetry process of its own;
  the workers share nothing, and each cleans up in its own `finally`.
- `flashinfer_sparse_mla_forward` and its check (`flash_mla_sm120.py:705-777`), for GLM
  models, which this one never calls;
- the other two hooks of `sitecustomize.py`, which install the Engram backend and set a
  flag of the indexer's metadata: they run when a module is imported or an object made;
- the build files and the recorded results.

SGLang, FlashInfer, CUDA, docker, ssh and the kernel's file system appear as the
code uses them. Left out of modelled components: the store's statistics counters,
which nothing reads; rate limits, page-cache advice and progress lines of the
stager; the text of the rendered docker commands but for the settings that edits
replace; prompts, rates and the Markdown table of the matrix; the medians of the
jitter summary.

## 7. Plan

Done, in the order of the system's risk: the row store and its specification;
ownership; direct reads; staging and acceptance; launch; page split with both
sources; the pipeline; the matrix; archiving within the launcher's world; dispatch,
suite and jitter runs, composed in `Campaign`. Proved: every safety property of the
runs.

Next: abstract specifications that the detailed ones are shown to implement, in
TLC and by proof: for the pipeline, a gather that reads its ids and writes its rows
in one step (`EngramPipeline` has the mapping: `asked` and the answers that are done);
for the matrix, a sequence of valid cells that only grows within a run; for
the staging, a copy that is either of the server's version or absent.
