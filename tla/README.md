# TLA+ models of the distributed LLM eval harness

The harness runs a list of evaluation tasks over a pool of Ray actors. One
driver thread slices the tasks into batches, keeps one batch in flight per
worker slot, retries what fails, replaces workers that hang or break, and hands
every outcome to an aggregator. This directory models that driver, its workers,
its aggregator and the two-node kill test that measures it, checks the models
with TLC and proves their safety properties with TLAPS: of the driver for every
size of pool, task list and budget, of the worker, the aggregator and the kill
test for any number of calls, shards, rows and samples, and of the early-stopping
hook for every text.

Line references are to files under `src/`.

## 1. The system

| Part | State | Operations | Talks to |
|---|---|---|---|
| **Scheduling loop** (`coordinator.py`, `run`) | `pending`, `deferred`, `active`, `ref_timeouts`, `workers` | fill, dispatch, harvest, retry, time out, abort, drain, return | workers by actor call and `ray.wait`; aggregator by fire-and-forget call |
| **Batching and split-retry** (`utils.make_batches`, `retry_entries`) | none | slice, halve | called by the loop |
| **Replacement and standby pool** (`_replace_worker` to `_teardown_standby`) | `_standby_pool`, `_standby_refills`, `_standby_stats` | promote, block, refill, poll, give up, tear down | Ray actor construction and kill; the loop's slots |
| **Workers** (`worker.py`) | `_poisoned` (HF); the engine and its requests, `_last_error` (vLLM); counters | `evaluate_batch`, `evaluate_with_hooks`, `health_check`, `get_stats` | the driver; a shared `FailureDecider` when faults are injected |
| **Aggregator** (`aggregator.py`) | per shard: counters, reservoirs, an open JSONL file | `record_batch`, `get_shard_state`, `finalize`, `get_summary` | the driver |
| **Fault injection** (`fault_injection.py`) | attempts per batch key | `should_fail`, shard routing | workers |
| **Hooks** (`hooks.py`) | scanned prefix, trigger | `on_delta`, `should_stop` | a worker's generation loop |
| **Kill test** (`bench/multinode`) | the sampler's offset and counts, its samples, the log, the kill's marker | `scan_new_lines`, `kill_node.sh`, `build_report` | the results file while it is written |
| **Docent adapter** (`docent_adapter.py`) | none | `iter_records` | the files of the aggregator |
| Scoring, metrics, CLI, benchmarks | none that another part depends on | | |

What makes it correct, and what is hard about it:

* **Loop.** Every task ends with exactly one outcome; a batch is never dropped,
  doubled or retried past its budget; the loop ends. Hard because a batch moves
  between four containers and the driver's hands, a call may answer between the
  moment it is polled and the moment it is timed out, the driver blocks for
  minutes inside a replacement while calls age, and the timeout scan walks a
  snapshot of a table it changes.
* **Pool.** Never larger than configured, smaller only after bounded retries;
  counters agree with lists. Hard because the poll rebuilds the list that its
  own failure path appends to, and a standby can die unnoticed.
* **Workers.** A worker whose engine is broken answers calls and only its
  health check tells; it must get no further batch. The vLLM worker is an async
  actor: every failing path has to abort what it left on the engine, and all
  calls share one health flag, which each of them reads and writes around its
  awaits.
* **Aggregator.** Exactly one row per result over shard files, merged counters
  equal to unsharded ones. Hard because writes are fire-and-forget, shards work
  at their own pace and may die between a write and its flush, and files outlive
  a run, for a second run and for the adapter to find.
* **Fault injection.** The injected outcomes are a function of the seed. Hard
  because attempts are counted by actors that several workers call in any order.
* **Hooks.** No trigger missed at the boundary of two scans. Hard because text
  that has been scanned may change when a byte sequence is completed.
* **Kill test.** What it reports of a run - tasks per phase, retries, recovery
  time - is true of the run. Hard because the sampler races with the writer, and
  log stamps are seconds of a day in local time.

`PROJECT.json` lists the hazards at their lines and the properties that would
catch each.

## 2. Modules

| Module | Models | Used by |
|---|---|---|
| `SplitRetry` | `make_batches`, `retry_entries` | `Coordinator` |
| `StandbyPool` | worker slots, replacement, standby pool and refills | `Coordinator` |
| `TaskLedger` | abstract: what `run` promises about tasks | `Coordinator` (refinement) |
| `Coordinator` | the whole of `run`, with the workers as its environment | `InjectedFaults`, `MCCoordinator`, `MCRuns`, `CoordinatorProofs` |
| `InjectedFaults` | fault-injecting workers and their decider shards under the coordinator (extends `Coordinator`) | `MCInjected`, `InjectionProofs` |
| `ShardedAggregator` | the aggregator facade, its shard actors, their files, the summary, and the adapter that reads the files | `MCAggregator`, `AggregatorProofs` |
| `HookScan` | `EarlyStoppingHook` and the two generation loops that drive it | `MCHookScan`, `HookProofs` |
| `VLLMWorker` | the async vLLM actor: its calls, their requests on the engine, aborts, health | `MCVLLM`, `VLLMProofs` |
| `KillTest` | sampler, kill and report of the two-node test | `MCKillTest`, `KillProofs` |
| `MCCoordinator`, `MCRuns`, `MCInjected`, `MCAggregator`, `MCHookScan`, `MCVLLM`, `MCKillTest` | instances for TLC; `MCRuns` adds a history variable that counts how often a task was handed to a worker | the `.cfg` files; `MCRuns` also `HalvingProofs` |
| `CoordinatorProofs` | theorems: types, slots and jobs, where the tasks are, the ledger, the pool's books, broken workers | `HalvingProofs`, `InjectionProofs` |
| `HalvingProofs` | theorems: what halving and budgets do to a batch | |
| `InjectionProofs` | theorems: injected runs are runs of the coordinator, and reproducible | |
| `HookProofs`, `VLLMProofs`, `AggregatorProofs`, `KillProofs` | theorems about the module of that name | |
| `ProofLemmas` | induction, folds over finite sets as sums, division | the five above, `HalvingProofs` |

### How the state corresponds to the code

* A task is its position in the task list. `make_batches` and `retry_entries`
  only slice, so a batch is an interval `lo..hi` with its `retry_count` `rc`.
* `pending` and `deferred` are the deques. A wake-up time is abstracted: when
  `promote_ready_retries` looks at an entry it finds it due or not
  (`PromoteDue`, `PromoteNotDue`).  `waiting` is `still_waiting`.
* `call[i]` stands for the entry of `active` and `ref_timeouts` that belongs to
  slot `i`. There is at most one: `submit` is called only for slots without
  one. `st` is whether the ref has been answered and how; `old` is whether its
  age exceeds `hang_threshold_s`.
* `slot[i]` is `workers[i]`, `"none"` for `None`, otherwise the condition of
  the actor, which the driver cannot see: `up`, `bad` (health check False),
  `wedged` (no answer at all), `dead` (calls raise).
* `job` holds the local variables of the failure path and of one eviction
  (`worker_idx`, `batch`, the failure kind) across the calls they make; `todo`
  is the part of the scan's snapshot whose age exceeded the threshold at the
  scan's single reading of the clock.
* `results[t]` is the sequence of outcomes handed to `record_batch` for `t`.
  The aggregator itself is taken as reliable in `Coordinator`.
* `ShardedAggregator` starts where that ends: `sent` is the driver's sequence of
  results, `mailbox[i]` the submitted `record_batch` calls of shard `i` (the head
  is being worked through, one `_ingest` per step), `buffer[i]` the rows written
  but not flushed, `files` what is on disk, `state[i]` the counters, `lost`
  whether a write ref will raise. A row is the result it was made from. Scores
  and latencies are small naturals, `Awarded` a task's condition scores; of the
  two reservoirs, which run the same code, the latency one is kept. `Rank` is
  the percentile that is reported. `sent` is any order and grouping of the tasks,
  which is all that `Coordinator` promises.
* In `InjectedFaults` the verdict of `should_fail` is membership of the pair
  (batch key, attempt) in `fails`, an arbitrary set fixed when the run begins:
  that is what a hash of (seed, key, attempt, rate) is, over all seeds. A batch
  key is the interval of its tasks. `asked[i]` is what the worker of slot `i`
  holds between the decider's answer and acting on it.
* In `HookScan` a text is a sequence of characters and `Lower` the case folding.
  `Deltas`, `Grown` and `Redecoded` stand for the engines and the tokenizer; the
  character `Incomplete` is what `decode` shows for the first bytes of another.
  `late` is kept for the property only: which characters a scan saw otherwise
  than the next one did.
* In `VLLMWorker` a call is a coroutine: `stage` is the await it stands at
  (`running`: the streams; `aborting`: the next abort of the except block;
  `stopping`: the abort a hook asked for), `rids` its requests, `exc` what
  `gather` or the stream has raised in it. `engine` is what still runs there,
  `stuck` the requests whose abort raised. One action is the code between two
  awaits. `answered` orders the answers for the properties that speak of them.
  The coordinator sends one batch at a time to a worker, so its calls overlap
  only with health checks and with a call that it gave up; the actor itself
  does not enforce that, and the model lets them overlap. `wait_for` may give
  up although the streams have just ended: which of the two wins depends on the
  Python version.
* In `KillTest` a row is two bytes of the file and `half` the first of them, so
  `offset` may end inside a row. A tick is half a second and `None` is -1. Time
  is what `time.time()` returns, in UTC; the head's local time is `UtcOffset`
  ahead of it. A log line carries a stamp only (`Asctime`): its local time, cut
  to the second and to the day as the log's format cuts it; `Epoch` puts that on
  `T0`'s UTC day, as `parse_log` does. `Ready`, `BatchFails`, `Replace`,
  `RetryBatch`, `WritePart` and `WriteRest` are what a run leaves for the test to
  read: the coordinator's lines in the order it logs them (a retry follows its
  failure, after any time, or never if that is terminal; a replacement takes
  service after a failure), and rows at any time. `Coordinator` is the model of
  what a run does.

### Driver and workers

The driver is a program counter over its calls out: `ray.wait`, the health
probe, constructions, sleeps, the scan, the final `get_stats`. A driver action
is the code between two of those points, with every call it makes. Workers act
only while the driver is at a blocking point or about to read the clock
(`Yielding`). This loses nothing: between those points the driver reads only
its own variables, so a worker step there commutes with the driver's next one.

A worker answers (`Complete`), fails with an error that `classify_failure`
calls deterministic (`FailDeterministic`, exactly the batches that contain a
task of `BadTasks`), fails otherwise (`FailTransient`, which includes the
worker's own batch timeout and injected faults), or fails with an engine-fatal
error that its health check remembers (`FailFatal`). Its process dies
(`Crash`), after which every call on it raises (`FailOnDeadActor`), or it stops
answering (`Wedge`). A running call grows old only on a wedged worker; an
answered one grows old only while the driver is blocked in a replacement
(`Age`), because on a live worker the batch timeout is less than half of the
hang threshold. `Faults` says which of these an instance has.

## 3. Runs

| Run | Question | Instance |
|---|---|---|
| `coordinator` | does the loop account for every task once, implement the ledger, and end? | 2 slots, 3 tasks in batches of 2 and 1, one bad task, budget 1; transient errors, crashes, wedges, failed constructions |
| `standby` | does the pool lose a task, keep a bad worker, or lose count of itself? | the same with 2 standbys, 2 attempts each, no bad task; fatal errors, crashes of busy and idle workers, failed loads and submissions |
| `bisection` | does splitting isolate a bad task and respect the budget, whatever else fails? | 5 tasks in batches of 4 and 1, budget 2 = log2(4), task 3 bad; transient errors and wedges |
| `aggregator` | is every result written once, and the summary right? | 3 tasks, 1 or 2 shards, 2 workers, reservoir of 2, conditions that differ between tasks, the median; shards may die |
| `injection` | are injected outcomes a function of the seed? | 2 slots, 3 tasks in batches of 2, budget 2, task 2 bad, 2 decider shards, all 2^8 verdict sets, no fault but the injected ones |
| `hooks` | does the window miss nothing? | triggers of lengths 1, 2 and 3 that overlap themselves and differ in case; text up to 5 in steps of up to 2 characters, incomplete ones among them; both loops |
| `vllm_worker` | does every ending of a call clean up, and does the health flag tell the truth? | 2 calls of either kind, batches of 2, health checks at any time; streams that end, raise or hang, aborts that raise, an engine that dies |
| `kill_test` | is the report true of the run? | 2 rows, 2 samples, 1 failure, a kill with or without marker, 3 half seconds around midnight, a UTC head |

**Bounds.** Two slots are the least at which a call can be outstanding while
the driver deals with another, at which an eviction can requeue work that
another slot takes, and at which one slot can be dead and the other alive.
Three tasks in batches of two give a batch that splits, one that does not, and
more batches after the split than slots. Budget 1 has every batch retried once
and give up once; `bisection` covers a deeper budget and two levels of halving. Two standbys let one
be promoted while another loads, so that the poll has a list to rebuild, and two
attempts let a refill fail once and for good. Deadlock checking is off only in
`hooks`, where a generation ends; the other models end in a step of their own
(`Finished`), and stopping anywhere else is an error. Two shards and three tasks
give a batch within one shard, one over both and calls queued behind each other; a reservoir of 2 overflows on one shard and
not over two. The code reports the 99th percentile, which is the maximum of
fewer than a hundred values; `Rank` is 50 so that small samples tell the
nearest-rank rule from its neighbours. Two vLLM calls are enough for a success
to cross a failure and for a hooked call to run beside a batch; a batch of two
has a sibling that outlives the first exception and a second abort after one
that raised. In `kill_test` two samples give a recovery its two bounds, and two
rows one of a primary before one of a replacement; the run starts half a second
before a full second, so that its first stamps precede it, and midnight comes
with the third tick. In `hooks` three incomplete characters may be completed at
once and the text still grow past them, so that a trigger is completed within the
window's reach and out of it. In `injection` the verdicts make every retry path happen:
whole, split, bad and exhausted. `FreshStates` is `{"up"}` in all runs: a
replacement that loads is taken to be healthy.

**Properties**, with what would break them:

* `ExactlyOnce` - a place that drops or doubles a batch: dead-slot requeue,
  eviction of an answered call, abort, promotion. The coverage, disjointness
  and single-recording parts are stated over all places at once.
* `ImplementsLedger` - an outcome recorded and then retried; a loop that stops early or records a batch that is still queued. `TaskLedger`
  closes open tasks in groups and ends only when none is open;
  `Coordinator!Ledger` maps `results` to itself and `pc` to running, returned
  or raised.
* `NoCallOnEmptySlot` - the abort writes off `pending` and `deferred` only, so
  it is right only if no dead slot has a call in `active`.
* `DriverConsistent` - the snapshot walked by `_handle_timeouts` and the slot
  of the failure in hand stay valid across replacements and reassignments.
* `NeverIdleWithWork` - a retry promoted when all slots are idle is dispatched.
* `BudgetIsRuns` - counted with a history variable: at most `max_retries + 1`
  dispatches of a task, all of them used before a transient error or a hang
  becomes terminal.
* `HalvesEveryFailure`, `BatchmatesSurvive` - uneven or missing splits, by which a
  batch would reach the end of its budget with several tasks in it, and a healthy
  one be given up for the error of another.
* `NoCallToBadWorker` - a broken engine gets no further batch.
* `StandbysAccounted` - a refill lost or doubled by the poll, one retry too few,
  a counter forgotten: the ready standbys are what promotions and completed
  refills leave (`ReadyAccounted`), and each one missing is put down either to a
  submission that failed or to as many failed loads as are allowed
  (`MissingOnlyAfterRetries`).
* `Terminates` - below.
* `NothingLostInFlight` - per shard, disk, buffer and mailbox together are what
  was sent, in order: a row lost, doubled or reordered.
* `DrainedIsDurable` - once the drain returned, the death of a shard costs no
  row: a flush forgotten, or done only at close.
* `OutputExactlyOnce` - `finalize` on any number of shards, with a fresh path.
* `SummaryIsOfResults` - the merged summary has the counts, sums, extremes and
  means of the results alone, and of each condition the mean award and the pass
  rate, whatever shard saw them. The property sums over the
  results as the driver sent them, the code shard by shard and then over the merged
  lists.
* `PercentileIsNearestRank` - the percentile against the definition of nearest
  rank: the least value that enough of the sample do not exceed.
* `ReservoirSound` - over-full, short, or sampling a result twice. That the
  sample is uniform is not stated.
* `OutcomesReproducible` - a task's outcome is compared with `Fate`, which
  replays the verdicts of its own batches alone: `Walk[n]` says in which batch
  each task is after `n` retries and how often that batch was asked about before,
  whatever the verdicts, and `Fate` is the first verdict that settles the task.
  Hangs and crashes are left out: they retry for reasons of their own, and the
  code claims nothing there.
* `StopsOnAnyTrigger` - the windowed search against a search of all the text,
  including which trigger is reported. Of text decoded anew it says which triggers
  may go unnoticed (`Missed`): those with a character that was completed after a
  scan whose overlap no longer reached back to where the trigger begins, and no
  other.
* `DeadEngineFailsProbe` - a failure that is not noted, or noted and then cleared:
  once a dead engine has failed a call, no later health check answers True. A
  call that was under way by then may still succeed and clear the flag; that is
  the one exception, and the property says so.
* `HarmlessStaysHealthy` - a timeout whose text looks like a CUDA error, taken
  for one.
* `NoOrphans` - a sibling stream not aborted, or an abort that raises and saves
  the rest from theirs.
* `CountersMatch` - a task counted by both of the two places that count failures,
  or by neither.
* `BatchAnswered` - every batch is answered, however the engine hangs or dies.
* `SamplesLag` - a row lost, counted twice, or robbed of its worker because the
  sampler saw it in part.
* `RecoveryBracketed` - the recovery found at the wrong sample.
* `PhasesAddUp` - a task in two phases of the report or in none.
* `RetriesOfKill`, `InferredAfterKill` - stamps moved to the wrong day, or
  compared as if they were exact. Both are claimed of a head whose clock shows UTC
  (`UtcHead`); below is what happens on another.

### Where code and documentation differ

Each of these is a run that TLC must find violated; the quotes are in
`PROJECT.json`.

| Run | What it shows |
|---|---|
| `evicts_live` | While one slot is replaced by the blocking path, the other slot's answer ages past the hang threshold. The scan then evicts it: its result is discarded and its live worker killed. The README says the threshold catches only workers whose own timeout is dead. |
| `stats_raise` | A worker that dies after its last batch makes `get_stats` raise out of `run()` after all results are in. |
| `reruns` | A second sharded run on the same `--output`: shard files are opened to append, and `finalize` concatenates the first run's rows again. `main.py` says the file has every result exactly once. |
| `docent_twice` | The glob that `docent_adapter.py` recommends for shard files matches their concatenation too: after one sharded run every task is yielded twice. Its docstring says one record per completed task. |

Other differences have no run of their own: the first four show when a constant
of a passing run is changed or a part of a property is dropped, the others were met while modelling and are what a
property is stated around.

* `BatchmatesSurvive` needs a budget of log2(batch size). With `Retries = 1` in
  `MCBisect.cfg` a pair is left when the budget is used up and a healthy task
  fails for good with the bad one. `README.md:7` promises a singleton after
  log2(batch) failures, which the defaults (batches of 64, two retries) do not
  leave room for.
* `BudgetIsRuns` needs tasks of one budget. A batch is retried by the
  `max_retries` of its first task (`coordinator.py:392` and `:474`), so that of
  two tasks with budgets 0 and 1 the one gets a second run or the other none;
  `README.md:124` says the budget is per task. `main.py` gives all tasks the same.
  (`BatchmatesSurvive` does not: that each budget is enough is all its proof uses.)
* Without the exception `Missed`, `StopsOnAnyTrigger` is violated by the HF loop:
  a longest trigger that ends in a character decoded late goes unnoticed, for
  `decode` first shows a replacement character, which the hook counts as scanned,
  and the real one then takes its place one character outside the overlap. If all
  triggers are of one length, as a single one is, none that ends in such a
  character is safe. Nor is a redecoding scanned that leaves the text no longer
  than it was (`worker.py:111`), until more text comes.
* `RetriesOfKill` and `InferredAfterKill` need a head whose clock shows UTC.
  `main.py:16` stamps the log in local time ("harness logs in head-local time",
  `tests/test_multinode_measure.py:20`), and `measure.py:29` reads the stamps as
  UTC ("parse_log assumes a UTC head", `:113`). With `UtcOffset = 6` in
  `MCKillTest.cfg`, a head three seconds of a ten-second day ahead, TLC finds both
  violated: the inferred kill is off by the difference, contrary to
  `measure.py:282` ("LATER than the kill"), and the retries fall out of their
  window. The other properties of the run hold there too. A clock that is set
  forward or back in the run, for summer time, breaks the two as well.
* The abort of `coordinator.py:254` ("nothing can save us") looks at the slots
  only. When the last slot dies while a refill is loading, a standby that is
  ready a moment later is not promoted, for nothing promotes into a slot that is
  already empty, and the run is written off beside it.
* `_start_standby_refill` retries nothing when the submission itself raises,
  although `README.md:118` says failed refills are retried three times.
  `StandbysAccounted` counts the two kinds of failure apart.
* `BatchAnswered` is about batches. A hooked call has no time limit
  (`worker.py:421`); the coordinator makes none.
* `InferredAfterKill` and `RecoveryBracketed` are stated for runs in which no
  batch failed, and no replacement wrote, before the kill. Otherwise
  `measure.py:119` takes the earlier failure for the kill, and `:105` the earlier
  replacement's rows for the recovery.
* `RecoveryBracketed` gives the lower bound as the time the previous sample was
  read. The report prints the time it was stamped (`sample_progress.py:58` takes
  the time after the scan), which may be later than the row it should precede.
* The sampler counts every row of a replacement, those of failed tasks too;
  `bench/multinode/README.md:118` speaks of the first successful batch.

Two more were met in the condition checkers, which are not modelled. The five longest keywords are
cut from a set sorted by length alone (`scoring.py:90`), so that a tie at the
fifth is broken by the hash order of the process; no prompt built into `main.py`
has such a tie. And `answer_at_end` looks for negations only inside the last
30% of the text.

### Fairness

`Coordinator!Fairness` assumes, and the code or its platform justifies:

* weak fairness of `DriverNext`: the driver is a thread that is always scheduled;
* strong fairness of `PromoteDue`: a backoff is at most 8 s, so an entry cannot
  be found not due for ever. Strong, because the step is enabled only each time
  the loop comes round;
* strong fairness of a worker's answer unless it is wedged: `evaluate_batch`
  enforces `task_timeout`. Strong, because workers move only at `Yielding`
  points. `FailTransient` and `FailFatal` are not assumed to happen;
* strong fairness of `FailOnDeadActor`: Ray reports the death of an actor;
* strong fairness of growing old for a running call on a wedged worker: time passes.

Nothing is assumed of crashes, wedges or failed constructions, so they may
happen always or never; the retry budget is what makes the run end. One case is
outside: a worker that stalls while idle, first called by the final
`get_stats`, would block `run()` for ever, for that call has no timeout. Here a
worker stops answering only inside a batch or its health probe.

`VLLMWorker!Fairness` assumes that the event loop runs what is ready: the timer
of `wait_for` fires, a coroutine resumes after its abort (`AbortNext`, `Raise`).
Of the engine it assumes only that an abort returns or raises, for the code puts
no limit on one. Nothing is assumed of streams, hooks or health checks.
`KillTest`, `ShardedAggregator` and `HookScan` claim safety only.

## 4. Proofs

Every theorem below is proved for all values of the constants that the named
assumptions of the modules admit: any number of workers, tasks, standbys,
attempts, shards, calls, rows and samples, and any set of faults. The bounds
that keep the runs finite (`MaxCalls`, `MaxRows`, ...) are constants like the
others and may be as large as one likes. Each inductive invariant was checked by
TLC on an instance before it was proved.

### The driver

`CoordinatorProofs` rests on `IInv == TypeOK /\ NoCallOnEmptySlot /\
DriverConsistent`, none of which is inductive alone. That an empty slot has no
call needs to know that `_replace_worker` empties only the slot of the job in
hand and that this slot's call was popped first (`JobInHand`); that needs the
program counter tied to the job and to the blocking replacement; and the eviction
step is type-correct only because its snapshot still names calls that exist
(`SnapshotValid`), which in turn needs the slot of the job to be outside the
snapshot.

* `TypeCorrectness`, `AbortLeavesNoCall`, `DriverConsistency`: the three parts.
  The first is more than shapes: every entry of every queue is a non-empty
  interval inside the task list, so halving and slicing never make an empty or
  overhanging one.
* `RetryEntriesPartition`: `retry_entries` partitions a batch of any size and
  charges each part exactly one retry.
* `PoolAccounted`: `[]StandbysAccounted`. That each standby missing is paid for
  by as many failed loads as are allowed is not inductive: loads that failed for
  refills still under way have to be put down to them. `Attempts` does that with
  the attempt numbers of `refills` and of `inFlight`, the poll's list in
  progress, which is empty outside the poll (`Polling`).
* `BrokenWorkersGetNoCall`: `NoCallToBadWorker`, from `BrokenInHand`: while a
  worker is broken, the failure that broke it is still on its way to the driver,
  or the driver is about to probe or replace. It assumes `FreshStates = {"up"}`,
  as the runs do: both workers start with a clear flag (`worker.py:149`, `:312`).
  A vLLM engine that dies between its load and its first probe is outside: the
  driver awaits the answer of a new worker and drops it (`coordinator.py:614`,
  `:700`), so such a worker gets one batch before it is found out.

`LInv` says where every task is. `Divided`: the tasks recorded, queued,
deferred, set aside, in a call and in the driver's hands cover all tasks and
share none, at every step of the loop, until it is left and all are recorded.

* `ExactlyOnceTheorem`: `[]ExactlyOnce`.
* `NeverIdle`: `[]NeverIdleWithWork`; a turn of the loop that finds every slot
  idle has something to dispatch (`HasWork`), since somebody is alive and nothing
  is set aside outside a promotion (`Aside`).
* `LedgerImplemented`: `ImplementsLedger`, from a lemma on steps (`ResultsNext`): a step leaves the results
  alone, or closes a set of open tasks while the loop runs, or closes all that
  are open as the loop is left. The refinement maps the first to a stutter and
  the others to steps of `TaskLedger`.

`HalvingProofs` is about sets of entries that the loop cannot leave: if a set of
batches is closed under `retry_entries` within the budget, and all batches made
at the start are in it, then every batch in any place is (`AllInNext`; a form
that asks only for the retries of the batch in hand is what `InjectionProofs`
uses).

* `FailuresHalve`: `[]HalvesEveryFailure`, with the batches of at most
  `BatchSize / 2^rc` tasks, rounded up.
* `BatchmatesUnharmed`: `[]BatchmatesSurvive`, with the same set, and the fact
  that a deterministic failure in hand has a bad task in its batch
  (`CausesKnown`). It assumes `EnoughRetries`: each `max_retries` is at least
  log2 of the batch size. Section 3 says what happens otherwise.
* `BudgetTheorem`: `[]BudgetIsRuns` of `MCRuns`, from `BudgetInv`: a queued batch
  with `rc` retries has tasks that ran `rc` times, a running one `rc + 1`. It
  assumes `UniformBudgets`, as `main.py` provides.

### The worker

`VLLMProofs` describes what one step of a call may change (`CallStep`) and shows
that each of the eight actions of a call is one; the invariant is then proved
once for all of them, and for the engine's and the health check's steps.

* `WorkerTypes`, and `NothingLeftRunning`: `[]NoOrphans`. The invariant behind it
  is that what a call still has on the engine is on its list of aborts to come,
  or its abort raised (`NoneForgotten`), and that no two calls share a request.
* `DeadEngineIsNoticed`: `[]DeadEngineFailsProbe`. The flag alone is not enough:
  `FlagRight` says that if it is clear, every failure for a dead engine was followed
  by a success of a call begun before that failure, and the same of the answer a
  health check has read but not given; `DeadIsDeaf` that a call begun after the
  engine died cannot succeed.
* `HarmlessNeverFlagged`: `[]HarmlessStaysHealthy`.
* `TasksCountedOnce`: `[]CountersMatch`. `Counted` states the counters at every
  step, where a hooked call has counted its failure before its aborts and a batch
  counts it after them.

### The aggregator

`AggregatorProofs` proves `AInv`: for a shard that lives, or died without losing a
call of its own, the file's new rows, the buffer and the mailbox are in this order
what it was sent (`Accounted`). It needs that a shard with an empty mailbox has
flushed and a dead one holds nothing (`Emptied`), and that the drain returned only
when nothing was lost (`Written`). The position up to which a file is of earlier
runs is within the file only for the shards of this run: files of shards that are
not in use may be shorter than when they were last looked at, which the first
attempt at the proof had wrong.

* `InFlightTheorem`: `[]NothingLostInFlight`; `DurableTheorem`:
  `[]DrainedIsDurable`.
* `OutputTheorem`: `[]OutputExactlyOnce`, if there is one run only (`MaxRuns = 1`):
  the files were empty when they were opened (`FirstRun`), the shards' rows have
  no task in common, and every task has a shard. The `reruns` run shows that it is
  false for two.
* `ReservoirTheorem`: `[]ReservoirSound`, by an injection from the sample's places
  to the successful results ingested (`Sampled`).

* `SummaryTheorem`: `[]SummaryIsOfResults`. `SInv` says that the counters of a
  shard in use describe (`Describes`) the results it is done with: each is a
  number, sum or extreme of a set of results, and the list of breakdowns is in
  bijection with the set. A merge of states that describe disjoint sets describes
  their union (`DescribedTogether`); by induction over the shards the merged state
  describes all that was sent, for every result has one shard and a summary is
  asked for with the mailboxes empty. What is left is to turn sums over the
  places of the merged list into sums over places of what was sent, condition by
  condition.
* `PercentileTheorem`: `[]PercentileIsNearestRank`: more samples
  than the index read, `ceil(q*n) - 1`, are at most some value just when at least
  `q` per cent of them are (`RankReached`), so that the value at that index of the
  sorted sample is the least such, ties included.

### Fault injection

`InjectionProofs` is about `InjectedFaults`, which puts workers that ask a decider
under the whole coordinator.

* `InjectedRunsAreRuns`: `InjectSpec => Spec`. So all that is proved of the driver
  holds of injected runs, and `LInv` is at hand.
* `ReproducibleTheorem`: `[]OutcomesReproducible`. A walk does not depend on
  verdicts, so it can be fixed in advance. The invariant `JInv` says that every
  queued batch is where the walks of its tasks are after as many retries, that its
  key has been asked about exactly as often as they say, and nobody has asked
  about a smaller part of it (`Unasked`); that a batch whose worker asked, that
  was answered or that is in the driver's hands ends as the verdict of its walk
  (`Told`); and that no earlier verdict had settled its tasks (`Reached`). A
  question counts for one key, and so could spoil this only for a batch that
  shares a task with the one asked about; that the ledger excludes (`Divided`).
  That no smaller part was asked about is what makes the count of a half start at
  zero when its batch is split. The invariant also needs that nobody is ever
  replaced (`Calm`): a replacement would let answers age, and an evicted call asks
  again. It assumes `FreshStates = {"up"}`, as the runs do.

### The kill test

`KillProofs` proves that the sampler's counts are what the file held when it was
read: `Saw(tot, rp, at)` says that the first `tot` rows, `rp` of them of
replacements, were written by the time `at` and the others not before it. The
offset is always at the end of a row (`Sampled`), which is why a row seen in part
is not lost. What the report says then follows from the samples' order.

* `KillTypes`, `SamplesLagTheorem`, `RecoveryTheorem`, `PhasesTheorem`: the
  properties of those names, whatever the head's clock shows.
* `InferredTheorem` and `RetriesTheorem`: both assume `UtcHead`, and rest on
  `EpochIs`: on such a head, for every time of a run that begins at any time of a day and is shorter than a day less
  `Slack`, `parse_log` finds the second in which the line was logged, on either
  side of midnight.

`TimesAssumption` says what this needs: a day is a whole number of seconds, a
second is not longer than `Slack` (300 s) or `Lead` (2 s).
`UtcOffset` may be any number there; only the two theorems that say so ask for 0.

### The hook

`HookProofs` proves `WindowMissesNothing`: `Spec => []StopsOnAnyTrigger`, for every
list of non-empty triggers, every case folding, every length of step and every way
in which a decoding may differ from the last one. Its invariant adds that, while
the generation runs, all the hook was called with has been scanned. An occurrence
that begins before the window then ends inside the scanned text, because no trigger
is longer than `MaxTriggerLen` (`BeforeWindow`): either it was there before, where it
was reported or had been missed, or one of its characters has changed since, and it
is one that may be missed (`WindowSuffices`). That the longest of a list is a bound
on all (`MaxTriggerLenBounds`) is an induction on the list.

* `GrowingTextIsSearchedWhole`: where no incomplete character is decoded, as in
  vLLM's stream, nothing scanned ever changes (`Unchanged`), so that the trigger
  reported is the one a search of the whole text would report (`AsWholeText`).

### Lemmas

`ProofLemmas` has what these proofs share. The induction theorems of the library
take an operator, so induction is stated over sets of numbers (`Inductive`,
`LeastNumber`). A fold such as `MapThenSumSet` chooses a function that satisfies a
recursive rule; `Recursion` and `RuleAdds` show that there is one and that it is
determined, from which come the laws of sums over finite sets (`SumOver`: type,
monotonicity, one more element, a union, a renaming of the elements), and of
counts. The same is done for `Walk`, a recursive function of the retries.

### Only model-checked

`Terminates` and `BatchAnswered`: liveness under fairness, which needs ENABLED.
Every safety property of a passing run is stated by a theorem. What the theorems
assume beyond the modules' assumptions is said with each of them above.

## 5. Not modelled

* Throughput and token counts of the summary, the batch-latency reservoir (the
  code of the one modelled). `LoggingHook` only counts and logs.
* An aggregator that dies under the coordinator: `ShardedAggregator` shows what
  is on disk then, but `Coordinator` does not take the drain's exception.
* The HF worker's generation and its poisoned flag beyond what the coordinator
  meets (`bad`, `wedged`): its calls are synchronous, so nothing interleaves.
* The condition checkers of `scoring.py`: matching of one response's text.
  Metrics, the CLI, the saturation benchmarks and the plots, the conversion of a
  record for Docent and its upload: pure computation or file input and output
  that no part of the loop reads.
* Of the kill test: the accounting of its report, which counts the rows of
  results.jsonl and nothing else (different and repeated ids, failed rows, rows on
  replacements, and the 100% that is said if as many ids as tasks and none twice
  were found), the promotion's stamp, and the formatting of its table.
* Ray's scheduler and resources: a construction succeeds or fails. The actors
  of failed blocking attempts, which the code does not kill, are not tracked.
* Clock values: ages and backoffs are reduced to the two comparisons the code
  makes with them.
* A start in which some worker misses the init barrier: `_create_workers`
  raises and `run` does nothing.

## 6. Plan

Done: `SplitRetry`, `StandbyPool`, `Coordinator`, `TaskLedger`,
`ShardedAggregator` with its summary, `InjectedFaults`, `HookScan`, `VLLMWorker`,
`KillTest`, their runs, and the proofs of section 4. In order:

1. The coordinator's end with an aggregator that may be lost: drain, `get_stats`,
   `finalize`, teardown in their order.
2. Replacements that report themselves unhealthy (`FreshStates` with `"bad"`).
