-------------------------- MODULE ShardedAggregator --------------------------
(***************************************************************************)
(* aggregator.py: the driver's ShardedAggregator facade, its shard actors, *)
(* and the JSONL files they leave behind, over successive runs with the    *)
(* same output path.                                                       *)
(*                                                                         *)
(* The driver submits one call per shard a batch touches and does not wait;*)
(* each shard works through its mailbox in order, one result at a time,    *)
(* and flushes its file after each call.  A shard's process may die in     *)
(* between: what it had not flushed is lost, its files are not.            *)
(* docent_adapter.py reads those files when the run is over.               *)
(***************************************************************************)
EXTENDS Integers, Sequences, SequencesExt

CONSTANTS
  TaskIds,        \* the tasks of every run
  ShardCounts,    \* values of --aggregator-shards the user may pick
  Crc,            \* crc32(task_id)
  Score, Latency, \* what a successful result of a task carries
  Awarded,        \* and its condition_scores: what each condition was awarded
  Workers,        \* worker ids
  ReservoirCap,   \* RESERVOIR_CAP
  Rank,           \* the percentile reported, in percent: 99
  MaxRuns,        \* how many runs write to the same output path
  Crashes         \* whether shard actors may die

ASSUME TaskIdsAssumption == TaskIds \subseteq Nat /\ IsFiniteSet(TaskIds)
ASSUME ShardCountsAssumption ==
  /\ ShardCounts \subseteq Nat \ {0}
  /\ \E most \in ShardCounts : \A k \in ShardCounts : k <= most
ASSUME CrcAssumption == Crc \in [TaskIds -> Nat]
ASSUME DataAssumption ==
  /\ Score \in [TaskIds -> Nat] /\ Latency \in [TaskIds -> Nat]
  /\ DOMAIN Awarded = TaskIds
  /\ \A t \in TaskIds : \A c \in DOMAIN Awarded[t] : Awarded[t][c] \in Nat
ASSUME CapAssumption == ReservoirCap \in Nat \ {0}
ASSUME RankAssumption == Rank \in 0 .. 100
ASSUME CrashesAssumption == Crashes \in BOOLEAN

VARIABLES
  phase,     \* how far the driver is with the current run
  run,       \* runs begun so far
  n,         \* n_shards of the current run
  sent,      \* the results handed to record_batch in this run, in order
  lost,      \* some write ref of this run will raise
  mailbox,   \* per shard, the submitted calls; the head is in progress
  alive,     \* per shard, whether its actor is
  state,     \* per shard, its counters and reservoir (get_shard_state)
  buffer,    \* per shard, rows written and not yet flushed
  files,     \* the files' rows: 0 is the output path, i the i-th shard's
  base,      \* how many rows each file had when this run opened it
  summary    \* get_summary's answer

shardVars == <<mailbox, alive, state, buffer>>
vars == <<phase, run, n, sent, lost, shardVars, files, base, summary>>

MaxShards == Max(ShardCounts)
AllShards == 1 .. MaxShards
Shards == 1 .. n
Results == [task : TaskIds, ok : BOOLEAN, worker : Workers]

\* shard_index, of one of k shards; and shard_for.
ShardIndex(t, k) == (Crc[t] % k) + 1
ShardFor(t) == ShardIndex(t, n)

\* The one shard of an unsharded run writes the output path.
PathOf(i) == IF n = 1 THEN 0 ELSE i

\* The results of s that go to the i-th of k shards, in their order.
OfShard(s, k, i) ==
  LET upTo[m \in 0 .. Len(s)] ==
        IF m = 0 THEN << >>
        ELSE IF ShardIndex(s[m].task, k) = i THEN Append(upTo[m - 1], s[m])
        ELSE upTo[m - 1]
  IN  upTo[Len(s)]

-----------------------------------------------------------------------------
(* Shard state. *)

Unset == [set |-> FALSE, v |-> 0]        \* min/max of no scores: +-inf
Known(v) == [set |-> TRUE, v |-> v]
Lesser(a, b) == IF ~a.set \/ (b.set /\ b.v < a.v) THEN b ELSE a
Greater(a, b) == IF ~a.set \/ (b.set /\ b.v > a.v) THEN b ELSE a

EmptyState ==
  [count |-> 0, succeeded |-> 0, failed |-> 0, score_sum |-> 0,
   score_min |-> Unset, score_max |-> Unset, latency_sum |-> 0,
   latency_samples |-> << >>, latency_seen |-> 0,
   condition_scores |-> << >>, per_worker |-> [w \in Workers |-> 0]]

\* Mutant: one sample more than the cap.
ReservoirAppendOver(samples, v, j) ==
  IF Len(samples) <= ReservoirCap THEN Append(samples, v)
  ELSE IF j < ReservoirCap THEN [samples EXCEPT ![j + 1] = v] ELSE samples

\* _reservoir_append, j being the random draw from 0..seen_before.
ReservoirAppend(samples, v, j) ==
  IF Len(samples) < ReservoirCap THEN Append(samples, v)
  ELSE IF j < ReservoirCap THEN [samples EXCEPT ![j + 1] = v] ELSE samples

\* _ingest, up to the write of the row.
Ingested(s, r, j) ==
  LET c == [s EXCEPT !.count = @ + 1, !.per_worker[r.worker] = @ + 1]
  IN IF ~r.ok THEN [c EXCEPT !.failed = @ + 1]
     ELSE [c EXCEPT !.succeeded = @ + 1,
                    !.score_sum = @ + Score[r.task],
                    !.score_min = Lesser(@, Known(Score[r.task])),
                    !.score_max = Greater(@, Known(Score[r.task])),
                    !.latency_sum = @ + Latency[r.task],
                    !.latency_samples = ReservoirAppend(@, Latency[r.task], j),
                    !.latency_seen = @ + 1,
                    !.condition_scores =
                       IF DOMAIN Awarded[r.task] = {} THEN @ ELSE Append(@, Awarded[r.task])]

\* Mutant: the later shard's worker counts replace the earlier's.
MergeCountsUpdating(a, b) ==
  [w \in Workers |-> IF b[w] > 0 THEN b[w] ELSE a[w]]

MergeCounts(a, b) == [w \in Workers |-> a[w] + b[w]]

\* One round of _merge_states.
Merge2(a, b) ==
  [count |-> a.count + b.count, succeeded |-> a.succeeded + b.succeeded,
   failed |-> a.failed + b.failed, score_sum |-> a.score_sum + b.score_sum,
   score_min |-> Lesser(a.score_min, b.score_min),
   score_max |-> Greater(a.score_max, b.score_max),
   latency_sum |-> a.latency_sum + b.latency_sum,
   latency_samples |-> a.latency_samples \o b.latency_samples,
   latency_seen |-> a.latency_seen + b.latency_seen,
   condition_scores |-> a.condition_scores \o b.condition_scores,
   per_worker |-> MergeCounts(a.per_worker, b.per_worker)]

Merged == FoldLeft(Merge2, EmptyState, [i \in Shards |-> state[i]])

\* Mutant: int(q * n), the rank above when q * n is a whole number.
NearestRankFloor(k) == Min({k - 1, (Rank * k) \div 100})

\* The index _percentile reads: ceil(q * n) - 1, kept between 0 and n - 1.
NearestRank(k) == Min({k - 1, Max({0, (Rank * k + 99) \div 100 - 1})})

\* sorted(samples)[k]: the least sample that more than k of them do not exceed.
Sorted(samples, k) ==
  Min({v \in ToSet(samples) :
         Cardinality({m \in 1 .. Len(samples) : samples[m] <= v}) > k})

Percentile(samples) ==
  IF samples = << >> THEN 0 ELSE Sorted(samples, NearestRank(Len(samples)))

\* A mean is the pair of its sum and its count, 0/1 of nothing.
Mean(sum, k) == IF k > 0 THEN <<sum, k>> ELSE <<0, 1>>

\* RubricScorer.aggregate_condition_scores, over the breakdowns that have the
\* condition: the mean award, and the share of awards above zero.
AwardSum(breakdowns, c, S) == MapThenSumSet(LAMBDA k : breakdowns[k][c], S)
ConditionStats(breakdowns) ==
  [c \in UNION {DOMAIN breakdowns[k] : k \in DOMAIN breakdowns} |->
     LET Having == {k \in DOMAIN breakdowns : c \in DOMAIN breakdowns[k]} IN
       [mean_awarded |-> Mean(AwardSum(breakdowns, c, Having), Cardinality(Having)),
        pass_rate |-> Mean(Cardinality({k \in Having : breakdowns[k][c] > 0}),
                           Cardinality(Having))]]

\* _summarize_state.
Summarize(s) ==
  [total |-> s.count, succeeded |-> s.succeeded, failed |-> s.failed,
   success_rate |-> Mean(s.succeeded, s.count),
   mean_score |-> Mean(s.score_sum, s.succeeded),
   min_score |-> IF s.score_min.set THEN s.score_min.v ELSE 0,
   max_score |-> IF s.score_max.set THEN s.score_max.v ELSE 0,
   mean_latency_s |-> Mean(s.latency_sum, s.succeeded),
   percentile_s |-> Percentile(s.latency_samples),
   per_worker_counts |-> s.per_worker,
   condition_stats |-> ConditionStats(s.condition_scores)]

NoSummary == Summarize(EmptyState)

-----------------------------------------------------------------------------
(* The driver. *)

Init ==
  /\ phase = "idle"
  /\ run = 0
  /\ n = 1
  /\ sent = << >>
  /\ lost = FALSE
  /\ mailbox = [i \in AllShards |-> << >>]
  /\ alive = [i \in AllShards |-> FALSE]
  /\ state = [i \in AllShards |-> EmptyState]
  /\ buffer = [i \in AllShards |-> << >>]
  /\ files = [p \in 0 .. MaxShards |-> << >>]
  /\ base = [p \in 0 .. MaxShards |-> 0]
  /\ summary = NoSummary

\* __init__ of the facade and of its shards, which open their files to append.
StartRun ==
  /\ phase \in {"idle", "done", "raised"}
  /\ run < MaxRuns
  /\ \E k \in ShardCounts :
       /\ n' = k
       /\ alive' = [i \in AllShards |-> i <= k]
  /\ phase' = "recording"
  /\ run' = run + 1
  /\ sent' = << >>
  /\ lost' = FALSE
  /\ mailbox' = [i \in AllShards |-> << >>]
  /\ state' = [i \in AllShards |-> EmptyState]
  /\ buffer' = [i \in AllShards |-> << >>]
  /\ base' = [p \in 0 .. MaxShards |-> Len(files[p])]
  /\ summary' = NoSummary
  /\ UNCHANGED files

Unrecorded == {t \in TaskIds : \A k \in 1 .. Len(sent) : sent[k].task # t}

\* The outcomes of a batch, in the order of its tasks.
Batches(S) ==
  {results \in [1 .. Cardinality(S) -> [task : S, ok : BOOLEAN, worker : Workers]] :
     \A j, k \in 1 .. Cardinality(S) : j < k =>
       /\ results[j].task < results[k].task
       /\ results[j].ok = results[k].ok /\ results[j].worker = results[k].worker}

\* record_batch of the facade: one call per shard touched.  A call on a dead
\* actor is submitted all the same; its ref raises.
RecordBatch ==
  /\ phase = "recording"
  /\ \E S \in SUBSET Unrecorded \ {{}} : \E results \in Batches(S) :
       LET Group(i) == OfShard(results, n, i)
       IN  /\ sent' = sent \o results
           /\ mailbox' = [i \in AllShards |->
                IF i \in Shards /\ alive[i] /\ Group(i) # << >>
                THEN Append(mailbox[i], Group(i)) ELSE mailbox[i]]
           /\ lost' = (lost \/ \E i \in Shards : ~alive[i] /\ Group(i) # << >>)
  /\ UNCHANGED <<phase, run, n, alive, state, buffer, files, base, summary>>

\* ray.get(_write_refs), once every task has an outcome.
Drain ==
  /\ phase = "recording"
  /\ Unrecorded = {}
  /\ \/ lost /\ phase' = "raised"
     \/ ~lost /\ (\A i \in Shards : mailbox[i] = << >>) /\ phase' = "drained"
  /\ UNCHANGED <<run, n, sent, lost, shardVars, files, base, summary>>

AnyDead == \E i \in Shards : ~alive[i]

\* Mutant: the last shard's file is left out.
ConcatenatedOneShort == FlattenSeq([i \in 1 .. n - 1 |-> files[i]])

Concatenated == FlattenSeq([i \in Shards |-> files[i]])

\* finalize: nothing to do for one shard; otherwise every shard closes its file
\* and the files are concatenated over the output file.
Finalize ==
  /\ phase = "drained"
  /\ \/ /\ n = 1
        /\ phase' = "finalized"
        /\ UNCHANGED files
     \/ /\ n > 1 /\ ~AnyDead
        /\ phase' = "finalized"
        /\ files' = [files EXCEPT ![0] = Concatenated]
     \/ /\ n > 1 /\ AnyDead
        /\ phase' = "raised"
        /\ UNCHANGED files
  /\ UNCHANGED <<run, n, sent, lost, shardVars, base, summary>>

\* get_summary: the shard's own, or the merged states.
GetSummary ==
  /\ phase = "finalized"
  /\ \/ ~AnyDead /\ phase' = "done" /\ summary' = Summarize(Merged)
     \/ AnyDead /\ phase' = "raised" /\ summary' = summary
  /\ UNCHANGED <<run, n, sent, lost, shardVars, files, base>>

-----------------------------------------------------------------------------
(* The shards. *)

\* One round of record_batch's loop: counters, reservoir, row.
Ingest(i) ==
  /\ mailbox[i] # << >>
  /\ Head(mailbox[i]) # << >>
  /\ LET r == Head(Head(mailbox[i])) IN
       /\ \E j \in 0 .. state[i].latency_seen :
            state' = [state EXCEPT ![i] = Ingested(state[i], r, j)]
       /\ buffer' = [buffer EXCEPT ![i] = Append(@, r)]
  /\ mailbox' = [mailbox EXCEPT ![i] = <<Tail(Head(@))>> \o Tail(@)]
  /\ UNCHANGED <<phase, run, n, sent, lost, alive, files, base, summary>>

\* Mutants of Flush: the rows stay in the buffer; or are kept there as well.
FlushNever(i) ==
  /\ mailbox[i] # << >>
  /\ Head(mailbox[i]) = << >>
  /\ mailbox' = [mailbox EXCEPT ![i] = Tail(@)]
  /\ UNCHANGED <<phase, run, n, sent, lost, alive, state, buffer, files, base, summary>>
FlushTwice(i) ==
  /\ mailbox[i] # << >>
  /\ Head(mailbox[i]) = << >>
  /\ files' = [files EXCEPT ![PathOf(i)] = @ \o buffer[i]]
  /\ mailbox' = [mailbox EXCEPT ![i] = Tail(@)]
  /\ UNCHANGED <<phase, run, n, sent, lost, alive, state, buffer, base, summary>>

\* Its end: the file is flushed and the call returns.
Flush(i) ==
  /\ mailbox[i] # << >>
  /\ Head(mailbox[i]) = << >>
  /\ files' = [files EXCEPT ![PathOf(i)] = @ \o buffer[i]]
  /\ buffer' = [buffer EXCEPT ![i] = << >>]
  /\ mailbox' = [mailbox EXCEPT ![i] = Tail(@)]
  /\ UNCHANGED <<phase, run, n, sent, lost, alive, state, base, summary>>

\* The actor's process dies.  Some of its buffered rows may have reached the
\* file; the calls it had not finished raise.
Crash(i) ==
  /\ Crashes
  /\ phase \in {"recording", "drained", "finalized"}
  /\ alive[i]
  /\ \E k \in 0 .. Len(buffer[i]) :
       files' = [files EXCEPT ![PathOf(i)] = @ \o SubSeq(buffer[i], 1, k)]
  /\ alive' = [alive EXCEPT ![i] = FALSE]
  /\ lost' = (lost \/ mailbox[i] # << >>)
  /\ mailbox' = [mailbox EXCEPT ![i] = << >>]
  /\ buffer' = [buffer EXCEPT ![i] = << >>]
  /\ UNCHANGED <<phase, run, n, sent, state, base, summary>>

Finished == phase \in {"done", "raised"} /\ run = MaxRuns /\ UNCHANGED vars

Next ==
  \/ StartRun \/ RecordBatch \/ Drain \/ Finalize \/ GetSummary
  \/ \E i \in AllShards : Ingest(i) \/ Flush(i) \/ Crash(i)
  \/ Finished

Spec == Init /\ [][Next]_vars
-----------------------------------------------------------------------------
(* Correctness. *)

NewRows(p) == SubSeq(files[p], base[p] + 1, Len(files[p]))
Routed(i) == OfShard(sent, n, i)

\* What a live shard has on disk, in its buffer and in its mailbox is, in this
\* order, exactly what the driver sent it: fire-and-forget loses, doubles and
\* reorders nothing within a shard.
NothingLostInFlight ==
  \A i \in Shards : alive[i] /\ phase \in {"recording", "drained"} =>
    NewRows(PathOf(i)) \o buffer[i] \o FlattenSeq(mailbox[i]) = Routed(i)

\* Once the write refs are drained every row is on disk, whichever shards die
\* afterwards.
DrainedIsDurable ==
  phase = "drained" => \A i \in Shards : NewRows(PathOf(i)) = Routed(i)

\* After finalize the output file has one row for each task and no others.
OutputExactlyOnce ==
  phase \in {"finalized", "done"} =>
    /\ Len(files[0]) = Cardinality(TaskIds)
    /\ {files[0][k] : k \in 1 .. Len(files[0])} = {sent[k] : k \in 1 .. Len(sent)}

\* A shard's reservoir holds as many samples as it may, each the latency of a
\* different successful result it has ingested.
ReservoirSound ==
  \A i \in AllShards :
    LET s == state[i] IN
      /\ Len(s.latency_samples) =
           IF s.latency_seen < ReservoirCap THEN s.latency_seen ELSE ReservoirCap
      /\ s.latency_seen = s.succeeded
      /\ \A k \in 1 .. Len(s.latency_samples) : \E m \in 1 .. Len(sent) :
           /\ sent[m].ok /\ ShardFor(sent[m].task) = i
           /\ Latency[sent[m].task] = s.latency_samples[k]
      /\ IsInjective(Latency) => IsInjective(s.latency_samples)

\* The summary does not depend on the sharding, nor on the order the shards
\* worked in: its counts, extremes, means and condition statistics are those of
\* the results sent.
Good == {k \in 1 .. Len(sent) : sent[k].ok}
Scores == {Score[sent[k].task] : k \in Good}
Total(f, S) == MapThenSumSet(LAMBDA k : f[sent[k].task], S)
AwardTotal(c, S) == MapThenSumSet(LAMBDA k : Awarded[sent[k].task][c], S)
SummaryIsOfResults ==
  phase = "done" =>
    /\ summary.total = Len(sent)
    /\ summary.succeeded = Cardinality(Good)
    /\ summary.failed = Len(sent) - Cardinality(Good)
    /\ \A w \in Workers : summary.per_worker_counts[w] =
         Cardinality({k \in 1 .. Len(sent) : sent[k].worker = w})
    /\ Good # {} =>
         /\ summary.mean_score = <<Total(Score, Good), Cardinality(Good)>>
         /\ summary.mean_latency_s = <<Total(Latency, Good), Cardinality(Good)>>
         /\ summary.min_score = Min(Scores) /\ summary.max_score = Max(Scores)
    /\ DOMAIN summary.condition_stats = UNION {DOMAIN Awarded[sent[k].task] : k \in Good}
    /\ \A c \in DOMAIN summary.condition_stats :
         LET Having == {k \in Good : c \in DOMAIN Awarded[sent[k].task]}
             Passed == {k \in Having : Awarded[sent[k].task][c] > 0}
         IN  summary.condition_stats[c] =
               [mean_awarded |-> <<AwardTotal(c, Having), Cardinality(Having)>>,
                pass_rate |-> <<Cardinality(Passed), Cardinality(Having)>>]

\* Unless a reservoir overflowed, the percentile is the nearest-rank one of all
\* successful results: the least latency that at least Rank percent of them do
\* not exceed.
AtMost(v) == Cardinality({k \in Good : Latency[sent[k].task] <= v})
PercentileIsNearestRank ==
  phase = "done" /\ Good # {} /\ Rank > 0
    /\ (\A i \in Shards : state[i].latency_seen <= ReservoirCap) =>
      summary.percentile_s =
        Min({v \in {Latency[sent[k].task] : k \in Good} :
               AtMost(v) * 100 >= Rank * Cardinality(Good)})

-----------------------------------------------------------------------------
(* Ingestion into Docent. *)

\* iter_records over 'results/results*.jsonl': every file there is, in the order
\* of the names, the output path's first.
IterRecords == FlattenSeq([p \in 1 .. MaxShards + 1 |-> files[p - 1]])

\* docent_adapter.py: "one per completed task", from a glob that the "per-shard
\* files from ShardedAggregator all match": no task becomes two agent runs.
OneRunPerTask ==
  phase = "done" =>
    \A j, k \in 1 .. Len(IterRecords) :
      IterRecords[j].task = IterRecords[k].task => j = k
=============================================================================
