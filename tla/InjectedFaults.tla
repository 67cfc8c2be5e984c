--------------------------- MODULE InjectedFaults ---------------------------
(***************************************************************************)
(* fault_injection.py: fault-injecting workers that ask a shared           *)
(* FailureDecider before every batch, under the coordinator's scheduling.  *)
(*                                                                         *)
(* The decider hashes (seed, batch_key, attempt, failure_rate) into a      *)
(* verdict; the hash is an arbitrary but fixed set of verdicts, chosen     *)
(* when the run begins.  A batch key is the tuple of the batch's task ids. *)
(***************************************************************************)
EXTENDS Coordinator

CONSTANTS
  Queries,        \* the <<key, attempt>> pairs a run can ask about
  DeciderShards,  \* --decider-shards
  KeyHash         \* _stable_seed of a batch key

ASSUME DeciderShardsAssumption == DeciderShards \in Nat \ {0}

Key(e) == <<e.lo, e.hi>>
Keys == {q[1] : q \in Queries}
ASSUME KeyHashAssumption == KeyHash \in [Keys -> Nat]

VARIABLES
  fails,     \* the queries whose verdict is "fail": a property of the seed
  attempts,  \* per decider shard, _attempts
  asked      \* per slot: what the decider told the worker about its batch

injectVars == <<fails, attempts, asked>>
allVars == <<vars, injectVars>>

DeciderIds == 0 .. DeciderShards - 1

InjectInit ==
  /\ Init
  /\ fails \in SUBSET Queries
  /\ attempts = [d \in DeciderIds |-> [k \in Keys |-> 0]]
  /\ asked = [i \in Slots |-> "nothing"]

\* Mutant: every worker has a decider of its own.
DeciderFor(i, k) == i % DeciderShards

\* _shard_for: the key alone picks the shard.
ShardFor(i, k) == KeyHash[k] % DeciderShards

\* should_fail, called by the worker of slot i when it gets its batch.
ShouldFail(i) ==
  /\ Yielding
  /\ slot[i] \in {"up", "bad"}
  /\ call[i].st = "running"
  /\ asked[i] = "nothing"
  /\ LET k == Key(call[i].e)
         d == ShardFor(i, k)
         attempt == attempts[d][k]
     IN  /\ attempts' = [attempts EXCEPT ![d][k] = attempt + 1]
         /\ asked' = [asked EXCEPT ![i] = IF <<k, attempt>> \in fails
                                          THEN "fail" ELSE "run"]
  /\ UNCHANGED <<vars, fails>>

\* The verdict is raised, or the batch is evaluated.
FailInjected(i) == asked[i] = "fail" /\ FailTransient(i)
Evaluate(i) == asked[i] = "run" /\ (Complete(i) \/ FailDeterministic(i))

\* A verdict belongs to one call and goes with it.
ForgetVerdicts ==
  /\ asked' = [i \in Slots |-> IF call'[i] = call[i] THEN asked[i] ELSE "nothing"]
  /\ UNCHANGED <<fails, attempts>>

InjectNext ==
  \/ DriverNext /\ ForgetVerdicts
  \/ \E i \in Slots : ShouldFail(i)
  \/ \E i \in Slots : FailInjected(i) /\ ForgetVerdicts
  \/ \E i \in Slots : Evaluate(i) /\ ForgetVerdicts
  \/ Finished /\ UNCHANGED injectVars

InjectSpec == InjectInit /\ [][InjectNext]_allVars
-----------------------------------------------------------------------------
(* What the seed says of a task, for the property: its batches, each with   *)
(* the number of times the decider was asked about it before, and how the   *)
(* calls with them end.                                                     *)

\* The one of some batches that has task t.
PartWith(t, parts) == parts[CHOOSE k \in 1 .. Len(parts) : t \in Tasks(parts[k])]

\* Where each task is after n retries: a batch cut in two is asked about anew.
AtFirst == [t \in AllTasks |->
  [e |-> PartWith(t, MakeBatches(NTasks, BatchSize)), attempt |-> 0]]
Retried(at) == [t \in AllTasks |->
  [e |-> PartWith(t, RetryEntries(at[t].e)),
   attempt |-> IF BatchLen(at[t].e) <= 1 THEN at[t].attempt + 1 ELSE 0]]
Walk[n \in Nat] == IF n = 0 THEN AtFirst ELSE Retried(Walk[n - 1])

\* How the call after n retries ends, and whether that is the end of the task.
Verdict(t, n) ==
  LET w == Walk[n][t] IN
    CASE <<Key(w.e), w.attempt>> \in fails -> "transient"
      [] <<Key(w.e), w.attempt>> \notin fails /\ Tasks(w.e) \cap BadTasks # {}
           -> "deterministic"
      [] OTHER -> "ok"
Settled(t, n) == Verdict(t, n) = "ok" \/ ~ShouldRetry(Walk[n][t].e, Verdict(t, n))

\* The verdict on which the task is settled first.
RetryCounts == UNION {0 .. MaxRetries[t] : t \in AllTasks}
Fate(t) == Verdict(t, CHOOSE n \in RetryCounts :
  Settled(t, n) /\ \A m \in 0 .. n - 1 : ~Settled(t, m))

\* The same seed gives the same per-task outcomes: whichever workers get the
\* batches, in whatever order they ask, however backoffs fall and over however
\* many decider shards, a task's recorded outcome is the one its verdicts fix.
OutcomesReproducible ==
  \A t \in AllTasks : results[t] \in {<< >>, <<Fate(t)>>}
=============================================================================
