---------------------------- MODULE Coordinator ----------------------------
(***************************************************************************)
(* DistributedEvalCoordinator.run: the single-threaded scheduling loop of  *)
(* coordinator.py, its queues, its worker slots, and the worker actors     *)
(* that answer, fail, hang or die while it runs.                           *)
(*                                                                         *)
(* The driver is a program counter over the points where it calls out      *)
(* (ray.wait, ray.get, a construction, a sleep).  Workers move only while  *)
(* the driver is at one of those points (Yielding): between them it reads  *)
(* nothing that a worker can change.                                       *)
(***************************************************************************)
EXTENDS StandbyPool, SplitRetry

CONSTANTS
  NTasks,       \* len(tasks)
  BatchSize,    \* batch_size
  MaxRetries,   \* per task: its own max_retries, or the run's default
  BadTasks      \* tasks whose evaluation always raises the same error

AllTasks == 1 .. NTasks

ASSUME NTasksAssumption == NTasks \in Nat
ASSUME BatchSizeAssumption == BatchSize \in Nat \ {0}
ASSUME MaxRetriesAssumption == MaxRetries \in [AllTasks -> Nat]
ASSUME BadTasksAssumption == BadTasks \subseteq AllTasks

VARIABLES
  pc,        \* where the driver is
  pending,   \* pending: batches ready to dispatch
  deferred,  \* deferred: batches waiting out their backoff
  waiting,   \* still_waiting: those found not due so far in this promotion
  call,      \* active, ref_timeouts: the call outstanding on each slot
  job,       \* the failed or evicted call the driver is dealing with
  todo,      \* the refs _handle_timeouts found over age and has yet to evict
  results    \* per task, the outcomes handed to record_batch, in order

driverVars == <<pc, pending, deferred, waiting, call, job, todo, results>>
vars == <<driverVars, poolVars>>

Outcomes == {"ok", "transient", "deterministic", "hung", "undispatched"}

\* An outstanding call is running until it answers; old once its age exceeds
\* hang_threshold_s.
Answered == {"ok", "transient", "deterministic"}
NoCall == [st |-> "idle", e |-> NoEntry, old |-> FALSE]
NewCall(e) == [st |-> "running", e |-> e, old |-> FALSE]
Answer(c, st) == [st |-> st, e |-> c.e, old |-> c.old]
Aged(c) == [st |-> c.st, e |-> c.e, old |-> TRUE]
NoJob == [slot |-> 0, kind |-> "none", e |-> NoEntry]

Batches == Entries(NTasks)
Calls == {NoCall} \cup [st : {"running"} \cup Answered, e : Batches, old : BOOLEAN]
FailedJobs == [slot : Slots, kind : {"transient", "deterministic"}, e : Batches]
HungJobs == [slot : Slots, kind : {"hung"}, e : {NoEntry}]
Jobs == {NoJob} \cup FailedJobs \cup HungJobs
PCs == {"fill", "top", "poll", "promote", "dispatch", "sleep", "wait", "probe",
        "replace", "blocking", "decide", "reassign", "expire", "scan", "stats",
        "done", "raised"}

TypeOK ==
  /\ pc \in PCs
  /\ pending \in Seq(Batches)
  /\ deferred \in Seq(Batches)
  /\ waiting \in Seq(Batches)
  /\ call \in [Slots -> Calls]
  /\ job \in Jobs
  /\ todo \subseteq Slots
  /\ results \in [AllTasks -> Seq(Outcomes)]
  /\ PoolTypeOK

Init ==
  /\ PoolInit
  /\ pc = "fill"
  /\ pending = MakeBatches(NTasks, BatchSize)
  /\ deferred = << >>
  /\ waiting = << >>
  /\ call = [i \in Slots |-> NoCall]
  /\ job = NoJob
  /\ todo = {}
  /\ results = [t \in AllTasks |-> << >>]

-----------------------------------------------------------------------------
\* _record: one result per task of the batch goes to the aggregator.
Record(S, outcome) ==
  results' = [t \in AllTasks |-> IF t \in S THEN Append(results[t], outcome)
                                            ELSE results[t]]

\* The retry budget of a batch is that of its first task.
Budget(e) == MaxRetries[e.lo]

Active == {i \in Slots : call[i] # NoCall}
AllDead == \A i \in Slots : slot[i] = "none"
Idle(i) == slot[i] # "none" /\ call[i] = NoCall

\* Mutants of AssignHead: submit() drops the batch of a dead slot, or does not
\* look at the slot.
AssignHeadDropping(i, queue) ==
  IF queue = << >>
  THEN pending' = queue /\ call' = [call EXCEPT ![i] = NoCall]
  ELSE /\ pending' = Tail(queue)
       /\ call' = [call EXCEPT ![i] = IF slot[i] = "none" THEN NoCall
                                      ELSE NewCall(Head(queue))]
AssignHeadUnchecked(i, queue) ==
  IF queue = << >>
  THEN pending' = queue /\ call' = [call EXCEPT ![i] = NoCall]
  ELSE pending' = Tail(queue) /\ call' = [call EXCEPT ![i] = NewCall(Head(queue))]

\* The tail of _assign_next and of an eviction: the head of the queue goes to
\* slot i, which is free of its old call; submit() puts it back at the end of
\* the queue when the slot is dead.
AssignHead(i, queue) ==
  \/ /\ queue = << >>
     /\ pending' = queue
     /\ call' = [call EXCEPT ![i] = NoCall]
  \/ /\ queue # << >> /\ slot[i] = "none"
     /\ pending' = Append(Tail(queue), Head(queue))
     /\ call' = [call EXCEPT ![i] = NoCall]
  \/ /\ queue # << >> /\ slot[i] # "none"
     /\ pending' = Tail(queue)
     /\ call' = [call EXCEPT ![i] = NewCall(Head(queue))]

-----------------------------------------------------------------------------
\* The initial fill: slots in index order take the first batches.
Fill ==
  /\ pc = "fill"
  /\ call' = [i \in Slots |-> IF i <= Len(pending) THEN NewCall(pending[i])
                                                    ELSE NoCall]
  /\ pending' = IF NWorkers < Len(pending)
                THEN SubSeq(pending, NWorkers + 1, Len(pending)) ELSE << >>
  /\ pc' = "top"
  /\ UNCHANGED <<deferred, waiting, job, todo, results, poolVars>>

\* Mutant of WorkLeft: backoffs are not waited out.
WorkLeftNotDeferred == Active # {} \/ pending # << >>

\* while active or deferred or pending.
WorkLeft == Active # {} \/ deferred # << >> \/ pending # << >>

EnterLoop ==
  /\ pc = "top"
  /\ WorkLeft
  /\ BeginPoll
  /\ pc' = "poll"
  /\ UNCHANGED <<pending, deferred, waiting, call, job, todo, results>>

LeaveLoop ==
  /\ pc = "top"
  /\ ~WorkLeft
  /\ pc' = "stats"
  /\ UNCHANGED <<pending, deferred, waiting, call, job, todo, results, poolVars>>

PollRefill ==
  /\ pc = "poll"
  /\ PollStep
  /\ UNCHANGED driverVars

EndPoll ==
  /\ pc = "poll"
  /\ inFlight = << >>
  /\ pc' = "promote"
  /\ UNCHANGED <<pending, deferred, waiting, call, job, todo, results, poolVars>>

\* Every slot is dead: what is pending or deferred is recorded as failed and
\* the loop is left.
Undispatched(t) ==
  \/ \E k \in 1..Len(pending) : t \in Tasks(pending[k])
  \/ \E k \in 1..Len(deferred) : t \in Tasks(deferred[k])

Abort ==
  /\ pc = "promote"
  /\ AllDead
  /\ Record({t \in AllTasks : Undispatched(t)}, "undispatched")
  /\ pc' = "stats"
  /\ UNCHANGED <<pending, deferred, waiting, call, job, todo, poolVars>>

\* promote_ready_retries walks deferred in order; an entry whose wake-up has
\* come joins pending, the others wait on.
PromoteDue ==
  /\ pc = "promote"
  /\ ~AllDead
  /\ deferred # << >>
  /\ pending' = Append(pending, Head(deferred))
  /\ deferred' = Tail(deferred)
  /\ UNCHANGED <<pc, waiting, call, job, todo, results, poolVars>>

PromoteNotDue ==
  /\ pc = "promote"
  /\ ~AllDead
  /\ deferred # << >>
  /\ waiting' = Append(waiting, Head(deferred))
  /\ deferred' = Tail(deferred)
  /\ UNCHANGED <<pc, pending, call, job, todo, results, poolVars>>

EndPromote ==
  /\ pc = "promote"
  /\ ~AllDead
  /\ deferred = << >>
  /\ deferred' = waiting
  /\ waiting' = << >>
  /\ pc' = "dispatch"
  /\ UNCHANGED <<pending, call, job, todo, results, poolVars>>

\* dispatch_pending_to_idle: idle live slots in index order take the heads.
Dispatch ==
  /\ pc = "dispatch"
  /\ pending # << >>
  /\ \E i \in Slots :
       /\ Idle(i)
       /\ \A j \in 1 .. i - 1 : ~Idle(j)
       /\ call' = [call EXCEPT ![i] = NewCall(Head(pending))]
  /\ pending' = Tail(pending)
  /\ UNCHANGED <<pc, deferred, waiting, job, todo, results, poolVars>>

\* Mutant of EndDispatch: nothing is dispatched while a call is outstanding.
EndDispatchIfActive ==
  /\ pc = "dispatch"
  /\ Active # {} \/ pending = << >>
  /\ pc' = IF Active = {} THEN "sleep" ELSE "wait"
  /\ UNCHANGED <<pending, deferred, waiting, call, job, todo, results, poolVars>>

EndDispatch ==
  /\ pc = "dispatch"
  /\ pending = << >> \/ \A i \in Slots : ~Idle(i)
  /\ pc' = IF Active = {} THEN "sleep" ELSE "wait"
  /\ UNCHANGED <<pending, deferred, waiting, call, job, todo, results, poolVars>>

\* Nothing in flight: sleep RETRY_POLL_INTERVAL and go round.
Sleep ==
  /\ pc = "sleep"
  /\ pc' = "top"
  /\ UNCHANGED <<pending, deferred, waiting, call, job, todo, results, poolVars>>

-----------------------------------------------------------------------------
\* ray.wait with num_returns=1: nothing answered within RETRY_POLL_INTERVAL, or
\* one of the answered calls is taken.
WaitTimeout ==
  /\ pc = "wait"
  /\ \A i \in Slots : call[i].st \notin Answered
  /\ pc' = "expire"
  /\ UNCHANGED <<pending, deferred, waiting, call, job, todo, results, poolVars>>

\* A good answer: _handle_success, then _assign_next.
HarvestSuccess(i) ==
  /\ pc = "wait"
  /\ call[i].st = "ok"
  /\ Record(Tasks(call[i].e), "ok")
  /\ AssignHead(i, pending)
  /\ pc' = "expire"
  /\ UNCHANGED <<deferred, waiting, job, todo, poolVars>>

\* Mutant of HarvestFailure: the call is still in active while it is handled.
HarvestFailureUnpopped(i) ==
  /\ pc = "wait"
  /\ call[i].st \in {"transient", "deterministic"}
  /\ job' = [slot |-> i, kind |-> call[i].st, e |-> call[i].e]
  /\ pc' = "probe"
  /\ UNCHANGED <<pending, deferred, waiting, call, todo, results, poolVars>>

\* ray.get raised: the call is popped and _handle_failure starts.
HarvestFailure(i) ==
  /\ pc = "wait"
  /\ call[i].st \in {"transient", "deterministic"}
  /\ job' = [slot |-> i, kind |-> call[i].st, e |-> call[i].e]
  /\ call' = [call EXCEPT ![i] = NoCall]
  /\ pc' = "probe"
  /\ UNCHANGED <<pending, deferred, waiting, todo, results, poolVars>>

\* Mutant of Probe: a worker that answers at all is kept.
ProbeReachable ==
  /\ pc = "probe"
  /\ pc' = IF slot[job.slot] \in {"up", "bad", "none"} THEN "decide" ELSE "replace"
  /\ UNCHANGED <<pending, deferred, waiting, call, job, todo, results, poolVars>>

\* _check_and_replace_if_poisoned: anything but a timely True replaces the
\* worker.
Probe ==
  /\ pc = "probe"
  /\ pc' = IF slot[job.slot] \in {"up", "none"} THEN "decide" ELSE "replace"
  /\ UNCHANGED <<pending, deferred, waiting, call, job, todo, results, poolVars>>

AfterReplace == IF job.kind = "hung" THEN "reassign" ELSE "decide"

\* _replace_worker, with a standby at hand or not.
ReplaceFromPool ==
  /\ pc = "replace"
  /\ PromoteStandby(job.slot)
  /\ pc' = AfterReplace
  /\ UNCHANGED <<pending, deferred, waiting, call, job, todo, results>>

ReplaceBlocking ==
  /\ pc = "replace"
  /\ FallBack(job.slot)
  /\ pc' = "blocking"
  /\ UNCHANGED <<pending, deferred, waiting, call, job, todo, results>>

BlockingReplace ==
  /\ pc = "blocking"
  /\ BlockingSucceeds \/ BlockingFails
  /\ pc' = IF blocking' = NotBlocking THEN AfterReplace ELSE "blocking"
  /\ UNCHANGED <<pending, deferred, waiting, call, job, todo, results>>

\* should_retry: budget left, and not a deterministic error of a lone task.
ShouldRetry(e, kind) ==
  /\ e.rc < Budget(e)
  /\ kind = "transient" \/ BatchLen(e) > 1

\* The rest of _handle_failure, and _assign_next: the batch is deferred, whole
\* or in halves, or recorded as failed; the slot gets the next batch.
RetryLater ==
  /\ pc = "decide"
  /\ ShouldRetry(job.e, job.kind)
  /\ deferred' = deferred \o RetryEntries(job.e)
  /\ AssignHead(job.slot, pending)
  /\ job' = NoJob
  /\ pc' = "expire"
  /\ UNCHANGED <<waiting, todo, results, poolVars>>

FailTerminally ==
  /\ pc = "decide"
  /\ ~ShouldRetry(job.e, job.kind)
  /\ Record(Tasks(job.e), job.kind)
  /\ AssignHead(job.slot, pending)
  /\ job' = NoJob
  /\ pc' = "expire"
  /\ UNCHANGED <<deferred, waiting, todo, poolVars>>

-----------------------------------------------------------------------------
\* _handle_timeouts reads the clock once and walks a snapshot of active.
BeginScan ==
  /\ pc = "expire"
  /\ todo' = {i \in Slots : call[i].old}
  /\ pc' = "scan"
  /\ UNCHANGED <<pending, deferred, waiting, call, job, results, poolVars>>

\* The batch of an evicted call goes straight back to pending, or is recorded
\* as failed.
Requeue(e) ==
  IF e.rc < Budget(e)
  THEN pending' = pending \o RetryEntries(e) /\ results' = results
  ELSE pending' = pending /\ Record(Tasks(e), "hung")

\* Evicting a call: answered meanwhile or not, it is forgotten.  (The code
\* takes the over-age calls in submission order; any order is allowed here.)
Evict(i) ==
  /\ pc = "scan"
  /\ i \in todo
  /\ Requeue(call[i].e)
  /\ call' = [call EXCEPT ![i] = NoCall]
  /\ job' = [slot |-> i, kind |-> "hung", e |-> NoEntry]
  /\ todo' = todo \ {i}
  /\ pc' = "replace"
  /\ UNCHANGED <<deferred, waiting, poolVars>>

\* The replacement gets its first batch right away.
Reassign ==
  /\ pc = "reassign"
  /\ AssignHead(job.slot, pending)
  /\ job' = NoJob
  /\ pc' = "scan"
  /\ UNCHANGED <<deferred, waiting, todo, results, poolVars>>

EndScan ==
  /\ pc = "scan"
  /\ todo = {}
  /\ pc' = "top"
  /\ UNCHANGED <<pending, deferred, waiting, call, job, todo, results, poolVars>>

-----------------------------------------------------------------------------
\* get_stats on every occupied slot, with no timeout; then run() returns.
CollectStats ==
  /\ pc = "stats"
  /\ \A i \in Slots : slot[i] \notin {"dead", "wedged"}
  /\ TeardownStandby
  /\ pc' = "done"
  /\ UNCHANGED <<pending, deferred, waiting, call, job, todo, results>>

\* The process behind an occupied slot is gone: ray.get raises out of run().
StatsRaise ==
  /\ pc = "stats"
  /\ \E i \in Slots : slot[i] = "dead"
  /\ pc' = "raised"
  /\ UNCHANGED <<pending, deferred, waiting, call, job, todo, results, poolVars>>

-----------------------------------------------------------------------------
(* The workers. *)

\* The driver is in a call of its own, or about to look at the clock.
Yielding == pc \in {"sleep", "wait", "probe", "blocking", "expire", "scan", "stats"}

\* An answer shows that the worker is alive after all.
Recovered(s) == IF s = "wedged" THEN "up" ELSE s

AnswerCall(i, st, s) ==
  /\ Yielding
  /\ call[i].st = "running"
  /\ slot[i] \in {"up", "bad", "wedged"}
  /\ call' = [call EXCEPT ![i] = Answer(call[i], st)]
  /\ slot' = [slot EXCEPT ![i] = s]
  /\ UNCHANGED <<pc, pending, deferred, waiting, job, todo, results,
                 pool, refills, inFlight, stats, blocking>>

\* evaluate_batch returns; on vLLM that clears _last_error.
Complete(i) ==
  /\ Tasks(call[i].e) \cap BadTasks = {}
  /\ AnswerCall(i, "ok", "up")

\* It raises an error that classify_failure calls DETERMINISTIC.
FailDeterministic(i) ==
  /\ Tasks(call[i].e) \cap BadTasks # {}
  /\ AnswerCall(i, "deterministic", Recovered(slot[i]))

\* It raises anything else: a worker-side timeout, an injected failure.
FailTransient(i) ==
  /\ "transient" \in Faults
  /\ AnswerCall(i, "transient", Recovered(slot[i]))

\* It raises an engine-fatal error, which the worker remembers.
FailFatal(i) ==
  /\ "fatal" \in Faults
  /\ AnswerCall(i, "transient", "bad")

\* The actor's process dies.
Crash(i) ==
  /\ "crash" \in Faults
  /\ Yielding
  /\ slot[i] \notin {"none", "dead"}
  /\ slot' = [slot EXCEPT ![i] = "dead"]
  /\ UNCHANGED <<driverVars, pool, refills, inFlight, stats, blocking>>

\* A call on a dead actor, begun before or after its death, raises
\* RayActorError.
FailOnDeadActor(i) ==
  /\ Yielding
  /\ call[i].st = "running"
  /\ slot[i] = "dead"
  /\ call' = [call EXCEPT ![i] = Answer(call[i], "transient")]
  /\ UNCHANGED <<pc, pending, deferred, waiting, job, todo, results, poolVars>>

\* The actor stops answering, in the middle of a call or under its probe.
Wedge(i) ==
  /\ "wedge" \in Faults
  /\ Yielding
  /\ slot[i] \in {"up", "bad"}
  /\ call[i].st = "running" \/ (pc = "probe" /\ job.slot = i)
  /\ slot' = [slot EXCEPT ![i] = "wedged"]
  /\ UNCHANGED <<driverVars, pool, refills, inFlight, stats, blocking>>

\* A call passes hang_threshold_s: it runs on a wedged worker, or it answered
\* and the driver, blocked in a replacement, has not come back for it.
Age(i) ==
  /\ Yielding
  /\ ~call[i].old
  /\ \/ call[i].st = "running" /\ slot[i] = "wedged"
     \/ call[i].st \in Answered /\ pc = "blocking"
  /\ call' = [call EXCEPT ![i] = Aged(call[i])]
  /\ UNCHANGED <<pc, pending, deferred, waiting, job, todo, results, poolVars>>

IdleStandbyCrash ==
  /\ Yielding
  /\ StandbyCrash
  /\ UNCHANGED driverVars

Finished == pc \in {"done", "raised"} /\ UNCHANGED vars

-----------------------------------------------------------------------------
DriverNext ==
  \/ Fill \/ EnterLoop \/ LeaveLoop
  \/ PollRefill \/ EndPoll \/ Abort
  \/ PromoteDue \/ PromoteNotDue \/ EndPromote
  \/ Dispatch \/ EndDispatch \/ Sleep
  \/ WaitTimeout
  \/ \E i \in Slots : HarvestSuccess(i) \/ HarvestFailure(i)
  \/ Probe \/ ReplaceFromPool \/ ReplaceBlocking \/ BlockingReplace
  \/ RetryLater \/ FailTerminally
  \/ BeginScan \/ (\E i \in Slots : Evict(i)) \/ Reassign \/ EndScan
  \/ CollectStats \/ StatsRaise

WorkerNext ==
  \/ \E i \in Slots : \/ Complete(i) \/ FailDeterministic(i)
                      \/ FailTransient(i) \/ FailFatal(i)
                      \/ Crash(i) \/ FailOnDeadActor(i)
                      \/ Wedge(i) \/ Age(i)
  \/ IdleStandbyCrash

Next == DriverNext \/ WorkerNext \/ Finished

Spec == Init /\ [][Next]_vars
-----------------------------------------------------------------------------
(* Fairness.  The driver thread runs; a call on a worker whose timeout      *)
(* machinery works is answered; a call on a wedged worker grows old; a      *)
(* backoff expires.  Strong where the step waits for the driver to come     *)
(* round to a point where it can be seen.                                   *)
Fairness ==
  /\ WF_vars(DriverNext)
  /\ SF_vars(PromoteDue)
  /\ \A i \in Slots :
       /\ SF_vars(slot[i] # "wedged" /\ (Complete(i) \/ FailDeterministic(i)))
       /\ SF_vars(FailOnDeadActor(i))
       /\ SF_vars(call[i].st = "running" /\ Age(i))

FairSpec == Spec /\ Fairness

-----------------------------------------------------------------------------
(* Correctness. *)

\* Every place a batch can be in while the loop runs, and the batch there.
Places ==
  ({"pending"} \X (1 .. Len(pending))) \cup ({"deferred"} \X (1 .. Len(deferred)))
  \cup ({"waiting"} \X (1 .. Len(waiting))) \cup ({"call"} \X Slots)
  \cup {<<"job", 0>>}

BatchAt(p) ==
  CASE p[1] = "pending" -> pending[p[2]]
    [] p[1] = "deferred" -> deferred[p[2]]
    [] p[1] = "waiting" -> waiting[p[2]]
    [] p[1] = "call" -> call[p[2]].e
    [] p[1] = "job" -> job.e

LoopLeft == pc \in {"stats", "done", "raised"}

\* Every task is in exactly one place while the loop runs and has no result
\* there; otherwise it has exactly one result.  After the loop every task has
\* one, whether the loop ran out of work or was aborted.  No hang eviction,
\* split, failed replacement, requeue on a dead slot or late answer loses a
\* task or records it twice.
NoneLost == \A t \in AllTasks :
  results[t] = << >> => \E p \in Places : t \in Tasks(BatchAt(p))
NoneShared == \A p, q \in Places :
  p # q => Tasks(BatchAt(p)) \cap Tasks(BatchAt(q)) = {}
NoneRecordedTwice == \A t \in AllTasks :
  /\ Len(results[t]) <= 1
  /\ (\E p \in Places : t \in Tasks(BatchAt(p))) => results[t] = << >>

ExactlyOnce ==
  IF LoopLeft THEN \A t \in AllTasks : Len(results[t]) = 1
              ELSE NoneLost /\ NoneShared /\ NoneRecordedTwice

\* A slot that is dead or being replaced has no call outstanding.  The abort
\* records only pending and deferred batches, so a call left in active then
\* would be lost.
NoCallOnEmptySlot == \A i \in Slots : slot[i] = "none" => call[i] = NoCall

\* The driver holds a failed or evicted call exactly while it deals with it,
\* its slot is free meanwhile, and the refs still to be evicted are
\* outstanding ones of other slots: no replacement, late answer or
\* reassignment between the snapshot and the eviction invalidates it.  The
\* initial fill, which submits without looking, finds every slot occupied.
HandlingSteps == {"probe", "replace", "blocking", "decide", "reassign"}

JobInHand ==
  /\ pc \in HandlingSteps <=> job # NoJob
  /\ job # NoJob => call[job.slot] = NoCall
  /\ pc \in {"probe", "decide"} => job.kind # "hung"
  /\ pc = "reassign" => job.kind = "hung"
  /\ pc = "blocking" <=> blocking # NotBlocking
  /\ pc = "blocking" => blocking.slot = job.slot

SnapshotValid ==
  /\ \A i \in todo : call[i] # NoCall
  /\ todo # {} => pc = "scan" \/ job.kind = "hung"

FilledOnce == pc = "fill" => \A i \in Slots : slot[i] # "none"

DriverConsistent == JobInHand /\ SnapshotValid /\ FilledOnce

\* The driver waits for answers only when every live worker is busy or the
\* queue is empty, and sleeps only when a backoff is all that is left.
NeverIdleWithWork ==
  /\ pc = "wait" => pending = << >> \/ \A i \in Slots : ~Idle(i)
  /\ pc = "sleep" => pending = << >> /\ deferred # << >>

Pow2[n \in Nat] == IF n = 0 THEN 1 ELSE 2 * Pow2[n - 1]

\* After rc failures a batch has at most BatchSize / 2^rc tasks, rounded up:
\* log2(BatchSize) failures isolate any task, whatever mix of exceptions,
\* hangs and crashes they were.
HalvesEveryFailure ==
  \A p \in Places : LET e == BatchAt(p) IN (BatchLen(e) - 1) * Pow2[e.rc] < BatchSize

\* If the budget is at least log2 of the batch size, no task is given up for an
\* error of one of its batchmates: whatever mix of exceptions and hangs a batch
\* meets, it is retried without them before its budget is used up.
BatchmatesSurvive ==
  \A t \in AllTasks \ BadTasks : results[t] # <<"deterministic">>

\* The standby pool's lists and counters agree until it is torn down: no path
\* through _replace_worker, _poll_standby_refills, which rebuilds the list its
\* own failure path appends to, and _fail_refill drops or doubles a standby.
StandbysAccounted == pc # "done" => ReadyAccounted /\ MissingOnlyAfterRetries

\* A call is evicted as hung only if some worker stopped answering.
OnlyWedgedEvicted == "wedge" \notin Faults => todo = {}

\* An engine known to be broken gets no further batch: a call never starts on
\* a worker that answers its health check with False.
NoCallToBadWorker ==
  [][\A i \in Slots :
       call'[i].st = "running" /\ call'[i] # call[i] => slot'[i] # "bad"]_vars

\* coordinator.py:161: "run all tasks, return summary+worker_stats".
RunReturns == pc # "raised"

\* run() ends, every task recorded.
Terminates == <>(pc \in {"done", "raised"})

Ledger == INSTANCE TaskLedger WITH
  LedgerTasks <- AllTasks,
  run <- CASE pc = "done" -> "returned" [] pc = "raised" -> "raised"
           [] OTHER -> "running"

\* The scheduling loop implements the ledger.
ImplementsLedger == Ledger!LedgerSpec
=============================================================================
