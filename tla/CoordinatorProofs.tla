------------------------- MODULE CoordinatorProofs -------------------------
(***************************************************************************)
(* Theorems about Coordinator, for every number of workers, standbys and   *)
(* tasks, every batch size, retry budget and set of faults.                *)
(***************************************************************************)
EXTENDS Coordinator, SequenceTheorems, TLAPS

\* The inductive invariant behind all of them.
IInv == TypeOK /\ NoCallOnEmptySlot /\ DriverConsistent

USE NTasksAssumption, BatchSizeAssumption, NWorkersAssumption, StandbyAssumption

-----------------------------------------------------------------------------
(* Batches. *)

\* retry_entries makes batches out of a batch: no half is empty or reaches
\* outside the task list.
LEMMA RetryEntriesType ==
  ASSUME NEW e \in Batches
  PROVE  RetryEntries(e) \in Seq(Batches)
<1>0. /\ e.lo \in 1..NTasks /\ e.hi \in 1..NTasks /\ e.rc \in Nat /\ e.lo <= e.hi
      /\ BatchLen(e) = e.hi - e.lo + 1
  BY DEF BatchLen, Batches, Entries
<1>1. CASE BatchLen(e) <= 1
  BY <1>0, <1>1 DEF RetryEntries, Whole, Batches, Entries
<1>2. CASE ~(BatchLen(e) <= 1)
  <2> DEFINE mid == BatchLen(e) \div 2
  <2>1. mid \in Nat /\ 1 <= mid /\ mid < BatchLen(e)
    BY <1>0, <1>2
  <2>2. RetryEntries(e) = << [lo |-> e.lo, hi |-> e.lo + mid - 1, rc |-> e.rc + 1],
                             [lo |-> e.lo + mid, hi |-> e.hi, rc |-> e.rc + 1] >>
    BY <1>2 DEF RetryEntries, Split
  <2> HIDE DEF mid
  <2>3. e.lo + mid - 1 \in e.lo .. e.hi /\ e.lo + mid \in e.lo .. e.hi
    BY <1>0, <2>1
  <2>4. /\ [lo |-> e.lo, hi |-> e.lo + mid - 1, rc |-> e.rc + 1] \in Batches
        /\ [lo |-> e.lo + mid, hi |-> e.hi, rc |-> e.rc + 1] \in Batches
    BY <1>0, <2>1, <2>3 DEF Batches, Entries
  <2> QED BY <2>2, <2>4
<1> QED BY <1>1, <1>2

\* Multiplication by a natural is monotonic.
LEMMA TimesMonotonic ==
  ASSUME NEW a \in Int, NEW b \in Int, a <= b, NEW c \in Nat
  PROVE  a * c <= b * c
<1>1. (b - a) * c \in Nat
  OBVIOUS
<1>2. b * c - a * c = (b - a) * c
  OBVIOUS
<1> QED BY <1>1, <1>2

\* make_batches slices the task list into batches.
LEMMA MakeBatchesType == MakeBatches(NTasks, BatchSize) \in Seq(Batches)
<1> DEFINE q == (NTasks + BatchSize - 1) \div BatchSize
           b(k) == [lo |-> (k - 1) * BatchSize + 1,
                    hi |-> IF k * BatchSize < NTasks THEN k * BatchSize ELSE NTasks,
                    rc |-> 0]
<1>1. q \in Nat /\ q * BatchSize <= NTasks + BatchSize - 1
  OBVIOUS
<1>2. ASSUME NEW k \in 1..q
      PROVE  b(k) \in Batches
  <2>1. (k - 1) * BatchSize <= (q - 1) * BatchSize
    BY <1>1, TimesMonotonic
  <2>2. (q - 1) * BatchSize = q * BatchSize - BatchSize
    BY <1>1
  <2>3. (k - 1) * BatchSize + 1 <= NTasks
    BY <1>1, <2>1, <2>2
  <2>4. (k - 1) * BatchSize \in Nat /\ k * BatchSize = (k - 1) * BatchSize + BatchSize
    OBVIOUS
  <2> QED BY <2>3, <2>4 DEF Batches, Entries
<1>3. MakeBatches(NTasks, BatchSize) = [k \in 1..q |-> b(k)]
  BY DEF MakeBatches
<1>4. MakeBatches(NTasks, BatchSize) \in [1..q -> Batches]
  BY <1>2, <1>3
<1> QED BY <1>1, <1>4, SeqDef
-----------------------------------------------------------------------------
(* Helpers of the driver's steps. *)

\* Recording a set of tasks appends outcomes and nothing else.
LEMMA RecordType ==
  ASSUME NEW S, NEW outcome \in Outcomes, results \in [AllTasks -> Seq(Outcomes)],
         Record(S, outcome)
  PROVE  results' \in [AllTasks -> Seq(Outcomes)]
BY DEF Record

\* The head of a queue of batches is one, the rest is such a queue again.
LEMMA HeadTailType ==
  ASSUME NEW q \in Seq(Batches), q # << >>
  PROVE  Head(q) \in Batches /\ Tail(q) \in Seq(Batches)
OBVIOUS

\* Handing the head of the queue to a slot keeps the queue a queue of batches,
\* touches no other slot's call, and starts no call on an empty slot.
LEMMA AssignHeadType ==
  ASSUME NEW i \in Slots, NEW q \in Seq(Batches), call \in [Slots -> Calls],
         AssignHead(i, q)
  PROVE  /\ pending' \in Seq(Batches)
         /\ call' \in [Slots -> Calls]
         /\ \A j \in Slots : j # i => call'[j] = call[j]
         /\ slot[i] = "none" => call'[i] = NoCall
<1>1. CASE q = << >>
  BY <1>1 DEF AssignHead, Calls
<1>2. CASE q # << >> /\ slot[i] = "none"
  BY <1>2, HeadTailType DEF AssignHead, Calls
<1>3. CASE q # << >> /\ slot[i] # "none"
  <2>1. NewCall(Head(q)) \in Calls
    BY <1>3, HeadTailType DEF NewCall, Calls
  <2> QED BY <1>3, <2>1, HeadTailType DEF AssignHead
<1> QED BY <1>1, <1>2, <1>3

\* Counting keeps the counters natural numbers.
LEMMA CountType ==
  ASSUME NEW st \in [Counters -> Nat], NEW c \in Counters
  PROVE  Count(st, c) \in [Counters -> Nat]
BY DEF Count

\* The counters that the pool keeps.
LEMMA CounterNames == 
  {"promotions", "started", "completed", "failures", "fallbacks"} \subseteq Counters
BY DEF Counters

\* Starting a refill changes the list of loading standbys and the counters.
LEMMA StartRefillType ==
  ASSUME NEW a \in Nat, refills \in Seq(Nat),
         NEW st \in [Counters -> Nat],
         StartRefill(a, st)
  PROVE  /\ refills' \in Seq(Nat)
         /\ stats' \in [Counters -> Nat]
<1>1. Count(st, "started") \in [Counters -> Nat] /\ Count(st, "failures") \in [Counters -> Nat]
  BY CountType, CounterNames
<1>2. Append(refills, a) \in Seq(Nat)
  OBVIOUS
<1>3. /\ refills' \in {Append(refills, a), refills}
      /\ stats' \in {Count(st, "started"), Count(st, "failures")}
  BY DEF StartRefill
<1> QED BY <1>1, <1>2, <1>3

-----------------------------------------------------------------------------
\* The run starts in the invariant.
LEMMA InitIInv == Init => IInv
<1> SUFFICES ASSUME Init PROVE IInv
  OBVIOUS
<1> USE FreshAssumption DEF Init, PoolInit
<1>1. slot \in [Slots -> WorkerStates \cup {"none"}] /\ \A i \in Slots : slot[i] # "none"
  BY DEF WorkerStates
<1>2. pool \in Seq(WorkerStates)
  <2>1. pool \in [1..Standby -> WorkerStates]
    BY DEF WorkerStates
  <2> QED BY <2>1, SeqDef
<1>3. PoolTypeOK
  BY <1>1, <1>2 DEF PoolTypeOK, NotBlocking
<1>4. TypeOK
  BY <1>3, MakeBatchesType DEF TypeOK, PCs, Calls, Jobs
<1>5. NoCallOnEmptySlot
  BY <1>1 DEF NoCallOnEmptySlot
<1>6. DriverConsistent
  BY <1>1 DEF DriverConsistent, JobInHand, SnapshotValid, FilledOnce, HandlingSteps
<1> QED BY <1>4, <1>5, <1>6 DEF IInv
-----------------------------------------------------------------------------
\* Every step of the driver or of a worker keeps the invariant.
LEMMA NextIInv == IInv /\ [Next]_vars => IInv'
<1> SUFFICES ASSUME IInv, [Next]_vars PROVE IInv'
  OBVIOUS
<1>0. TypeOK /\ PoolTypeOK /\ NoCallOnEmptySlot /\ JobInHand /\ SnapshotValid /\ FilledOnce
  BY DEF IInv, TypeOK, DriverConsistent
<1>1. CASE Fill
  <2>a. call' \in [Slots -> Calls]
    <3>1. ASSUME NEW k \in 1..Len(pending) PROVE NewCall(pending[k]) \in Calls
      BY <1>0 DEF TypeOK, NewCall, Calls
    <3>2. \A i \in Slots : i <= Len(pending) => i \in 1..Len(pending)
      BY <1>0 DEF TypeOK, Slots
    <3> QED BY <1>1, <3>1, <3>2 DEF Fill, Calls
  <2>b. pending' \in Seq(Batches)
    BY <1>0, <1>1 DEF Fill, TypeOK
  <2>1. TypeOK'
    BY <1>0, <1>1, <2>a, <2>b DEF Fill, TypeOK, PoolTypeOK, PCs, driverVars, poolVars
  <2>2. NoCallOnEmptySlot'
    BY <1>0, <1>1 DEF Fill, FilledOnce, TypeOK, PoolTypeOK, NoCallOnEmptySlot, driverVars, poolVars
  <2>3. DriverConsistent'
    BY <1>0, <1>1 DEF Fill, TypeOK, PoolTypeOK, DriverConsistent, JobInHand, SnapshotValid, FilledOnce, HandlingSteps, NoJob, driverVars, poolVars
  <2> QED BY <2>1, <2>2, <2>3 DEF IInv
<1>2. CASE EnterLoop
  BY <1>0, <1>2 DEF EnterLoop, BeginPoll, vars, driverVars, poolVars, IInv, TypeOK,
     PoolTypeOK, NoCallOnEmptySlot, JobInHand, SnapshotValid, FilledOnce, HandlingSteps, DriverConsistent, PCs
<1>3. CASE LeaveLoop
  BY <1>0, <1>3 DEF LeaveLoop, vars, driverVars, poolVars, IInv, TypeOK,
     PoolTypeOK, NoCallOnEmptySlot, JobInHand, SnapshotValid, FilledOnce, HandlingSteps, DriverConsistent, PCs
<1>4. CASE PollRefill
  <2>a. /\ pool' \in Seq(WorkerStates) /\ refills' \in Seq(Nat)
        /\ inFlight' \in Seq(Nat) /\ stats' \in [Counters -> Nat]
        /\ slot' = slot /\ blocking' = blocking
    <3>0. inFlight # << >> => Head(inFlight) \in Nat /\ Tail(inFlight) \in Seq(Nat)
      BY <1>0 DEF PoolTypeOK
    <3>1. CASE PollLoading
      BY <1>0, <3>0, <3>1 DEF PollLoading, PoolTypeOK
    <3>2. CASE PollReady
      <4>1. stats' \in [Counters -> Nat]
        BY <1>0, <3>2, CountType, CounterNames DEF PollReady, PoolTypeOK
      <4>2. PICK s \in FreshStates : pool' = Append(pool, s)
        BY <3>2 DEF PollReady
      <4>3. s \in WorkerStates
        BY FreshAssumption DEF WorkerStates
      <4> QED BY <1>0, <3>0, <3>2, <4>1, <4>2, <4>3 DEF PollReady, PoolTypeOK
    <3>3. CASE PollFailed
      <4> DEFINE a == Head(inFlight)
                 st == Count(stats, "failures")
      <4>1. a \in Nat /\ a + 1 \in Nat /\ st \in [Counters -> Nat]
        <5>1. st \in [Counters -> Nat]
          BY <1>0, CountType, CounterNames DEF PoolTypeOK
        <5>2. a \in Nat
          BY <3>0, <3>3 DEF PollFailed
        <5> QED BY <5>1, <5>2
      <4>2. StartRefill(a + 1, st) \/ (refills' = refills /\ stats' = st)
        BY <3>3 DEF PollFailed, FailRefill
      <4> HIDE DEF a, st
      <4>3. refills' \in Seq(Nat) /\ stats' \in [Counters -> Nat]
        BY <1>0, <4>1, <4>2, StartRefillType DEF PoolTypeOK
      <4> QED BY <1>0, <3>0, <3>3, <4>3 DEF PollFailed, PoolTypeOK
    <3> QED BY <1>4, <3>1, <3>2, <3>3 DEF PollRefill, PollStep
  <2>1. TypeOK'
    BY <1>0, <1>4, <2>a DEF PollRefill, TypeOK, PoolTypeOK, PCs, driverVars, poolVars
  <2>2. NoCallOnEmptySlot'
    BY <1>0, <1>4 DEF PollRefill, PollStep, PollLoading, PollReady, PollFailed, TypeOK, PoolTypeOK, NoCallOnEmptySlot, driverVars, poolVars
  <2>3. DriverConsistent'
    BY <1>0, <1>4 DEF PollRefill, PollStep, PollLoading, PollReady, PollFailed, TypeOK, PoolTypeOK, DriverConsistent, JobInHand, SnapshotValid, FilledOnce, HandlingSteps, NoJob, driverVars, poolVars
  <2> QED BY <2>1, <2>2, <2>3 DEF IInv
<1>5. CASE EndPoll
  BY <1>0, <1>5 DEF EndPoll, vars, driverVars, poolVars, IInv, TypeOK,
     PoolTypeOK, NoCallOnEmptySlot, JobInHand, SnapshotValid, FilledOnce, HandlingSteps, DriverConsistent, PCs
<1>6. CASE Abort
  <2>1. TypeOK'
    <3>1. results' \in [AllTasks -> Seq(Outcomes)]
      BY <1>0, <1>6, RecordType DEF Abort, TypeOK, Outcomes
    <3> QED BY <1>0, <1>6, <3>1 DEF Abort, TypeOK, PoolTypeOK, PCs, poolVars
  <2>2. NoCallOnEmptySlot'
    BY <1>0, <1>6 DEF Abort, TypeOK, PoolTypeOK, NoCallOnEmptySlot, driverVars, poolVars
  <2>3. DriverConsistent'
    BY <1>0, <1>6 DEF Abort, TypeOK, PoolTypeOK, DriverConsistent, JobInHand, SnapshotValid, FilledOnce, HandlingSteps, NoJob, driverVars, poolVars
  <2> QED BY <2>1, <2>2, <2>3 DEF IInv
<1>7. CASE PromoteDue
  BY <1>0, <1>7 DEF PromoteDue, vars, driverVars, poolVars, IInv, TypeOK,
     PoolTypeOK, NoCallOnEmptySlot, JobInHand, SnapshotValid, FilledOnce, HandlingSteps, DriverConsistent, PCs
<1>8. CASE PromoteNotDue
  BY <1>0, <1>8 DEF PromoteNotDue, vars, driverVars, poolVars, IInv, TypeOK,
     PoolTypeOK, NoCallOnEmptySlot, JobInHand, SnapshotValid, FilledOnce, HandlingSteps, DriverConsistent, PCs
<1>9. CASE EndPromote
  BY <1>0, <1>9 DEF EndPromote, vars, driverVars, poolVars, IInv, TypeOK,
     PoolTypeOK, NoCallOnEmptySlot, JobInHand, SnapshotValid, FilledOnce, HandlingSteps, DriverConsistent, PCs
<1>10. CASE Dispatch
  <2>a. PICK i \in Slots : Idle(i) /\ call' = [call EXCEPT ![i] = NewCall(Head(pending))]
    BY <1>10 DEF Dispatch
  <2>b. NewCall(Head(pending)) \in Calls
    BY <1>0, <1>10, HeadTailType DEF Dispatch, TypeOK, NewCall, Calls
  <2>1. TypeOK'
    BY <1>0, <1>10, <2>a, <2>b, HeadTailType DEF Dispatch, TypeOK, PoolTypeOK, PCs, poolVars
  <2>2. NoCallOnEmptySlot'
    BY <1>0, <1>10, <2>a DEF Dispatch, TypeOK, PoolTypeOK, NoCallOnEmptySlot, Idle, poolVars
  <2>3. DriverConsistent'
    BY <1>0, <1>10, <2>a DEF Dispatch, TypeOK, PoolTypeOK, DriverConsistent, JobInHand, SnapshotValid, FilledOnce, HandlingSteps, NoJob, driverVars, poolVars
  <2> QED BY <2>1, <2>2, <2>3 DEF IInv
<1>11. CASE EndDispatch
  BY <1>0, <1>11 DEF EndDispatch, vars, driverVars, poolVars, IInv, TypeOK,
     PoolTypeOK, NoCallOnEmptySlot, JobInHand, SnapshotValid, FilledOnce, HandlingSteps, DriverConsistent, PCs
<1>12. CASE Sleep
  BY <1>0, <1>12 DEF Sleep, vars, driverVars, poolVars, IInv, TypeOK,
     PoolTypeOK, NoCallOnEmptySlot, JobInHand, SnapshotValid, FilledOnce, HandlingSteps, DriverConsistent, PCs
<1>13. CASE WaitTimeout
  BY <1>0, <1>13 DEF WaitTimeout, vars, driverVars, poolVars, IInv, TypeOK,
     PoolTypeOK, NoCallOnEmptySlot, JobInHand, SnapshotValid, FilledOnce, HandlingSteps, DriverConsistent, PCs
<1>14. ASSUME NEW i \in Slots, HarvestSuccess(i) PROVE IInv'
  <2>a. /\ pending' \in Seq(Batches) /\ call' \in [Slots -> Calls]
        /\ \A j \in Slots : j # i => call'[j] = call[j]
        /\ slot[i] = "none" => call'[i] = NoCall
    BY <1>0, <1>14, AssignHeadType DEF HarvestSuccess, TypeOK
  <2>1. TypeOK'
    <3>1. results' \in [AllTasks -> Seq(Outcomes)]
      BY <1>0, <1>14, RecordType DEF HarvestSuccess, TypeOK, Outcomes, Answered
    <3> QED BY <1>0, <1>14, <2>a, <3>1 DEF HarvestSuccess, TypeOK, PoolTypeOK, PCs, poolVars
  <2>2. NoCallOnEmptySlot'
    BY <1>0, <1>14, <2>a DEF HarvestSuccess, TypeOK, PoolTypeOK, NoCallOnEmptySlot, poolVars
  <2>3. DriverConsistent'
    BY <1>0, <1>14, <2>a DEF HarvestSuccess, TypeOK, PoolTypeOK, DriverConsistent, JobInHand, SnapshotValid, FilledOnce, HandlingSteps, NoJob, driverVars, poolVars
  <2> QED BY <2>1, <2>2, <2>3 DEF IInv
<1>15. ASSUME NEW i \in Slots, HarvestFailure(i) PROVE IInv'
  <2>a. job' \in FailedJobs
    BY <1>0, <1>15 DEF HarvestFailure, TypeOK, Calls, NoCall, FailedJobs
  <2>1. TypeOK'
    BY <1>0, <1>15, <2>a DEF HarvestFailure, TypeOK, PoolTypeOK, PCs, Calls, Jobs, poolVars
  <2>2. NoCallOnEmptySlot'
    BY <1>0, <1>15 DEF HarvestFailure, TypeOK, PoolTypeOK, NoCallOnEmptySlot, driverVars, poolVars
  <2>3. DriverConsistent'
    BY <1>0, <1>15, <2>a DEF HarvestFailure, FailedJobs, TypeOK, PoolTypeOK, DriverConsistent, JobInHand, SnapshotValid, FilledOnce, HandlingSteps, NoJob, driverVars, poolVars
  <2> QED BY <2>1, <2>2, <2>3 DEF IInv
<1>16. CASE Probe
  BY <1>0, <1>16 DEF Probe, vars, driverVars, poolVars, IInv, TypeOK,
     PoolTypeOK, NoCallOnEmptySlot, JobInHand, SnapshotValid, FilledOnce, HandlingSteps, DriverConsistent, PCs
<1>17. CASE ReplaceFromPool
  <2>j. job \in FailedJobs \cup HungJobs /\ job.slot \in Slots
    BY <1>0, <1>17 DEF ReplaceFromPool, TypeOK, JobInHand, HandlingSteps, Jobs, FailedJobs, HungJobs
  <2>a. pool[Len(pool)] \in WorkerStates /\ SubSeq(pool, 1, Len(pool) - 1) \in Seq(WorkerStates)
    BY <1>0, <1>17 DEF ReplaceFromPool, PromoteStandby, PoolTypeOK
  <2>b. refills' \in Seq(Nat) /\ stats' \in [Counters -> Nat]
    BY <1>0, <1>17, CountType, CounterNames, StartRefillType
       DEF ReplaceFromPool, PromoteStandby, PoolTypeOK
  <2>1. TypeOK'
    BY <1>0, <1>17, <2>a, <2>b DEF ReplaceFromPool, PromoteStandby, AfterReplace, TypeOK, PoolTypeOK, PCs
  <2>2. NoCallOnEmptySlot'
    BY <1>0, <1>17, <2>a, <2>j DEF ReplaceFromPool, PromoteStandby, TypeOK, PoolTypeOK, NoCallOnEmptySlot, JobInHand, HandlingSteps, WorkerStates
  <2>3. DriverConsistent'
    BY <1>0, <1>17, <2>j DEF ReplaceFromPool, PromoteStandby, AfterReplace, FailedJobs, HungJobs, TypeOK, PoolTypeOK, DriverConsistent, JobInHand, SnapshotValid, FilledOnce, HandlingSteps, NoJob, driverVars, poolVars
  <2> QED BY <2>1, <2>2, <2>3 DEF IInv
<1>18. CASE ReplaceBlocking
  <2>j. job \in FailedJobs \cup HungJobs /\ job.slot \in Slots
    BY <1>0, <1>18 DEF ReplaceBlocking, TypeOK, JobInHand, HandlingSteps, Jobs, FailedJobs, HungJobs
  <2>a. stats' \in [Counters -> Nat]
    BY <1>0, <1>18, CountType, CounterNames DEF ReplaceBlocking, FallBack, PoolTypeOK
  <2>1. TypeOK'
    BY <1>0, <1>18, <2>a, <2>j DEF ReplaceBlocking, FallBack, Slots, TypeOK, PoolTypeOK, PCs
  <2>2. NoCallOnEmptySlot'
    BY <1>0, <1>18, <2>j DEF ReplaceBlocking, FallBack, TypeOK, PoolTypeOK, NoCallOnEmptySlot, JobInHand, HandlingSteps
  <2>3. DriverConsistent'
    BY <1>0, <1>18, <2>j DEF ReplaceBlocking, FallBack, NotBlocking, Slots, TypeOK, PoolTypeOK, DriverConsistent, JobInHand, SnapshotValid, FilledOnce, HandlingSteps, NoJob, driverVars, poolVars
  <2> QED BY <2>1, <2>2, <2>3 DEF IInv
<1>19. CASE BlockingReplace
  <2>j. job \in FailedJobs \cup HungJobs /\ job.slot \in Slots
    BY <1>0, <1>19 DEF BlockingReplace, TypeOK, JobInHand, HandlingSteps, Jobs, FailedJobs, HungJobs
  <2>a. /\ slot' \in [Slots -> WorkerStates \cup {"none"}]
        /\ \A j \in Slots : j # job.slot => slot'[j] = slot[j]
        /\ blocking' \in [slot : 0..NWorkers, attempt : Nat]
        /\ blocking' = NotBlocking \/ blocking'.slot = blocking.slot
        /\ UNCHANGED <<pool, refills, inFlight, stats>>
    <3>0. blocking.slot = job.slot /\ blocking # NotBlocking
      BY <1>0, <1>19 DEF BlockingReplace, JobInHand
    <3>1. CASE BlockingSucceeds
      BY <1>0, <2>j, <3>0, <3>1, FreshAssumption
         DEF BlockingSucceeds, PoolTypeOK, NotBlocking, WorkerStates
    <3>2. CASE BlockingFails
      <4>1. [slot |-> blocking.slot, attempt |-> blocking.attempt + 1] \in [slot : 0..NWorkers, attempt : Nat]
        BY <1>0 DEF PoolTypeOK
      <4>2. NotBlocking \in [slot : 0..NWorkers, attempt : Nat]
        BY DEF NotBlocking
      <4> QED BY <1>0, <3>2, <4>1, <4>2 DEF BlockingFails, PoolTypeOK, NotBlocking
    <3> QED BY <1>19, <3>1, <3>2 DEF BlockingReplace
  <2>1. TypeOK'
    BY <1>0, <1>19, <2>a DEF BlockingReplace, AfterReplace, TypeOK, PoolTypeOK, PCs
  <2>2. NoCallOnEmptySlot'
    BY <1>0, <1>19, <2>a, <2>j DEF BlockingReplace, TypeOK, PoolTypeOK, NoCallOnEmptySlot, JobInHand, HandlingSteps
  <2>3. DriverConsistent'
    BY <1>0, <1>19, <2>a, <2>j DEF BlockingReplace, AfterReplace, FailedJobs, HungJobs, TypeOK, PoolTypeOK, DriverConsistent, JobInHand, SnapshotValid, FilledOnce, HandlingSteps, NoJob, driverVars, poolVars
  <2> QED BY <2>1, <2>2, <2>3 DEF IInv
<1>20. CASE RetryLater
  <2>j. job \in FailedJobs /\ job.slot \in Slots /\ job.e \in Batches
        /\ job.kind \in Outcomes /\ job.kind # "hung"
    BY <1>0, <1>20 DEF RetryLater, TypeOK, JobInHand, HandlingSteps, Jobs, FailedJobs, HungJobs, Outcomes
  <2>a. /\ pending' \in Seq(Batches) /\ call' \in [Slots -> Calls]
        /\ \A j \in Slots : j # job.slot => call'[j] = call[j]
        /\ slot[job.slot] = "none" => call'[job.slot] = NoCall
    BY <1>0, <1>20, AssignHeadType, <2>j DEF RetryLater, TypeOK
  <2>1. TypeOK'
    <3>1. deferred' \in Seq(Batches)
      BY <1>0, <1>20, <2>j, RetryEntriesType DEF RetryLater, TypeOK
    <3> QED BY <1>0, <1>20, <2>a, <3>1 DEF RetryLater, TypeOK, PoolTypeOK, PCs, Jobs, poolVars
  <2>2. NoCallOnEmptySlot'
    BY <1>0, <1>20, <2>a, <2>j DEF RetryLater, TypeOK, PoolTypeOK, NoCallOnEmptySlot, poolVars
  <2>3. DriverConsistent'
    BY <1>0, <1>20, <2>a, <2>j DEF RetryLater, TypeOK, PoolTypeOK, DriverConsistent, JobInHand, SnapshotValid, FilledOnce, HandlingSteps, NoJob, driverVars, poolVars
  <2> QED BY <2>1, <2>2, <2>3 DEF IInv
<1>21. CASE FailTerminally
  <2>j. job \in FailedJobs /\ job.slot \in Slots /\ job.e \in Batches
        /\ job.kind \in Outcomes /\ job.kind # "hung"
    BY <1>0, <1>21 DEF FailTerminally, TypeOK, JobInHand, HandlingSteps, Jobs, FailedJobs, HungJobs, Outcomes
  <2>a. /\ pending' \in Seq(Batches) /\ call' \in [Slots -> Calls]
        /\ \A j \in Slots : j # job.slot => call'[j] = call[j]
        /\ slot[job.slot] = "none" => call'[job.slot] = NoCall
    BY <1>0, <1>21, AssignHeadType, <2>j DEF FailTerminally, TypeOK
  <2>1. TypeOK'
    <3>1. results' \in [AllTasks -> Seq(Outcomes)]
      BY <1>0, <1>21, RecordType, <2>j DEF FailTerminally, TypeOK, Outcomes, Answered
    <3> QED BY <1>0, <1>21, <2>a, <3>1 DEF FailTerminally, TypeOK, PoolTypeOK, PCs, Jobs, poolVars
  <2>2. NoCallOnEmptySlot'
    BY <1>0, <1>21, <2>a, <2>j DEF FailTerminally, TypeOK, PoolTypeOK, NoCallOnEmptySlot, poolVars
  <2>3. DriverConsistent'
    BY <1>0, <1>21, <2>a, <2>j DEF FailTerminally, TypeOK, PoolTypeOK, DriverConsistent, JobInHand, SnapshotValid, FilledOnce, HandlingSteps, NoJob, driverVars, poolVars
  <2> QED BY <2>1, <2>2, <2>3 DEF IInv
<1>22. CASE BeginScan
  <2>1. TypeOK'
    BY <1>0, <1>22 DEF BeginScan, TypeOK, PoolTypeOK, PCs, driverVars, poolVars
  <2>2. NoCallOnEmptySlot'
    BY <1>0, <1>22 DEF BeginScan, TypeOK, PoolTypeOK, NoCallOnEmptySlot, driverVars, poolVars
  <2>3. DriverConsistent'
    BY <1>0, <1>22 DEF BeginScan, NoCall, TypeOK, PoolTypeOK, DriverConsistent, JobInHand, SnapshotValid, FilledOnce, HandlingSteps, NoJob, driverVars, poolVars
  <2> QED BY <2>1, <2>2, <2>3 DEF IInv
<1>23. ASSUME NEW i \in Slots, Evict(i) PROVE IInv'
  <2> DEFINE e == call[i].e
  <2>a. e \in Batches
    BY <1>0, <1>23 DEF Evict, TypeOK, SnapshotValid, Calls
  <2>b. job' \in HungJobs
    BY <1>23 DEF Evict, HungJobs
  <2>c. call' \in [Slots -> Calls]
    BY <1>0, <1>23 DEF Evict, TypeOK, Calls
  <2>d. e.rc < Budget(e) => pending' = pending \o RetryEntries(e) /\ results' = results
    BY <1>23 DEF Evict, Requeue
  <2>e. ~(e.rc < Budget(e)) => pending' = pending /\ Record(Tasks(e), "hung")
    BY <1>23 DEF Evict, Requeue
  <2> HIDE DEF e
  <2>1. TypeOK'
    <3>1. CASE e.rc < Budget(e)
      <4>1. pending' \in Seq(Batches)
        BY <1>0, <2>a, <2>d, <3>1, RetryEntriesType, ConcatProperties DEF TypeOK
      <4> QED BY <1>0, <1>23, <2>b, <2>c, <2>d, <3>1, <4>1 DEF Evict, TypeOK, PoolTypeOK, PCs, Jobs, poolVars
    <3>2. CASE ~(e.rc < Budget(e))
      <4>1. results' \in [AllTasks -> Seq(Outcomes)]
        BY <1>0, <2>e, <3>2, RecordType DEF TypeOK, Outcomes
      <4> QED BY <1>0, <1>23, <2>b, <2>c, <2>e, <3>2, <4>1 DEF Evict, TypeOK, PoolTypeOK, PCs, Calls, Jobs, poolVars
    <3> QED BY <3>1, <3>2
  <2>2. NoCallOnEmptySlot'
    BY <1>0, <1>23 DEF Evict, TypeOK, PoolTypeOK, NoCallOnEmptySlot, poolVars
  <2>3. DriverConsistent'
    BY <1>0, <1>23, <2>b DEF Evict, HungJobs, TypeOK, PoolTypeOK, DriverConsistent, JobInHand, SnapshotValid, FilledOnce, HandlingSteps, NoJob, driverVars, poolVars
  <2> QED BY <2>1, <2>2, <2>3 DEF IInv
<1>24. CASE Reassign
  <2>j. job \in FailedJobs \cup HungJobs /\ job.slot \in Slots
    BY <1>0, <1>24 DEF Reassign, TypeOK, JobInHand, HandlingSteps, Jobs, FailedJobs, HungJobs
  <2>a. /\ pending' \in Seq(Batches) /\ call' \in [Slots -> Calls]
        /\ \A j \in Slots : j # job.slot => call'[j] = call[j]
        /\ slot[job.slot] = "none" => call'[job.slot] = NoCall
    BY <1>0, <1>24, AssignHeadType, <2>j DEF Reassign, TypeOK
  <2>1. TypeOK'
    BY <1>0, <1>24, <2>a DEF Reassign, TypeOK, PoolTypeOK, PCs, Jobs, poolVars
  <2>2. NoCallOnEmptySlot'
    BY <1>0, <1>24, <2>a, <2>j DEF Reassign, TypeOK, PoolTypeOK, NoCallOnEmptySlot, poolVars
  <2>3. DriverConsistent'
    BY <1>0, <1>24, <2>a, <2>j DEF Reassign, TypeOK, PoolTypeOK, DriverConsistent, JobInHand, SnapshotValid, FilledOnce, HandlingSteps, NoJob, driverVars, poolVars
  <2> QED BY <2>1, <2>2, <2>3 DEF IInv
<1>25. CASE EndScan
  BY <1>0, <1>25 DEF EndScan, vars, driverVars, poolVars, IInv, TypeOK,
     PoolTypeOK, NoCallOnEmptySlot, JobInHand, SnapshotValid, FilledOnce, HandlingSteps, DriverConsistent, PCs
<1>26. CASE CollectStats
  BY <1>0, <1>26 DEF CollectStats, TeardownStandby, vars, driverVars, poolVars, IInv, TypeOK,
     PoolTypeOK, NoCallOnEmptySlot, JobInHand, SnapshotValid, FilledOnce, HandlingSteps, DriverConsistent, PCs
<1>27. CASE StatsRaise
  BY <1>0, <1>27 DEF StatsRaise, vars, driverVars, poolVars, IInv, TypeOK,
     PoolTypeOK, NoCallOnEmptySlot, JobInHand, SnapshotValid, FilledOnce, HandlingSteps, DriverConsistent, PCs
<1>28. ASSUME NEW i \in Slots, NEW st \in Answered, NEW s \in WorkerStates,
              AnswerCall(i, st, s)
       PROVE  IInv'
  <2>a. /\ Answer(call[i], st) \in Calls
        /\ call[i] # NoCall /\ Answer(call[i], st) # NoCall
    BY <1>0, <1>28 DEF AnswerCall, TypeOK, Answer, Calls, NoCall, Answered
  <2>1. TypeOK'
    BY <1>0, <1>28, <2>a DEF AnswerCall, TypeOK, PoolTypeOK
  <2>2. NoCallOnEmptySlot'
    BY <1>0, <1>28, <2>a DEF AnswerCall, TypeOK, PoolTypeOK, NoCallOnEmptySlot, WorkerStates
  <2>3. DriverConsistent'
    BY <1>0, <1>28, <2>a DEF AnswerCall, Yielding, TypeOK, PoolTypeOK, DriverConsistent, JobInHand, SnapshotValid, FilledOnce, HandlingSteps, NoJob, driverVars, poolVars
  <2> QED BY <2>1, <2>2, <2>3 DEF IInv
<1>29. ASSUME NEW i \in Slots, Crash(i) PROVE IInv'
  <2>1. TypeOK'
    BY <1>0, <1>29 DEF Crash, TypeOK, PoolTypeOK, WorkerStates, driverVars
  <2>2. NoCallOnEmptySlot'
    BY <1>0, <1>29 DEF Crash, TypeOK, PoolTypeOK, NoCallOnEmptySlot, driverVars
  <2>3. DriverConsistent'
    BY <1>0, <1>29 DEF Crash, TypeOK, PoolTypeOK, DriverConsistent, JobInHand, SnapshotValid, FilledOnce, HandlingSteps, NoJob, driverVars, poolVars
  <2> QED BY <2>1, <2>2, <2>3 DEF IInv
<1>30. ASSUME NEW i \in Slots, FailOnDeadActor(i) PROVE IInv'
  <2>a. /\ Answer(call[i], "transient") \in Calls
        /\ call[i] # NoCall /\ Answer(call[i], "transient") # NoCall
    BY <1>0, <1>30 DEF FailOnDeadActor, TypeOK, Answer, Calls, NoCall, Answered
  <2>1. TypeOK'
    BY <1>0, <1>30, <2>a DEF FailOnDeadActor, TypeOK, PoolTypeOK, poolVars
  <2>2. NoCallOnEmptySlot'
    BY <1>0, <1>30, <2>a DEF FailOnDeadActor, TypeOK, PoolTypeOK, NoCallOnEmptySlot, poolVars
  <2>3. DriverConsistent'
    BY <1>0, <1>30, <2>a DEF FailOnDeadActor, TypeOK, PoolTypeOK, DriverConsistent, JobInHand, SnapshotValid, FilledOnce, HandlingSteps, NoJob, driverVars, poolVars
  <2> QED BY <2>1, <2>2, <2>3 DEF IInv
<1>31. ASSUME NEW i \in Slots, Wedge(i) PROVE IInv'
  <2>1. TypeOK'
    BY <1>0, <1>31 DEF Wedge, TypeOK, PoolTypeOK, WorkerStates, driverVars
  <2>2. NoCallOnEmptySlot'
    BY <1>0, <1>31 DEF Wedge, TypeOK, PoolTypeOK, NoCallOnEmptySlot, driverVars
  <2>3. DriverConsistent'
    BY <1>0, <1>31 DEF Wedge, TypeOK, PoolTypeOK, DriverConsistent, JobInHand, SnapshotValid, FilledOnce, HandlingSteps, NoJob, driverVars, poolVars
  <2> QED BY <2>1, <2>2, <2>3 DEF IInv
<1>32. ASSUME NEW i \in Slots, Age(i) PROVE IInv'
  <2>a. /\ Aged(call[i]) \in Calls
        /\ call[i] # NoCall /\ Aged(call[i]) # NoCall
    BY <1>0, <1>32 DEF Age, TypeOK, Aged, Calls, NoCall, Answered
  <2>1. TypeOK'
    BY <1>0, <1>32, <2>a DEF Age, TypeOK, PoolTypeOK, poolVars
  <2>2. NoCallOnEmptySlot'
    BY <1>0, <1>32, <2>a DEF Age, TypeOK, PoolTypeOK, NoCallOnEmptySlot, poolVars
  <2>3. DriverConsistent'
    BY <1>0, <1>32, <2>a DEF Age, TypeOK, PoolTypeOK, DriverConsistent, JobInHand, SnapshotValid, FilledOnce, HandlingSteps, NoJob, driverVars, poolVars
  <2> QED BY <2>1, <2>2, <2>3 DEF IInv
<1>33. CASE IdleStandbyCrash
  <2>a. pool' \in Seq(WorkerStates)
    <3>1. PICK k \in 1..Len(pool) : pool' = [pool EXCEPT ![k] = "dead"]
      BY <1>33 DEF IdleStandbyCrash, StandbyCrash
    <3>2. "dead" \in WorkerStates
      BY DEF WorkerStates
    <3> QED BY <1>0, <3>1, <3>2, ExceptSeq DEF PoolTypeOK
  <2>1. TypeOK'
    BY <1>0, <1>33, <2>a DEF IdleStandbyCrash, StandbyCrash, TypeOK, PoolTypeOK, driverVars
  <2>2. NoCallOnEmptySlot'
    BY <1>0, <1>33 DEF IdleStandbyCrash, StandbyCrash, TypeOK, PoolTypeOK, NoCallOnEmptySlot, driverVars, poolVars
  <2>3. DriverConsistent'
    BY <1>0, <1>33 DEF IdleStandbyCrash, StandbyCrash, TypeOK, PoolTypeOK, DriverConsistent, JobInHand, SnapshotValid, FilledOnce, HandlingSteps, NoJob, driverVars, poolVars
  <2> QED BY <2>1, <2>2, <2>3 DEF IInv
<1>34. CASE UNCHANGED vars
  BY <1>0, <1>34 DEF vars, driverVars, poolVars, IInv, TypeOK, PoolTypeOK, NoCallOnEmptySlot,
     JobInHand, SnapshotValid, FilledOnce, HandlingSteps, DriverConsistent
<1>35. ASSUME NEW i \in Slots, Complete(i) \/ FailDeterministic(i) \/ FailTransient(i) \/ FailFatal(i)
       PROVE  IInv'
  <2>1. {"up", "bad", Recovered(slot[i])} \subseteq WorkerStates \/ slot[i] = "none"
    BY <1>0 DEF PoolTypeOK, Recovered, WorkerStates
  <2>2. \E st \in Answered, s \in WorkerStates : AnswerCall(i, st, s)
    BY <1>35, <2>1 DEF Complete, FailDeterministic, FailTransient, FailFatal, Answered,
       AnswerCall, WorkerStates
  <2> QED BY <1>28, <2>2
<1>36. CASE DriverNext
  BY <1>36, <1>1, <1>2, <1>3, <1>4, <1>5, <1>6, <1>7, <1>8, <1>9, <1>10, <1>11, <1>12, <1>13, <1>14, <1>15, <1>16, <1>17, <1>18, <1>19, <1>20, <1>21, <1>22, <1>23, <1>24, <1>25, <1>26, <1>27 DEF DriverNext
<1>37. CASE WorkerNext
  BY <1>37, <1>29, <1>30, <1>31, <1>32, <1>33, <1>35 DEF WorkerNext
<1> QED BY <1>34, <1>36, <1>37 DEF Next, Finished
-----------------------------------------------------------------------------
(* Theorems. *)

\* The invariant holds throughout every run.
THEOREM Invariance == Spec => []IInv
BY InitIInv, NextIInv, PTL DEF Spec

\* Type correctness of run(): every queue holds only proper batches of the
\* task list, and every slot, call and job keeps its shape.
THEOREM TypeCorrectness == Spec => []TypeOK
<1>1. IInv => TypeOK
  BY DEF IInv
<1> QED BY <1>1, Invariance, PTL

\* The abort when all slots are dead (it records pending and deferred only)
\* leaves no call behind: an empty slot never has one outstanding.
THEOREM AbortLeavesNoCall == Spec => []NoCallOnEmptySlot
<1>1. IInv => NoCallOnEmptySlot
  BY DEF IInv
<1> QED BY <1>1, Invariance, PTL

\* The failure path and the timeout scan work on calls that are still theirs:
\* the snapshot of expired refs stays valid across replacements and
\* reassignments, and the slot under replacement has no call.
THEOREM DriverConsistency == Spec => []DriverConsistent
<1>1. IInv => DriverConsistent
  BY DEF IInv
<1> QED BY <1>1, Invariance, PTL

\* retry_entries keeps every task of the batch, gives it to one entry only,
\* and charges each entry exactly one retry.
THEOREM RetryEntriesPartition ==
  ASSUME NEW e \in Batches
  PROVE  /\ \A k \in 1..Len(RetryEntries(e)) : RetryEntries(e)[k].rc = e.rc + 1
         /\ \A t \in Tasks(e) : \E k \in 1..Len(RetryEntries(e)) : t \in Tasks(RetryEntries(e)[k])
         /\ \A k \in 1..Len(RetryEntries(e)) : Tasks(RetryEntries(e)[k]) \subseteq Tasks(e)
         /\ \A j, k \in 1..Len(RetryEntries(e)) :
              j # k => Tasks(RetryEntries(e)[j]) \cap Tasks(RetryEntries(e)[k]) = {}
<1>0. /\ e.lo \in 1..NTasks /\ e.hi \in 1..NTasks /\ e.rc \in Nat /\ e.lo <= e.hi
      /\ BatchLen(e) = e.hi - e.lo + 1
  BY DEF BatchLen, Batches, Entries
<1>1. CASE BatchLen(e) <= 1
  BY <1>0, <1>1 DEF RetryEntries, Whole, Tasks
<1>2. CASE ~(BatchLen(e) <= 1)
  <2> DEFINE mid == BatchLen(e) \div 2
             a == [lo |-> e.lo, hi |-> e.lo + mid - 1, rc |-> e.rc + 1]
             b == [lo |-> e.lo + mid, hi |-> e.hi, rc |-> e.rc + 1]
  <2>1. mid \in Nat /\ 1 <= mid /\ mid < BatchLen(e)
    BY <1>0, <1>2
  <2>2. RetryEntries(e) = <<a, b>>
    BY <1>2 DEF RetryEntries, Split
  <2> HIDE DEF mid
  <2>3. /\ Tasks(a) = e.lo .. (e.lo + mid - 1) /\ Tasks(b) = (e.lo + mid) .. e.hi
        /\ a.rc = e.rc + 1 /\ b.rc = e.rc + 1
    BY DEF Tasks
  <2> HIDE DEF a, b
  <2>4. Tasks(e) = e.lo .. e.hi
    BY DEF Tasks
  <2>5. Tasks(a) \subseteq Int /\ Tasks(b) \subseteq Int /\ Tasks(e) \subseteq Int
    BY <1>0, <2>1, <2>3, <2>4
  <2>6. ASSUME NEW t \in Int
        PROVE  /\ t \in Tasks(e) <=> t \in Tasks(a) \/ t \in Tasks(b)
               /\ ~(t \in Tasks(a) /\ t \in Tasks(b))
    BY <1>0, <2>1, <2>3, <2>4
  <2>7. Len(<<a, b>>) = 2 /\ <<a, b>>[1] = a /\ <<a, b>>[2] = b
    OBVIOUS
  <2>8. 1..2 = {1, 2}
    OBVIOUS
  <2>9. Tasks(a) \cap Tasks(b) = {} /\ Tasks(b) \cap Tasks(a) = {}
    BY <2>5, <2>6
  <2>10. Tasks(a) \subseteq Tasks(e) /\ Tasks(b) \subseteq Tasks(e)
    BY <2>5, <2>6
  <2>11. \A t \in Tasks(e) : t \in Tasks(a) \/ t \in Tasks(b)
    BY <2>5, <2>6
  <2> DEFINE r == <<a, b>>
  <2>12. r[1] = a /\ r[2] = b /\ 1..Len(r) = {1, 2}
    BY <2>7, <2>8
  <2> HIDE DEF r
  <2>13. RetryEntries(e) = r
    BY <2>2 DEF r
  <2>14. \A k \in 1..Len(r) : r[k].rc = e.rc + 1
    BY <2>3, <2>12
  <2>15. \A t \in Tasks(e) : \E k \in 1..Len(r) : t \in Tasks(r[k])
    BY <2>11, <2>12
  <2>16. \A k \in 1..Len(r) : Tasks(r[k]) \subseteq Tasks(e)
    BY <2>10, <2>12
  <2>17. \A j, k \in 1..Len(r) : j # k => Tasks(r[j]) \cap Tasks(r[k]) = {}
    BY <2>9, <2>12
  <2> QED BY <2>13, <2>14, <2>15, <2>16, <2>17
<1> QED BY <1>1, <1>2

-----------------------------------------------------------------------------
(* No task is lost, doubled or recorded twice: the accounting of the        *)
(* scheduling loop, and what follows from it, that the loop implements the  *)
(* ledger.                                                                  *)

\* The tasks of a queue of batches, and that no two of its batches share one.
Held(s) == {t \in AllTasks : \E k \in 1..Len(s) : t \in Tasks(s[k])}
Apart(s) == \A j, k \in 1..Len(s) : j # k => Tasks(s[j]) \cap Tasks(s[k]) = {}

\* The tasks handed to workers, and that no two calls share one.
Called == {t \in AllTasks : \E i \in Slots : t \in Tasks(call[i].e)}
CallsApart == \A i, j \in Slots :
  i # j => Tasks(call[i].e) \cap Tasks(call[j].e) = {}

Recorded == {t \in AllTasks : results[t] # << >>}

\* The five zones of the loop and the recorded tasks divide the task list.
ZonesApart ==
  /\ Held(pending) \cap (Held(deferred) \cup Held(waiting) \cup Called \cup Tasks(job.e)) = {}
  /\ Held(deferred) \cap (Held(waiting) \cup Called \cup Tasks(job.e)) = {}
  /\ Held(waiting) \cap (Called \cup Tasks(job.e)) = {}
  /\ Called \cap Tasks(job.e) = {}

ZonesCover ==
  Held(pending) \cup Held(deferred) \cup Held(waiting) \cup Called \cup Tasks(job.e)
    = AllTasks \ Recorded

Divided ==
  /\ Apart(pending) /\ Apart(deferred) /\ Apart(waiting) /\ CallsApart
  /\ ZonesApart
  /\ ZonesCover

OneEach == \A t \in AllTasks : Len(results[t]) <= 1

\* Nobody is called before the initial fill; entries wait aside only during a
\* promotion, which starts with some slot alive.
Aside ==
  /\ pc = "fill" => Active = {}
  /\ waiting # << >> => pc = "promote" /\ ~AllDead
  /\ pc = "dispatch" => ~AllDead

\* A turn of the loop has something to do until it waits or sleeps.
HasWork ==
  pc \in {"poll", "promote", "dispatch"} =>
    Active # {} \/ pending # << >> \/ deferred # << >> \/ waiting # << >>

-----------------------------------------------------------------------------
(* Queues of batches. *)

\* A batch has tasks, the absent one has none.
LEMMA TasksFacts ==
  /\ \A e \in Batches : Tasks(e) \subseteq AllTasks /\ Tasks(e) # {}
  /\ Tasks(NoEntry) = {}
<1>1. ASSUME NEW e \in Batches PROVE Tasks(e) \subseteq AllTasks /\ e.lo \in Tasks(e)
  BY DEF Batches, Entries, Tasks, AllTasks
<1>2. Tasks(NoEntry) = {}
  BY DEF Tasks, NoEntry
<1> QED BY <1>1, <1>2

\* A queue is its head and its tail.
LEMMA HeldTail ==
  ASSUME NEW s \in Seq(Batches), s # << >>
  PROVE  /\ Held(s) = Tasks(Head(s)) \cup Held(Tail(s))
         /\ Apart(s) => Apart(Tail(s)) /\ Tasks(Head(s)) \cap Held(Tail(s)) = {}
<1> DEFINE u == Tail(s)
<1>1. /\ Len(s) \in Nat \ {0} /\ Len(u) = Len(s) - 1
      /\ Head(s) = s[1] /\ \A k \in 1..Len(u) : u[k] = s[k + 1]
      /\ s[1] \in Batches
  OBVIOUS
<1> HIDE DEF u
<1>2. \A k \in 1..Len(s) : k = 1 \/ (k - 1 \in 1..Len(u) /\ s[k] = u[k - 1])
  BY <1>1
<1>3. \A k \in 1..Len(u) : k + 1 \in 1..Len(s) /\ k + 1 # 1 /\ \A j \in 1..Len(u) : j # k => j + 1 # k + 1
  BY <1>1
<1>4. 1 \in 1..Len(s)
  BY <1>1
<1>5. Held(s) = Tasks(s[1]) \cup Held(u)
  BY <1>1, <1>2, <1>3, <1>4, TasksFacts DEF Held
<1>6. ASSUME Apart(s) PROVE Apart(u) /\ Tasks(s[1]) \cap Held(u) = {}
  BY <1>1, <1>3, <1>4, <1>6 DEF Apart, Held
<1> QED BY <1>1, <1>5, <1>6 DEF u

\* Putting one queue behind another.
LEMMA HeldConcat ==
  ASSUME NEW s \in Seq(Batches), NEW u \in Seq(Batches)
  PROVE  /\ Held(s \o u) = Held(s) \cup Held(u)
         /\ Apart(s) /\ Apart(u) /\ Held(s) \cap Held(u) = {} => Apart(s \o u)
<1> DEFINE c == s \o u
<1>1. /\ Len(s) \in Nat /\ Len(u) \in Nat /\ Len(c) = Len(s) + Len(u)
      /\ \A k \in 1..Len(s) : c[k] = s[k]
      /\ \A k \in 1..Len(c) : k \notin 1..Len(s) => k - Len(s) \in 1..Len(u) /\ c[k] = u[k - Len(s)]
      /\ \A k \in 1..Len(u) : k + Len(s) \in 1..Len(c) /\ c[k + Len(s)] = u[k]
  BY ConcatProperties
<1>2. 1..Len(s) \subseteq 1..Len(c)
  BY <1>1
<1>3. /\ \A k \in 1..Len(s) : s[k] \in Batches
      /\ \A k \in 1..Len(u) : u[k] \in Batches
  OBVIOUS
<1> HIDE DEF c
<1>4. Held(c) = Held(s) \cup Held(u)
  BY <1>1, <1>2 DEF Held
<1>5. ASSUME Apart(s), Apart(u), Held(s) \cap Held(u) = {}
      PROVE  Apart(c)
  <2>1. ASSUME NEW j \in 1..Len(c), NEW k \in 1..Len(c), j # k
        PROVE  Tasks(c[j]) \cap Tasks(c[k]) = {}
    <3>1. CASE j \in 1..Len(s) /\ k \in 1..Len(s)
      BY <1>1, <1>5, <2>1, <3>1 DEF Apart
    <3>2. CASE j \notin 1..Len(s) /\ k \notin 1..Len(s)
      <4>1. j - Len(s) # k - Len(s)
        BY <1>1, <2>1
      <4> QED BY <1>1, <1>5, <2>1, <3>2, <4>1 DEF Apart
    <3>3. CASE j \in 1..Len(s) /\ k \notin 1..Len(s)
      BY <1>1, <1>3, <1>5, <2>1, <3>3, TasksFacts DEF Held
    <3>4. CASE j \notin 1..Len(s) /\ k \in 1..Len(s)
      BY <1>1, <1>3, <1>5, <2>1, <3>4, TasksFacts DEF Held
    <3> QED BY <3>1, <3>2, <3>3, <3>4
  <2> QED BY <2>1 DEF Apart
<1> QED BY <1>4, <1>5 DEF c

\* An empty queue holds nothing.
LEMMA HeldEmpty == Held(<< >>) = {} /\ Apart(<< >>)
BY DEF Held, Apart

\* A queue of one batch holds its tasks.
LEMMA HeldSingle ==
  ASSUME NEW e \in Batches
  PROVE  Held(<<e>>) = Tasks(e) /\ Apart(<<e>>)
<1>1. Len(<<e>>) = 1 /\ <<e>>[1] = e /\ 1..1 = {1}
  OBVIOUS
<1> QED BY <1>1, TasksFacts DEF Held, Apart

\* A queue with a batch more holds its tasks as well.
LEMMA HeldAppend ==
  ASSUME NEW s \in Seq(Batches), NEW e \in Batches
  PROVE  /\ Held(Append(s, e)) = Held(s) \cup Tasks(e)
         /\ Apart(s) /\ Held(s) \cap Tasks(e) = {} => Apart(Append(s, e))
<1>1. Append(s, e) = s \o <<e>> /\ <<e>> \in Seq(Batches)
  OBVIOUS
<1> QED BY <1>1, HeldConcat, HeldSingle

\* retry_entries hands on exactly the tasks of the batch.
LEMMA HeldRetry ==
  ASSUME NEW e \in Batches
  PROVE  Held(RetryEntries(e)) = Tasks(e) /\ Apart(RetryEntries(e))
<1>1. Tasks(e) \subseteq AllTasks
  BY TasksFacts
<1> QED BY <1>1, RetryEntriesPartition DEF Held, Apart

\* make_batches hands out every task, and none twice.
LEMMA HeldMakeBatches ==
  /\ Held(MakeBatches(NTasks, BatchSize)) = AllTasks
  /\ Apart(MakeBatches(NTasks, BatchSize))
<1> DEFINE m == MakeBatches(NTasks, BatchSize)
           q == (NTasks + BatchSize - 1) \div BatchSize
<1>1. q \in Nat /\ NTasks <= q * BatchSize
  OBVIOUS
<1>2. /\ Len(m) = q
      /\ \A k \in 1..q : /\ m[k].lo = (k - 1) * BatchSize + 1
                         /\ m[k].hi = IF k * BatchSize < NTasks THEN k * BatchSize ELSE NTasks
  BY <1>1 DEF MakeBatches
<1> HIDE DEF m, q
<1>3. ASSUME NEW t \in AllTasks
      PROVE  \E k \in 1..Len(m) : t \in Tasks(m[k])
  <2> DEFINE k == (t - 1) \div BatchSize + 1
  <2>1. /\ k \in Nat \ {0}
        /\ (k - 1) * BatchSize <= t - 1 /\ t - 1 < (k - 1) * BatchSize + BatchSize
    BY DEF AllTasks
  <2> HIDE DEF k
  <2>2. k * BatchSize = (k - 1) * BatchSize + BatchSize
    BY <2>1
  <2>3. k <= q
    <3>1. SUFFICES ASSUME q <= k - 1 PROVE FALSE
      BY <1>1, <2>1
    <3>2. q * BatchSize <= (k - 1) * BatchSize
      BY <1>1, <2>1, <3>1, TimesMonotonic
    <3>3. (k - 1) * BatchSize \in Int /\ q * BatchSize \in Int
      BY <1>1, <2>1
    <3> QED BY <1>1, <2>1, <3>2, <3>3 DEF AllTasks
  <2>4. k * BatchSize \in Int /\ (k - 1) * BatchSize \in Int
    BY <2>1
  <2>5. k \in 1..Len(m)
    BY <1>1, <1>2, <2>1, <2>3
  <2>6. m[k].lo <= t /\ t <= m[k].hi
    BY <1>2, <2>1, <2>2, <2>4, <2>5 DEF AllTasks
  <2>7. m[k].lo \in Int /\ m[k].hi \in Int
    BY <1>2, <2>4, <2>5
  <2> QED BY <2>5, <2>6, <2>7 DEF Tasks, AllTasks
<1>4. ASSUME NEW j \in 1..Len(m), NEW k \in 1..Len(m), j < k
      PROVE  Tasks(m[j]) \cap Tasks(m[k]) = {}
  <2>1. j * BatchSize <= (k - 1) * BatchSize
    BY <1>1, <1>2, <1>4, TimesMonotonic
  <2>2. /\ j * BatchSize \in Int /\ (k - 1) * BatchSize \in Int /\ k * BatchSize \in Int
        /\ (j - 1) * BatchSize \in Int
    BY <1>1, <1>2
  <2>3. /\ m[j].hi <= j * BatchSize /\ m[k].lo = (k - 1) * BatchSize + 1
        /\ m[j].hi \in Int
    BY <1>2, <2>2
  <2>4. m[j].lo \in Int /\ m[k].lo \in Int /\ m[k].hi \in Int
    <3>1. j \in 1..q /\ k \in 1..q
      BY <1>2
    <3>2. m[j].lo \in Int
      BY <1>2, <2>2, <3>1
    <3>3. m[k].lo \in Int
      BY <1>2, <2>2, <3>1
    <3>4. m[k].hi \in Int
      BY <1>2, <2>2, <3>1
    <3> QED BY <3>2, <3>3, <3>4
  <2>5. m[j].hi < m[k].lo
    <3>1. \A a, b \in Int : a <= b => a < b + 1
      OBVIOUS
    <3>2. \A a, b, c \in Int : a <= b /\ b <= c => a <= c
      OBVIOUS
    <3> QED BY <2>1, <2>2, <2>3, <3>1, <3>2
  <2> QED BY <2>3, <2>4, <2>5 DEF Tasks
<1>5. Apart(m)
  <2>1. \A j, k \in 1..Len(m) : j # k => j < k \/ k < j
    BY <1>1, <1>2
  <2> QED BY <1>4, <2>1 DEF Apart
<1>6. Held(m) = AllTasks
  BY <1>3 DEF Held
<1> QED BY <1>5, <1>6 DEF m

-----------------------------------------------------------------------------
(* The calls. *)

\* Putting an entry, or nothing, on one slot.
LEMMA CalledExcept ==
  ASSUME NEW i \in Slots, call \in [Slots -> Calls], call' \in [Slots -> Calls],
         CallsApart,
         \A j \in Slots : j # i => call'[j] = call[j]
  PROVE  /\ Called' = (Called \ Tasks(call[i].e)) \cup Tasks(call'[i].e)
         /\ Tasks(call'[i].e) \cap (Called \ Tasks(call[i].e)) = {} => CallsApart'
<1>1. /\ \A j \in Slots : call[j].e \in Batches \cup {NoEntry}
      /\ \A j \in Slots : call'[j].e \in Batches \cup {NoEntry}
  BY DEF Calls, NoCall
<1>2. /\ \A j \in Slots : Tasks(call[j].e) \subseteq AllTasks
      /\ \A j \in Slots : Tasks(call'[j].e) \subseteq AllTasks
  BY <1>1, TasksFacts
<1>3. \A j \in Slots : j # i => Tasks(call'[j].e) = Tasks(call[j].e)
  OBVIOUS
<1>4. Called' = (Called \ Tasks(call[i].e)) \cup Tasks(call'[i].e)
  BY <1>2, <1>3 DEF Called, CallsApart
<1>5. ASSUME Tasks(call'[i].e) \cap (Called \ Tasks(call[i].e)) = {}
      PROVE  CallsApart'
  <2>1. \A j \in Slots : j # i => Tasks(call'[i].e) \cap Tasks(call'[j].e) = {}
    BY <1>2, <1>3, <1>5 DEF Called, CallsApart
  <2> QED BY <1>3, <2>1 DEF CallsApart
<1> QED BY <1>4, <1>5

\* Where AssignHead takes the tasks of the queue: to slot i, or back to the
\* queue.  The tasks slot i had are free of it.
LEMMA AssignHeadZones ==
  ASSUME NEW i \in Slots, NEW q \in Seq(Batches), call \in [Slots -> Calls],
         CallsApart, Apart(q), Held(q) \cap (Called \ Tasks(call[i].e)) = {},
         AssignHead(i, q)
  PROVE  /\ Apart(pending') /\ CallsApart'
         /\ Held(pending') \cap Called' = {}
         /\ Held(pending') \cup Called' = Held(q) \cup (Called \ Tasks(call[i].e))
<1>1. /\ pending' \in Seq(Batches) /\ call' \in [Slots -> Calls]
      /\ \A j \in Slots : j # i => call'[j] = call[j]
  BY AssignHeadType
<1>2. /\ Called' = (Called \ Tasks(call[i].e)) \cup Tasks(call'[i].e)
      /\ Tasks(call'[i].e) \cap (Called \ Tasks(call[i].e)) = {} => CallsApart'
  BY <1>1, CalledExcept
<1>3. CASE q = << >>
  <2>1. pending' = << >> /\ call'[i] = NoCall
    BY <1>3 DEF AssignHead
  <2>2. Tasks(call'[i].e) = {}
    BY <2>1, TasksFacts DEF NoCall
  <2> QED BY <1>2, <1>3, <2>1, <2>2, HeldEmpty
<1>4. CASE q # << >> /\ slot[i] = "none"
  <2>1. pending' = Append(Tail(q), Head(q)) /\ call'[i] = NoCall
    BY <1>4 DEF AssignHead
  <2>2. Tasks(call'[i].e) = {}
    BY <2>1, TasksFacts DEF NoCall
  <2>3. /\ Held(q) = Tasks(Head(q)) \cup Held(Tail(q))
        /\ Apart(Tail(q)) /\ Tasks(Head(q)) \cap Held(Tail(q)) = {}
        /\ Tail(q) \in Seq(Batches) /\ Head(q) \in Batches
    BY <1>4, HeldTail, HeadTailType
  <2>4. Held(pending') = Held(q) /\ Apart(pending')
    BY <2>1, <2>3, HeldAppend
  <2> QED BY <1>2, <2>2, <2>4
<1>5. CASE q # << >> /\ slot[i] # "none"
  <2>1. pending' = Tail(q) /\ call'[i].e = Head(q)
    BY <1>5 DEF AssignHead, NewCall
  <2>2. /\ Held(q) = Tasks(Head(q)) \cup Held(Tail(q))
        /\ Apart(Tail(q)) /\ Tasks(Head(q)) \cap Held(Tail(q)) = {}
    BY <1>5, HeldTail
  <2> QED BY <1>2, <2>1, <2>2
<1> QED BY <1>3, <1>4, <1>5

-----------------------------------------------------------------------------
(* What a step does to the zones. *)

\* Steps that move no task: a call may be answered or grow old meanwhile.
LEMMA SameZones ==
  ASSUME \A i \in Slots : call'[i].e = call[i].e,
         UNCHANGED <<pending, deferred, waiting, results>>,
         Tasks(job'.e) = Tasks(job.e)
  PROVE  /\ Recorded' = Recorded
         /\ OneEach => OneEach'
         /\ Divided => Divided'
<1>1. Called' = Called /\ Recorded' = Recorded
  BY DEF Called, Recorded
<1>2. CallsApart => CallsApart'
  BY DEF CallsApart
<1>3. OneEach => OneEach'
  BY DEF OneEach
<1>4. /\ Held(pending') = Held(pending) /\ Held(deferred') = Held(deferred)
      /\ Held(waiting') = Held(waiting)
      /\ Apart(pending') = Apart(pending) /\ Apart(deferred') = Apart(deferred)
      /\ Apart(waiting') = Apart(waiting)
  OBVIOUS
<1> QED BY <1>1, <1>2, <1>3, <1>4 DEF Divided, ZonesApart, ZonesCover

\* Recording open tasks gives each its one outcome.
LEMMA RecordOpen ==
  ASSUME NEW S, S \subseteq AllTasks \ Recorded, NEW outcome \in Outcomes,
         results \in [AllTasks -> Seq(Outcomes)], OneEach, Record(S, outcome)
  PROVE  /\ Recorded' = Recorded \cup S
         /\ OneEach'
         /\ \A t \in AllTasks : results'[t] = IF t \in S THEN <<outcome>> ELSE results[t]
<1>1. \A t \in AllTasks : results'[t] = IF t \in S THEN <<outcome>> ELSE results[t]
  <2>1. Append(<< >>, outcome) = <<outcome>>
    OBVIOUS
  <2>2. \A t \in S : results[t] = << >>
    BY DEF Recorded
  <2> QED BY <2>1, <2>2 DEF Record
<1>2. Len(<<outcome>>) = 1 /\ <<outcome>> # << >>
  OBVIOUS
<1>3. /\ \A t \in S : t \in AllTasks /\ results'[t] = <<outcome>>
      /\ \A t \in AllTasks : t \notin S => results'[t] = results[t]
  BY <1>1
<1> DEFINE o == <<outcome>>
<1>4. Len(o) = 1 /\ o # << >> /\ \A t \in S : results'[t] = o
  BY <1>2, <1>3
<1> HIDE DEF o
<1>5. OneEach'
  <2>1. ASSUME NEW t \in AllTasks, t \in S PROVE Len(results'[t]) <= 1
    <3>1. Len(results'[t]) = 1
      BY <1>4, <2>1
    <3> QED BY <3>1
  <2>2. ASSUME NEW t \in AllTasks, t \notin S PROVE Len(results'[t]) <= 1
    BY <1>3, <2>2 DEF OneEach
  <2> QED BY <2>1, <2>2 DEF OneEach
<1>6. Recorded' = Recorded \cup S
  BY <1>3, <1>4 DEF Recorded
<1> QED BY <1>1, <1>5, <1>6

\* The initial fill moves the first batches to the slots.
LEMMA FillZones ==
  ASSUME TypeOK, Fill, Active = {}, Divided
  PROVE  Divided'
<1> DEFINE n == Len(pending)
<1>1. /\ pending \in Seq(Batches) /\ n \in Nat
      /\ \A k \in 1..n : pending[k] \in Batches
  BY DEF TypeOK
<1>2. \A i \in Slots : /\ i \in Nat \ {0}
                       /\ i <= n => call'[i].e = pending[i]
                       /\ ~(i <= n) => call'[i].e = NoEntry
  BY DEF Fill, NewCall, NoCall, Slots
<1>3. /\ pending' \in Seq(Batches)
      /\ \A k \in 1..Len(pending') : k + NWorkers \in 1..n /\ pending'[k] = pending[k + NWorkers]
      /\ \A k \in 1..n : ~(k <= NWorkers) => k - NWorkers \in 1..Len(pending')
                                             /\ pending'[k - NWorkers] = pending[k]
  <2>1. CASE NWorkers < n
    BY <1>1, <2>1 DEF Fill
  <2>2. CASE ~(NWorkers < n)
    BY <1>1, <2>2 DEF Fill
  <2> QED BY <2>1, <2>2
<1>4. Called = {}
  <2>1. \A i \in Slots : Tasks(call[i].e) = {}
    BY TasksFacts DEF Active, NoCall
  <2> QED BY <2>1 DEF Called
<1>5. /\ Apart(pending)
      /\ Held(pending) \cap (Held(deferred) \cup Held(waiting) \cup Tasks(job.e)) = {}
  BY DEF Divided, ZonesApart
<1> HIDE DEF n
<1>6. \A k \in 1..n : k <= NWorkers => k \in Slots
  BY <1>1 DEF Slots
<1>7. \A i \in Slots : i <= NWorkers /\ (i <= n => i \in 1..n)
  BY <1>1, <1>2 DEF Slots
<1>8. Held(pending') \cup Called' = Held(pending)
  <2>1. ASSUME NEW t \in Held(pending) PROVE t \in Held(pending') \cup Called'
    <3>1. PICK k \in 1..n : t \in Tasks(pending[k])
      BY DEF Held, n
    <3>2. CASE k <= NWorkers
      BY <1>1, <1>2, <1>6, <3>1, <3>2, TasksFacts DEF Called
    <3>3. CASE ~(k <= NWorkers)
      BY <1>1, <1>3, <3>1, <3>3, TasksFacts DEF Held
    <3> QED BY <3>2, <3>3
  <2>2. Held(pending') \subseteq Held(pending)
    BY <1>3 DEF Held, n
  <2>3. Called' \subseteq Held(pending)
    BY <1>2, <1>7, TasksFacts DEF Called, Held, n
  <2> QED BY <2>1, <2>2, <2>3
<1>9. Held(pending') \cap Called' = {}
  <2>1. ASSUME NEW t \in Held(pending'), t \in Called' PROVE FALSE
    <3>1. PICK k \in 1..Len(pending') : t \in Tasks(pending'[k])
      BY <2>1 DEF Held
    <3>2. PICK i \in Slots : t \in Tasks(call'[i].e)
      BY <2>1 DEF Called
    <3>3. i <= n /\ t \in Tasks(pending[i])
      BY <1>2, <3>2, TasksFacts
    <3>4. k + NWorkers \in 1..n /\ t \in Tasks(pending[k + NWorkers])
      BY <1>3, <3>1
    <3>5. i # k + NWorkers
      <4>1. k \in Nat \ {0} /\ i <= NWorkers /\ i \in Nat
        BY <1>2, <1>3, <1>7
      <4> QED BY <4>1
    <3> QED BY <1>5, <1>7, <3>3, <3>4, <3>5 DEF Apart, n
  <2> QED BY <2>1
<1>10. Apart(pending')
  <2>1. \A j, k \in 1..Len(pending') : j # k => j + NWorkers # k + NWorkers
    BY <1>3
  <2> QED BY <1>3, <1>5, <2>1 DEF Apart, n
<1>11. CallsApart'
  <2>1. ASSUME NEW i \in Slots, NEW j \in Slots, i # j
        PROVE  Tasks(call'[i].e) \cap Tasks(call'[j].e) = {}
    BY <1>2, <1>5, <1>7, <2>1, TasksFacts DEF Apart, n
  <2> QED BY <2>1 DEF CallsApart
<1>12. /\ deferred' = deferred /\ waiting' = waiting /\ job' = job
       /\ Recorded' = Recorded
  BY DEF Fill, Recorded
<1> QED BY <1>4, <1>8, <1>9, <1>10, <1>11, <1>12 DEF Divided, ZonesApart, ZonesCover

Accounted == OneEach /\ IF LoopLeft THEN Recorded = AllTasks ELSE Divided

\* Steps that move no task and do not leave the loop.
LEMMA SameAccounted ==
  ASSUME Accounted,
         \A i \in Slots : call'[i].e = call[i].e,
         UNCHANGED <<pending, deferred, waiting, results>>,
         Tasks(job'.e) = Tasks(job.e),
         LoopLeft' = LoopLeft
  PROVE  Accounted'
BY SameZones DEF Accounted

\* A step that moves batches between the zones, given where they went.
LEMMA MovedAccounted ==
  ASSUME OneEach, Divided, ~LoopLeft', results' = results,
         Apart(pending'), Apart(deferred'), Apart(waiting'), CallsApart',
         ZonesApart',
         Held(pending') \cup Held(deferred') \cup Held(waiting') \cup Called' \cup Tasks(job'.e)
           = Held(pending) \cup Held(deferred) \cup Held(waiting) \cup Called \cup Tasks(job.e)
  PROVE  Accounted'
BY DEF Accounted, OneEach, Divided, ZonesCover, Recorded

\* No task is lost, shared or recorded twice by any step.
LEMMA AccountedNext ==
  ASSUME IInv, Accounted, Aside, [Next]_vars
  PROVE  Accounted'
<1>0. /\ TypeOK /\ PoolTypeOK /\ NoCallOnEmptySlot /\ JobInHand /\ SnapshotValid
      /\ results \in [AllTasks -> Seq(Outcomes)] /\ call \in [Slots -> Calls]
      /\ pending \in Seq(Batches) /\ deferred \in Seq(Batches) /\ waiting \in Seq(Batches)
  BY DEF IInv, TypeOK, DriverConsistent
<1>a. /\ \A i \in Slots : call[i].e \in Batches \cup {NoEntry}
      /\ \A i \in Slots : call[i] # NoCall => call[i].e \in Batches
      /\ \A i \in Slots : Tasks(call[i].e) \subseteq Called
      /\ NoCall.e = NoEntry /\ Tasks(NoEntry) = {} /\ NoJob.e = NoEntry
  <2>1. \A i \in Slots : call[i].e \in Batches \cup {NoEntry}
    BY <1>0 DEF Calls, NoCall
  <2>2. \A i \in Slots : call[i] # NoCall => call[i].e \in Batches
    BY <1>0 DEF Calls
  <2>3. \A i \in Slots : Tasks(call[i].e) \subseteq Called
    BY <2>1, TasksFacts DEF Called
  <2> QED BY <2>1, <2>2, <2>3, TasksFacts DEF NoCall, NoJob
<1>b. ~LoopLeft => OneEach /\ Divided
  BY DEF Accounted
<1>c. Divided => /\ Held(pending) \subseteq AllTasks \ Recorded
                 /\ Held(deferred) \subseteq AllTasks \ Recorded
                 /\ Called \subseteq AllTasks \ Recorded
                 /\ Tasks(job.e) \subseteq AllTasks \ Recorded
  BY DEF Divided, ZonesCover
<1>1. CASE Fill
  <2>1. Divided'
    BY <1>0, <1>1, <1>b, FillZones DEF Fill, Aside, LoopLeft
  <2>2. OneEach'
    BY <1>1, <1>b DEF Fill, OneEach, LoopLeft
  <2>3. ~LoopLeft'
    BY <1>1 DEF Fill, LoopLeft
  <2> QED BY <2>1, <2>2, <2>3 DEF Accounted
<1>2. CASE \/ EnterLoop \/ PollRefill \/ EndPoll \/ EndDispatch \/ Sleep \/ WaitTimeout
           \/ Probe \/ ReplaceFromPool \/ ReplaceBlocking \/ BlockingReplace
           \/ BeginScan \/ EndScan \/ CollectStats \/ StatsRaise \/ IdleStandbyCrash
           \/ UNCHANGED vars \/ (\E i \in Slots : Crash(i) \/ Wedge(i))
  <2>1. UNCHANGED <<pending, deferred, waiting, call, job, results>>
    BY <1>2 DEF EnterLoop, PollRefill, EndPoll, EndDispatch, Sleep, WaitTimeout,
       Probe, ReplaceFromPool, ReplaceBlocking, BlockingReplace, BeginScan, EndScan,
       CollectStats, StatsRaise, IdleStandbyCrash, Crash, Wedge, vars, driverVars
  <2>2. LoopLeft' = LoopLeft
    BY <1>2 DEF EnterLoop, PollRefill, EndPoll, EndDispatch, Sleep, WaitTimeout,
       Probe, ReplaceFromPool, ReplaceBlocking, BlockingReplace, BeginScan, EndScan,
       CollectStats, StatsRaise, IdleStandbyCrash, Crash, Wedge, vars, driverVars,
       LoopLeft, AfterReplace
  <2> QED BY <2>1, <2>2, SameAccounted
<1>3. ASSUME NEW i \in Slots,
             \/ Complete(i) \/ FailDeterministic(i) \/ FailTransient(i) \/ FailFatal(i)
             \/ FailOnDeadActor(i) \/ Age(i)
      PROVE  Accounted'
  <2>1. /\ UNCHANGED <<pending, deferred, waiting, job, results, pc>>
        /\ \A j \in Slots : call'[j].e = call[j].e
    <3>1. \E c \in {Answer(call[i], st) : st \in Answered} \cup {Aged(call[i])} :
             call' = [call EXCEPT ![i] = c]
      BY <1>3 DEF Complete, FailDeterministic, FailTransient, FailFatal, AnswerCall,
         FailOnDeadActor, Age, Answered
    <3>2. \A j \in Slots : call'[j].e = call[j].e
      BY <1>0, <3>1 DEF Answer, Aged
    <3> QED BY <1>3, <3>2 DEF Complete, FailDeterministic, FailTransient, FailFatal,
         AnswerCall, FailOnDeadActor, Age
  <2>2. LoopLeft' = LoopLeft
    BY <2>1 DEF LoopLeft
  <2> QED BY <2>1, <2>2, SameAccounted
<1>4. CASE LeaveLoop
  <2>1. /\ pending = << >> /\ deferred = << >> /\ waiting = << >> /\ Active = {}
        /\ job = NoJob /\ results' = results /\ LoopLeft' /\ ~LoopLeft
    BY <1>0, <1>4 DEF LeaveLoop, WorkLeft, Aside, JobInHand, HandlingSteps, LoopLeft
  <2>2. Called = {}
    BY <1>a, <2>1 DEF Called, Active
  <2>3. Recorded = AllTasks
    BY <1>a, <1>b, <2>1, <2>2, HeldEmpty DEF Divided, ZonesCover, Recorded
  <2> QED BY <1>b, <2>1, <2>3 DEF Accounted, OneEach, Recorded
<1>5. CASE Abort
  <2> DEFINE S == {t \in AllTasks : Undispatched(t)}
  <2>1. /\ waiting = << >> /\ job = NoJob /\ LoopLeft' /\ ~LoopLeft
        /\ Record(S, "undispatched") /\ \A i \in Slots : call[i] = NoCall
    BY <1>0, <1>5 DEF Abort, Aside, JobInHand, HandlingSteps, LoopLeft, NoCallOnEmptySlot, AllDead
  <2>2. Called = {}
    BY <1>a, <2>1 DEF Called
  <2>3. S = Held(pending) \cup Held(deferred)
    BY DEF Undispatched, Held
  <2>4. S = AllTasks \ Recorded
    BY <1>a, <1>b, <2>1, <2>2, <2>3, HeldEmpty DEF Divided, ZonesCover
  <2> HIDE DEF S
  <2>5. Recorded' = Recorded \cup S /\ OneEach'
    BY <1>0, <1>b, <2>1, <2>4, RecordOpen DEF Outcomes
  <2> QED BY <2>1, <2>4, <2>5 DEF Accounted, Recorded
<1>6. CASE PromoteDue
  <2>1. /\ Head(deferred) \in Batches /\ Tail(deferred) \in Seq(Batches)
        /\ Held(deferred) = Tasks(Head(deferred)) \cup Held(Tail(deferred))
        /\ Apart(deferred) => Apart(Tail(deferred)) /\ Tasks(Head(deferred)) \cap Held(Tail(deferred)) = {}
    BY <1>0, <1>6, HeldTail, HeadTailType DEF PromoteDue
  <2>2. /\ Held(pending') = Held(pending) \cup Tasks(Head(deferred))
        /\ Apart(pending) /\ Held(pending) \cap Tasks(Head(deferred)) = {} => Apart(pending')
    BY <1>0, <1>6, <2>1, HeldAppend DEF PromoteDue
  <2>3. deferred' = Tail(deferred) /\ ~LoopLeft /\ ~LoopLeft' /\ UNCHANGED <<waiting, call, job, results>>
    BY <1>6 DEF PromoteDue, LoopLeft
  <2>4. Called' = Called /\ CallsApart' = CallsApart
    BY <2>3 DEF Called, CallsApart
  <2> QED BY <1>b, <2>1, <2>2, <2>3, <2>4, MovedAccounted DEF Divided, ZonesApart
<1>7. CASE PromoteNotDue
  <2>1. /\ Head(deferred) \in Batches /\ Tail(deferred) \in Seq(Batches)
        /\ Held(deferred) = Tasks(Head(deferred)) \cup Held(Tail(deferred))
        /\ Apart(deferred) => Apart(Tail(deferred)) /\ Tasks(Head(deferred)) \cap Held(Tail(deferred)) = {}
    BY <1>0, <1>7, HeldTail, HeadTailType DEF PromoteNotDue
  <2>2. /\ Held(waiting') = Held(waiting) \cup Tasks(Head(deferred))
        /\ Apart(waiting) /\ Held(waiting) \cap Tasks(Head(deferred)) = {} => Apart(waiting')
    BY <1>0, <1>7, <2>1, HeldAppend DEF PromoteNotDue
  <2>3. deferred' = Tail(deferred) /\ ~LoopLeft /\ ~LoopLeft' /\ UNCHANGED <<pending, call, job, results>>
    BY <1>7 DEF PromoteNotDue, LoopLeft
  <2>4. Called' = Called /\ CallsApart' = CallsApart
    BY <2>3 DEF Called, CallsApart
  <2> QED BY <1>b, <2>1, <2>2, <2>3, <2>4, MovedAccounted DEF Divided, ZonesApart
<1>8. CASE EndPromote
  <2>1. /\ deferred = << >> /\ deferred' = waiting /\ waiting' = << >>
        /\ ~LoopLeft /\ ~LoopLeft' /\ UNCHANGED <<pending, call, job, results>>
    BY <1>8 DEF EndPromote, LoopLeft
  <2>2. Called' = Called /\ CallsApart' = CallsApart
    BY <2>1 DEF Called, CallsApart
  <2> QED BY <1>b, <2>1, <2>2, HeldEmpty, MovedAccounted DEF Divided, ZonesApart
<1>9. CASE Dispatch
  <2>1. PICK i \in Slots : Idle(i) /\ call' = [call EXCEPT ![i] = NewCall(Head(pending))]
    BY <1>9 DEF Dispatch
  <2>2. /\ pending # << >> /\ pending' = Tail(pending) /\ ~LoopLeft /\ ~LoopLeft'
        /\ UNCHANGED <<deferred, waiting, job, results>>
    BY <1>9 DEF Dispatch, LoopLeft
  <2>3. /\ Held(pending) = Tasks(Head(pending)) \cup Held(Tail(pending))
        /\ Apart(pending) => Apart(Tail(pending)) /\ Tasks(Head(pending)) \cap Held(Tail(pending)) = {}
        /\ Head(pending) \in Batches
    BY <1>0, <2>2, HeldTail, HeadTailType
  <2>4. /\ call' \in [Slots -> Calls] /\ \A j \in Slots : j # i => call'[j] = call[j]
        /\ call'[i].e = Head(pending) /\ Tasks(call[i].e) = {}
    BY <1>0, <1>a, <2>1, <2>3 DEF NewCall, Calls, Idle
  <2>5. /\ Called' = Called \cup Tasks(Head(pending))
        /\ Tasks(Head(pending)) \cap Called = {} => CallsApart'
    BY <1>0, <1>b, <2>2, <2>4, CalledExcept DEF Divided
  <2> QED BY <1>b, <2>2, <2>3, <2>5, MovedAccounted DEF Divided, ZonesApart
<1>10. ASSUME NEW i \in Slots, HarvestSuccess(i) PROVE Accounted'
  <2> DEFINE S == Tasks(call[i].e)
  <2>1. /\ ~LoopLeft /\ ~LoopLeft' /\ UNCHANGED <<deferred, waiting, job>>
        /\ Record(S, "ok") /\ AssignHead(i, pending)
    BY <1>10 DEF HarvestSuccess, LoopLeft
  <2>2. S \subseteq Called /\ S \subseteq AllTasks \ Recorded
    BY <1>a, <1>b, <1>c, <2>1
  <2>3. Recorded' = Recorded \cup S /\ OneEach'
    BY <1>0, <1>b, <2>1, <2>2, RecordOpen DEF Outcomes
  <2>4. /\ Apart(pending') /\ CallsApart' /\ Held(pending') \cap Called' = {}
        /\ Held(pending') \cup Called' = Held(pending) \cup (Called \ S)
    BY <1>0, <1>b, <2>1, AssignHeadZones DEF Divided, ZonesApart
  <2> HIDE DEF S
  <2>5. ZonesApart' /\ ZonesCover'
    BY <1>b, <2>1, <2>2, <2>3, <2>4 DEF Divided, ZonesApart, ZonesCover
  <2> QED BY <1>b, <2>1, <2>3, <2>4, <2>5 DEF Accounted, Divided
<1>11. ASSUME NEW i \in Slots, HarvestFailure(i) PROVE Accounted'
  <2>1. /\ ~LoopLeft /\ ~LoopLeft' /\ UNCHANGED <<pending, deferred, waiting, results>>
        /\ job'.e = call[i].e /\ job = NoJob
        /\ call' = [call EXCEPT ![i] = NoCall]
    BY <1>0, <1>11 DEF HarvestFailure, LoopLeft, JobInHand, HandlingSteps
  <2>2. /\ call' \in [Slots -> Calls] /\ \A j \in Slots : j # i => call'[j] = call[j]
        /\ Tasks(call'[i].e) = {} /\ Tasks(job.e) = {}
    BY <1>0, <1>a, <2>1 DEF Calls
  <2>3. Called' = Called \ Tasks(call[i].e) /\ (CallsApart => CallsApart')
    BY <1>0, <2>2, CalledExcept, <1>b, <2>1 DEF Divided
  <2> QED BY <1>a, <1>b, <2>1, <2>2, <2>3, MovedAccounted DEF Divided, ZonesApart
<1>12. ASSUME RetryLater \/ FailTerminally \/ Reassign
       PROVE  /\ job.slot \in Slots /\ Tasks(call[job.slot].e) = {} /\ Tasks(job'.e) = {}
              /\ ~LoopLeft /\ ~LoopLeft' /\ waiting' = waiting
              /\ Apart(pending') /\ CallsApart' /\ Held(pending') \cap Called' = {}
              /\ Held(pending') \cup Called' = Held(pending) \cup Called
  <2>1. /\ AssignHead(job.slot, pending) /\ job' = NoJob /\ ~LoopLeft /\ ~LoopLeft'
        /\ waiting' = waiting /\ job # NoJob /\ call[job.slot] = NoCall
    BY <1>0, <1>12 DEF RetryLater, FailTerminally, Reassign, LoopLeft, JobInHand, HandlingSteps
  <2>2. job.slot \in Slots
    BY <1>0, <2>1 DEF TypeOK, Jobs, FailedJobs, HungJobs
  <2>3. Tasks(call[job.slot].e) = {} /\ Tasks(job'.e) = {}
    BY <1>a, <2>1
  <2>4. /\ Apart(pending') /\ CallsApart' /\ Held(pending') \cap Called' = {}
        /\ Held(pending') \cup Called' = Held(pending) \cup (Called \ Tasks(call[job.slot].e))
    BY <1>0, <1>b, <2>1, <2>2, AssignHeadZones DEF Divided, ZonesApart
  <2> QED BY <2>1, <2>2, <2>3, <2>4
<1>13. CASE RetryLater
  <2>1. /\ deferred' = deferred \o RetryEntries(job.e) /\ results' = results
        /\ job.e \in Batches
    BY <1>0, <1>13 DEF RetryLater, TypeOK, JobInHand, HandlingSteps, Jobs, FailedJobs, HungJobs
  <2>2. /\ Held(deferred') = Held(deferred) \cup Tasks(job.e)
        /\ Apart(deferred) /\ Held(deferred) \cap Tasks(job.e) = {} => Apart(deferred')
    BY <1>0, <2>1, RetryEntriesType, HeldRetry, HeldConcat
  <2> QED BY <1>b, <1>12, <1>13, <2>1, <2>2, MovedAccounted DEF Divided, ZonesApart
<1>14. CASE FailTerminally
  <2>1. /\ deferred' = deferred /\ Record(Tasks(job.e), job.kind) /\ job.kind \in Outcomes
    BY <1>0, <1>14 DEF FailTerminally, TypeOK, JobInHand, HandlingSteps, Jobs, FailedJobs, HungJobs, Outcomes
  <2>2. Recorded' = Recorded \cup Tasks(job.e) /\ OneEach'
    BY <1>0, <1>b, <1>c, <1>12, <1>14, <2>1, RecordOpen
  <2>3. ZonesApart' /\ ZonesCover'
    BY <1>b, <1>12, <1>14, <2>1, <2>2 DEF Divided, ZonesApart, ZonesCover
  <2> QED BY <1>b, <1>12, <1>14, <2>1, <2>2, <2>3 DEF Accounted, Divided
<1>15. CASE Reassign
  <2>1. UNCHANGED <<deferred, results>> /\ job.e = NoEntry
    BY <1>0, <1>15 DEF Reassign, TypeOK, JobInHand, HandlingSteps, Jobs, FailedJobs, HungJobs, NoJob
  <2> QED BY <1>a, <1>b, <1>12, <1>15, <2>1, MovedAccounted DEF Divided, ZonesApart
<1>16. ASSUME NEW i \in Slots, Evict(i) PROVE Accounted'
  <2> DEFINE e == call[i].e
  <2>1. /\ ~LoopLeft /\ ~LoopLeft' /\ UNCHANGED <<deferred, waiting>>
        /\ job = NoJob /\ job'.e = NoEntry /\ e \in Batches
        /\ call' = [call EXCEPT ![i] = NoCall]
    BY <1>0, <1>a, <1>16 DEF Evict, LoopLeft, JobInHand, HandlingSteps, SnapshotValid
  <2>2. /\ call' \in [Slots -> Calls] /\ \A j \in Slots : j # i => call'[j] = call[j]
        /\ Tasks(call'[i].e) = {} /\ Tasks(job.e) = {} /\ Tasks(job'.e) = {}
    BY <1>0, <1>a, <2>1 DEF Calls
  <2>3. Called' = Called \ Tasks(e) /\ CallsApart'
    BY <1>0, <2>2, CalledExcept, <1>b, <2>1 DEF Divided
  <2>4. Tasks(e) \subseteq Called
    BY <1>a
  <2>5. Requeue(e)
    BY <1>16 DEF Evict
  <2> HIDE DEF e
  <2>6. CASE e.rc < Budget(e)
    <3>1. pending' = pending \o RetryEntries(e) /\ results' = results
      BY <2>5, <2>6 DEF Requeue
    <3>2. /\ Held(pending') = Held(pending) \cup Tasks(e)
          /\ Apart(pending) /\ Held(pending) \cap Tasks(e) = {} => Apart(pending')
      BY <1>0, <2>1, <3>1, RetryEntriesType, HeldRetry, HeldConcat
    <3> QED BY <1>b, <2>1, <2>2, <2>3, <2>4, <3>1, <3>2, MovedAccounted DEF Divided, ZonesApart
  <2>7. CASE ~(e.rc < Budget(e))
    <3>1. pending' = pending /\ Record(Tasks(e), "hung")
      BY <2>5, <2>7 DEF Requeue
    <3>2. Recorded' = Recorded \cup Tasks(e) /\ OneEach'
      BY <1>0, <1>b, <1>c, <2>1, <2>4, <3>1, RecordOpen DEF Outcomes
    <3>3. ZonesApart' /\ ZonesCover'
      BY <1>b, <2>1, <2>2, <2>3, <2>4, <3>1, <3>2 DEF Divided, ZonesApart, ZonesCover
    <3> QED BY <1>b, <2>1, <2>3, <3>1, <3>2, <3>3 DEF Accounted, Divided
  <2> QED BY <2>6, <2>7
<1>17. CASE DriverNext
  BY <1>1, <1>2, <1>4, <1>5, <1>6, <1>7, <1>8, <1>9, <1>10, <1>11, <1>13, <1>14, <1>15,
     <1>16, <1>17 DEF DriverNext
<1>18. CASE WorkerNext
  BY <1>2, <1>3, <1>18 DEF WorkerNext
<1> QED BY <1>2, <1>17, <1>18 DEF Next, Finished

\* A slot has a call, or not, and is empty, or not, whatever workers do.
LEMMA WorkersKeepSlots ==
  ASSUME TypeOK, WorkerNext
  PROVE  /\ UNCHANGED <<pc, pending, deferred, waiting, job, todo, results>>
         /\ \A i \in Slots : /\ call'[i] = NoCall <=> call[i] = NoCall
                             /\ slot'[i] = "none" <=> slot[i] = "none"
         /\ Yielding
<1>0. call \in [Slots -> Calls] /\ slot \in [Slots -> WorkerStates \cup {"none"}]
  BY DEF TypeOK, PoolTypeOK
<1>1. ASSUME NEW i \in Slots, NEW st \in Answered, NEW s \in WorkerStates, AnswerCall(i, st, s)
      PROVE  /\ UNCHANGED <<pc, pending, deferred, waiting, job, todo, results>>
             /\ \A j \in Slots : /\ call'[j] = NoCall <=> call[j] = NoCall
                                 /\ slot'[j] = "none" <=> slot[j] = "none"
             /\ Yielding
  <2>1. call[i] # NoCall /\ Answer(call[i], st) # NoCall
    BY <1>1 DEF AnswerCall, Answer, NoCall, Answered
  <2>2. call' = [call EXCEPT ![i] = Answer(call[i], st)] /\ slot' = [slot EXCEPT ![i] = s]
        /\ slot[i] # "none" /\ s # "none"
    BY <1>1 DEF AnswerCall, WorkerStates
  <2>3. \A j \in Slots : call'[j] = IF j = i THEN Answer(call[i], st) ELSE call[j]
    BY <1>0, <2>2
  <2>4. \A j \in Slots : slot'[j] = IF j = i THEN s ELSE slot[j]
    BY <1>0, <2>2
  <2> QED BY <1>1, <2>1, <2>2, <2>3, <2>4 DEF AnswerCall
<1>2. ASSUME NEW i \in Slots, Complete(i) \/ FailDeterministic(i) \/ FailTransient(i) \/ FailFatal(i)
      PROVE  \E st \in Answered, s \in WorkerStates : AnswerCall(i, st, s)
  BY <1>2 DEF Complete, FailDeterministic, FailTransient, FailFatal, Answered,
       AnswerCall, WorkerStates, Recovered
<1>3. ASSUME NEW i \in Slots, Crash(i) \/ Wedge(i) \/ FailOnDeadActor(i) \/ Age(i)
      PROVE  /\ UNCHANGED <<pc, pending, deferred, waiting, job, todo, results>>
             /\ \A j \in Slots : /\ call'[j] = NoCall <=> call[j] = NoCall
                                 /\ slot'[j] = "none" <=> slot[j] = "none"
             /\ Yielding
  <2>1. CASE Crash(i) \/ Wedge(i)
    BY <1>0, <2>1 DEF Crash, Wedge, driverVars
  <2>2. CASE FailOnDeadActor(i) \/ Age(i)
    <3>1. PICK c \in {Answer(call[i], "transient"), Aged(call[i])} : call' = [call EXCEPT ![i] = c]
      BY <2>2 DEF FailOnDeadActor, Age
    <3>2. call[i].st # "idle" /\ c.st # "idle"
      BY <2>2, <3>1 DEF FailOnDeadActor, Age, Answer, Aged, Answered
    <3>3. call[i] # NoCall /\ c # NoCall
      BY <3>2 DEF NoCall
    <3>4. \A j \in Slots : call'[j] = IF j = i THEN c ELSE call[j]
      BY <1>0, <3>1
    <3> QED BY <2>2, <3>3, <3>4 DEF FailOnDeadActor, Age, poolVars
  <2> QED BY <1>3, <2>1, <2>2
<1>4. CASE IdleStandbyCrash
  BY <1>4 DEF IdleStandbyCrash, StandbyCrash, driverVars
<1>5. CASE \E i \in Slots : Complete(i) \/ FailDeterministic(i) \/ FailTransient(i) \/ FailFatal(i)
  <2>1. PICK i \in Slots : Complete(i) \/ FailDeterministic(i) \/ FailTransient(i) \/ FailFatal(i)
    BY <1>5
  <2>2. PICK st \in Answered, s \in WorkerStates : AnswerCall(i, st, s)
    BY <1>2, <2>1
  <2> QED BY <1>1, <2>2
<1> QED BY <1>3, <1>4, <1>5 DEF WorkerNext

\* What is set aside is set aside by one place at a time.
LEMMA AsideNext ==
  ASSUME IInv, Aside, [Next]_vars
  PROVE  Aside'
<1>0. TypeOK
  BY DEF IInv
<1>1. CASE WorkerNext
  BY <1>0, <1>1, WorkersKeepSlots DEF Aside, Active, AllDead, Yielding
<1>2. CASE UNCHANGED vars
  BY <1>2 DEF Aside, Active, AllDead, vars, driverVars, poolVars
<1>3. ASSUME NEW i \in Slots, HarvestSuccess(i) \/ HarvestFailure(i) \/ Evict(i)
      PROVE  Aside'
  BY <1>3 DEF HarvestSuccess, HarvestFailure, Evict, Aside
<1>4. CASE \/ Fill \/ EnterLoop \/ LeaveLoop \/ PollRefill \/ EndPoll \/ Abort
           \/ EndDispatch \/ Sleep \/ WaitTimeout
           \/ Probe \/ ReplaceFromPool \/ ReplaceBlocking \/ BlockingReplace
           \/ RetryLater \/ FailTerminally \/ BeginScan \/ Reassign \/ EndScan
           \/ CollectStats \/ StatsRaise
  <2>1. waiting' = waiting /\ pc' \notin {"fill", "dispatch"} /\ (pc = "promote" => waiting = << >> \/ ~AllDead)
    BY <1>4 DEF Fill, EnterLoop, LeaveLoop, PollRefill, EndPoll, Abort, EndDispatch,
       Sleep, WaitTimeout, Probe, ReplaceFromPool, ReplaceBlocking, BlockingReplace,
       RetryLater, FailTerminally, BeginScan, Reassign, EndScan, CollectStats, StatsRaise,
       AfterReplace, Aside, driverVars
  <2>2. waiting = << >>
    BY <1>4 DEF Fill, EnterLoop, LeaveLoop, PollRefill, EndPoll, Abort, EndDispatch,
       Sleep, WaitTimeout, Probe, ReplaceFromPool, ReplaceBlocking, BlockingReplace,
       RetryLater, FailTerminally, BeginScan, Reassign, EndScan, CollectStats, StatsRaise,
       Aside
  <2> QED BY <2>1, <2>2 DEF Aside
<1>5. CASE PromoteDue \/ PromoteNotDue \/ EndPromote \/ Dispatch
  BY <1>5 DEF PromoteDue, PromoteNotDue, EndPromote, Dispatch, poolVars, Aside, AllDead
<1>6. CASE DriverNext
  BY <1>3, <1>4, <1>5, <1>6 DEF DriverNext
<1> QED BY <1>1, <1>2, <1>6 DEF Next, Finished

\* The loop waits or sleeps only when it should.
LEMMA WorkNext ==
  ASSUME IInv, Aside, HasWork, NeverIdleWithWork, [Next]_vars
  PROVE  HasWork' /\ NeverIdleWithWork'
<1>0. /\ TypeOK /\ NoCallOnEmptySlot
      /\ call \in [Slots -> Calls] /\ pending \in Seq(Batches) /\ deferred \in Seq(Batches)
      /\ waiting \in Seq(Batches)
  BY DEF IInv, TypeOK
<1>1. CASE WorkerNext
  <2>1. Active' = Active /\ \A i \in Slots : Idle(i)' <=> Idle(i)
    BY <1>0, <1>1, WorkersKeepSlots DEF Active, Idle
  <2>2. UNCHANGED <<pc, pending, deferred, waiting>>
    BY <1>0, <1>1, WorkersKeepSlots
  <2> QED BY <2>1, <2>2 DEF HasWork, NeverIdleWithWork
<1>2. CASE UNCHANGED vars
  BY <1>2 DEF HasWork, NeverIdleWithWork, Active, Idle, vars, driverVars, poolVars
<1>3. ASSUME NEW i \in Slots, HarvestSuccess(i) \/ HarvestFailure(i) \/ Evict(i)
      PROVE  HasWork' /\ NeverIdleWithWork'
  BY <1>3 DEF HarvestSuccess, HarvestFailure, Evict, HasWork, NeverIdleWithWork
<1>4. CASE \/ Fill \/ LeaveLoop \/ Abort \/ Sleep \/ WaitTimeout
           \/ Probe \/ ReplaceFromPool \/ ReplaceBlocking \/ BlockingReplace
           \/ RetryLater \/ FailTerminally \/ BeginScan \/ Reassign \/ EndScan
           \/ CollectStats \/ StatsRaise
  <2>1. pc' \notin {"poll", "promote", "dispatch", "wait", "sleep"}
    BY <1>4 DEF Fill, LeaveLoop, Abort, Sleep, WaitTimeout, Probe, ReplaceFromPool,
       ReplaceBlocking, BlockingReplace, RetryLater, FailTerminally, BeginScan, Reassign,
       EndScan, CollectStats, StatsRaise, AfterReplace
  <2> QED BY <2>1 DEF HasWork, NeverIdleWithWork
<1>5. CASE EnterLoop \/ PollRefill \/ EndPoll
  BY <1>5 DEF EnterLoop, PollRefill, EndPoll, WorkLeft, driverVars, HasWork,
     NeverIdleWithWork, Active
<1>6. CASE PromoteDue \/ PromoteNotDue
  <2>1. pc' = "promote" /\ (pending' # << >> \/ waiting' # << >>)
    BY <1>0, <1>6, HeadTailType DEF PromoteDue, PromoteNotDue
  <2> QED BY <2>1 DEF HasWork, NeverIdleWithWork
<1>7. CASE EndPromote
  BY <1>7 DEF EndPromote, HasWork, NeverIdleWithWork, Active
<1>8. CASE Dispatch
  <2>1. PICK i \in Slots : call' = [call EXCEPT ![i] = NewCall(Head(pending))]
    BY <1>8 DEF Dispatch
  <2>2. i \in Active'
    BY <1>0, <2>1 DEF Active, NewCall, NoCall
  <2> QED BY <1>8, <2>2 DEF Dispatch, HasWork, NeverIdleWithWork
<1>9. CASE EndDispatch
  <2>1. UNCHANGED <<pending, deferred, waiting, call, slot>> /\ ~AllDead /\ waiting = << >>
    BY <1>9 DEF EndDispatch, poolVars, Aside
  <2>2. CASE Active = {}
    <3>1. \E i \in Slots : Idle(i)
      BY <2>1, <2>2 DEF AllDead, Active, Idle
    <3>2. pending = << >> /\ deferred # << >> /\ pc' = "sleep"
      BY <1>9, <2>1, <2>2, <3>1 DEF EndDispatch, HasWork
    <3> QED BY <2>1, <3>2 DEF HasWork, NeverIdleWithWork
  <2>3. CASE Active # {}
    BY <1>9, <2>1, <2>3 DEF EndDispatch, HasWork, NeverIdleWithWork, Idle
  <2> QED BY <2>2, <2>3
<1>10. CASE DriverNext
  BY <1>3, <1>4, <1>5, <1>6, <1>7, <1>8, <1>9, <1>10 DEF DriverNext
<1> QED BY <1>1, <1>2, <1>10 DEF Next, Finished

-----------------------------------------------------------------------------
(* The accounting holds throughout. *)

LInv == IInv /\ Accounted /\ Aside /\ HasWork /\ NeverIdleWithWork

\* All tasks are in the batches made at the start.
LEMMA InitLInv == Init => LInv
<1> SUFFICES ASSUME Init PROVE LInv
  OBVIOUS
<1>1. IInv
  BY InitIInv
<1>2. /\ pc = "fill" /\ pending = MakeBatches(NTasks, BatchSize) /\ deferred = << >>
      /\ waiting = << >> /\ job = NoJob /\ results = [t \in AllTasks |-> << >>]
      /\ \A i \in Slots : call[i] = NoCall
  BY DEF Init
<1>3. Called = {} /\ CallsApart /\ Tasks(job.e) = {}
  BY <1>2, TasksFacts DEF NoCall, NoJob, Called, CallsApart
<1>4. Recorded = {}
  BY <1>2 DEF Recorded
<1>5. OneEach
  BY <1>2 DEF OneEach
<1>6. Divided
  BY <1>2, <1>3, <1>4, HeldMakeBatches, HeldEmpty DEF Divided, ZonesApart, ZonesCover
<1>7. Aside /\ HasWork /\ NeverIdleWithWork /\ ~LoopLeft
  BY <1>2 DEF Aside, HasWork, NeverIdleWithWork, LoopLeft, Active
<1> QED BY <1>1, <1>5, <1>6, <1>7 DEF LInv, Accounted

\* Every step moves tasks between places and loses none.
LEMMA NextLInv == LInv /\ [Next]_vars => LInv'
BY NextIInv, AccountedNext, AsideNext, WorkNext DEF LInv

\* Throughout a run of the loop, the pending, deferred and waiting queues, the
\* outstanding calls and the call in hand divide the tasks without a result;
\* once the loop is left, every task has one.
THEOREM Accounting == Spec => []LInv
BY InitLInv, NextLInv, PTL DEF Spec

\* The places of ExactlyOnce are the batches of the five zones.
LEMMA PlacesAreZones ==
  ASSUME TypeOK, Divided
  PROVE  /\ NoneLost
         /\ NoneShared
         /\ \A p \in Places : Tasks(BatchAt(p)) \subseteq AllTasks \ Recorded
<1>0. /\ call \in [Slots -> Calls]
      /\ pending \in Seq(Batches) /\ deferred \in Seq(Batches) /\ waiting \in Seq(Batches)
      /\ Apart(pending) /\ Apart(deferred) /\ Apart(waiting) /\ CallsApart
      /\ Tasks(job.e) \subseteq AllTasks
  <2>1. job.e \in Batches \cup {NoEntry}
    BY DEF TypeOK, Jobs, FailedJobs, HungJobs, NoJob
  <2> QED BY <2>1, TasksFacts DEF TypeOK, Divided
<1>1. \A k \in 1..Len(pending) : BatchAt(<<"pending", k>>) = pending[k]
                                 /\ Tasks(pending[k]) \subseteq Held(pending)
  <2>1. ASSUME NEW k \in 1..Len(pending)
        PROVE  pending[k] \in Batches
    BY <1>0
  <2> QED BY <2>1, TasksFacts DEF BatchAt, Held
<1>2. \A k \in 1..Len(deferred) : BatchAt(<<"deferred", k>>) = deferred[k]
                                 /\ Tasks(deferred[k]) \subseteq Held(deferred)
  <2>1. ASSUME NEW k \in 1..Len(deferred)
        PROVE  deferred[k] \in Batches
    BY <1>0
  <2> QED BY <2>1, TasksFacts DEF BatchAt, Held
<1>3. \A k \in 1..Len(waiting) : BatchAt(<<"waiting", k>>) = waiting[k]
                                 /\ Tasks(waiting[k]) \subseteq Held(waiting)
  <2>1. ASSUME NEW k \in 1..Len(waiting)
        PROVE  waiting[k] \in Batches
    BY <1>0
  <2> QED BY <2>1, TasksFacts DEF BatchAt, Held
<1>4. \A i \in Slots : BatchAt(<<"call", i>>) = call[i].e /\ Tasks(call[i].e) \subseteq Called
  <2>1. ASSUME NEW i \in Slots PROVE call[i].e \in Batches \cup {NoEntry}
    BY <1>0 DEF Calls, NoCall
  <2> QED BY <2>1, TasksFacts DEF BatchAt, Called
<1>5. BatchAt(<<"job", 0>>) = job.e
  BY DEF BatchAt
<1>6. ASSUME NEW p \in Places
      PROVE  \/ \E k \in 1..Len(pending) : p = <<"pending", k>>
             \/ \E k \in 1..Len(deferred) : p = <<"deferred", k>>
             \/ \E k \in 1..Len(waiting) : p = <<"waiting", k>>
             \/ \E i \in Slots : p = <<"call", i>>
             \/ p = <<"job", 0>>
  BY DEF Places
<1>7. ASSUME NEW p \in Places PROVE Tasks(BatchAt(p)) \subseteq AllTasks \ Recorded
  BY <1>1, <1>2, <1>3, <1>4, <1>5, <1>6 DEF Divided, ZonesCover
<1>8. NoneLost
  <2> SUFFICES ASSUME NEW t \in AllTasks, t \notin Recorded
               PROVE  \E p \in Places : t \in Tasks(BatchAt(p))
    BY DEF NoneLost, Recorded
  <2>1. t \in Held(pending) \cup Held(deferred) \cup Held(waiting) \cup Called \cup Tasks(job.e)
    BY DEF Divided, ZonesCover
  <2>2. /\ \A k \in 1..Len(pending) : <<"pending", k>> \in Places
        /\ \A k \in 1..Len(deferred) : <<"deferred", k>> \in Places
        /\ \A k \in 1..Len(waiting) : <<"waiting", k>> \in Places
        /\ \A i \in Slots : <<"call", i>> \in Places
        /\ <<"job", 0>> \in Places
    BY DEF Places
  <2>3. CASE t \in Held(pending)
    BY <1>1, <2>2, <2>3 DEF Held
  <2>4. CASE t \in Held(deferred)
    BY <1>2, <2>2, <2>4 DEF Held
  <2>5. CASE t \in Held(waiting)
    BY <1>3, <2>2, <2>5 DEF Held
  <2>6. CASE t \in Called
    BY <1>4, <2>2, <2>6 DEF Called
  <2>7. CASE t \in Tasks(job.e)
    BY <1>5, <2>2, <2>7
  <2> QED BY <2>1, <2>3, <2>4, <2>5, <2>6, <2>7
<1>9. NoneShared
  <2> SUFFICES ASSUME NEW p \in Places, NEW r \in Places, p # r
               PROVE  Tasks(BatchAt(p)) \cap Tasks(BatchAt(r)) = {}
    BY DEF NoneShared
  <2> DEFINE Zone(n) == IF n = "pending" THEN Held(pending)
                        ELSE IF n = "deferred" THEN Held(deferred)
                        ELSE IF n = "waiting" THEN Held(waiting)
                        ELSE IF n = "call" THEN Called ELSE Tasks(job.e)
             Names == {"pending", "deferred", "waiting", "call", "job"}
  <2>1. \A m, n \in Names : m # n => Zone(m) \cap Zone(n) = {}
    BY DEF Divided, ZonesApart
  <2>2. ASSUME NEW x \in Places
        PROVE  x[1] \in Names /\ Tasks(BatchAt(x)) \subseteq Zone(x[1])
    <3>1. CASE \E k \in 1..Len(pending) : x = <<"pending", k>>
      BY <1>1, <3>1
    <3>2. CASE \E k \in 1..Len(deferred) : x = <<"deferred", k>>
      BY <1>2, <3>2
    <3>3. CASE \E k \in 1..Len(waiting) : x = <<"waiting", k>>
      BY <1>3, <3>3
    <3>4. CASE \E i \in Slots : x = <<"call", i>>
      BY <1>4, <3>4
    <3>5. CASE x = <<"job", 0>>
      BY <1>5, <3>5
    <3> QED BY <1>6, <3>1, <3>2, <3>3, <3>4, <3>5
  <2> HIDE DEF Zone, Names
  <2>3. CASE p[1] # r[1]
    BY <2>1, <2>2, <2>3
  <2>4. CASE p[1] = r[1]
    <3>1. CASE \E k \in 1..Len(pending) : p = <<"pending", k>>
      <4>1. PICK j \in 1..Len(pending) : p = <<"pending", j>>
        BY <3>1
      <4>2. PICK k \in 1..Len(pending) : r = <<"pending", k>>
        BY <1>6, <2>4, <4>1
      <4> QED BY <1>0, <1>1, <4>1, <4>2 DEF Apart
    <3>2. CASE \E k \in 1..Len(deferred) : p = <<"deferred", k>>
      <4>1. PICK j \in 1..Len(deferred) : p = <<"deferred", j>>
        BY <3>2
      <4>2. PICK k \in 1..Len(deferred) : r = <<"deferred", k>>
        BY <1>6, <2>4, <4>1
      <4> QED BY <1>0, <1>2, <4>1, <4>2 DEF Apart
    <3>3. CASE \E k \in 1..Len(waiting) : p = <<"waiting", k>>
      <4>1. PICK j \in 1..Len(waiting) : p = <<"waiting", j>>
        BY <3>3
      <4>2. PICK k \in 1..Len(waiting) : r = <<"waiting", k>>
        BY <1>6, <2>4, <4>1
      <4> QED BY <1>0, <1>3, <4>1, <4>2 DEF Apart
    <3>4. CASE \E i \in Slots : p = <<"call", i>>
      <4>1. PICK j \in Slots : p = <<"call", j>>
        BY <3>4
      <4>2. PICK k \in Slots : r = <<"call", k>>
        BY <1>6, <2>4, <4>1
      <4> QED BY <1>0, <1>4, <4>1, <4>2 DEF CallsApart
    <3>5. CASE p = <<"job", 0>>
      BY <1>6, <2>4, <3>5
    <3> QED BY <1>6, <3>1, <3>2, <3>3, <3>4, <3>5
  <2> QED BY <2>3, <2>4
<1> QED BY <1>7, <1>8, <1>9

\* Every task is in exactly one place and has no result, or in none and has
\* one; after the loop every task has one.  Splits, evictions, requeues on
\* dead slots, failed replacements, the abort and late answers lose and double
\* nothing.
THEOREM ExactlyOnceTheorem == Spec => []ExactlyOnce
<1>1. LInv => ExactlyOnce
  <2> SUFFICES ASSUME LInv PROVE ExactlyOnce
    OBVIOUS
  <2>0. TypeOK /\ OneEach /\ \A t \in AllTasks : results[t] \in Seq(Outcomes)
    BY DEF LInv, IInv, TypeOK, Accounted
  <2>1. CASE LoopLeft
    <3>1. ASSUME NEW t \in AllTasks PROVE Len(results[t]) = 1
      <4>1. results[t] # << >> /\ results[t] \in Seq(Outcomes)
        BY <2>0, <2>1 DEF LInv, Accounted, Recorded
      <4>2. Len(results[t]) \in Nat /\ Len(results[t]) # 0
        BY <4>1
      <4>3. Len(results[t]) <= 1
        BY <2>0 DEF OneEach
      <4>4. \A n \in Nat : n # 0 /\ n <= 1 => n = 1
        OBVIOUS
      <4> QED BY <4>2, <4>3, <4>4
    <3> QED BY <2>1, <3>1 DEF ExactlyOnce
  <2>2. CASE ~LoopLeft
    <3>1. NoneLost /\ NoneShared /\ \A p \in Places : Tasks(BatchAt(p)) \subseteq AllTasks \ Recorded
      BY <2>0, <2>2, PlacesAreZones DEF LInv, Accounted
    <3>2. NoneRecordedTwice
      BY <2>0, <3>1 DEF NoneRecordedTwice, OneEach, Recorded
    <3> QED BY <2>2, <3>1, <3>2 DEF ExactlyOnce
  <2> QED BY <2>1, <2>2
<1> QED BY <1>1, Accounting, PTL

\* The driver waits only when it has handed out all it can, and sleeps only
\* when a backoff is all that is left to wait for.
THEOREM NeverIdle == Spec => []NeverIdleWithWork
<1>1. LInv => NeverIdleWithWork
  BY DEF LInv
<1> QED BY <1>1, Accounting, PTL

-----------------------------------------------------------------------------
(* The ledger. *)

\* What a step does to the results: nothing, or it closes open tasks with one
\* outcome, all of them if it is the abort.
Closes(S, outcome) ==
  /\ S \subseteq AllTasks \ Recorded
  /\ results' = [t \in AllTasks |-> IF t \in S THEN <<outcome>> ELSE results[t]]

\* Recording open tasks closes them.
LEMMA RecordCloses ==
  ASSUME NEW S, S \subseteq AllTasks \ Recorded, NEW outcome \in Outcomes,
         results \in [AllTasks -> Seq(Outcomes)], OneEach, Record(S, outcome)
  PROVE  Closes(S, outcome)
<1>1. \A t \in AllTasks : results'[t] = IF t \in S THEN <<outcome>> ELSE results[t]
  BY RecordOpen
<1>2. results' = [t \in AllTasks |-> results'[t]]
  BY DEF Record
<1> QED BY <1>1, <1>2 DEF Closes

BatchOutcomes == {"ok", "transient", "deterministic", "hung"}

\* A step records nothing, or closes open tasks while the loop runs, or all that are
\* open as it is left.
LEMMA ResultsNext ==
  ASSUME LInv, [Next]_vars
  PROVE  \/ results' = results
         \/ /\ ~LoopLeft /\ ~LoopLeft'
            /\ \E S \in SUBSET AllTasks, outcome \in BatchOutcomes :
                 S # {} /\ Closes(S, outcome)
         \/ ~LoopLeft /\ pc' = "stats" /\ Closes(AllTasks \ Recorded, "undispatched")
<1>0. /\ TypeOK /\ NoCallOnEmptySlot /\ JobInHand /\ SnapshotValid
      /\ results \in [AllTasks -> Seq(Outcomes)] /\ OneEach /\ Aside
  BY DEF LInv, IInv, TypeOK, DriverConsistent, Accounted
<1>c. ~LoopLeft => /\ \A i \in Slots : call[i] # NoCall => /\ Tasks(call[i].e) # {}
                                                        /\ Tasks(call[i].e) \subseteq AllTasks \ Recorded
                   /\ job.e \in Batches => /\ Tasks(job.e) # {}
                                           /\ Tasks(job.e) \subseteq AllTasks \ Recorded
  <2> SUFFICES ASSUME ~LoopLeft
               PROVE  /\ \A i \in Slots : call[i] # NoCall => /\ Tasks(call[i].e) # {}
                                                        /\ Tasks(call[i].e) \subseteq AllTasks \ Recorded
                      /\ job.e \in Batches => /\ Tasks(job.e) # {}
                                              /\ Tasks(job.e) \subseteq AllTasks \ Recorded
    OBVIOUS
  <2>1. Divided
    BY DEF LInv, Accounted
  <2>2. \A i \in Slots : call[i] # NoCall => call[i].e \in Batches
    BY <1>0 DEF TypeOK, Calls
  <2>3. \A i \in Slots : call[i] # NoCall => Tasks(call[i].e) \subseteq Called
    BY <2>2, TasksFacts DEF Called
  <2> QED BY <2>1, <2>2, <2>3, TasksFacts DEF Divided, ZonesCover
<1>1. ASSUME NEW S, S \subseteq AllTasks \ Recorded, S # {}, NEW outcome \in BatchOutcomes,
             Record(S, outcome)
      PROVE  \E R \in SUBSET AllTasks, o \in BatchOutcomes : R # {} /\ Closes(R, o)
  <2>1. Closes(S, outcome)
    BY <1>0, <1>1, RecordCloses DEF Outcomes, BatchOutcomes
  <2> QED BY <1>1, <2>1
<1>2. ASSUME NEW i \in Slots, HarvestSuccess(i)
      PROVE  /\ ~LoopLeft /\ ~LoopLeft'
             /\ \E S \in SUBSET AllTasks, outcome \in BatchOutcomes : S # {} /\ Closes(S, outcome)
  <2>1. ~LoopLeft /\ ~LoopLeft' /\ Record(Tasks(call[i].e), "ok") /\ call[i] # NoCall
    BY <1>2 DEF HarvestSuccess, LoopLeft, NoCall
  <2> QED BY <1>1, <1>c, <2>1 DEF BatchOutcomes
<1>3. CASE FailTerminally
  <2>1. /\ ~LoopLeft /\ ~LoopLeft' /\ Record(Tasks(job.e), job.kind)
        /\ job.kind \in BatchOutcomes /\ job.e \in Batches
    BY <1>0, <1>3 DEF FailTerminally, LoopLeft, TypeOK, JobInHand, HandlingSteps, Jobs,
       FailedJobs, HungJobs, BatchOutcomes
  <2> QED BY <1>1, <1>c, <2>1
<1>4. ASSUME NEW i \in Slots, Evict(i)
      PROVE  \/ results' = results
             \/ /\ ~LoopLeft /\ ~LoopLeft'
                /\ \E S \in SUBSET AllTasks, outcome \in BatchOutcomes : S # {} /\ Closes(S, outcome)
  <2>1. /\ ~LoopLeft /\ ~LoopLeft' /\ call[i] # NoCall
        /\ results' = results \/ Record(Tasks(call[i].e), "hung")
    BY <1>0, <1>4 DEF Evict, Requeue, LoopLeft, SnapshotValid
  <2> QED BY <1>1, <1>c, <2>1 DEF BatchOutcomes
<1>5. CASE Abort
  <2> DEFINE S == {t \in AllTasks : Undispatched(t)}
  <2>1. /\ waiting = << >> /\ job = NoJob /\ pc' = "stats" /\ ~LoopLeft
        /\ Record(S, "undispatched") /\ \A i \in Slots : call[i] = NoCall
    BY <1>0, <1>5 DEF Abort, Aside, JobInHand, HandlingSteps, LoopLeft, NoCallOnEmptySlot, AllDead
  <2>2. Called = {} /\ Tasks(job.e) = {}
    BY <2>1, TasksFacts DEF Called, NoCall, NoJob
  <2>3. S = Held(pending) \cup Held(deferred)
    BY DEF Undispatched, Held
  <2>4. S = AllTasks \ Recorded
    BY <2>1, <2>2, <2>3, HeldEmpty DEF LInv, Accounted, Divided, ZonesCover
  <2> HIDE DEF S
  <2> QED BY <1>0, <2>1, <2>4, RecordCloses DEF Outcomes
<1>6. CASE \/ Fill \/ EnterLoop \/ LeaveLoop \/ PollRefill \/ EndPoll
           \/ PromoteDue \/ PromoteNotDue \/ EndPromote \/ Dispatch \/ EndDispatch \/ Sleep
           \/ WaitTimeout \/ (\E i \in Slots : HarvestFailure(i))
           \/ Probe \/ ReplaceFromPool \/ ReplaceBlocking \/ BlockingReplace
           \/ RetryLater \/ BeginScan \/ Reassign \/ EndScan \/ CollectStats \/ StatsRaise
           \/ UNCHANGED vars
  BY <1>6 DEF Fill, EnterLoop, LeaveLoop, PollRefill, EndPoll, PromoteDue, PromoteNotDue,
     EndPromote, Dispatch, EndDispatch, Sleep, WaitTimeout, HarvestFailure, Probe,
     ReplaceFromPool, ReplaceBlocking, BlockingReplace, RetryLater, BeginScan, Reassign,
     EndScan, CollectStats, StatsRaise, vars, driverVars
<1>7. CASE WorkerNext
  BY <1>0, <1>7, WorkersKeepSlots
<1>8. CASE DriverNext
  BY <1>2, <1>3, <1>4, <1>5, <1>6, <1>8 DEF DriverNext
<1> QED BY <1>6, <1>7, <1>8 DEF Next, Finished

\* The loop implements the ledger: it closes whole groups of open tasks, once,
\* and ends only when none is open.
THEOREM LedgerImplemented == Spec => ImplementsLedger
<1>0. Ledger!Open = AllTasks \ Recorded
  BY DEF Ledger!Open, Recorded
<1>1. Init => Ledger!LedgerInit
  BY DEF Init, Ledger!LedgerInit
<1>2. LInv /\ [Next]_vars => [Ledger!LedgerNext]_(Ledger!ledgerVars)
  <2> SUFFICES ASSUME LInv, [Next]_vars
               PROVE  Ledger!LedgerNext \/ UNCHANGED Ledger!ledgerVars
    OBVIOUS
  <2>1. CASE results' = results
    <3>1. \/ pc' \notin {"done", "raised"} /\ pc \notin {"done", "raised"}
          \/ pc = "stats" /\ pc' \in {"done", "raised"}
          \/ pc' = pc
      <4>1. CASE DriverNext
        BY <4>1 DEF DriverNext, Fill, EnterLoop, LeaveLoop, PollRefill, EndPoll, Abort,
           PromoteDue, PromoteNotDue, EndPromote, Dispatch, EndDispatch, Sleep, WaitTimeout,
           HarvestSuccess, HarvestFailure, Probe, ReplaceFromPool, ReplaceBlocking,
           BlockingReplace, AfterReplace, RetryLater, FailTerminally, BeginScan, Evict,
           Reassign, EndScan, CollectStats, StatsRaise, driverVars
      <4>2. CASE WorkerNext
        BY <4>2, WorkersKeepSlots DEF LInv, IInv
      <4> QED BY <4>1, <4>2 DEF Next, Finished, vars, driverVars
    <3>2. CASE pc = "stats" /\ pc' \in {"done", "raised"}
      <4>1. Ledger!Open = {}
        BY <1>0, <3>2 DEF LInv, Accounted, LoopLeft
      <4> QED BY <2>1, <3>2, <4>1 DEF Ledger!LedgerNext, Ledger!End
    <3> QED BY <2>1, <3>1, <3>2 DEF Ledger!ledgerVars
  <2>2. ASSUME ~LoopLeft, ~LoopLeft',
               NEW S \in SUBSET AllTasks, NEW outcome \in BatchOutcomes,
               S # {}, Closes(S, outcome)
        PROVE  Ledger!LedgerNext
    <3>1. Ledger!Close(S, outcome)
      BY <1>0, <2>2 DEF Closes, Ledger!Close, LoopLeft
    <3> QED BY <3>1 DEF Ledger!LedgerNext, Ledger!CloseBatch, BatchOutcomes
  <2>3. CASE ~LoopLeft /\ pc' = "stats" /\ Closes(AllTasks \ Recorded, "undispatched")
    <3>1. CASE AllTasks \ Recorded = {}
      <4>1. results' = results
        BY <2>3, <3>1 DEF Closes, LInv, IInv, TypeOK
      <4> QED BY <2>3, <4>1 DEF Ledger!ledgerVars, LoopLeft
    <3>2. CASE AllTasks \ Recorded # {}
      <4>1. Ledger!WriteOff
        BY <1>0, <2>3, <3>2 DEF Closes, Ledger!WriteOff, Ledger!Close, LoopLeft
      <4> QED BY <4>1 DEF Ledger!LedgerNext
    <3> QED BY <3>1, <3>2
  <2> QED BY <2>1, <2>2, <2>3, ResultsNext
<1> QED BY <1>1, <1>2, Accounting, PTL DEF Spec, ImplementsLedger, Ledger!LedgerSpec

-----------------------------------------------------------------------------
(* Sets of batches that the loop does not leave. *)

\* Every batch the loop holds is in G.
AllIn(G) ==
  /\ pending \in Seq(G) /\ deferred \in Seq(G) /\ waiting \in Seq(G)
  /\ \A i \in Slots : call[i] # NoCall => call[i].e \in G
  /\ job.kind \in {"transient", "deterministic"} => job.e \in G

\* Retries stay in G as long as the budget allows one.
Closed(G) ==
  G \subseteq Batches /\ \A e \in G : e.rc < Budget(e) => RetryEntries(e) \in Seq(G)

\* The batches queued are in G, those handed out to workers in H.
HeldIn(G, H) ==
  /\ pending \in Seq(G) /\ deferred \in Seq(G) /\ waiting \in Seq(G)
  /\ \A i \in Slots : call[i] # NoCall => call[i].e \in H
  /\ job.kind \in {"transient", "deterministic"} => job.e \in H

\* What this step may put back into the queues is in G.
RetriesIn(G) ==
  /\ job.kind \in {"transient", "deterministic"} /\ ShouldRetry(job.e, job.kind) =>
       RetryEntries(job.e) \in Seq(G)
  /\ \A i \in todo : call[i].e.rc < Budget(call[i].e) => RetryEntries(call[i].e) \in Seq(G)

\* This step hands a batch to worker i.
HandedTo(i) == call'[i].st = "running" /\ call'[i] # call[i] /\ call'[i].old = FALSE

\* A call outstanding after the step holds a batch that was queued before if the
\* step hands it out, and one handed out before otherwise.
CallsFrom(G, H) ==
  \A i \in Slots : call'[i] # NoCall =>
    \/ HandedTo(i) /\ call'[i].e \in G /\ ~LoopLeft'
    \/ ~HandedTo(i) /\ call'[i].e \in H

\* What a call that begins looks like.
LEMMA NewCallFacts ==
  \A e : /\ NewCall(e).e = e /\ NewCall(e).st = "running" /\ NewCall(e).old = FALSE
         /\ NewCall(e) # NoCall /\ NoCall.st # "running"
BY DEF NewCall, NoCall

\* An entry of a queue that is assigned to a slot stays an entry of G.
LEMMA AssignHeadIn ==
  ASSUME NEW G, NEW H, NEW i \in Slots, NEW q \in Seq(G), call \in [Slots -> Calls],
         \A j \in Slots : call[j] # NoCall => call[j].e \in H,
         call[i].st # "running", ~LoopLeft', AssignHead(i, q)
  PROVE  pending' \in Seq(G) /\ CallsFrom(G, H)
<1>1. q # << >> => Head(q) \in G /\ Tail(q) \in Seq(G) /\ Append(Tail(q), Head(q)) \in Seq(G)
  OBVIOUS
<1>2. pending' \in Seq(G)
  BY <1>1 DEF AssignHead
<1>3. \/ call' = [call EXCEPT ![i] = NoCall]
      \/ q # << >> /\ call' = [call EXCEPT ![i] = NewCall(Head(q))]
  BY DEF AssignHead
<1>4. CASE call' = [call EXCEPT ![i] = NoCall]
  BY <1>2, <1>4 DEF CallsFrom, HandedTo
<1>5. CASE q # << >> /\ call' = [call EXCEPT ![i] = NewCall(Head(q))]
  <2>1. NewCall(Head(q)).e \in G
    BY <1>1, <1>5 DEF NewCall
  <2>2. HandedTo(i) /\ call'[i] = NewCall(Head(q))
    BY <1>5, NewCallFacts DEF HandedTo
  <2>3. \A j \in Slots : j # i => ~HandedTo(j) /\ call'[j] = call[j]
    BY <1>5 DEF HandedTo
  <2> QED BY <1>2, <2>1, <2>2, <2>3 DEF CallsFrom
<1> QED BY <1>3, <1>4, <1>5

\* Entries come from entries: what is queued, running or in hand after a step was so
\* before it or is a half of what was.
LEMMA HeldInNext ==
  ASSUME NEW G, NEW H, IInv, Aside, HeldIn(G, H), RetriesIn(G), [Next]_vars
  PROVE  /\ pending' \in Seq(G) /\ deferred' \in Seq(G) /\ waiting' \in Seq(G)
         /\ CallsFrom(G, H)
         /\ job'.kind \in {"transient", "deterministic"} => job'.e \in H
<1> DEFINE Queues == pending' \in Seq(G) /\ deferred' \in Seq(G) /\ waiting' \in Seq(G)
           JobIn == job'.kind \in {"transient", "deterministic"} => job'.e \in H
<1> SUFFICES Queues /\ CallsFrom(G, H) /\ JobIn
  OBVIOUS
<1>0. /\ TypeOK /\ JobInHand /\ SnapshotValid /\ FilledOnce
      /\ call \in [Slots -> Calls]
      /\ pending \in Seq(G) /\ deferred \in Seq(G) /\ waiting \in Seq(G)
      /\ \A i \in Slots : call[i] # NoCall => call[i].e \in H
      /\ job.kind \in {"transient", "deterministic"} => job.e \in H
  BY DEF IInv, TypeOK, DriverConsistent, HeldIn
<1>1. CASE Fill
  <2>1. Queues /\ JobIn
    BY <1>0, <1>1 DEF Fill
  <2>2. \A i \in Slots : i <= Len(pending) => pending[i] \in G
    BY <1>0 DEF Slots
  <2>3. ~LoopLeft' /\ \A i \in Slots : call'[i] # NoCall => call'[i].e \in G /\ call'[i] = NewCall(pending[i])
    BY <1>1, <2>2, NewCallFacts DEF Fill, LoopLeft
  <2>4. \A i \in Slots : call[i] = NoCall
    BY <1>1 DEF Fill, Aside, Active
  <2>5. CallsFrom(G, H)
    BY <2>3, <2>4, NewCallFacts DEF CallsFrom, HandedTo
  <2> QED BY <2>1, <2>5
<1>2. CASE \/ EnterLoop \/ LeaveLoop \/ PollRefill \/ EndPoll \/ Abort \/ EndDispatch \/ Sleep
           \/ WaitTimeout \/ Probe \/ ReplaceFromPool \/ ReplaceBlocking \/ BlockingReplace
           \/ BeginScan \/ EndScan \/ CollectStats \/ StatsRaise \/ IdleStandbyCrash
           \/ UNCHANGED vars \/ (\E i \in Slots : Crash(i) \/ Wedge(i))
  <2>1. UNCHANGED <<pending, deferred, waiting, call, job>>
    BY <1>2 DEF EnterLoop, LeaveLoop, PollRefill, EndPoll, Abort, EndDispatch, Sleep,
       WaitTimeout, Probe, ReplaceFromPool, ReplaceBlocking, BlockingReplace, BeginScan,
       EndScan, CollectStats, StatsRaise, IdleStandbyCrash, Crash, Wedge, vars, driverVars
  <2> QED BY <1>0, <2>1 DEF CallsFrom, HandedTo
<1>3. ASSUME NEW i \in Slots,
             \/ Complete(i) \/ FailDeterministic(i) \/ FailTransient(i) \/ FailFatal(i)
             \/ FailOnDeadActor(i) \/ Age(i)
      PROVE  Queues /\ CallsFrom(G, H) /\ JobIn
  <2>1. UNCHANGED <<pending, deferred, waiting, job>>
    BY <1>3 DEF Complete, FailDeterministic, FailTransient, FailFatal, AnswerCall,
       FailOnDeadActor, Age
  <2>2. PICK c \in {Answer(call[i], st) : st \in Answered} \cup {Aged(call[i])} :
           call' = [call EXCEPT ![i] = c]
    BY <1>3 DEF Complete, FailDeterministic, FailTransient, FailFatal, AnswerCall,
       FailOnDeadActor, Age, Answered
  <2>3. c.e = call[i].e /\ (c.st # "running" \/ c.old = TRUE)
    <3>1. \A st \in Answered : Answer(call[i], st).e = call[i].e /\ Answer(call[i], st).st # "running"
      BY DEF Answer, Answered
    <3>2. Aged(call[i]).e = call[i].e /\ Aged(call[i]).old = TRUE
      BY DEF Aged
    <3> QED BY <2>2, <3>1, <3>2
  <2>4. call[i] # NoCall
    BY <1>3 DEF Complete, FailDeterministic, FailTransient, FailFatal, AnswerCall,
       FailOnDeadActor, Age, NoCall, Answered
  <2>5. CallsFrom(G, H)
    BY <1>0, <2>2, <2>3, <2>4 DEF CallsFrom, HandedTo
  <2> QED BY <1>0, <2>1, <2>5
<1>4. CASE PromoteDue \/ PromoteNotDue \/ EndPromote
  <2>1. deferred # << >> => Head(deferred) \in G /\ Tail(deferred) \in Seq(G)
    BY <1>0
  <2>2. UNCHANGED <<call, job>>
    BY <1>4 DEF PromoteDue, PromoteNotDue, EndPromote
  <2>3. Queues
    <3>1. CASE PromoteDue
      BY <1>0, <2>1, <3>1 DEF PromoteDue
    <3>2. CASE PromoteNotDue
      BY <1>0, <2>1, <3>2 DEF PromoteNotDue
    <3>3. CASE EndPromote
      BY <1>0, <3>3 DEF EndPromote
    <3> QED BY <1>4, <3>1, <3>2, <3>3
  <2> QED BY <1>0, <2>2, <2>3 DEF CallsFrom, HandedTo
<1>5. CASE Dispatch
  <2>1. PICK i \in Slots : call[i] = NoCall /\ call' = [call EXCEPT ![i] = NewCall(Head(pending))]
    BY <1>5 DEF Dispatch, Idle
  <2>2. /\ pending # << >> /\ Head(pending) \in G /\ pending' \in Seq(G) /\ ~LoopLeft'
        /\ UNCHANGED <<deferred, waiting, job>>
    BY <1>0, <1>5 DEF Dispatch, LoopLeft
  <2>3. CallsFrom(G, H)
    BY <1>0, <2>1, <2>2, NewCallFacts DEF CallsFrom, HandedTo
  <2> QED BY <1>0, <2>2, <2>3
<1>6. ASSUME NEW i \in Slots, HarvestSuccess(i) PROVE Queues /\ CallsFrom(G, H) /\ JobIn
  <2>1. /\ AssignHead(i, pending) /\ UNCHANGED <<deferred, waiting, job>> /\ call[i].st # "running"
        /\ ~LoopLeft'
    BY <1>6 DEF HarvestSuccess, LoopLeft
  <2> QED BY <1>0, <2>1, AssignHeadIn
<1>7. ASSUME NEW i \in Slots, HarvestFailure(i) PROVE Queues /\ CallsFrom(G, H) /\ JobIn
  <2>1. call[i] # NoCall /\ job'.e = call[i].e /\ UNCHANGED <<pending, deferred, waiting>>
        /\ call' = [call EXCEPT ![i] = NoCall]
    BY <1>7 DEF HarvestFailure, NoCall
  <2> QED BY <1>0, <2>1 DEF CallsFrom, HandedTo
<1>8. ASSUME RetryLater \/ FailTerminally \/ Reassign
      PROVE  job' = NoJob /\ waiting' = waiting /\ pending' \in Seq(G) /\ CallsFrom(G, H)
  <2>1. /\ AssignHead(job.slot, pending) /\ job' = NoJob /\ waiting' = waiting /\ job # NoJob
        /\ ~LoopLeft' /\ call[job.slot] = NoCall
    BY <1>0, <1>8 DEF RetryLater, FailTerminally, Reassign, JobInHand, HandlingSteps, LoopLeft
  <2>2. job.slot \in Slots
    BY <1>0, <2>1 DEF TypeOK, Jobs, FailedJobs, HungJobs
  <2> QED BY <1>0, <2>1, <2>2, AssignHeadIn, NewCallFacts
<1>9. NoJob.kind \notin {"transient", "deterministic"}
  BY DEF NoJob
<1>10. CASE RetryLater
  <2>1. /\ deferred' = deferred \o RetryEntries(job.e) /\ ShouldRetry(job.e, job.kind)
        /\ job.kind \in {"transient", "deterministic"}
    BY <1>0, <1>10 DEF RetryLater, JobInHand, HandlingSteps, TypeOK, Jobs, FailedJobs, HungJobs
  <2>2. deferred' \in Seq(G)
    BY <1>0, <2>1, ConcatProperties DEF RetriesIn
  <2> QED BY <1>0, <1>8, <1>9, <1>10, <2>2
<1>11. CASE FailTerminally \/ Reassign
  BY <1>0, <1>8, <1>9, <1>11 DEF FailTerminally, Reassign
<1>12. ASSUME NEW i \in Slots, Evict(i) PROVE Queues /\ CallsFrom(G, H) /\ JobIn
  <2> DEFINE e == call[i].e
  <2>1. /\ Requeue(e) /\ UNCHANGED <<deferred, waiting>>
        /\ call' = [call EXCEPT ![i] = NoCall] /\ job'.kind = "hung"
        /\ e.rc < Budget(e) => RetryEntries(e) \in Seq(G)
    BY <1>0, <1>12 DEF Evict, RetriesIn
  <2> HIDE DEF e
  <2>2. pending' \in Seq(G)
    BY <1>0, <2>1, ConcatProperties DEF Requeue
  <2> QED BY <1>0, <2>1, <2>2 DEF CallsFrom, HandedTo
<1> HIDE DEF Queues, JobIn
<1>13. CASE DriverNext
  BY <1>1, <1>2, <1>4, <1>5, <1>6, <1>7, <1>10, <1>11, <1>12, <1>13 DEF DriverNext
<1>14. CASE WorkerNext
  BY <1>2, <1>3, <1>14 DEF WorkerNext
<1> QED BY <1>2, <1>13, <1>14 DEF Next, Finished

\* If what becomes of any batch of H stays in G, so does what becomes of those in
\* the driver's hands.
LEMMA RetriesOfHeld ==
  ASSUME NEW G, NEW H, IInv, HeldIn(G, H),
         \A e \in H : e.rc < Budget(e) => RetryEntries(e) \in Seq(G)
  PROVE  RetriesIn(G)
<1>1. SnapshotValid /\ todo \subseteq Slots
  BY DEF IInv, DriverConsistent, TypeOK
<1> QED BY <1>1 DEF RetriesIn, HeldIn, SnapshotValid, ShouldRetry

\* A kind of entries that is closed under halving is never left.
LEMMA AllInNext ==
  ASSUME NEW G, Closed(G), IInv, Aside, AllIn(G), [Next]_vars
  PROVE  AllIn(G)'
<1>1. HeldIn(G, G) /\ RetriesIn(G)
  BY RetriesOfHeld DEF AllIn, HeldIn, Closed
<1>2. /\ pending' \in Seq(G) /\ deferred' \in Seq(G) /\ waiting' \in Seq(G)
      /\ CallsFrom(G, G)
      /\ job'.kind \in {"transient", "deterministic"} => job'.e \in G
  BY <1>1, HeldInNext
<1> QED BY <1>2 DEF AllIn, CallsFrom

\* A run whose first batches are in G starts there.
LEMMA AllInInit ==
  ASSUME NEW G, MakeBatches(NTasks, BatchSize) \in Seq(G), Init
  PROVE  AllIn(G)
<1>1. pending \in Seq(G) /\ deferred = << >> /\ waiting = << >> /\ job = NoJob
      /\ \A i \in Slots : call[i] = NoCall
  BY DEF Init
<1> QED BY <1>1 DEF AllIn, NoJob

-----------------------------------------------------------------------------
(* The standby pool keeps its books, for every pool size and every limit on *)
(* refills, and no batch is started on a worker known to be broken.         *)

USE RefillAssumption

(* Sums of sequences, by their partial sums from the end. *)

SumIs(s, n) ==
  \E q \in [1 .. Len(s) + 1 -> Nat] :
    /\ q[1] = n
    /\ q[Len(s) + 1] = 0
    /\ \A k \in 1 .. Len(s) : q[k] = s[k] + q[k + 1]

\* The sum of no numbers.
LEMMA SumEmpty == SumIs(<< >>, 0)
<1> DEFINE q == [k \in 1..1 |-> 0]
           e == << >>
<1>1. Len(e) = 0 /\ q \in [1 .. 0 + 1 -> Nat] /\ q[1] = 0 /\ q[0 + 1] = 0 /\ 1..0 = {}
  OBVIOUS
<1> HIDE DEF q, e
<1>2. SumIs(e, 0)
  BY <1>1 DEF SumIs
<1> QED BY <1>2 DEF e

\* A number more at the end.
LEMMA SumAppend ==
  ASSUME NEW s \in Seq(Nat), NEW n \in Nat, NEW a \in Nat, SumIs(s, n)
  PROVE  SumIs(Append(s, a), n + a)
<1> DEFINE u == Append(s, a)
           l == Len(s)
<1>1. /\ l \in Nat /\ Len(u) = l + 1 /\ u[l + 1] = a
      /\ \A k \in 1..l : u[k] = s[k] /\ s[k] \in Nat
  BY AppendProperties
<1>2. PICK q \in [1 .. l + 1 -> Nat] :
         q[1] = n /\ q[l + 1] = 0 /\ \A k \in 1..l : q[k] = s[k] + q[k + 1]
  BY DEF SumIs
<1> DEFINE r == [k \in 1 .. (l + 1) + 1 |-> IF k = l + 2 THEN 0 ELSE q[k] + a]
<1> HIDE DEF u, l
<1>3. \A k \in 1 .. (l + 1) + 1 : k = l + 2 \/ (k # l + 2 /\ k \in 1 .. l + 1)
  BY <1>1
<1>4. r \in [1 .. (l + 1) + 1 -> Nat]
  BY <1>2, <1>3
<1>5. /\ 1 \in 1 .. (l + 1) + 1 /\ 1 # l + 2
      /\ (l + 1) + 1 \in 1 .. (l + 1) + 1 /\ (l + 1) + 1 = l + 2
  BY <1>1
<1>6. r[1] = n + a /\ r[(l + 1) + 1] = 0
  BY <1>2, <1>5
<1>7. ASSUME NEW k \in 1 .. l + 1 PROVE r[k] = u[k] + r[k + 1]
  <2>1. k \in 1 .. (l + 1) + 1 /\ k + 1 \in 1 .. (l + 1) + 1 /\ k # l + 2
    BY <1>1
  <2>2. r[k] = q[k] + a
    BY <2>1
  <2>3. CASE k = l + 1
    <3>1. r[k + 1] = 0 /\ q[k] = 0 /\ u[k] = a
      BY <1>1, <1>2, <2>1, <2>3
    <3> QED BY <2>2, <3>1
  <2>4. CASE k # l + 1
    <3>1. k \in 1..l /\ k + 1 # l + 2 /\ k + 1 \in 1 .. l + 1
      BY <1>1, <2>4
    <3>2. r[k + 1] = q[k + 1] + a /\ u[k] = s[k] /\ q[k] = s[k] + q[k + 1]
      BY <1>1, <1>2, <2>1, <3>1
    <3>3. q[k + 1] \in Nat /\ s[k] \in Nat
      BY <1>1, <1>2, <3>1
    <3> QED BY <2>2, <3>2, <3>3
  <2> QED BY <2>3, <2>4
<1> HIDE DEF r
<1>8. SumIs(u, n + a)
  BY <1>1, <1>4, <1>6, <1>7 DEF SumIs
<1> QED BY <1>8 DEF u

\* A number less at the front.
LEMMA SumTail ==
  ASSUME NEW s \in Seq(Nat), NEW n \in Nat, s # << >>, SumIs(s, n)
  PROVE  \E m \in Nat : n = Head(s) + m /\ SumIs(Tail(s), m)
<1> DEFINE u == Tail(s)
           l == Len(s)
<1>1. /\ l \in Nat \ {0} /\ Len(u) = l - 1 /\ Head(s) = s[1]
      /\ \A k \in 1 .. l - 1 : u[k] = s[k + 1]
  OBVIOUS
<1>2. PICK q \in [1 .. l + 1 -> Nat] :
         q[1] = n /\ q[l + 1] = 0 /\ \A k \in 1..l : q[k] = s[k] + q[k + 1]
  BY DEF SumIs
<1> DEFINE r == [k \in 1 .. (l - 1) + 1 |-> q[k + 1]]
<1> HIDE DEF u, l
<1>3. \A k \in 1 .. (l - 1) + 1 : k + 1 \in 1 .. l + 1
  BY <1>1
<1>4. r \in [1 .. (l - 1) + 1 -> Nat]
  BY <1>2, <1>3
<1>5. /\ 1 \in 1 .. (l - 1) + 1 /\ (l - 1) + 1 \in 1 .. (l - 1) + 1
      /\ ((l - 1) + 1) + 1 = l + 1 /\ 1 \in 1..l /\ 2 \in 1 .. l + 1
  BY <1>1
<1>6. r[1] = q[2] /\ r[(l - 1) + 1] = 0
  BY <1>2, <1>5
<1>7. ASSUME NEW k \in 1 .. l - 1 PROVE r[k] = u[k] + r[k + 1]
  <2>1. k \in 1 .. (l - 1) + 1 /\ k + 1 \in 1 .. (l - 1) + 1 /\ k + 1 \in 1..l
    BY <1>1
  <2> QED BY <1>1, <1>2, <2>1
<1> HIDE DEF r
<1>8. SumIs(u, q[2])
  BY <1>1, <1>4, <1>6, <1>7 DEF SumIs
<1>9. q[2] \in Nat /\ n = s[1] + q[2]
  <2>1. q[2] \in Nat
    BY <1>2, <1>5
  <2>2. q[1] = s[1] + q[1 + 1] /\ q[1] = n
    BY <1>2, <1>5
  <2> QED BY <2>1, <2>2
<1> QED BY <1>1, <1>8, <1>9 DEF u

-----------------------------------------------------------------------------
(* The books. *)

\* Every loading standby has attempts left, and every failed load is that of a
\* standby loading now or of one given up after RefillMaxAttempts of them.
Attempts == \E m, n \in Nat :
  /\ SumIs(refills, m)
  /\ SumIs(inFlight, n)
  /\ RefillMaxAttempts * (Missing - SubmitFailures) + m + n <= LoadFailures

Books ==
  /\ ReadyAccounted
  /\ \A k \in 1..Len(refills) : refills[k] < RefillMaxAttempts
  /\ \A k \in 1..Len(inFlight) : inFlight[k] < RefillMaxAttempts
  /\ SubmitFailures \in 0 .. Missing
  /\ Attempts

\* What the accounts of the pool are computed from are numbers.
LEMMA PoolFacts ==
  ASSUME PoolTypeOK
  PROVE  /\ Len(pool) \in Nat /\ Len(refills) \in Nat /\ Len(inFlight) \in Nat
         /\ \A c \in Counters : stats[c] \in Nat
         /\ Missing \in Int /\ SubmitFailures \in Int /\ LoadFailures \in Int
<1>1. /\ Len(pool) \in Nat /\ Len(refills) \in Nat /\ Len(inFlight) \in Nat
      /\ \A c \in Counters : stats[c] \in Nat
  BY DEF PoolTypeOK
<1>2. {"promotions", "started", "completed", "failures"} \subseteq Counters
  BY DEF Counters
<1> QED BY <1>1, <1>2 DEF Missing, SubmitFailures, LoadFailures, Loading

\* Counting changes one counter, by one.
LEMMA CountOne ==
  ASSUME NEW st \in [Counters -> Nat], NEW c \in Counters, NEW d \in Counters
  PROVE  Count(st, c)[d] = IF d = c THEN st[d] + 1 ELSE st[d]
BY DEF Count

\* The ready pool grew by p, the loading standbys by l, and the counters by x
\* started, y completed and z failures.
Moved(p, l, x, y, z) ==
  /\ Len(pool') = Len(pool) + p
  /\ Loading' = Loading + l
  /\ stats'["started"] = stats["started"] + x
  /\ stats'["completed"] = stats["completed"] + y
  /\ stats'["failures"] = stats["failures"] + z

\* How the accounts change with the lists and the counters.
LEMMA Moves ==
  ASSUME PoolTypeOK, NEW p \in Int, NEW l \in Int, NEW x \in Int, NEW y \in Int, NEW z \in Int,
         Moved(p, l, x, y, z)
  PROVE  /\ Missing' = Missing - (p + l)
         /\ LoadFailures' = LoadFailures + (x - (y + l))
         /\ SubmitFailures' = SubmitFailures + (z - (x - (y + l)))
<1>1. /\ {"promotions", "started", "completed", "failures"} \subseteq Counters
      /\ Len(pool) \in Nat /\ Loading \in Nat /\ \A c \in Counters : stats[c] \in Nat
  BY PoolFacts DEF Counters, Loading
<1>2. /\ stats["started"] \in Nat /\ stats["completed"] \in Nat /\ stats["failures"] \in Nat
  BY <1>1
<1>3. Missing' = Missing - (p + l)
  BY <1>1 DEF Missing, Moved
<1>4. \A a, b, c \in Nat : (a + x) - (b + y) - (c + l) = (a - b - c) + (x - (y + l))
  OBVIOUS
<1>5. LoadFailures' = LoadFailures + (x - (y + l))
  BY <1>1, <1>2, <1>4 DEF LoadFailures, Moved
<1>6. \A a \in Nat, b \in Int : (a + z) - (b + (x - (y + l))) = (a - b) + (z - (x - (y + l)))
  OBVIOUS
<1>7. LoadFailures \in Int
  BY PoolFacts
<1>8. SubmitFailures' = SubmitFailures + (z - (x - (y + l)))
  BY <1>2, <1>5, <1>6, <1>7 DEF SubmitFailures, Moved
<1> QED BY <1>3, <1>5, <1>8

\* What each way of changing lists and counters does to the books.
LEMMA Unmoved ==
  ASSUME UNCHANGED <<refills, inFlight>>, Len(pool') = Len(pool),
         \A c \in {"promotions", "started", "completed", "failures"} : stats'[c] = stats[c]
  PROVE  Books => Books'
BY DEF Books, ReadyAccounted, SubmitFailures, Missing, LoadFailures, Loading, Attempts

\* A failed submission: one more missing, one more failure of its kind.
\* A failed load: more failures of the other kind, and its attempts are freed.
LEMMA BooksFrom ==
  ASSUME PoolTypeOK, PoolTypeOK', Books, ReadyAccounted',
         \A k \in 1..Len(refills') : refills'[k] < RefillMaxAttempts,
         \A k \in 1..Len(inFlight') : inFlight'[k] < RefillMaxAttempts,
         NEW s \in Nat, NEW d \in {0, 1}, NEW f \in Nat,
         SubmitFailures' = SubmitFailures + s,
         Missing' = Missing + s + d,
         LoadFailures' = LoadFailures + f,
         \A m, n \in Nat : SumIs(refills, m) /\ SumIs(inFlight, n) =>
           \E i, j \in Nat : /\ SumIs(refills', i) /\ SumIs(inFlight', j)
                             /\ i + j + RefillMaxAttempts * d <= m + n + f
  PROVE  Books'
<1>1. PICK m \in Nat, n \in Nat :
        /\ SumIs(refills, m) /\ SumIs(inFlight, n)
        /\ RefillMaxAttempts * (Missing - SubmitFailures) + m + n <= LoadFailures
  BY DEF Books, Attempts
<1>2. PICK i \in Nat, j \in Nat :
        /\ SumIs(refills', i) /\ SumIs(inFlight', j)
        /\ i + j + RefillMaxAttempts * d <= m + n + f
  BY <1>1
<1>3. /\ Missing \in Int /\ SubmitFailures \in Int /\ LoadFailures \in Int
      /\ Missing' \in Int /\ SubmitFailures' \in Int /\ LoadFailures' \in Int
  BY PoolFacts
<1>4. RefillMaxAttempts * (Missing' - SubmitFailures')
        = RefillMaxAttempts * (Missing - SubmitFailures) + RefillMaxAttempts * d
  <2>1. Missing' - SubmitFailures' = (Missing - SubmitFailures) + d
    BY <1>3
  <2>2. \A x, y \in Int : RefillMaxAttempts * (x + y) = RefillMaxAttempts * x + RefillMaxAttempts * y
    OBVIOUS
  <2> QED BY <1>3, <2>1, <2>2
<1>5. /\ RefillMaxAttempts * (Missing - SubmitFailures) \in Int
      /\ RefillMaxAttempts * d \in Int
  BY <1>3
<1>6. RefillMaxAttempts * (Missing' - SubmitFailures') + i + j <= LoadFailures'
  BY <1>1, <1>2, <1>3, <1>4, <1>5
<1>7. SubmitFailures' \in 0 .. Missing'
  BY <1>3 DEF Books
<1> QED BY <1>2, <1>6, <1>7 DEF Books, Attempts

\* A refill is started, or its submission fails.
LEMMA RefillStarted ==
  ASSUME NEW st \in [Counters -> Nat], NEW a \in Nat, a < RefillMaxAttempts,
         refills \in Seq(Nat), \A k \in 1..Len(refills) : refills[k] < RefillMaxAttempts,
         StartRefill(a, st)
  PROVE  /\ \A k \in 1..Len(refills') : refills'[k] < RefillMaxAttempts
         /\ stats'["promotions"] = st["promotions"] /\ stats'["completed"] = st["completed"]
         /\ \/ /\ refills' = Append(refills, a)
               /\ Len(refills') = Len(refills) + 1
               /\ stats'["started"] = st["started"] + 1
               /\ stats'["failures"] = st["failures"]
            \/ /\ refills' = refills
               /\ stats'["started"] = st["started"]
               /\ stats'["failures"] = st["failures"] + 1
<1>0. {"promotions", "started", "completed", "failures"} \subseteq Counters
  BY DEF Counters
<1>1. CASE refills' = Append(refills, a) /\ stats' = Count(st, "started")
  <2>1. /\ Len(refills') = Len(refills) + 1
        /\ \A k \in 1..Len(refills') : (k \in 1..Len(refills) /\ refills'[k] = refills[k]) \/ refills'[k] = a
    BY <1>1, AppendProperties
  <2> QED BY <1>0, <1>1, <2>1, CountOne
<1>2. CASE refills' = refills /\ stats' = Count(st, "failures")
  BY <1>0, <1>2, CountOne
<1> QED BY <1>1, <1>2 DEF StartRefill

\* The driver polls only inside the poll.
Polling == pc # "poll" => inFlight = << >>

\* The poll holds a refill only while it is under way.
LEMMA PollingNext ==
  ASSUME Polling, [Next]_vars
  PROVE  Polling'
<1>1. CASE UNCHANGED vars
  BY <1>1 DEF Polling, vars, driverVars, poolVars
<1>2. CASE WorkerNext
  BY <1>2 DEF WorkerNext, Complete, FailDeterministic, FailTransient, FailFatal, AnswerCall,
     Crash, FailOnDeadActor, Wedge, Age, IdleStandbyCrash, StandbyCrash, driverVars, poolVars,
     Polling
<1>3. CASE EnterLoop \/ PollRefill \/ EndPoll
  BY <1>3 DEF EnterLoop, PollRefill, EndPoll, poolVars, driverVars, Polling
<1>4. CASE DriverNext /\ ~(EnterLoop \/ PollRefill \/ EndPoll)
  <2>1. pc # "poll" /\ inFlight' = inFlight
    BY <1>4 DEF DriverNext, Fill, LeaveLoop, Abort, PromoteDue, PromoteNotDue, EndPromote,
       Dispatch, EndDispatch, Sleep, WaitTimeout, HarvestSuccess, HarvestFailure, Probe,
       ReplaceFromPool, PromoteStandby, ReplaceBlocking, FallBack, BlockingReplace,
       BlockingSucceeds, BlockingFails, RetryLater, FailTerminally, BeginScan, Evict, Reassign,
       EndScan, CollectStats, TeardownStandby, StatsRaise, poolVars
  <2> QED BY <2>1 DEF Polling
<1> QED BY <1>1, <1>2, <1>3, <1>4 DEF Next, Finished

\* Every step keeps the books of the pool.
LEMMA BooksNext ==
  ASSUME IInv, IInv', Polling, pc # "done" => Books, [Next]_vars
  PROVE  pc' # "done" => Books'
<1> SUFFICES ASSUME pc' # "done" PROVE Books'
  OBVIOUS
<1>0. /\ PoolTypeOK /\ PoolTypeOK'
      /\ refills \in Seq(Nat) /\ inFlight \in Seq(Nat) /\ stats \in [Counters -> Nat]
      /\ {"promotions", "started", "completed", "failures"} \subseteq Counters
      /\ Len(pool) \in Nat /\ Len(refills) \in Nat /\ Len(inFlight) \in Nat
      /\ \A c \in Counters : stats[c] \in Nat
  BY PoolFacts DEF IInv, TypeOK, PoolTypeOK, Counters
<1>1. CASE UNCHANGED <<pool, refills, inFlight, stats>> /\ pc # "done"
  BY <1>1, Unmoved
<1>2. CASE UNCHANGED vars
  BY <1>1, <1>2 DEF vars, driverVars, poolVars
<1>3. CASE WorkerNext
  <2>1. CASE IdleStandbyCrash
    <3>1. PICK k \in 1..Len(pool) : pool' = [pool EXCEPT ![k] = "dead"]
      BY <2>1 DEF IdleStandbyCrash, StandbyCrash
    <3>2. Len(pool') = Len(pool) /\ UNCHANGED <<refills, inFlight, stats>> /\ pc # "done"
      BY <1>0, <2>1, <3>1 DEF IdleStandbyCrash, StandbyCrash, Yielding, PoolTypeOK
    <3> QED BY <3>2, Unmoved
  <2>2. CASE ~IdleStandbyCrash
    <3>1. UNCHANGED <<pool, refills, inFlight, stats>> /\ pc # "done"
      BY <1>3, <2>2 DEF WorkerNext, Complete, FailDeterministic, FailTransient, FailFatal,
         AnswerCall, Crash, FailOnDeadActor, Wedge, Age, Yielding, poolVars
    <3> QED BY <1>1, <3>1
  <2> QED BY <2>1, <2>2
<1>4. CASE EnterLoop
  <2>1. /\ Books /\ inFlight = << >> /\ inFlight' = refills /\ refills' = << >>
        /\ UNCHANGED <<pool, stats>>
    BY <1>4 DEF EnterLoop, BeginPoll, Polling
  <2>2. Loading' = Loading
    <3>1. Len(<< >>) = 0
      OBVIOUS
    <3> QED BY <1>0, <2>1, <3>1 DEF Loading
  <2>3. UNCHANGED <<SubmitFailures, Missing, LoadFailures>>
    BY <2>1, <2>2 DEF SubmitFailures, Missing, LoadFailures
  <2>4. ReadyAccounted'
    BY <2>1 DEF Books, ReadyAccounted
  <2>5. /\ \A k \in 1..Len(refills') : refills'[k] < RefillMaxAttempts
        /\ \A k \in 1..Len(inFlight') : inFlight'[k] < RefillMaxAttempts
    BY <2>1 DEF Books
  <2>6. PICK m \in Nat, n \in Nat :
          /\ SumIs(refills, m) /\ SumIs(inFlight, n)
          /\ RefillMaxAttempts * (Missing - SubmitFailures) + m + n <= LoadFailures
    BY <2>1 DEF Books, Attempts
  <2>7. RefillMaxAttempts * (Missing - SubmitFailures) + 0 + m <= LoadFailures
    <3>1. RefillMaxAttempts * (Missing - SubmitFailures) \in Int /\ LoadFailures \in Int
      BY <1>0, PoolFacts
    <3> QED BY <2>6, <3>1
  <2>8. Attempts'
    BY <2>1, <2>3, <2>6, <2>7, SumEmpty DEF Attempts
  <2> QED BY <2>1, <2>3, <2>4, <2>5, <2>8 DEF Books
<1>5. CASE PollRefill
  <2>0. Books /\ inFlight # << >> /\ Len(inFlight') = Len(inFlight) - 1 /\ inFlight' = Tail(inFlight)
        /\ Len(inFlight) >= 1 /\ Head(inFlight) \in Nat
    BY <1>0, <1>5 DEF PollRefill, PollStep, PollLoading, PollReady, PollFailed
  <2>1. \A k \in 1..Len(inFlight') : inFlight'[k] < RefillMaxAttempts
    <3>1. \A k \in 1..Len(inFlight') : k + 1 \in 1..Len(inFlight) /\ inFlight'[k] = inFlight[k + 1]
      BY <1>0, <2>0
    <3> QED BY <2>0, <3>1 DEF Books
  <2>2. Head(inFlight) < RefillMaxAttempts
    BY <1>0, <2>0 DEF Books
  <2>3. CASE PollLoading
    <3>1. refills' = Append(refills, Head(inFlight)) /\ UNCHANGED <<pool, stats>>
      BY <2>3 DEF PollLoading
    <3>2. Len(refills') = Len(refills) + 1 /\ \A k \in 1..Len(refills') :
             (k \in 1..Len(refills) /\ refills'[k] = refills[k]) \/ refills'[k] = Head(inFlight)
      BY <1>0, <2>0, <3>1, AppendProperties
    <3>3. Loading' = Loading
      BY <1>0, <2>0, <3>2 DEF Loading
    <3>4. UNCHANGED <<SubmitFailures, Missing, LoadFailures>> /\ ReadyAccounted'
      BY <2>0, <3>1, <3>3 DEF SubmitFailures, Missing, LoadFailures, Books, ReadyAccounted
    <3>5. PICK m \in Nat, n \in Nat :
            /\ SumIs(refills, m) /\ SumIs(inFlight, n)
            /\ RefillMaxAttempts * (Missing - SubmitFailures) + m + n <= LoadFailures
      BY <2>0 DEF Books, Attempts
    <3>6. PICK j \in Nat : n = Head(inFlight) + j /\ SumIs(inFlight', j)
      BY <1>0, <2>0, <3>5, SumTail
    <3>7. SumIs(refills', m + Head(inFlight)) /\ m + Head(inFlight) \in Nat
      <4>1. PICK h \in Nat : h = Head(inFlight)
        BY <2>0
      <4>2. SumIs(Append(refills, h), m + h) /\ m + h \in Nat
        BY <1>0, <3>5, SumAppend
      <4> QED BY <3>1, <4>1, <4>2
    <3>8. RefillMaxAttempts * (Missing - SubmitFailures) + (m + Head(inFlight)) + j <= LoadFailures
      <4>1. RefillMaxAttempts * (Missing - SubmitFailures) \in Int /\ LoadFailures \in Int
        BY <1>0, PoolFacts
      <4> QED BY <2>0, <3>5, <3>6, <4>1
    <3>9. Attempts'
      BY <3>4, <3>6, <3>7, <3>8 DEF Attempts
    <3>10. \A k \in 1..Len(refills') : refills'[k] < RefillMaxAttempts
      BY <2>0, <2>2, <3>2 DEF Books
    <3> QED BY <2>0, <2>1, <3>4, <3>9, <3>10 DEF Books
  <2>4. CASE PollReady
    <3>1. /\ Len(pool') = Len(pool) + 1 /\ refills' = refills
          /\ stats'["completed"] = stats["completed"] + 1
          /\ stats'["promotions"] = stats["promotions"]
          /\ stats'["started"] = stats["started"] /\ stats'["failures"] = stats["failures"]
      <4>1. PICK x \in FreshStates : pool' = Append(pool, x)
        BY <2>4 DEF PollReady
      <4>2. Len(pool') = Len(pool) + 1
        BY <1>0, <4>1, FreshAssumption, AppendProperties DEF PoolTypeOK, WorkerStates
      <4> QED BY <1>0, <2>4, <4>2, CountOne DEF PollReady
    <3>2. Loading' = Loading - 1
      BY <1>0, <2>0, <3>1 DEF Loading
    <3>3. UNCHANGED <<SubmitFailures, Missing, LoadFailures>> /\ ReadyAccounted'
      <4>1. Loading \in Nat
        BY <1>0 DEF Loading
      <4>2. Missing' = Missing
        BY <1>0, <3>1, <3>2, <4>1 DEF Missing
      <4>3. LoadFailures' = LoadFailures
        BY <1>0, <3>1, <3>2, <4>1 DEF LoadFailures
      <4>4. SubmitFailures' = SubmitFailures
        BY <3>1, <4>3 DEF SubmitFailures
      <4>5. ReadyAccounted'
        BY <1>0, <2>0, <3>1 DEF Books, ReadyAccounted
      <4> QED BY <4>2, <4>3, <4>4, <4>5
    <3>4. PICK m \in Nat, n \in Nat :
            /\ SumIs(refills, m) /\ SumIs(inFlight, n)
            /\ RefillMaxAttempts * (Missing - SubmitFailures) + m + n <= LoadFailures
      BY <2>0 DEF Books, Attempts
    <3>5. PICK j \in Nat : n = Head(inFlight) + j /\ SumIs(inFlight', j)
      BY <1>0, <2>0, <3>4, SumTail
    <3>6. RefillMaxAttempts * (Missing - SubmitFailures) + m + j <= LoadFailures
      <4>1. RefillMaxAttempts * (Missing - SubmitFailures) \in Int /\ LoadFailures \in Int
        BY <1>0, PoolFacts
      <4> QED BY <2>0, <3>4, <3>5, <4>1
    <3>7. Attempts'
      BY <3>1, <3>3, <3>4, <3>5, <3>6 DEF Attempts
    <3> QED BY <2>0, <2>1, <3>1, <3>3, <3>7 DEF Books
  <2>5. CASE PollFailed
    <3>0. PICK h \in Nat : h = Head(inFlight)
      BY <2>0
    <3>a. PICK st \in [Counters -> Nat] : st = Count(stats, "failures")
      BY <1>0, CountType
    <3>b. /\ st["failures"] = stats["failures"] + 1 /\ st["promotions"] = stats["promotions"]
          /\ st["completed"] = stats["completed"] /\ st["started"] = stats["started"]
      BY <1>0, <3>a, CountOne
    <3>1. /\ pool' = pool /\ h < RefillMaxAttempts
      BY <2>2, <2>5, <3>0 DEF PollFailed
    <3>2. \A m, n \in Nat : SumIs(refills, m) /\ SumIs(inFlight, n) =>
            \E j \in Nat : n = h + j /\ SumIs(inFlight', j)
      BY <1>0, <2>0, <3>0, SumTail
    <3>3. /\ Loading = Len(refills) + Len(inFlight)
          /\ Loading' = Len(refills') + Len(inFlight) - 1
      BY <1>0, <2>0 DEF Loading
    <3>4. CASE h + 1 < RefillMaxAttempts
      <4>1. StartRefill(h + 1, st)
        BY <2>5, <3>0, <3>a, <3>4 DEF PollFailed, FailRefill
      <4>2. /\ \A k \in 1..Len(refills') : refills'[k] < RefillMaxAttempts
            /\ stats'["promotions"] = st["promotions"] /\ stats'["completed"] = st["completed"]
            /\ \/ /\ refills' = Append(refills, h + 1)
                  /\ Len(refills') = Len(refills) + 1
                  /\ stats'["started"] = st["started"] + 1
                  /\ stats'["failures"] = st["failures"]
               \/ /\ refills' = refills
                  /\ stats'["started"] = st["started"]
                  /\ stats'["failures"] = st["failures"] + 1
        <5>1. /\ h + 1 \in Nat /\ h + 1 < RefillMaxAttempts
              /\ refills \in Seq(Nat) /\ \A k \in 1..Len(refills) : refills[k] < RefillMaxAttempts
          BY <1>0, <2>0, <3>4 DEF Books
        <5> QED BY <4>1, <5>1, RefillStarted
      <4>3. ReadyAccounted'
        BY <1>0, <2>0, <3>b, <3>1, <4>2 DEF Books, ReadyAccounted
      <4>4. CASE refills' = Append(refills, h + 1) /\ Len(refills') = Len(refills) + 1
                 /\ stats'["started"] = st["started"] + 1 /\ stats'["failures"] = st["failures"]
        <5>1. Loading' = Loading /\ Loading \in Nat
          BY <1>0, <3>3, <4>4
        <5>3. Missing' = Missing + 0 + 0 /\ LoadFailures' = LoadFailures + 1 /\ SubmitFailures' = SubmitFailures + 0
          <6>1. Moved(0, 0, 1, 0, 1)
            BY <1>0, <3>b, <3>1, <4>2, <4>4, <5>1 DEF Moved
          <6>2. /\ Missing \in Int /\ LoadFailures \in Int /\ SubmitFailures \in Int
                /\ Missing' = Missing - (0 + 0)
                /\ LoadFailures' = LoadFailures + (1 - (0 + 0))
                /\ SubmitFailures' = SubmitFailures + (1 - (1 - (0 + 0)))
            BY <1>0, <6>1, PoolFacts, Moves
          <6> QED BY <6>2
        <5>5. ASSUME NEW m \in Nat, NEW n \in Nat, SumIs(refills, m), SumIs(inFlight, n)
              PROVE  \E i, j \in Nat : /\ SumIs(refills', i) /\ SumIs(inFlight', j)
                                       /\ i + j + RefillMaxAttempts * 0 <= m + n + 1
          <6>1. PICK j \in Nat : n = h + j /\ SumIs(inFlight', j)
            BY <3>2, <5>5
          <6>2. SumIs(refills', m + (h + 1)) /\ m + (h + 1) \in Nat
            <7>1. h + 1 \in Nat
              OBVIOUS
            <7>2. PICK g \in Nat : g = h + 1
              BY <7>1
            <7>3. SumIs(Append(refills, g), m + g)
              BY <1>0, <5>5, SumAppend
            <7> QED BY <4>4, <7>2, <7>3
          <6>3. (m + (h + 1)) + j + RefillMaxAttempts * 0 <= m + n + 1
            BY <6>1
          <6> QED BY <6>1, <6>2, <6>3
        <5> QED BY <1>0, <2>0, <2>1, <4>2, <4>3, <5>3, <5>5, BooksFrom
      <4>5. CASE refills' = refills /\ stats'["started"] = st["started"]
                 /\ stats'["failures"] = st["failures"] + 1
        <5>1. Loading' = Loading - 1 /\ Loading \in Nat
          BY <1>0, <3>3, <4>5
        <5>3. Missing' = Missing + 1 + 0 /\ LoadFailures' = LoadFailures + 1 /\ SubmitFailures' = SubmitFailures + 1
          <6>1. Moved(0, -1, 0, 0, 2)
            BY <1>0, <3>b, <3>1, <4>2, <4>5, <5>1 DEF Moved
          <6>2. /\ Missing \in Int /\ LoadFailures \in Int /\ SubmitFailures \in Int
                /\ Missing' = Missing - (0 + (-1))
                /\ LoadFailures' = LoadFailures + (0 - (0 + (-1)))
                /\ SubmitFailures' = SubmitFailures + (2 - (0 - (0 + (-1))))
            BY <1>0, <6>1, PoolFacts, Moves
          <6> QED BY <6>2
        <5>5. ASSUME NEW m \in Nat, NEW n \in Nat, SumIs(refills, m), SumIs(inFlight, n)
              PROVE  \E i, j \in Nat : /\ SumIs(refills', i) /\ SumIs(inFlight', j)
                                       /\ i + j + RefillMaxAttempts * 0 <= m + n + 1
          <6>1. PICK j \in Nat : n = h + j /\ SumIs(inFlight', j)
            BY <3>2, <5>5
          <6>2. m + j + RefillMaxAttempts * 0 <= m + n + 1
            BY <6>1
          <6> QED BY <4>5, <5>5, <6>1, <6>2
        <5> QED BY <1>0, <2>0, <2>1, <4>2, <4>3, <5>3, <5>5, BooksFrom
      <4> QED BY <4>2, <4>4, <4>5
    <3>5. CASE ~(h + 1 < RefillMaxAttempts)
      <4>1. refills' = refills /\ stats' = st /\ h = RefillMaxAttempts - 1
        BY <2>5, <3>0, <3>a, <3>1, <3>5 DEF PollFailed, FailRefill
      <4>2. ReadyAccounted'
        BY <1>0, <2>0, <3>b, <3>1, <4>1 DEF Books, ReadyAccounted
      <4>3. Loading' = Loading - 1 /\ Loading \in Nat
        BY <1>0, <3>3, <4>1
      <4>5. Missing' = Missing + 0 + 1 /\ LoadFailures' = LoadFailures + 1 /\ SubmitFailures' = SubmitFailures + 0
        <5>1. Moved(0, -1, 0, 0, 1)
          BY <1>0, <3>b, <3>1, <4>1, <4>3 DEF Moved
        <5>2. /\ Missing \in Int /\ LoadFailures \in Int /\ SubmitFailures \in Int
              /\ Missing' = Missing - (0 + (-1))
              /\ LoadFailures' = LoadFailures + (0 - (0 + (-1)))
              /\ SubmitFailures' = SubmitFailures + (1 - (0 - (0 + (-1))))
          BY <1>0, <5>1, PoolFacts, Moves
        <5> QED BY <5>2
      <4>7. ASSUME NEW m \in Nat, NEW n \in Nat, SumIs(refills, m), SumIs(inFlight, n)
            PROVE  \E i, j \in Nat : /\ SumIs(refills', i) /\ SumIs(inFlight', j)
                                     /\ i + j + RefillMaxAttempts * 1 <= m + n + 1
        <5>1. PICK j \in Nat : n = h + j /\ SumIs(inFlight', j)
          BY <3>2, <4>7
        <5>2. m + j + RefillMaxAttempts * 1 <= m + n + 1
          BY <4>1, <5>1
        <5> QED BY <4>1, <4>7, <5>1, <5>2
      <4> QED BY <1>0, <2>0, <2>1, <4>1, <4>2, <4>5, <4>7, BooksFrom DEF Books
    <3> QED BY <3>4, <3>5
  <2> QED BY <1>5, <2>3, <2>4, <2>5 DEF PollRefill, PollStep
<1>6. CASE ReplaceFromPool
  <2>a. PICK st \in [Counters -> Nat] : st = Count(stats, "promotions")
    BY <1>0, CountType
  <2>b. /\ st["promotions"] = stats["promotions"] + 1 /\ st["failures"] = stats["failures"]
        /\ st["completed"] = stats["completed"] /\ st["started"] = stats["started"]
    BY <1>0, <2>a, CountOne
  <2>1. Books /\ pool # << >> /\ inFlight' = inFlight /\ StartRefill(0, st)
    BY <1>6, <2>a DEF ReplaceFromPool, PromoteStandby
  <2>2. Len(pool') = Len(pool) - 1
    <3>1. Len(pool) \in Nat \ {0} /\ pool \in Seq(WorkerStates)
      BY <1>0, <2>1 DEF PoolTypeOK
    <3>2. PICK l \in Nat : l = Len(pool) - 1
      BY <3>1
    <3>3. l <= Len(pool) /\ 1 <= l + 1
      BY <3>1, <3>2
    <3>4. Len(SubSeq(pool, 1, l)) = l
      BY <3>1, <3>2, <3>3
    <3>5. pool' = SubSeq(pool, 1, Len(pool) - 1)
      BY <1>6 DEF ReplaceFromPool, PromoteStandby
    <3> QED BY <3>2, <3>4, <3>5
  <2>3. /\ \A k \in 1..Len(refills') : refills'[k] < RefillMaxAttempts
        /\ stats'["promotions"] = st["promotions"] /\ stats'["completed"] = st["completed"]
        /\ \/ /\ refills' = Append(refills, 0)
              /\ Len(refills') = Len(refills) + 1
              /\ stats'["started"] = st["started"] + 1
              /\ stats'["failures"] = st["failures"]
           \/ /\ refills' = refills
              /\ stats'["started"] = st["started"]
              /\ stats'["failures"] = st["failures"] + 1
    <3>1. /\ 0 \in Nat /\ 0 < RefillMaxAttempts
          /\ refills \in Seq(Nat) /\ \A k \in 1..Len(refills) : refills[k] < RefillMaxAttempts
      BY <1>0, <2>1 DEF Books
    <3> QED BY <2>1, <3>1, RefillStarted
  <2>4. ReadyAccounted'
    BY <1>0, <2>b, <2>1, <2>2, <2>3 DEF Books, ReadyAccounted
  <2>5. \A k \in 1..Len(inFlight') : inFlight'[k] < RefillMaxAttempts
    BY <2>1 DEF Books
  <2>6. CASE refills' = Append(refills, 0) /\ Len(refills') = Len(refills) + 1
             /\ stats'["started"] = st["started"] + 1 /\ stats'["failures"] = st["failures"]
    <3>1. Loading' = Loading + 1 /\ Loading \in Nat
      BY <1>0, <2>1, <2>6 DEF Loading
    <3>3. Missing' = Missing + 0 + 0 /\ LoadFailures' = LoadFailures + 0 /\ SubmitFailures' = SubmitFailures + 0
      <4>1. Moved(-1, 1, 1, 0, 0)
        BY <1>0, <2>b, <2>2, <2>3, <2>6, <3>1 DEF Moved
      <4>2. /\ Missing \in Int /\ LoadFailures \in Int /\ SubmitFailures \in Int
            /\ Missing' = Missing - ((-1) + 1)
            /\ LoadFailures' = LoadFailures + (1 - (0 + 1))
            /\ SubmitFailures' = SubmitFailures + (0 - (1 - (0 + 1)))
        BY <1>0, <4>1, PoolFacts, Moves
      <4> QED BY <4>2
    <3>5. ASSUME NEW m \in Nat, NEW n \in Nat, SumIs(refills, m), SumIs(inFlight, n)
          PROVE  \E i, j \in Nat : /\ SumIs(refills', i) /\ SumIs(inFlight', j)
                                   /\ i + j + RefillMaxAttempts * 0 <= m + n + 0
      <4>1. SumIs(refills', m + 0)
        BY <1>0, <2>6, <3>5, SumAppend
      <4>2. SumIs(inFlight', n) /\ m + 0 = m /\ m + n + RefillMaxAttempts * 0 <= m + n + 0
        BY <2>1, <3>5
      <4> QED BY <4>1, <4>2
    <3> QED BY <1>0, <2>1, <2>3, <2>4, <2>5, <3>3, <3>5, BooksFrom
  <2>7. CASE refills' = refills /\ stats'["started"] = st["started"]
             /\ stats'["failures"] = st["failures"] + 1
    <3>1. Loading' = Loading /\ Loading \in Nat
      BY <1>0, <2>1, <2>7 DEF Loading
    <3>3. Missing' = Missing + 1 + 0 /\ LoadFailures' = LoadFailures + 0 /\ SubmitFailures' = SubmitFailures + 1
      <4>1. Moved(-1, 0, 0, 0, 1)
        BY <1>0, <2>b, <2>2, <2>3, <2>7, <3>1 DEF Moved
      <4>2. /\ Missing \in Int /\ LoadFailures \in Int /\ SubmitFailures \in Int
            /\ Missing' = Missing - ((-1) + 0)
            /\ LoadFailures' = LoadFailures + (0 - (0 + 0))
            /\ SubmitFailures' = SubmitFailures + (1 - (0 - (0 + 0)))
        BY <1>0, <4>1, PoolFacts, Moves
      <4> QED BY <4>2
    <3>5. ASSUME NEW m \in Nat, NEW n \in Nat, SumIs(refills, m), SumIs(inFlight, n)
          PROVE  \E i, j \in Nat : /\ SumIs(refills', i) /\ SumIs(inFlight', j)
                                   /\ i + j + RefillMaxAttempts * 0 <= m + n + 0
      <4>1. SumIs(inFlight', n) /\ SumIs(refills', m) /\ m + n + RefillMaxAttempts * 0 <= m + n + 0
        BY <2>1, <2>7, <3>5
      <4> QED BY <4>1
    <3> QED BY <1>0, <2>1, <2>3, <2>4, <2>5, <3>3, <3>5, BooksFrom
  <2> QED BY <2>3, <2>6, <2>7
<1>7. CASE ReplaceBlocking
  <2>1. /\ UNCHANGED <<pool, refills, inFlight>> /\ pc # "done"
        /\ stats' = Count(stats, "fallbacks") \/ stats' = stats
    BY <1>7 DEF ReplaceBlocking, FallBack
  <2>2. \A c \in {"promotions", "started", "completed", "failures"} : stats'[c] = stats[c]
    BY <1>0, <2>1, CountOne DEF Counters
  <2> QED BY <2>1, <2>2, Unmoved
<1>8. CASE CollectStats
  BY <1>8 DEF CollectStats
<1>9. CASE DriverNext /\ ~(EnterLoop \/ PollRefill \/ ReplaceFromPool \/ ReplaceBlocking \/ CollectStats)
  <2>1. UNCHANGED <<pool, refills, inFlight, stats>> /\ pc # "done"
    BY <1>9 DEF DriverNext, Fill, LeaveLoop, EndPoll, Abort, PromoteDue, PromoteNotDue, EndPromote,
       Dispatch, EndDispatch, Sleep, WaitTimeout, HarvestSuccess, HarvestFailure, Probe,
       BlockingReplace, BlockingSucceeds, BlockingFails, RetryLater, FailTerminally, BeginScan,
       Evict, Reassign, EndScan, StatsRaise, poolVars
  <2> QED BY <1>1, <2>1
<1> QED BY <1>2, <1>3, <1>4, <1>5, <1>6, <1>7, <1>8, <1>9 DEF Next, Finished

\* The books are right at first.
LEMMA BooksInit == Init => Books
<1> SUFFICES ASSUME Init PROVE Books
  OBVIOUS
<1>1. /\ Len(pool) = Standby /\ refills = << >> /\ inFlight = << >>
      /\ \A c \in Counters : stats[c] = 0
  BY DEF Init, PoolInit
<1>2. /\ stats["promotions"] = 0 /\ stats["started"] = 0
      /\ stats["completed"] = 0 /\ stats["failures"] = 0
  BY <1>1 DEF Counters
<1>3. Len(<< >>) = 0
  OBVIOUS
<1>4. Loading = 0
  BY <1>1, <1>3 DEF Loading
<1>5. Missing = 0 /\ LoadFailures = 0
  BY <1>1, <1>2, <1>4 DEF Missing, LoadFailures
<1>6. SubmitFailures = 0
  BY <1>2, <1>5 DEF SubmitFailures
<1>7. ReadyAccounted
  BY <1>1, <1>2 DEF ReadyAccounted
<1>8. Attempts
  <2>1. RefillMaxAttempts * (0 - 0) + 0 + 0 <= 0
    OBVIOUS
  <2> QED BY <1>1, <1>5, <1>6, <2>1, SumEmpty DEF Attempts
<1> QED BY <1>1, <1>3, <1>5, <1>6, <1>7, <1>8 DEF Books

PoolInv == IInv /\ Polling /\ (pc # "done" => Books)

\* Until it is torn down, the standby pool accounts for every standby: it is
\* ready, loading, or missing after a submission that failed or as many failed
\* loads as are allowed.
THEOREM PoolAccounted == Spec => []StandbysAccounted
<1>1. Init => PoolInv
  BY InitIInv, BooksInit DEF PoolInv, Polling, Init, PoolInit
<1>2. PoolInv /\ [Next]_vars => PoolInv'
  BY NextIInv, PollingNext, BooksNext DEF PoolInv
<1>3. PoolInv => StandbysAccounted
  <2> SUFFICES ASSUME IInv, Books PROVE ReadyAccounted /\ MissingOnlyAfterRetries
    BY DEF PoolInv, StandbysAccounted
  <2>1. PICK m \in Nat, n \in Nat :
          RefillMaxAttempts * (Missing - SubmitFailures) + m + n <= LoadFailures
    BY DEF Books, Attempts
  <2>2. RefillMaxAttempts * (Missing - SubmitFailures) \in Int /\ LoadFailures \in Int
    BY PoolFacts DEF IInv, TypeOK
  <2>3. RefillMaxAttempts * (Missing - SubmitFailures) <= LoadFailures
    BY <2>1, <2>2
  <2> QED BY <2>3 DEF Books, MissingOnlyAfterRetries
<1> QED BY <1>1, <1>2, <1>3, PTL DEF Spec

-----------------------------------------------------------------------------
(* Broken workers. *)

\* While a worker is known to itself to be broken, the failure that broke it is
\* on its way to the driver, or the driver is about to find out or replace it.
BrokenInHand ==
  /\ \A k \in 1..Len(pool) : pool[k] # "bad"
  /\ \A i \in Slots : slot[i] = "bad" =>
       pc # "fill" /\ (call[i].st = "transient" \/ (job.slot = i /\ pc \in {"probe", "replace"}))

\* What a call that begins looks like.
LEMMA CallFields ==
  ASSUME TypeOK, DriverConsistent
  PROVE  /\ slot \in [Slots -> WorkerStates \cup {"none"}] /\ pool \in Seq(WorkerStates)
         /\ \A e : NewCall(e).st = "running" /\ NewCall(e) # NoCall
         /\ NoCall.st = "idle"
         /\ pc \in HandlingSteps => job.slot \in Slots /\ call[job.slot] = NoCall
         /\ call \in [Slots -> Calls]
<1>1. pc \in HandlingSteps => job # NoJob /\ call[job.slot] = NoCall
  BY DEF DriverConsistent, JobInHand
<1>2. job # NoJob => job.slot \in Slots
  BY DEF TypeOK, Jobs, FailedJobs, HungJobs
<1> QED BY <1>1, <1>2 DEF TypeOK, PoolTypeOK, NoCall, NewCall

\* What AssignHead leaves of the calls.
LEMMA AssignHeadCalls ==
  ASSUME TypeOK, NEW i \in Slots, NEW q, AssignHead(i, q)
  PROVE  /\ \A j \in Slots : j # i => call'[j] = call[j]
         /\ call'[i] = NoCall \/ \E e : call'[i] = NewCall(e)
<1>1. PICK c : call' = [call EXCEPT ![i] = c] /\ (c = NoCall \/ \E e : c = NewCall(e))
  BY DEF AssignHead
<1> QED BY <1>1 DEF TypeOK

\* No step gives a call to a slot whose worker is known to be broken.
LEMMA BrokenNext ==
  ASSUME IInv, BrokenInHand, FreshStates = {"up"}, [Next]_vars
  PROVE  /\ BrokenInHand'
         /\ \A i \in Slots :
              call'[i].st = "running" /\ call'[i] # call[i] => slot'[i] # "bad"
<1> DEFINE Safe == \A i \in Slots :
              call'[i].st = "running" /\ call'[i] # call[i] => slot'[i] # "bad"
<1> SUFFICES BrokenInHand' /\ Safe
  OBVIOUS
<1>0. /\ slot \in [Slots -> WorkerStates \cup {"none"}] /\ pool \in Seq(WorkerStates)
      /\ \A e : NewCall(e).st = "running" /\ NewCall(e) # NoCall
      /\ NoCall.st = "idle"
      /\ pc \in HandlingSteps => job.slot \in Slots /\ call[job.slot] = NoCall
      /\ call \in [Slots -> Calls]
  BY CallFields DEF IInv
<1>1. CASE UNCHANGED vars
  BY <1>1 DEF vars, driverVars, poolVars, BrokenInHand
<1>2. CASE WorkerNext
  <2>0. pc' = pc /\ job' = job /\ pc # "fill"
    BY <1>2 DEF WorkerNext, Complete, FailDeterministic, FailTransient, FailFatal, AnswerCall,
       Crash, FailOnDeadActor, Wedge, Age, IdleStandbyCrash, Yielding, driverVars
  <2>1. ASSUME NEW i \in Slots, NEW st \in Answered, NEW s, AnswerCall(i, st, s),
               s # "bad" \/ st = "transient" \/ s = Recovered(slot[i])
        PROVE  BrokenInHand' /\ Safe
    <3>1. /\ call[i].st = "running" /\ UNCHANGED pool
          /\ call' = [call EXCEPT ![i] = Answer(call[i], st)] /\ slot' = [slot EXCEPT ![i] = s]
      BY <2>1 DEF AnswerCall
    <3>2. slot[i] # "bad"
      BY <1>0, <3>1 DEF BrokenInHand, HandlingSteps
    <3>3. s = "bad" => st = "transient"
      BY <2>1, <3>2 DEF Recovered
    <3>4. /\ call'[i].st = st /\ slot'[i] = s
          /\ \A j \in Slots : j # i => call'[j] = call[j] /\ slot'[j] = slot[j]
      BY <1>0, <3>1 DEF Answer
    <3>5. st # "running"
      BY DEF Answered
    <3> QED BY <2>0, <3>1, <3>3, <3>4, <3>5 DEF BrokenInHand
  <2>2. ASSUME NEW i \in Slots,
               Complete(i) \/ FailDeterministic(i) \/ FailTransient(i) \/ FailFatal(i)
        PROVE  BrokenInHand' /\ Safe
    <3>1. {"ok", "deterministic", "transient"} \subseteq Answered
      BY DEF Answered
    <3> QED BY <2>1, <2>2, <3>1 DEF Complete, FailDeterministic, FailTransient, FailFatal
  <2>3. ASSUME NEW i \in Slots, Crash(i) \/ Wedge(i) PROVE BrokenInHand' /\ Safe
    <3>1. PICK s \in {"dead", "wedged"} : slot' = [slot EXCEPT ![i] = s]
      BY <2>3 DEF Crash, Wedge
    <3>2. UNCHANGED <<call, pool>>
      BY <2>3 DEF Crash, Wedge, driverVars
    <3> QED BY <1>0, <2>0, <3>1, <3>2 DEF BrokenInHand
  <2>4. ASSUME NEW i \in Slots, FailOnDeadActor(i) \/ Age(i) PROVE BrokenInHand' /\ Safe
    <3>1. PICK c : /\ call' = [call EXCEPT ![i] = c]
                   /\ c.st = "transient" \/ (c.st = call[i].st /\ (c.st = "running" => slot[i] = "wedged"))
      <4>1. CASE FailOnDeadActor(i)
        <5>1. /\ call' = [call EXCEPT ![i] = Answer(call[i], "transient")]
              /\ Answer(call[i], "transient").st = "transient"
          BY <4>1 DEF FailOnDeadActor, Answer
        <5> QED BY <5>1
      <4>2. CASE Age(i)
        <5>1. /\ call' = [call EXCEPT ![i] = Aged(call[i])] /\ Aged(call[i]).st = call[i].st
              /\ call[i].st = "running" => slot[i] = "wedged"
          BY <4>2 DEF Age, Aged, Answered
        <5> QED BY <5>1
      <4> QED BY <2>4, <4>1, <4>2
    <3>2. UNCHANGED <<slot, pool>>
      BY <2>4 DEF FailOnDeadActor, Age, poolVars
    <3>3. /\ call'[i] = c /\ \A j \in Slots : j # i => call'[j] = call[j]
      BY <1>0, <3>1
    <3> QED BY <2>0, <3>1, <3>2, <3>3 DEF BrokenInHand
  <2>5. CASE IdleStandbyCrash
    <3>1. PICK k \in 1..Len(pool) : pool' = [pool EXCEPT ![k] = "dead"]
      BY <2>5 DEF IdleStandbyCrash, StandbyCrash
    <3>2. UNCHANGED <<slot, call>>
      BY <2>5 DEF IdleStandbyCrash, StandbyCrash, driverVars
    <3>3. Len(pool') = Len(pool) /\ \A m \in 1..Len(pool) : pool'[m] = pool[m] \/ pool'[m] = "dead"
      BY <1>0, <3>1
    <3> QED BY <2>0, <3>2, <3>3 DEF BrokenInHand
  <2> QED BY <1>2, <2>2, <2>3, <2>4, <2>5 DEF WorkerNext
<1>3. CASE Fill
  <2>1. \A i \in Slots : slot[i] # "bad"
    BY <1>3 DEF Fill, BrokenInHand
  <2>2. UNCHANGED <<slot, pool>>
    BY <1>3 DEF Fill, poolVars
  <2> QED BY <2>1, <2>2 DEF BrokenInHand
<1>4. ASSUME NEW i \in Slots, HarvestSuccess(i) PROVE BrokenInHand' /\ Safe
  <2>1. /\ pc = "wait" /\ call[i].st = "ok" /\ AssignHead(i, pending) /\ pc' = "expire"
        /\ UNCHANGED <<slot, pool, job>>
    BY <1>4 DEF HarvestSuccess, poolVars
  <2>2. \A j \in Slots : j # i => call'[j] = call[j]
    BY <2>1, AssignHeadCalls DEF IInv
  <2> QED BY <2>1, <2>2 DEF BrokenInHand
<1>5. ASSUME NEW i \in Slots, HarvestFailure(i) PROVE BrokenInHand' /\ Safe
  <2>1. /\ pc = "wait" /\ pc' = "probe" /\ job'.slot = i
        /\ call' = [call EXCEPT ![i] = NoCall] /\ UNCHANGED <<slot, pool>>
    BY <1>5 DEF HarvestFailure, poolVars
  <2> QED BY <1>0, <2>1 DEF BrokenInHand
<1>6. CASE Probe
  <2>1. /\ pc = "probe" /\ UNCHANGED <<call, job, slot, pool>> /\ pc' \in {"decide", "replace"}
        /\ pc' = "decide" => slot[job.slot] # "bad"
    BY <1>6 DEF Probe, poolVars
  <2> QED BY <2>1 DEF BrokenInHand
<1>7. CASE ReplaceFromPool
  <2>1. /\ pc = "replace" /\ pc' = AfterReplace /\ UNCHANGED <<call, job>> /\ pool # << >>
        /\ slot' = [slot EXCEPT ![job.slot] = pool[Len(pool)]]
        /\ pool' = SubSeq(pool, 1, Len(pool) - 1)
    BY <1>7 DEF ReplaceFromPool, PromoteStandby
  <2>2. Len(pool) \in 1..Len(pool)
    BY <1>0, <2>1
  <2>3. \A k \in 1..Len(pool') : k \in 1..Len(pool) /\ pool'[k] = pool[k]
    BY <1>0, <2>1, <2>2
  <2>4. pool[Len(pool)] # "bad"
    BY <2>2 DEF BrokenInHand
  <2> QED BY <1>0, <2>1, <2>3, <2>4 DEF BrokenInHand, AfterReplace
<1>8. CASE ReplaceBlocking
  <2>1. /\ pc = "replace" /\ pc' = "blocking" /\ UNCHANGED <<call, job, pool>>
        /\ slot' = [slot EXCEPT ![job.slot] = "none"]
    BY <1>8 DEF ReplaceBlocking, FallBack
  <2> QED BY <1>0, <2>1 DEF BrokenInHand
<1>9. CASE BlockingReplace
  <2>1. /\ pc = "blocking" /\ pc' \in {"reassign", "decide", "blocking"} /\ UNCHANGED <<call, job, pool>>
        /\ slot' = [slot EXCEPT ![blocking.slot] = "up"] \/ slot' = slot
    BY <1>9 DEF BlockingReplace, BlockingSucceeds, BlockingFails, AfterReplace
  <2> QED BY <1>0, <2>1 DEF BrokenInHand
<1>10. CASE RetryLater \/ FailTerminally \/ Reassign
  <2>1. /\ pc \in {"decide", "reassign"} /\ pc' \in {"expire", "scan"} /\ AssignHead(job.slot, pending)
        /\ UNCHANGED <<slot, pool>>
    BY <1>10 DEF RetryLater, FailTerminally, Reassign, poolVars
  <2>2. job.slot \in Slots /\ call[job.slot] = NoCall
    BY <1>0, <2>1 DEF HandlingSteps
  <2>3. slot[job.slot] # "bad"
    BY <1>0, <2>1, <2>2 DEF BrokenInHand
  <2>4. \A j \in Slots : j # job.slot => call'[j] = call[j]
    BY <2>1, <2>2, AssignHeadCalls DEF IInv
  <2> QED BY <2>1, <2>2, <2>3, <2>4 DEF BrokenInHand
<1>11. ASSUME NEW i \in Slots, Evict(i) PROVE BrokenInHand' /\ Safe
  <2>1. /\ pc = "scan" /\ pc' = "replace" /\ job'.slot = i
        /\ call' = [call EXCEPT ![i] = NoCall] /\ UNCHANGED <<slot, pool>>
    BY <1>11 DEF Evict, poolVars
  <2> QED BY <1>0, <2>1 DEF BrokenInHand
<1>12. CASE Dispatch
  <2>1. PICK i \in Slots :
          /\ pc = "dispatch" /\ pc' = pc /\ call[i] = NoCall
          /\ call' = [call EXCEPT ![i] = NewCall(Head(pending))] /\ UNCHANGED <<slot, pool, job>>
    BY <1>12 DEF Dispatch, Idle, poolVars
  <2>2. slot[i] # "bad"
    BY <1>0, <2>1 DEF BrokenInHand
  <2> QED BY <1>0, <2>1, <2>2 DEF BrokenInHand
<1>13. CASE PollRefill
  <2>1. /\ pc = "poll" /\ UNCHANGED <<pc, call, job, slot>>
        /\ pool' = pool \/ pool' = Append(pool, "up")
    BY <1>13 DEF PollRefill, PollStep, PollLoading, PollReady, PollFailed, driverVars
  <2>2. \A k \in 1..Len(pool') : (k \in 1..Len(pool) /\ pool'[k] = pool[k]) \/ pool'[k] = "up"
    <3>1. "up" \in WorkerStates
      BY DEF WorkerStates
    <3> QED BY <1>0, <2>1, <3>1, AppendProperties
  <2> QED BY <2>1, <2>2 DEF BrokenInHand
<1>14. CASE EnterLoop \/ LeaveLoop \/ EndPoll \/ Abort \/ PromoteDue \/ PromoteNotDue
            \/ EndPromote \/ EndDispatch \/ Sleep \/ WaitTimeout \/ BeginScan \/ EndScan
            \/ CollectStats \/ StatsRaise
  <2>1. /\ UNCHANGED <<call, job, slot>>
        /\ pool' = pool \/ pool' = << >>
        /\ pc \notin {"probe", "replace", "fill"} /\ pc' # "fill"
    BY <1>14 DEF EnterLoop, BeginPoll, LeaveLoop, EndPoll, Abort, PromoteDue, PromoteNotDue, EndPromote,
       EndDispatch, Sleep, WaitTimeout, BeginScan, EndScan, CollectStats, TeardownStandby, StatsRaise,
       poolVars
  <2>2. \A k \in 1..Len(pool') : k \in 1..Len(pool) /\ pool'[k] = pool[k]
    <3>1. Len(<< >>) = 0
      OBVIOUS
    <3> QED BY <2>1, <3>1
  <2>3. \A k \in 1..Len(pool') : pool'[k] # "bad"
    BY <2>2 DEF BrokenInHand
  <2>4. \A i \in Slots : slot'[i] = "bad" => pc' # "fill" /\ call'[i].st = "transient"
    BY <2>1 DEF BrokenInHand
  <2>5. BrokenInHand'
    BY <2>3, <2>4 DEF BrokenInHand
  <2> QED BY <2>1, <2>5
<1> HIDE DEF Safe
<1>15. CASE DriverNext
  BY <1>3, <1>4, <1>5, <1>6, <1>7, <1>8, <1>9, <1>10, <1>11, <1>12, <1>13, <1>14, <1>15
     DEF DriverNext
<1> QED BY <1>1, <1>2, <1>15 DEF Next, Finished

\* If every worker constructed is good, no batch starts on a broken one: what
\* breaks an engine is seen before the slot is used again.
THEOREM BrokenWorkersGetNoCall ==
  ASSUME FreshStates = {"up"}
  PROVE  Spec => NoCallToBadWorker
<1>1. Init => BrokenInHand
  BY DEF Init, PoolInit, BrokenInHand
<1>2. IInv /\ BrokenInHand /\ [Next]_vars => BrokenInHand'
  BY BrokenNext
<1>3. IInv /\ BrokenInHand /\ [Next]_vars =>
        [\A i \in Slots : call'[i].st = "running" /\ call'[i] # call[i] => slot'[i] # "bad"]_vars
  BY BrokenNext
<1> QED BY <1>1, <1>2, <1>3, InitIInv, NextIInv, PTL DEF Spec, NoCallToBadWorker
=============================================================================
