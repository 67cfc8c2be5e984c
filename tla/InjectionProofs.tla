--------------------------- MODULE InjectionProofs ---------------------------
(***************************************************************************)
(* Theorems about InjectedFaults, for every number of workers, tasks and   *)
(* decider shards and every set of verdicts: an injected run is a run of   *)
(* the coordinator, and what becomes of a task is fixed by the seed.       *)
(***************************************************************************)
EXTENDS InjectedFaults, CoordinatorProofs, ProofLemmas

USE NTasksAssumption, BatchSizeAssumption, NWorkersAssumption, StandbyAssumption,
    MaxRetriesAssumption

-----------------------------------------------------------------------------
(* The coordinator does not see what the workers ask. *)

\* A step of the injected run is a step of the coordinator or of none of its
\* variables.
LEMMA InjectedStep ==
  ASSUME [InjectNext]_allVars
  PROVE  [Next]_vars
<1>1. CASE DriverNext /\ ForgetVerdicts
  BY <1>1 DEF Next
<1>2. CASE \E i \in Slots : ShouldFail(i)
  BY <1>2 DEF ShouldFail
<1>3. CASE \E i \in Slots : FailInjected(i) /\ ForgetVerdicts
  BY <1>3 DEF FailInjected, Next, WorkerNext
<1>4. CASE \E i \in Slots : Evaluate(i) /\ ForgetVerdicts
  BY <1>4 DEF Evaluate, Next, WorkerNext
<1>5. CASE Finished /\ UNCHANGED injectVars
  BY <1>5 DEF Next
<1>6. CASE UNCHANGED allVars
  BY <1>6 DEF allVars
<1> QED BY <1>1, <1>2, <1>3, <1>4, <1>5, <1>6 DEF InjectNext

\* Fault injection adds no behaviour to the coordinator's: all that is proved of
\* its runs holds with injected failures, which are transient errors like others.
THEOREM InjectedRunsAreRuns == InjectSpec => Spec
<1>1. InjectInit => Init
  BY DEF InjectInit
<1> QED BY <1>1, InjectedStep, PTL DEF InjectSpec, Spec

-----------------------------------------------------------------------------
(* The walk of a task through its batches. *)

\* f takes the walk's steps up to n.
Walks(f, n) == /\ f = [k \in 0 .. n |-> f[k]]
               /\ f[0] = AtFirst
               /\ \A k \in 0 .. n : k # 0 => f[k] = Retried(f[k - 1])

\* The first n steps are given by some function.
LEMMA WalksExist ==
  ASSUME NEW n \in Nat
  PROVE  \E f : Walks(f, n)
<1> DEFINE T == {m \in Nat : \E f : Walks(f, m)}
<1>1. 0 \in T
  <2>1. Walks([k \in 0 .. 0 |-> AtFirst], 0)
    BY DEF Walks
  <2> QED BY <2>1
<1>2. ASSUME NEW m \in Nat, m \in T PROVE m + 1 \in T
  <2>1. PICK f : Walks(f, m)
    BY <1>2
  <2> DEFINE g == [k \in 0 .. m + 1 |-> IF k = m + 1 THEN Retried(f[m]) ELSE f[k]]
  <2>2. /\ m + 1 \in 0 .. m + 1 /\ m \in 0 .. m + 1 /\ m # m + 1 /\ (m + 1) - 1 = m
        /\ 0 \in 0 .. m + 1 /\ 0 # m + 1
    OBVIOUS
  <2>3. g = [k \in 0 .. m + 1 |-> g[k]]
    OBVIOUS
  <2>4. g[0] = AtFirst
    BY <2>1, <2>2 DEF Walks
  <2>5. ASSUME NEW k \in 0 .. m + 1, k # 0 PROVE g[k] = Retried(g[k - 1])
    <3>1. CASE k = m + 1
      <4>1. g[m + 1] = Retried(f[m]) /\ g[m] = f[m]
        BY <2>2
      <4> HIDE DEF g
      <4> QED BY <2>2, <3>1, <4>1
    <3>2. CASE k # m + 1
      <4>1. k \in 0 .. m /\ k - 1 \in 0 .. m + 1 /\ k - 1 # m + 1
        BY <2>5, <3>2
      <4>2. g[k] = f[k] /\ g[k - 1] = f[k - 1]
        BY <3>2, <4>1
      <4>3. f[k] = Retried(f[k - 1])
        BY <2>1, <2>5, <4>1 DEF Walks
      <4> HIDE DEF g
      <4> QED BY <4>2, <4>3
    <3> QED BY <3>1, <3>2
  <2> HIDE DEF g
  <2>6. Walks(g, m + 1)
    BY <2>3, <2>4, <2>5 DEF Walks
  <2> QED BY <2>6
<1> HIDE DEF T
<1>3. n \in T
  BY <1>1, <1>2, Inductive
<1> QED BY <1>3 DEF T

\* And by one only.
LEMMA WalksAgree ==
  ASSUME NEW m \in Nat, NEW n \in Nat, NEW f, NEW g, Walks(f, m), Walks(g, n),
         NEW k \in Nat, k <= m, k <= n
  PROVE  f[k] = g[k]
<1> DEFINE T == {j \in Nat : j <= m /\ j <= n => f[j] = g[j]}
<1>1. 0 \in T
  BY DEF Walks
<1>2. ASSUME NEW j \in Nat, j \in T PROVE j + 1 \in T
  <2> SUFFICES ASSUME j + 1 <= m, j + 1 <= n PROVE f[j + 1] = g[j + 1]
    OBVIOUS
  <2>1. /\ j + 1 \in 0 .. m /\ j + 1 \in 0 .. n /\ j + 1 # 0 /\ (j + 1) - 1 = j
        /\ f[j] = g[j]
    BY <1>2
  <2>2. f[j + 1] = Retried(f[j]) /\ g[j + 1] = Retried(g[j])
    BY <2>1 DEF Walks
  <2> QED BY <2>1, <2>2
<1> HIDE DEF T
<1>3. k \in T
  BY <1>1, <1>2, Inductive
<1> QED BY <1>3 DEF T

\* The recursive definition means what it says.
LEMMA WalkDefined ==
  /\ Walk[0] = AtFirst
  /\ \A n \in Nat : Walk[n + 1] = Retried(Walk[n])
<1> DEFINE g(n) == CHOOSE f : Walks(f, n)
           w == [n \in Nat |-> g(n)[n]]
<1>1. \A n \in Nat : Walks(g(n), n)
  BY WalksExist
<1> HIDE DEF g
<1>2. w[0] = AtFirst
  BY <1>1 DEF Walks
<1>3. ASSUME NEW n \in Nat PROVE w[n + 1] = Retried(w[n])
  <2>1. n + 1 \in 0 .. n + 1 /\ n + 1 # 0 /\ n <= n + 1 /\ n <= n /\ n + 1 \in Nat /\ n + 1 - 1 = n
    OBVIOUS
  <2>2. g(n + 1)[n + 1] = Retried(g(n + 1)[n])
    BY <1>1, <2>1 DEF Walks
  <2>3. g(n + 1)[n] = g(n)[n]
    BY <1>1, <2>1, WalksAgree
  <2>4. w[n + 1] = g(n + 1)[n + 1] /\ w[n] = g(n)[n]
    BY <2>1
  <2> HIDE DEF w
  <2> QED BY <2>2, <2>3, <2>4
<1>4. w = [n \in Nat |-> w[n]]
  OBVIOUS
<1> HIDE DEF w
<1>5. w = [n \in Nat |-> IF n = 0 THEN AtFirst ELSE Retried(w[n - 1])]
  <2>1. ASSUME NEW n \in Nat PROVE w[n] = IF n = 0 THEN AtFirst ELSE Retried(w[n - 1])
    <3>1. CASE n = 0
      BY <1>2, <3>1
    <3>2. CASE n # 0
      <4>1. n - 1 \in Nat /\ (n - 1) + 1 = n
        BY <3>2
      <4>2. w[(n - 1) + 1] = Retried(w[n - 1])
        BY <1>3, <4>1
      <4> QED BY <3>2, <4>1, <4>2
    <3> QED BY <3>1, <3>2
  <2> QED BY <1>4, <2>1
<1>6. Walk = [n \in Nat |-> IF n = 0 THEN AtFirst ELSE Retried(Walk[n - 1])]
  BY <1>5 DEF Walk
<1>7. Walk[0] = AtFirst
  BY <1>6
<1>8. ASSUME NEW n \in Nat PROVE Walk[n + 1] = Retried(Walk[n])
  <2>1. n + 1 \in Nat /\ n + 1 # 0 /\ n + 1 - 1 = n
    OBVIOUS
  <2> QED BY <1>6, <2>1
<1> QED BY <1>7, <1>8

-----------------------------------------------------------------------------
(* What the deciders have been asked. *)

\* How often batch key k has been asked about.
AskedOf(k) == attempts[KeyHash[k] % DeciderShards][k]

\* The batches that are where the walks of their tasks are after as many retries,
\* none of those tasks being settled earlier.
Reached == {e \in Batches :
  /\ e.rc \in RetryCounts
  /\ \A t \in Tasks(e) : /\ Walk[e.rc][t].e = e
                          /\ \A m \in 0 .. e.rc - 1 : ~Settled(t, m)}

\* e has been asked about as often as its tasks' walks say, and so many times
\* more; about no smaller part of it has anybody asked.
AskedSoFar(e, more) ==
  /\ Key(e) \in Keys =>
       \A t \in Tasks(e) : AskedOf(Key(e)) = Walk[e.rc][t].attempt + more
  /\ \A b \in Batches :
       Tasks(b) \subseteq Tasks(e) /\ Key(b) # Key(e) /\ Key(b) \in Keys =>
         AskedOf(Key(b)) = 0

\* The batches whose next question is the one of the walk, and those it has
\* been answered for: their calls end as the verdict says.
Unasked == {e \in Reached : AskedSoFar(e, 0)}
Told(kind) == {e \in Reached :
  AskedSoFar(e, 1) /\ \A t \in Tasks(e) : Verdict(t, e.rc) = kind}

InjectTypes ==
  /\ fails \in SUBSET Queries
  /\ attempts \in [DeciderIds -> [Keys -> Nat]]
  /\ asked \in [Slots -> {"nothing", "fail", "run"}]

\* Without hangs and deaths no worker is ever replaced, and the loop is left when
\* nothing is outstanding.
Calm ==
  /\ LoopLeft => \A i \in Slots : call[i] = NoCall
  /\ \A i \in Slots : slot[i] = "up" /\ call[i].old = FALSE
  /\ todo = {} /\ pc \notin {"replace", "blocking", "reassign"} /\ job.kind # "hung"

QueuesUnasked ==
  pending \in Seq(Unasked) /\ deferred \in Seq(Unasked) /\ waiting \in Seq(Unasked)

\* What is in the hands of worker i.
SlotInHand(i) ==
  /\ call[i].st = "running" /\ asked[i] = "nothing" => call[i].e \in Unasked
  /\ asked[i] # "nothing" => call[i].st = "running"
  /\ asked[i] = "fail" => call[i].e \in Told("transient")
  /\ asked[i] = "run" => call[i].e \in Told("ok") \cup Told("deterministic")
  /\ call[i].st \in Answered => call[i].e \in Told(call[i].st)

JobTold == job # NoJob => job.e \in Told(job.kind)

JInv ==
  /\ LInv /\ InjectTypes /\ Calm /\ QueuesUnasked /\ JobTold
  /\ \A i \in Slots : SlotInHand(i)
  /\ OutcomesReproducible

-----------------------------------------------------------------------------
(* Batches and keys. *)

USE DeciderShardsAssumption, KeyHashAssumption

\* A key is asked about at one decider only.
LEMMA KeyShard ==
  ASSUME NEW k \in Keys
  PROVE  KeyHash[k] % DeciderShards \in DeciderIds
<1>1. KeyHash[k] \in Nat
  OBVIOUS
<1> QED BY <1>1 DEF DeciderIds

\* And the count is a number.
LEMMA AskedType ==
  ASSUME InjectTypes, NEW k \in Keys
  PROVE  AskedOf(k) \in Nat
BY KeyShard DEF InjectTypes, AskedOf

\* Batches of one key have the same tasks.
LEMMA KeyTasks ==
  ASSUME NEW a, NEW b, Key(a) = Key(b)
  PROVE  Tasks(a) = Tasks(b)
BY DEF Key, Tasks

\* And the other way round.
LEMMA SameTasks ==
  ASSUME NEW a \in Batches, NEW b \in Batches, Tasks(a) = Tasks(b)
  PROVE  a.lo = b.lo /\ a.hi = b.hi
<1>1. /\ a.lo \in Nat /\ a.hi \in Nat /\ a.lo <= a.hi
      /\ b.lo \in Nat /\ b.hi \in Nat /\ b.lo <= b.hi
  BY DEF Batches, Entries
<1>2. a.lo \in Tasks(b) /\ a.hi \in Tasks(b) /\ b.lo \in Tasks(a) /\ b.hi \in Tasks(a)
  BY <1>1 DEF Tasks
<1> QED BY <1>1, <1>2 DEF Tasks

\* Of batches that share no task, one has any given task.
LEMMA PartFound ==
  ASSUME NEW parts, Apart(parts), NEW k \in 1 .. Len(parts), NEW t \in Tasks(parts[k])
  PROVE  PartWith(t, parts) = parts[k]
BY DEF Apart, PartWith

\* A part of a batch that is cut has a key of its own; a batch that is not cut
\* keeps its key.
LEMMA PartKeys ==
  ASSUME NEW e \in Batches, NEW k \in 1 .. Len(RetryEntries(e))
  PROVE  /\ BatchLen(e) <= 1 => Key(RetryEntries(e)[k]) = Key(e)
         /\ ~(BatchLen(e) <= 1) => Key(RetryEntries(e)[k]) # Key(e)
<1> DEFINE r == RetryEntries(e)
<1>1. ASSUME BatchLen(e) <= 1 PROVE Key(r[k]) = Key(e)
  <2>1. r = <<[lo |-> e.lo, hi |-> e.hi, rc |-> e.rc + 1]>>
    BY <1>1 DEF RetryEntries, Whole
  <2>2. k = 1
    BY <2>1
  <2> QED BY <2>1, <2>2 DEF Key
<1>2. ASSUME ~(BatchLen(e) <= 1), Key(r[k]) = Key(e) PROVE FALSE
  <2>1. Tasks(r[k]) = Tasks(e)
    BY <1>2, KeyTasks
  <2>2. PICK a, b : r = <<a, b>>
    BY <1>2 DEF RetryEntries, Split
  <2>3. Len(r) = 2
    BY <2>2
  <2>4. PICK j \in 1 .. Len(r) : j # k
    BY <2>3
  <2>5. r[j] \in Batches
    BY <2>4, RetryEntriesType, ElementOfSeq
  <2>6. Tasks(r[j]) # {} /\ Tasks(r[j]) \subseteq Tasks(e)
    BY <2>4, <2>5, TasksFacts, RetryEntriesPartition
  <2>7. Tasks(r[j]) \cap Tasks(r[k]) = {}
    BY <2>4, RetryEntriesPartition
  <2> QED BY <2>1, <2>6, <2>7
<1> QED BY <1>1, <1>2

-----------------------------------------------------------------------------
(* The walks are what the loop does to the batches. *)

\* One step of a walk.
LEMMA WalkStep ==
  ASSUME NEW n \in Nat, NEW t \in AllTasks
  PROVE  /\ Walk[n + 1][t].e = PartWith(t, RetryEntries(Walk[n][t].e))
         /\ Walk[n + 1][t].attempt = IF BatchLen(Walk[n][t].e) <= 1
                                     THEN Walk[n][t].attempt + 1 ELSE 0
<1>1. Walk[n + 1] = Retried(Walk[n])
  BY WalkDefined
<1> QED BY <1>1 DEF Retried

\* Nothing has been asked about the first batches.
LEMMA FirstUnasked == InjectInit => MakeBatches(NTasks, BatchSize) \in Seq(Unasked)
<1> SUFFICES ASSUME InjectInit PROVE MakeBatches(NTasks, BatchSize) \in Seq(Unasked)
  OBVIOUS
<1> DEFINE m == MakeBatches(NTasks, BatchSize)
<1>1. m \in Seq(Batches) /\ Apart(m)
  BY MakeBatchesType, HeldMakeBatches
<1>2. ASSUME NEW k \in 1 .. Len(m) PROVE m[k].rc = 0
  BY <1>2 DEF MakeBatches
<1>3. \A k \in Keys : AskedOf(k) = 0
  BY KeyShard DEF InjectInit, AskedOf
<1>4. AtFirst = [t \in AllTasks |-> [e |-> PartWith(t, m), attempt |-> 0]]
  BY DEF AtFirst
<1> HIDE DEF m
<1>5. ASSUME NEW k \in 1 .. Len(m) PROVE m[k] \in Unasked
  <2>1. m[k] \in Batches /\ m[k].rc = 0
    BY <1>1, <1>2
  <2>2. ASSUME NEW t \in Tasks(m[k]) PROVE Walk[0][t].e = m[k] /\ Walk[0][t].attempt = 0
    <3>1. t \in AllTasks
      BY <2>1, TasksFacts
    <3>2. PartWith(t, m) = m[k]
      BY <1>1, PartFound
    <3>3. AtFirst[t] = [e |-> PartWith(t, m), attempt |-> 0]
      BY <1>4, <3>1
    <3>4. AtFirst[t].e = PartWith(t, m) /\ AtFirst[t].attempt = 0
      BY <3>3
    <3> QED BY <3>2, <3>4, WalkDefined
  <2>3. 0 \in RetryCounts
    <3>1. m[k].lo \in AllTasks
      BY <2>1 DEF Batches, Entries, AllTasks
    <3>2. 0 \in 0 .. MaxRetries[m[k].lo]
      BY <3>1
    <3> QED BY <3>1, <3>2 DEF RetryCounts
  <2>4. m[k] \in Reached
    BY <2>1, <2>2, <2>3 DEF Reached
  <2>5. AskedSoFar(m[k], 0)
    <3>1. Key(m[k]) \in Keys =>
            \A t \in Tasks(m[k]) : AskedOf(Key(m[k])) = Walk[m[k].rc][t].attempt + 0
      BY <1>3, <2>1, <2>2
    <3> QED BY <1>3, <3>1 DEF AskedSoFar
  <2> QED BY <2>4, <2>5 DEF Unasked
<1>6. m \in [1 .. Len(m) -> Unasked] /\ Len(m) \in Nat
  BY <1>1, <1>5
<1> QED BY <1>6, SeqDef DEF m

\* A batch that failed and has retries left goes on along the walks of its tasks.
LEMMA RetriesUnasked ==
  ASSUME InjectTypes, NEW kind \in {"transient", "deterministic"}, NEW e \in Told(kind),
         ShouldRetry(e, kind)
  PROVE  RetryEntries(e) \in Seq(Unasked)
<1> DEFINE r == RetryEntries(e)
<1>1. /\ e \in Batches /\ e.rc \in Nat /\ e.rc + 1 \in Nat
      /\ e.lo \in AllTasks /\ Tasks(e) \subseteq AllTasks
      /\ AskedSoFar(e, 1)
      /\ \A t \in Tasks(e) : Walk[e.rc][t].e = e /\ Verdict(t, e.rc) = kind
      /\ \A t \in Tasks(e) : \A m \in 0 .. e.rc - 1 : ~Settled(t, m)
  <2>1. e \in Batches /\ AskedSoFar(e, 1)
    BY DEF Told, Reached
  <2>2. e.rc \in Nat /\ e.rc + 1 \in Nat /\ e.lo \in AllTasks
    BY <2>1 DEF Batches, Entries, AllTasks
  <2> QED BY <2>1, <2>2, TasksFacts DEF Told, Reached
<1>2. \A t \in Tasks(e) : ~Settled(t, e.rc)
  BY <1>1 DEF Settled
<1>3. r \in Seq(Batches) /\ Apart(r)
  BY <1>1, RetryEntriesType, HeldRetry
<1>4. e.rc + 1 \in RetryCounts
  <2>1. e.rc < MaxRetries[e.lo]
    BY DEF ShouldRetry, Budget
  <2>2. e.rc + 1 \in 0 .. MaxRetries[e.lo]
    BY <1>1, <2>1
  <2> QED BY <1>1, <2>2 DEF RetryCounts
<1>5. ASSUME NEW k \in 1 .. Len(r) PROVE r[k] \in Unasked
  <2>1. PICK p \in Batches : p = r[k]
    BY <1>3
  <2>2. /\ p.rc = e.rc + 1 /\ Tasks(p) \subseteq Tasks(e)
        /\ BatchLen(e) <= 1 => Key(p) = Key(e)
        /\ ~(BatchLen(e) <= 1) => Key(p) # Key(e)
    BY <1>1, <1>5, <2>1, RetryEntriesPartition, PartKeys
  <2>3. ASSUME NEW t \in Tasks(p)
        PROVE  /\ Walk[p.rc][t].e = p
               /\ Walk[p.rc][t].attempt = IF BatchLen(e) <= 1
                                          THEN Walk[e.rc][t].attempt + 1 ELSE 0
    <3>1. t \in Tasks(e) /\ t \in AllTasks
      BY <1>1, <2>2
    <3>2. PartWith(t, r) = p
      BY <1>3, <2>1, PartFound
    <3>3. Walk[e.rc][t].e = e
      BY <1>1, <3>1
    <3>4. /\ Walk[e.rc + 1][t].e = PartWith(t, RetryEntries(Walk[e.rc][t].e))
          /\ Walk[e.rc + 1][t].attempt = IF BatchLen(Walk[e.rc][t].e) <= 1
                                         THEN Walk[e.rc][t].attempt + 1 ELSE 0
      BY <1>1, <3>1, WalkStep
    <3> QED BY <2>2, <3>2, <3>3, <3>4
  <2>4. ASSUME NEW t \in Tasks(p), NEW m \in 0 .. p.rc - 1 PROVE ~Settled(t, m)
    <3>1. m = e.rc \/ m \in 0 .. e.rc - 1
      BY <1>1, <2>2
    <3> QED BY <1>1, <1>2, <2>2, <3>1
  <2>5. p \in Reached
    BY <1>4, <2>2, <2>3, <2>4 DEF Reached
  <2>6. ASSUME Key(p) \in Keys, NEW t \in Tasks(p)
        PROVE  AskedOf(Key(p)) = Walk[p.rc][t].attempt + 0
    <3>1. CASE BatchLen(e) <= 1
      <4>1. AskedOf(Key(p)) = Walk[e.rc][t].attempt + 1
        BY <1>1, <2>2, <2>6, <3>1 DEF AskedSoFar
      <4>2. AskedOf(Key(p)) = Walk[p.rc][t].attempt
        BY <2>3, <3>1, <4>1
      <4>3. AskedOf(Key(p)) \in Nat
        BY <2>6, AskedType
      <4> QED BY <4>2, <4>3
    <3>2. CASE ~(BatchLen(e) <= 1)
      <4>1. AskedOf(Key(p)) = 0
        BY <1>1, <2>2, <2>6, <3>2 DEF AskedSoFar
      <4> QED BY <2>3, <3>2, <4>1
    <3> QED BY <3>1, <3>2
  <2>7. ASSUME NEW b \in Batches, Tasks(b) \subseteq Tasks(p), Key(b) # Key(p), Key(b) \in Keys
        PROVE  AskedOf(Key(b)) = 0
    <3>1. Key(b) # Key(e)
      <4>1. CASE BatchLen(e) <= 1
        BY <2>2, <2>7, <4>1
      <4>2. CASE ~(BatchLen(e) <= 1)
        <5> SUFFICES ASSUME Key(b) = Key(e) PROVE FALSE
          OBVIOUS
        <5>1. Tasks(b) = Tasks(e) /\ Tasks(p) = Tasks(e)
          BY <2>2, <2>7, KeyTasks
        <5>2. p.lo = e.lo /\ p.hi = e.hi
          BY <1>1, <2>1, <5>1, SameTasks
        <5> QED BY <2>2, <4>2, <5>2 DEF Key
      <4> QED BY <4>1, <4>2
    <3>2. Tasks(b) \subseteq Tasks(e)
      BY <2>2, <2>7
    <3> QED BY <1>1, <2>7, <3>1, <3>2 DEF AskedSoFar
  <2>8. AskedSoFar(p, 0)
    BY <2>6, <2>7 DEF AskedSoFar
  <2> QED BY <2>1, <2>5, <2>8 DEF Unasked
<1>6. r \in [1 .. Len(r) -> Unasked] /\ Len(r) \in Nat
  BY <1>3, <1>5
<1> QED BY <1>6, SeqDef DEF r

\* A batch with a verdict that ends it settles its tasks as the seed says.
LEMMA SettledFate ==
  ASSUME NEW kind, NEW e \in Told(kind), kind = "ok" \/ ~ShouldRetry(e, kind),
         NEW t \in Tasks(e)
  PROVE  Fate(t) = kind
<1>1. /\ e.rc \in RetryCounts /\ Walk[e.rc][t].e = e /\ Verdict(t, e.rc) = kind
      /\ \A m \in 0 .. e.rc - 1 : ~Settled(t, m)
  BY DEF Told, Reached
<1>2. Settled(t, e.rc)
  BY <1>1 DEF Settled
<1>3. RetryCounts \subseteq Nat
  BY DEF RetryCounts
<1> DEFINE n == CHOOSE n \in RetryCounts : Settled(t, n) /\ \A m \in 0 .. n - 1 : ~Settled(t, m)
<1>4. n \in RetryCounts /\ Settled(t, n) /\ \A m \in 0 .. n - 1 : ~Settled(t, m)
  BY <1>1, <1>2
<1>5. Fate(t) = Verdict(t, n)
  BY DEF Fate
<1> HIDE DEF n
<1>6. ~(e.rc \in 0 .. n - 1) /\ ~(n \in 0 .. e.rc - 1)
  BY <1>1, <1>2, <1>4
<1>7. n = e.rc
  <2>1. n \in Nat /\ e.rc \in Nat
    BY <1>1, <1>3, <1>4
  <2> QED BY <1>6, <2>1
<1> QED BY <1>1, <1>5, <1>7

-----------------------------------------------------------------------------
(* The driver's steps. *)

\* No worker fails its probe, no call is over age, and some slot is alive: the
\* driver's steps that replace, evict and abort are not taken.
LEMMA CalmDriver ==
  ASSUME IInv, Calm, DriverNext
  PROVE  /\ ~Abort /\ ~ReplaceFromPool /\ ~ReplaceBlocking /\ ~BlockingReplace /\ ~Reassign
         /\ \A i \in Slots : ~Evict(i)
<1>1. 1 \in Slots /\ slot[1] # "none"
  BY DEF Slots, Calm
<1>2. ~Abort
  BY <1>1 DEF Abort, AllDead
<1> QED BY <1>2 DEF Calm, ReplaceFromPool, ReplaceBlocking, BlockingReplace, Reassign, Evict

\* The calls after a step of the driver: as they were, given up, or new.
LEMMA DriverCalls ==
  ASSUME IInv, Aside, Calm, DriverNext
  PROVE  /\ \A i \in Slots : \/ call'[i] = call[i]
                              \/ call'[i] = NoCall
                              \/ HandedTo(i)
         /\ \A i \in Slots : call'[i].old = FALSE
<1>0. /\ TypeOK /\ DriverConsistent /\ call \in [Slots -> Calls]
      /\ pc \in HandlingSteps => job.slot \in Slots /\ call[job.slot] = NoCall
      /\ \A i \in Slots : call[i].old = FALSE
  BY CallFields DEF IInv, TypeOK, Calm
<1>1. NoCall.old = FALSE /\ NoCall.st = "idle"
  BY DEF NoCall
<1>2. ASSUME NEW i \in Slots, NEW c,
             call' = [call EXCEPT ![i] = c],
             c = NoCall \/ ((\E e : c = NewCall(e)) /\ call[i].st # "running")
      PROVE  /\ \A j \in Slots : \/ call'[j] = call[j]
                                  \/ call'[j] = NoCall
                                  \/ HandedTo(j)
             /\ \A j \in Slots : call'[j].old = FALSE
  <2>1. call'[i] = c /\ \A j \in Slots : j # i => call'[j] = call[j]
    BY <1>0, <1>2
  <2>2. c = NoCall \/ (HandedTo(i) /\ c.old = FALSE)
    <3>1. ASSUME NEW e, c = NewCall(e), call[i].st # "running"
          PROVE  HandedTo(i) /\ c.old = FALSE
      BY <2>1, <3>1, NewCallFacts DEF HandedTo
    <3> QED BY <1>2, <3>1
  <2> QED BY <1>0, <1>1, <2>1, <2>2
<1>3. CASE Fill
  <2>1. \A i \in Slots : call[i] = NoCall
    BY <1>3 DEF Fill, Aside, Active
  <2>2. \A i \in Slots : call'[i] = NoCall \/ call'[i] = NewCall(pending[i])
    BY <1>3 DEF Fill
  <2> QED BY <1>1, <2>1, <2>2, NewCallFacts DEF HandedTo
<1>4. CASE \/ EnterLoop \/ LeaveLoop \/ PollRefill \/ EndPoll \/ PromoteDue \/ PromoteNotDue
           \/ EndPromote \/ EndDispatch \/ Sleep \/ WaitTimeout \/ Probe \/ BeginScan
           \/ EndScan \/ CollectStats \/ StatsRaise
  <2>1. call' = call
    BY <1>4 DEF EnterLoop, LeaveLoop, PollRefill, EndPoll, PromoteDue, PromoteNotDue,
       EndPromote, EndDispatch, Sleep, WaitTimeout, Probe, BeginScan, EndScan,
       CollectStats, StatsRaise, driverVars
  <2> QED BY <1>0, <2>1
<1>5. CASE Dispatch
  <2>1. PICK i \in Slots : call[i] = NoCall /\ call' = [call EXCEPT ![i] = NewCall(Head(pending))]
    BY <1>5 DEF Dispatch, Idle
  <2>2. call[i].st # "running"
    BY <1>1, <2>1
  <2> QED BY <1>2, <2>1, <2>2
<1>6. ASSUME NEW i \in Slots, NEW q, AssignHead(i, q), call[i].st # "running"
      PROVE  \E c : /\ call' = [call EXCEPT ![i] = c]
                    /\ c = NoCall \/ ((\E e : c = NewCall(e)) /\ call[i].st # "running")
  BY <1>6 DEF AssignHead
<1>7. ASSUME NEW i \in Slots, HarvestSuccess(i)
      PROVE  \E c : /\ call' = [call EXCEPT ![i] = c]
                    /\ c = NoCall \/ ((\E e : c = NewCall(e)) /\ call[i].st # "running")
  BY <1>6, <1>7 DEF HarvestSuccess
<1>8. ASSUME NEW i \in Slots, HarvestFailure(i)
      PROVE  call' = [call EXCEPT ![i] = NoCall]
  BY <1>8 DEF HarvestFailure
<1>9. ASSUME RetryLater \/ FailTerminally
      PROVE  \E i \in Slots : \E c :
               /\ call' = [call EXCEPT ![i] = c]
               /\ c = NoCall \/ ((\E e : c = NewCall(e)) /\ call[i].st # "running")
  <2>1. pc \in HandlingSteps /\ AssignHead(job.slot, pending)
    BY <1>9 DEF RetryLater, FailTerminally, HandlingSteps
  <2> QED BY <1>0, <1>1, <1>6, <2>1
<1> QED BY <1>2, <1>3, <1>4, <1>5, <1>7, <1>8, <1>9, CalmDriver DEF DriverNext

\* The driver stays where nothing is replaced or evicted.
LEMMA CalmStays ==
  ASSUME IInv, Aside, Calm, DriverNext
  PROVE  Calm'
<1>1. \A i \in Slots : call'[i].old = FALSE
  BY DriverCalls
<1>2. slot' = slot
  BY CalmDriver DEF DriverNext, Fill, EnterLoop, LeaveLoop, PollRefill, EndPoll, PromoteDue,
     PromoteNotDue, EndPromote, Dispatch, EndDispatch, Sleep, WaitTimeout, HarvestSuccess,
     HarvestFailure, Probe, RetryLater, FailTerminally, BeginScan, EndScan, CollectStats,
     StatsRaise, poolVars, BeginPoll, PollStep, PollLoading, PollReady, PollFailed,
     TeardownStandby
<1>3. job.slot \in Slots \/ pc # "probe"
  BY CallFields DEF IInv, HandlingSteps
<1>4. \A i \in Slots : ~call[i].old /\ slot[i] = "up"
  BY DEF Calm
<1>5. todo' = {} /\ pc' \notin {"replace", "blocking", "reassign"}
  <2>1. CASE Probe
    BY <1>3, <1>4, <2>1 DEF Probe, Calm
  <2>2. CASE BeginScan
    BY <1>4, <2>2 DEF BeginScan
  <2>3. CASE ~Probe /\ ~BeginScan
    BY <2>3, CalmDriver DEF DriverNext, Fill, EnterLoop, LeaveLoop, PollRefill, EndPoll,
       PromoteDue, PromoteNotDue, EndPromote, Dispatch, EndDispatch, Sleep, WaitTimeout,
       HarvestSuccess, HarvestFailure, RetryLater, FailTerminally, EndScan, CollectStats,
       StatsRaise, driverVars, Calm
  <2> QED BY <2>1, <2>2, <2>3
<1>6. job'.kind # "hung"
  <2>1. \A i \in Slots : HarvestFailure(i) => job'.kind # "hung"
    BY DEF HarvestFailure
  <2>2. NoJob.kind # "hung" /\ job.kind # "hung"
    BY DEF NoJob, Calm
  <2>3. (\E i \in Slots : HarvestFailure(i)) \/ job' = job \/ job' = NoJob
    BY CalmDriver DEF DriverNext, Fill, EnterLoop, LeaveLoop, PollRefill, EndPoll, PromoteDue,
       PromoteNotDue, EndPromote, Dispatch, EndDispatch, Sleep, WaitTimeout, HarvestSuccess,
       Probe, RetryLater, FailTerminally, BeginScan, EndScan, CollectStats, StatsRaise,
       driverVars
  <2> QED BY <2>1, <2>2, <2>3
<1>7. LoopLeft' => \A i \in Slots : call'[i] = NoCall
  <2>1. CASE LeaveLoop
    BY <2>1 DEF LeaveLoop, WorkLeft, Active
  <2>2. CASE CollectStats \/ StatsRaise
    BY <2>2 DEF CollectStats, StatsRaise, LoopLeft, Calm
  <2>3. CASE ~LeaveLoop /\ ~CollectStats /\ ~StatsRaise
    BY <2>3, CalmDriver DEF DriverNext, Fill, EnterLoop, PollRefill, EndPoll, PromoteDue,
       PromoteNotDue, EndPromote, Dispatch, EndDispatch, Sleep, WaitTimeout, HarvestSuccess,
       HarvestFailure, Probe, RetryLater, FailTerminally, BeginScan, EndScan, driverVars,
       LoopLeft
  <2> QED BY <2>1, <2>2, <2>3
<1> QED BY <1>1, <1>2, <1>4, <1>5, <1>6, <1>7 DEF Calm

\* What the verdicts say is as it was when they are.
LEMMA SameSeed ==
  ASSUME fails' = fails
  PROVE  /\ \A t, m : Verdict(t, m)' = Verdict(t, m)
         /\ Reached' = Reached
         /\ \A t : Fate(t)' = Fate(t)
<1>1. \A t, m : Verdict(t, m)' = Verdict(t, m)
  BY DEF Verdict
<1>2. \A t, m : Settled(t, m)' = Settled(t, m)
  BY <1>1 DEF Settled
<1>3. Reached' = Reached
  BY <1>2 DEF Reached
<1>4. \A t : Fate(t)' = Fate(t)
  BY <1>1, <1>2 DEF Fate
<1> QED BY <1>1, <1>3, <1>4

\* And with the counts, what was asked.
LEMMA SameVerdicts ==
  ASSUME UNCHANGED <<fails, attempts>>
  PROVE  /\ Unasked' = Unasked
         /\ \A kind : Told(kind)' = Told(kind)
         /\ \A t : Fate(t)' = Fate(t)
<1>1. \A e, k : AskedSoFar(e, k)' = AskedSoFar(e, k)
  BY DEF AskedSoFar, AskedOf
<1> QED BY <1>1, SameSeed DEF Unasked, Told

\* A step of the driver moves batches along their walks and records no outcome
\* but the one the seed fixes.
LEMMA DriverKeeps ==
  ASSUME JInv, DriverNext, ForgetVerdicts
  PROVE  JInv'
<1>0. /\ LInv /\ IInv /\ Aside /\ TypeOK /\ Calm /\ InjectTypes /\ call \in [Slots -> Calls]
      /\ OneEach /\ JobInHand /\ LInv' /\ UNCHANGED <<fails, attempts>>
  <2>1. LInv'
    BY NextLInv DEF JInv, Next
  <2> QED BY <2>1 DEF JInv, LInv, IInv, TypeOK, Accounted, DriverConsistent, ForgetVerdicts
<1>1. Calm'
  BY <1>0, CalmStays
<1>2. InjectTypes'
  <2>1. asked' \in [Slots -> {"nothing", "fail", "run"}]
    BY <1>0 DEF ForgetVerdicts, InjectTypes
  <2> QED BY <1>0, <2>1 DEF InjectTypes
<1>3. job # NoJob => job.kind \in {"transient", "deterministic"} /\ job.e \in Told(job.kind)
  BY <1>0 DEF TypeOK, Jobs, FailedJobs, HungJobs, Calm, JInv, JobTold
<1>4. /\ pending' \in Seq(Unasked) /\ deferred' \in Seq(Unasked) /\ waiting' \in Seq(Unasked)
      /\ \A i \in Slots : HandedTo(i) /\ call'[i] # NoCall => call'[i].e \in Unasked
  <2>1. HeldIn(Unasked, Batches)
    <3>1. \A i \in Slots : call[i] # NoCall => call[i].e \in Batches
      BY <1>0 DEF Calls
    <3>2. job.kind \in {"transient", "deterministic"} => job.e \in Batches
      BY <1>0 DEF TypeOK, Jobs, FailedJobs, HungJobs, NoJob
    <3> QED BY <3>1, <3>2 DEF HeldIn, JInv, QueuesUnasked
  <2>2. RetriesIn(Unasked)
    <3>1. NoJob.kind \notin {"transient", "deterministic"}
      BY DEF NoJob
    <3> QED BY <1>0, <1>3, <3>1, RetriesUnasked DEF RetriesIn, Calm
  <2>3. [Next]_vars
    BY DEF Next
  <2>4. /\ pending' \in Seq(Unasked) /\ deferred' \in Seq(Unasked) /\ waiting' \in Seq(Unasked)
        /\ CallsFrom(Unasked, Batches)
    BY <1>0, <2>1, <2>2, <2>3, HeldInNext
  <2> QED BY <2>4 DEF CallsFrom
<1>5. QueuesUnasked'
  BY <1>0, <1>4, SameVerdicts DEF QueuesUnasked
<1>6. JobTold'
  <2>1. CASE \E i \in Slots : HarvestFailure(i)
    <3>1. PICK i \in Slots : /\ call[i].st \in {"transient", "deterministic"}
                             /\ job' = [slot |-> i, kind |-> call[i].st, e |-> call[i].e]
      BY <2>1 DEF HarvestFailure
    <3>2. call[i].e \in Told(call[i].st)
      BY <3>1 DEF JInv, SlotInHand, Answered
    <3>3. job'.e = call[i].e /\ job'.kind = call[i].st
      BY <3>1
    <3> QED BY <1>0, <3>2, <3>3, SameVerdicts DEF JobTold
  <2>2. CASE ~ \E i \in Slots : HarvestFailure(i)
    <3>1. job' = job \/ job' = NoJob
      BY <1>0, <2>2, CalmDriver DEF DriverNext, Fill, EnterLoop, LeaveLoop, PollRefill, EndPoll,
         PromoteDue, PromoteNotDue, EndPromote, Dispatch, EndDispatch, Sleep, WaitTimeout,
         HarvestSuccess, Probe, RetryLater, FailTerminally, BeginScan, EndScan, CollectStats,
         StatsRaise, driverVars
    <3> QED BY <1>0, <1>3, <3>1, SameVerdicts DEF JobTold
  <2> QED BY <2>1, <2>2
<1>7. ASSUME NEW i \in Slots PROVE SlotInHand(i)'
  <2>1. asked'[i] = IF call'[i] = call[i] THEN asked[i] ELSE "nothing"
    BY DEF ForgetVerdicts
  <2>2. SlotInHand(i)
    BY DEF JInv
  <2>3. NoCall.st = "idle" /\ "idle" \notin Answered
    BY DEF NoCall, Answered
  <2>4. CASE call'[i] = call[i]
    BY <1>0, <2>1, <2>2, <2>4, SameVerdicts DEF SlotInHand
  <2>5. CASE call'[i] # call[i] /\ call'[i] = NoCall
    BY <2>1, <2>3, <2>5 DEF SlotInHand
  <2>6. CASE call'[i] # call[i] /\ HandedTo(i)
    <3>1. call'[i].st = "running" /\ asked'[i] = "nothing" /\ "running" \notin Answered
      BY <2>1, <2>6 DEF HandedTo, Answered
    <3>2. call'[i].e \in Unasked'
      BY <1>0, <1>4, <2>3, <2>6, <3>1, SameVerdicts
    <3> QED BY <3>1, <3>2 DEF SlotInHand
  <2> QED BY <1>0, <2>4, <2>5, <2>6, DriverCalls
<1>8. OutcomesReproducible'
  <2>1. ASSUME NEW kind, NEW e \in Told(kind), kind = "ok" \/ ~ShouldRetry(e, kind),
               Record(Tasks(e), kind), \A t \in Tasks(e) : results[t] = << >>
        PROVE  OutcomesReproducible'
    <3>1. ASSUME NEW t \in AllTasks PROVE results'[t] \in {<< >>, <<Fate(t)>>}
      <4>1. CASE t \in Tasks(e)
        <5>1. results'[t] = Append(<< >>, kind)
          BY <2>1, <4>1 DEF Record
        <5>2. Append(<< >>, kind) = <<kind>>
          OBVIOUS
        <5>3. Fate(t) = kind
          BY <2>1, <4>1, SettledFate
        <5> QED BY <5>1, <5>2, <5>3
      <4>2. CASE t \notin Tasks(e)
        <5>1. results'[t] = results[t]
          BY <2>1, <4>2 DEF Record
        <5> QED BY <5>1 DEF JInv, OutcomesReproducible
      <4> QED BY <4>1, <4>2
    <3> QED BY <1>0, <3>1, SameVerdicts DEF OutcomesReproducible
  <2>2. ~LoopLeft => /\ \A i \in Slots : \A t \in Tasks(call[i].e) : results[t] = << >>
                     /\ \A t \in Tasks(job.e) : results[t] = << >>
    <3> SUFFICES ASSUME ~LoopLeft
                 PROVE  /\ \A i \in Slots : \A t \in Tasks(call[i].e) : results[t] = << >>
                        /\ \A t \in Tasks(job.e) : results[t] = << >>
      OBVIOUS
    <3>1. Divided
      BY <1>0 DEF LInv, Accounted
    <3>2. \A i \in Slots : Tasks(call[i].e) \subseteq Called
      <4>1. \A i \in Slots : call[i].e \in Batches \cup {NoEntry}
        BY <1>0 DEF Calls, NoCall
      <4> QED BY <4>1, TasksFacts DEF Called
    <3> QED BY <3>1, <3>2 DEF Divided, ZonesCover, Recorded
  <2>3. ASSUME NEW i \in Slots, HarvestSuccess(i) PROVE OutcomesReproducible'
    <3>1. /\ call[i].st = "ok" /\ Record(Tasks(call[i].e), "ok") /\ ~LoopLeft
      BY <2>3 DEF HarvestSuccess, LoopLeft
    <3>2. call[i].e \in Told("ok")
      BY <3>1 DEF JInv, SlotInHand, Answered
    <3> QED BY <2>1, <2>2, <3>1, <3>2
  <2>4. CASE FailTerminally
    <3>1. /\ ~ShouldRetry(job.e, job.kind) /\ Record(Tasks(job.e), job.kind) /\ ~LoopLeft
          /\ job # NoJob
      BY <1>0, <2>4 DEF FailTerminally, LoopLeft, JobInHand, HandlingSteps
    <3> QED BY <1>3, <2>1, <2>2, <3>1
  <2>5. CASE ~FailTerminally /\ ~ \E i \in Slots : HarvestSuccess(i)
    <3>1. results' = results
      BY <1>0, <2>5, CalmDriver DEF DriverNext, Fill, EnterLoop, LeaveLoop, PollRefill, EndPoll,
         PromoteDue, PromoteNotDue, EndPromote, Dispatch, EndDispatch, Sleep, WaitTimeout,
         HarvestFailure, Probe, RetryLater, BeginScan, EndScan, CollectStats, StatsRaise,
         driverVars
    <3> QED BY <1>0, <3>1, SameVerdicts DEF JInv, OutcomesReproducible
  <2> QED BY <2>3, <2>4, <2>5
<1> QED BY <1>0, <1>1, <1>2, <1>5, <1>6, <1>7, <1>8 DEF JInv

-----------------------------------------------------------------------------
(* The deciders' and the workers' steps. *)

\* The count of questions is a number, along the walk too.
LEMMA WalkType ==
  ASSUME NEW n \in Nat, NEW t \in AllTasks
  PROVE  Walk[n][t].attempt \in Nat
<1> DEFINE T == {m \in Nat : Walk[m][t].attempt \in Nat}
<1>1. 0 \in T
  <2>1. AtFirst[t] = [e |-> PartWith(t, MakeBatches(NTasks, BatchSize)), attempt |-> 0]
    BY DEF AtFirst
  <2>2. AtFirst[t].attempt = 0
    BY <2>1
  <2> QED BY <2>2, WalkDefined
<1>2. ASSUME NEW m \in Nat, m \in T PROVE m + 1 \in T
  BY <1>2, WalkStep
<1> HIDE DEF T
<1>3. n \in T
  BY <1>1, <1>2, Inductive
<1> QED BY <1>3 DEF T

\* A question is counted for its key, and for no other.
LEMMA QuestionCounted ==
  ASSUME InjectTypes, NEW i \in Slots, ShouldFail(i)
  PROVE  /\ InjectTypes'
         /\ \A k \in Keys : AskedOf(k)' = IF k = Key(call[i].e) THEN AskedOf(k) + 1
                                                               ELSE AskedOf(k)
<1> DEFINE x == Key(call[i].e)
           d == KeyHash[x] % DeciderShards
           new == attempts[d][x] + 1
<1>1. /\ attempts' = [attempts EXCEPT ![d] = [attempts[d] EXCEPT ![x] = new]]
      /\ fails' = fails /\ asked' \in [Slots -> {"nothing", "fail", "run"}]
  <2>1. attempts' = [attempts EXCEPT ![d][x] = new]
    BY DEF ShouldFail, ShardFor
  <2>2. asked' = [asked EXCEPT ![i] = IF <<x, attempts[d][x]>> \in fails THEN "fail" ELSE "run"]
        /\ fails' = fails
    BY DEF ShouldFail, ShardFor
  <2> HIDE DEF x, d, new
  <2> QED BY <2>1, <2>2 DEF InjectTypes
<1>2. attempts \in [DeciderIds -> [Keys -> Nat]]
  BY DEF InjectTypes
<1>3. x \in Keys => d \in DeciderIds /\ new \in Nat
  BY <1>2, KeyShard
<1> HIDE DEF x, d, new
<1>4. ASSUME NEW c \in DeciderIds
      PROVE  /\ attempts'[c] \in [Keys -> Nat]
             /\ \A k \in Keys : attempts'[c][k] = IF c = d /\ k = x THEN new ELSE attempts[c][k]
  <2>1. attempts[c] \in [Keys -> Nat]
    BY <1>2
  <2>2. attempts'[c] = IF c = d THEN [attempts[c] EXCEPT ![x] = new] ELSE attempts[c]
    BY <1>1, <1>2
  <2> QED BY <1>3, <2>1, <2>2
<1>5. attempts' \in [DeciderIds -> [Keys -> Nat]]
  BY <1>1, <1>2, <1>4
<1>6. ASSUME NEW k \in Keys
      PROVE  AskedOf(k)' = IF k = x THEN AskedOf(k) + 1 ELSE AskedOf(k)
  <2>1. PICK c \in DeciderIds : c = KeyHash[k] % DeciderShards
    BY KeyShard
  <2>2. k = x => c = d /\ new = attempts[d][x] + 1
    BY <2>1 DEF d, new
  <2> QED BY <1>4, <2>1, <2>2 DEF AskedOf
<1> QED BY <1>1, <1>5, <1>6 DEF InjectTypes, x

\* The counts of batches without a task of e0 are not touched by a question about e0.
LEMMA OthersAsked ==
  ASSUME NEW e0 \in Batches,
         \A k \in Keys : k # Key(e0) => AskedOf(k)' = AskedOf(k),
         fails' = fails
  PROVE  /\ \A e \in Unasked : Tasks(e) \cap Tasks(e0) = {} => e \in Unasked'
         /\ \A kind : \A e \in Told(kind) : Tasks(e) \cap Tasks(e0) = {} => e \in Told(kind)'
<1>1. ASSUME NEW e \in Batches, NEW more, AskedSoFar(e, more), Tasks(e) \cap Tasks(e0) = {}
      PROVE  AskedSoFar(e, more)'
  <2>1. Tasks(e) # {}
    BY TasksFacts
  <2>2. Key(e) # Key(e0)
    BY <1>1, <2>1, KeyTasks
  <2>3. ASSUME NEW b \in Batches, Tasks(b) \subseteq Tasks(e) PROVE Key(b) # Key(e0)
    <3>1. Tasks(b) # {}
      BY TasksFacts
    <3> QED BY <1>1, <2>3, <3>1, KeyTasks
  <2> QED BY <1>1, <2>2, <2>3 DEF AskedSoFar
<1>2. Reached' = Reached /\ \A t, m : Verdict(t, m)' = Verdict(t, m)
  BY SameSeed
<1> QED BY <1>1, <1>2 DEF Unasked, Told, Reached

\* The queue keeps what is said of its batches.
LEMMA QueueUnasked ==
  ASSUME NEW e0 \in Batches, NEW s \in Seq(Unasked), Held(s) \cap Tasks(e0) = {},
         \A e \in Unasked : Tasks(e) \cap Tasks(e0) = {} => e \in Unasked'
  PROVE  s \in Seq(Unasked')
<1>1. ASSUME NEW k \in 1 .. Len(s) PROVE s[k] \in Unasked'
  <2>1. s[k] \in Unasked
    OBVIOUS
  <2>2. s[k] \in Batches
    BY <2>1 DEF Unasked, Reached
  <2>3. Tasks(s[k]) \subseteq Held(s)
    BY <2>2, TasksFacts DEF Held
  <2> QED BY <2>1, <2>3
<1>2. s \in [1 .. Len(s) -> Unasked'] /\ Len(s) \in Nat
  BY <1>1
<1> QED BY <1>2, SeqDef

\* A question about the batch of a call: the answer is the verdict of the walk.
LEMMA AskKeeps ==
  ASSUME JInv, NEW i \in Slots, ShouldFail(i)
  PROVE  JInv'
<1>e. PICK e0 \in Batches : e0 = call[i].e
  <2>1. call[i].e \in Unasked
    BY DEF JInv, ShouldFail, SlotInHand
  <2> QED BY <2>1 DEF Unasked, Reached
<1>0. /\ LInv /\ TypeOK /\ Calm /\ InjectTypes /\ call \in [Slots -> Calls] /\ SlotInHand(i)
      /\ UNCHANGED vars /\ fails' = fails
      /\ call[i].st = "running" /\ asked[i] = "nothing" /\ e0 \in Unasked /\ e0 \in Batches
  BY <1>e DEF JInv, LInv, IInv, TypeOK, ShouldFail, SlotInHand
<1>1. /\ InjectTypes'
      /\ \A k \in Keys : AskedOf(k)' = IF k = Key(e0) THEN AskedOf(k) + 1 ELSE AskedOf(k)
  BY <1>0, <1>e, QuestionCounted
<1>2. /\ \A e \in Unasked : Tasks(e) \cap Tasks(e0) = {} => e \in Unasked'
      /\ \A kind : \A e \in Told(kind) : Tasks(e) \cap Tasks(e0) = {} => e \in Told(kind)'
  BY <1>0, <1>1, OthersAsked
<1>3. Divided
  <2>1. ~LoopLeft
    BY <1>0 DEF Calm, NoCall
  <2> QED BY <1>0, <2>1 DEF LInv, Accounted
<1>4. Tasks(e0) \subseteq Called
  BY <1>0, <1>e, TasksFacts DEF Called
<1>5. asked' = [asked EXCEPT ![i] = IF <<Key(e0), AskedOf(Key(e0))>> \in fails
                                   THEN "fail" ELSE "run"]
  BY <1>e DEF ShouldFail, ShardFor, AskedOf
<1>6. LInv'
  BY <1>0, NextLInv DEF vars
<1>7. Calm'
  BY <1>0 DEF Calm, vars, driverVars, poolVars, LoopLeft
<1>8. OutcomesReproducible'
  <2>1. results' = results /\ \A t : Fate(t)' = Fate(t)
    BY <1>0, SameSeed DEF vars, driverVars
  <2> QED BY <2>1 DEF JInv, OutcomesReproducible
<1>9. QueuesUnasked'
  <2>1. /\ Held(pending) \cap Tasks(e0) = {} /\ Held(deferred) \cap Tasks(e0) = {}
        /\ Held(waiting) \cap Tasks(e0) = {}
    BY <1>3, <1>4 DEF Divided, ZonesApart
  <2>2. pending \in Seq(Unasked') /\ deferred \in Seq(Unasked') /\ waiting \in Seq(Unasked')
    BY <1>0, <1>2, <2>1, QueueUnasked DEF JInv, QueuesUnasked
  <2> QED BY <1>0, <2>2 DEF QueuesUnasked, vars, driverVars
<1>10. JobTold'
  <2>1. Tasks(job.e) \cap Tasks(e0) = {}
    BY <1>3, <1>4 DEF Divided, ZonesApart
  <2> QED BY <1>0, <1>2, <2>1 DEF JInv, JobTold, vars, driverVars
<1>11. \/ asked'[i] = "fail" /\ e0 \in Told("transient")'
       \/ asked'[i] = "run" /\ e0 \in Told("ok")' \cup Told("deterministic")'
  <2>1. /\ e0 \in Reached /\ AskedSoFar(e0, 0) /\ e0.rc \in Nat /\ Tasks(e0) \subseteq AllTasks
        /\ \A t \in Tasks(e0) : Walk[e0.rc][t].e = e0 /\ Walk[e0.rc][t].attempt \in Nat
    <3>1. e0 \in Reached /\ AskedSoFar(e0, 0) /\ e0.rc \in Nat /\ Tasks(e0) \subseteq AllTasks
      BY <1>0, TasksFacts DEF Unasked, Batches, Entries
    <3> QED BY <3>1, WalkType DEF Reached
  <2>2. AskedSoFar(e0, 1)'
    <3>1. ASSUME Key(e0) \in Keys, NEW t \in Tasks(e0)
          PROVE  AskedOf(Key(e0))' = Walk[e0.rc][t].attempt + 1
      <4>1. PICK a \in Nat : a = Walk[e0.rc][t].attempt
        BY <2>1
      <4>2. AskedOf(Key(e0)) = a + 0
        BY <2>1, <3>1, <4>1 DEF AskedSoFar
      <4>3. AskedOf(Key(e0))' = AskedOf(Key(e0)) + 1
        BY <1>1, <3>1
      <4>4. AskedOf(Key(e0)) = a
        BY <4>2
      <4> QED BY <4>1, <4>3, <4>4
    <3>2. ASSUME NEW b \in Batches, Tasks(b) \subseteq Tasks(e0), Key(b) # Key(e0), Key(b) \in Keys
          PROVE  AskedOf(Key(b))' = 0
      BY <1>1, <2>1, <3>2 DEF AskedSoFar
    <3> QED BY <3>1, <3>2 DEF AskedSoFar
  <2>3. ASSUME NEW t \in Tasks(e0)
        PROVE  Verdict(t, e0.rc) = IF <<Key(e0), AskedOf(Key(e0))>> \in fails THEN "transient"
                                   ELSE IF Tasks(e0) \cap BadTasks # {} THEN "deterministic"
                                   ELSE "ok"
    <3>1. PICK a \in Nat : a = Walk[e0.rc][t].attempt
      BY <2>1
    <3>2. <<Key(e0), a>> \in fails <=> <<Key(e0), AskedOf(Key(e0))>> \in fails
      <4>1. CASE Key(e0) \in Keys
        <5>1. AskedOf(Key(e0)) = a + 0
          BY <2>1, <3>1, <4>1 DEF AskedSoFar
        <5> QED BY <5>1
      <4>2. CASE Key(e0) \notin Keys
        <5>1. ASSUME NEW y PROVE <<Key(e0), y>> \notin fails
          <6> SUFFICES ASSUME <<Key(e0), y>> \in Queries PROVE FALSE
            BY <1>0 DEF InjectTypes
          <6>1. <<Key(e0), y>>[1] = Key(e0)
            OBVIOUS
          <6> QED BY <4>2, <6>1 DEF Keys
        <5> QED BY <5>1
      <4> QED BY <4>1, <4>2
    <3>3. Walk[e0.rc][t].e = e0
      BY <2>1
    <3> QED BY <3>1, <3>2, <3>3 DEF Verdict
  <2>4. Reached' = Reached /\ \A t, m : Verdict(t, m)' = Verdict(t, m)
    BY <1>0, SameSeed
  <2>5. ASSUME NEW kind, \A t \in Tasks(e0) : Verdict(t, e0.rc) = kind
        PROVE  e0 \in Told(kind)'
    BY <2>1, <2>2, <2>4, <2>5 DEF Told
  <2>6. asked'[i] = IF <<Key(e0), AskedOf(Key(e0))>> \in fails THEN "fail" ELSE "run"
    BY <1>0, <1>5 DEF InjectTypes
  <2> QED BY <2>3, <2>5, <2>6
<1>12. ASSUME NEW j \in Slots PROVE SlotInHand(j)'
  <2>1. call' = call
    BY <1>0 DEF vars, driverVars
  <2>2. CASE j = i
    <3>1. call[j].st = "running" /\ "running" \notin Answered /\ call[j].e = e0
      BY <1>0, <1>e, <2>2 DEF Answered
    <3> QED BY <1>11, <2>1, <2>2, <3>1 DEF SlotInHand
  <2>3. CASE j # i
    <3>1. asked'[j] = asked[j]
      BY <1>0, <1>5, <2>3 DEF InjectTypes
    <3>2. Tasks(call[j].e) \cap Tasks(e0) = {}
      BY <1>3, <1>e, <2>3 DEF Divided, CallsApart
    <3>3. SlotInHand(j)
      BY DEF JInv
    <3> QED BY <1>2, <2>1, <3>1, <3>2, <3>3 DEF SlotInHand
  <2> QED BY <2>2, <2>3
<1> QED BY <1>1, <1>6, <1>7, <1>8, <1>9, <1>10, <1>12 DEF JInv

\* A worker answers what it was told to.
LEMMA AnswerKeeps ==
  ASSUME JInv, NEW i \in Slots, NEW st \in Answered, AnswerCall(i, st, "up"),
         call[i].e \in Told(st), ForgetVerdicts, LInv'
  PROVE  JInv'
<1>0. /\ TypeOK /\ Calm /\ InjectTypes /\ call \in [Slots -> Calls] /\ SlotInHand(i)
      /\ UNCHANGED <<fails, attempts>> /\ call[i].st = "running"
      /\ UNCHANGED <<pc, pending, deferred, waiting, job, todo, results>>
      /\ slot' = [slot EXCEPT ![i] = "up"] /\ slot \in [Slots -> WorkerStates \cup {"none"}]
  BY DEF JInv, LInv, IInv, TypeOK, PoolTypeOK, AnswerCall, ForgetVerdicts
<1>1. /\ call'[i].st = st /\ call'[i].e = call[i].e /\ call'[i].old = call[i].old
      /\ \A j \in Slots : j # i => call'[j] = call[j]
  BY <1>0 DEF AnswerCall, Answer
<1>2. Calm'
  <2>1. ~LoopLeft
    BY <1>0 DEF Calm, NoCall
  <2>2. ~LoopLeft'
    BY <1>0, <2>1 DEF LoopLeft
  <2> QED BY <1>0, <1>1, <2>2 DEF Calm
<1>3. InjectTypes'
  BY <1>0 DEF ForgetVerdicts, InjectTypes
<1>4. QueuesUnasked' /\ JobTold' /\ OutcomesReproducible'
  BY <1>0, SameVerdicts DEF JInv, QueuesUnasked, JobTold, OutcomesReproducible
<1>5. ASSUME NEW j \in Slots PROVE SlotInHand(j)'
  <2>1. asked'[j] = IF call'[j] = call[j] THEN asked[j] ELSE "nothing"
    BY DEF ForgetVerdicts
  <2>2. CASE j = i
    <3>1. call'[j].st # "running" /\ asked'[j] = "nothing"
      BY <1>0, <1>1, <2>1, <2>2 DEF Answered
    <3> QED BY <1>0, <1>1, <2>2, <3>1, SameVerdicts DEF SlotInHand
  <2>3. CASE j # i
    <3>1. SlotInHand(j)
      BY DEF JInv
    <3> QED BY <1>0, <1>1, <2>1, <2>3, <3>1, SameVerdicts DEF SlotInHand
  <2> QED BY <2>2, <2>3
<1> QED BY <1>2, <1>3, <1>4, <1>5 DEF JInv

-----------------------------------------------------------------------------
(* The theorem. *)

\* At first nothing is asked and every batch begins its tasks' walks.
LEMMA InjectionStarts ==
  ASSUME FreshStates = {"up"}, InjectInit
  PROVE  JInv
<1>1. LInv /\ Init
  BY InitLInv DEF InjectInit
<1>2. /\ pc = "fill" /\ pending = MakeBatches(NTasks, BatchSize) /\ deferred = << >>
      /\ waiting = << >> /\ job = NoJob /\ todo = {}
      /\ results = [t \in AllTasks |-> << >>]
      /\ \A i \in Slots : call[i] = NoCall /\ slot[i] = "up"
  BY <1>1 DEF Init, PoolInit
<1>3. Calm
  BY <1>2 DEF Calm, NoCall, NoJob, LoopLeft
<1>4. InjectTypes
  BY DEF InjectInit, InjectTypes
<1>5. QueuesUnasked
  BY <1>2, FirstUnasked DEF QueuesUnasked
<1>6. \A i \in Slots : SlotInHand(i)
  BY <1>2 DEF InjectInit, SlotInHand, NoCall, Answered
<1>7. JobTold /\ OutcomesReproducible
  BY <1>2 DEF JobTold, OutcomesReproducible
<1> QED BY <1>1, <1>3, <1>4, <1>5, <1>6, <1>7 DEF JInv

\* Every step of an injected run follows the walks.
LEMMA InjectionNext == JInv /\ [InjectNext]_allVars => JInv'
<1> SUFFICES ASSUME JInv, [InjectNext]_allVars PROVE JInv'
  OBVIOUS
<1>1. LInv'
  BY InjectedStep, NextLInv DEF JInv
<1>2. CASE DriverNext /\ ForgetVerdicts
  BY <1>2, DriverKeeps
<1>3. ASSUME NEW i \in Slots, ShouldFail(i) PROVE JInv'
  BY <1>3, AskKeeps
<1>4. ASSUME NEW i \in Slots, FailInjected(i), ForgetVerdicts PROVE JInv'
  <2>1. slot[i] = "up" /\ SlotInHand(i) /\ asked[i] = "fail" /\ "transient" \in Answered
    BY <1>4 DEF JInv, Calm, FailInjected, Answered
  <2>2. AnswerCall(i, "transient", "up")
    BY <1>4, <2>1 DEF FailInjected, FailTransient, Recovered
  <2> QED BY <1>1, <1>4, <2>1, <2>2, AnswerKeeps DEF SlotInHand
<1>5. ASSUME NEW i \in Slots, Evaluate(i), ForgetVerdicts PROVE JInv'
  <2>1. slot[i] = "up" /\ SlotInHand(i) /\ asked[i] = "run" /\ call[i].st = "running"
    BY <1>5 DEF JInv, Calm, Evaluate, SlotInHand
  <2>2. PICK kind \in {"ok", "deterministic"} : call[i].e \in Told(kind)
    BY <2>1 DEF SlotInHand
  <2>3. kind = "ok" <=> Tasks(call[i].e) \cap BadTasks = {}
    <3>1. PICK t \in Tasks(call[i].e) : TRUE
      BY <2>2, TasksFacts DEF Told, Reached
    <3>2. Verdict(t, call[i].e.rc) = kind /\ Walk[call[i].e.rc][t].e = call[i].e
      BY <2>2, <3>1 DEF Told, Reached
    <3> QED BY <3>2 DEF Verdict
  <2>4. AnswerCall(i, kind, "up") /\ kind \in Answered
    BY <1>5, <2>1, <2>2, <2>3 DEF Evaluate, Complete, FailDeterministic, Recovered, Answered
  <2> QED BY <1>1, <1>5, <2>2, <2>4, AnswerKeeps
<1>6. CASE UNCHANGED allVars
  <2>1. /\ UNCHANGED <<fails, attempts, asked>>
        /\ UNCHANGED <<pc, pending, deferred, waiting, call, job, todo, results, slot>>
    BY <1>6 DEF allVars, vars, driverVars, poolVars, injectVars
  <2>2. InjectTypes' /\ Calm'
    BY <2>1 DEF JInv, InjectTypes, Calm, LoopLeft
  <2>3. QueuesUnasked' /\ JobTold' /\ OutcomesReproducible'
    BY <2>1, SameVerdicts DEF JInv, QueuesUnasked, JobTold, OutcomesReproducible
  <2>4. \A i \in Slots : SlotInHand(i)'
    BY <2>1, SameVerdicts DEF JInv, SlotInHand
  <2> QED BY <1>1, <2>2, <2>3, <2>4 DEF JInv
<1>7. CASE Finished /\ UNCHANGED injectVars
  <2>1. UNCHANGED allVars
    BY <1>7 DEF Finished, allVars
  <2> QED BY <1>6, <2>1
<1> QED BY <1>2, <1>3, <1>4, <1>5, <1>6, <1>7 DEF InjectNext

\* For every set of verdicts, however the batches are scheduled, whichever worker
\* asks, and over however many decider shards: the outcome recorded for a task
\* is the one its verdicts fix.  New workers are healthy, as in the code.
THEOREM ReproducibleTheorem ==
  ASSUME FreshStates = {"up"}
  PROVE  InjectSpec => []OutcomesReproducible
<1>1. InjectInit => JInv
  BY InjectionStarts
<1>2. JInv => OutcomesReproducible
  BY DEF JInv
<1> QED BY <1>1, <1>2, InjectionNext, PTL DEF InjectSpec
=============================================================================
