---------------------------- MODULE HalvingProofs ----------------------------
(***************************************************************************)
(* What split-retry does to the batches: any mix of failures halves them,  *)
(* a budget of log2 of the batch size isolates every bad task, and the     *)
(* budget is the number of runs a task gets.                               *)
(***************************************************************************)
EXTENDS MCRuns, CoordinatorProofs, ProofLemmas

USE NTasksAssumption, BatchSizeAssumption, NWorkersAssumption, StandbyAssumption

-----------------------------------------------------------------------------
(* Powers of two. *)

\* f doubles from 1 up to n.
Doubles(f, n) == /\ f \in [0..n -> Nat]
                 /\ f[0] = 1
                 /\ \A k \in 0..n : k # 0 => f[k] = 2 * f[k - 1]

\* The powers of two up to n are given by some function.
LEMMA DoublesExist ==
  ASSUME NEW n \in Nat
  PROVE  \E f : Doubles(f, n)
<1> DEFINE Bad == {m \in Nat : ~ \E f : Doubles(f, m)}
<1> SUFFICES ASSUME Bad # {} PROVE FALSE
  OBVIOUS
<1>1. PICK m \in Bad : \A y \in Bad : m <= y
  <2>1. Bad \subseteq Nat
    OBVIOUS
  <2> HIDE DEF Bad
  <2> QED BY <2>1, LeastNumber
<1>2. m # 0
  <2>1. Doubles([k \in 0..0 |-> 1], 0)
    BY DEF Doubles
  <2> QED BY <1>1, <2>1
<1>3. m - 1 \in Nat /\ m - 1 \notin Bad
  BY <1>1, <1>2
<1>4. PICK f : Doubles(f, m - 1)
  BY <1>3
<1> DEFINE g == [k \in 0..m |-> IF k = m THEN 2 * f[m - 1] ELSE f[k]]
<1>5. Doubles(g, m)
  <2>1. \A k \in 0..m : k = m \/ k \in 0..(m - 1)
    BY <1>3
  <2>2. m - 1 \in 0..(m - 1) /\ 0 \in 0..(m - 1) /\ m - 1 \in 0..m /\ 0 \in 0..m /\ m - 1 # m
    BY <1>2, <1>3
  <2>3. f[m - 1] \in Nat
    BY <1>4, <2>2 DEF Doubles
  <2>4. \A k \in 0..m : g[k] \in Nat
    BY <1>4, <2>1, <2>3 DEF Doubles
  <2>5. g[0] = 1
    BY <1>2, <1>4, <2>2 DEF Doubles
  <2>6. ASSUME NEW k \in 0..m, k # 0 PROVE g[k] = 2 * g[k - 1]
    <3>1. CASE k = m
      BY <2>2, <3>1
    <3>2. CASE k # m
      <4>1. k \in 0..(m - 1) /\ k - 1 \in 0..m /\ k - 1 # m
        BY <1>3, <2>6, <3>2
      <4> QED BY <1>4, <2>6, <3>2, <4>1 DEF Doubles
    <3> QED BY <3>1, <3>2
  <2> QED BY <2>4, <2>5, <2>6 DEF Doubles
<1> QED BY <1>1, <1>5

\* And by one only.
LEMMA DoublesAgree ==
  ASSUME NEW m \in Nat, NEW n \in Nat, NEW f, NEW g, Doubles(f, m), Doubles(g, n),
         NEW k \in Nat, k <= m, k <= n
  PROVE  f[k] = g[k]
<1> DEFINE Bad == {j \in Nat : j <= m /\ j <= n /\ f[j] # g[j]}
<1> SUFFICES ASSUME Bad # {} PROVE FALSE
  OBVIOUS
<1>1. PICK j \in Bad : \A y \in Bad : j <= y
  <2>1. Bad \subseteq Nat
    OBVIOUS
  <2> HIDE DEF Bad
  <2> QED BY <2>1, LeastNumber
<1>2. j # 0
  BY <1>1 DEF Doubles
<1>3. j - 1 \in Nat /\ j - 1 <= m /\ j - 1 <= n /\ j - 1 \notin Bad
  BY <1>1, <1>2
<1>4. f[j - 1] = g[j - 1]
  BY <1>3
<1>5. j \in 0..m /\ j \in 0..n
  BY <1>1
<1>6. f[j] = 2 * f[j - 1] /\ g[j] = 2 * g[j - 1]
  BY <1>2, <1>5 DEF Doubles
<1> QED BY <1>1, <1>4, <1>6

\* The recursive definition means what it says.
LEMMA Pow2Defined ==
  /\ Pow2 \in [Nat -> Nat]
  /\ Pow2[0] = 1
  /\ \A n \in Nat : Pow2[n + 1] = 2 * Pow2[n]
<1> DEFINE g(n) == CHOOSE f : Doubles(f, n)
           p == [n \in Nat |-> g(n)[n]]
<1>1. \A n \in Nat : Doubles(g(n), n)
  BY DoublesExist
<1> HIDE DEF g
<1>2. p \in [Nat -> Nat]
  BY <1>1 DEF Doubles
<1>3. p[0] = 1
  BY <1>1 DEF Doubles
<1>4. ASSUME NEW n \in Nat PROVE p[n + 1] = 2 * p[n]
  <2>1. n + 1 \in 0..(n + 1) /\ n + 1 # 0 /\ n <= n + 1 /\ n + 1 \in Nat /\ n + 1 - 1 = n
    OBVIOUS
  <2>2. g(n + 1)[n + 1] = 2 * g(n + 1)[n]
    BY <1>1, <2>1 DEF Doubles
  <2>3. g(n + 1)[n] = g(n)[n]
    BY <1>1, <2>1, DoublesAgree
  <2> QED BY <2>1, <2>2, <2>3
<1> HIDE DEF p
<1>5. p = [n \in Nat |-> IF n = 0 THEN 1 ELSE 2 * p[n - 1]]
  <2>1. ASSUME NEW n \in Nat PROVE p[n] = IF n = 0 THEN 1 ELSE 2 * p[n - 1]
    <3>1. CASE n = 0
      BY <1>3, <3>1
    <3>2. CASE n # 0
      <4>1. n - 1 \in Nat /\ (n - 1) + 1 = n
        BY <3>2
      <4> QED BY <1>4, <3>2, <4>1
    <3> QED BY <3>1, <3>2
  <2> QED BY <1>2, <2>1
<1>6. Pow2 = [n \in Nat |-> IF n = 0 THEN 1 ELSE 2 * Pow2[n - 1]]
  BY <1>5 DEF Pow2
<1>7. Pow2[0] = 1
  BY <1>6
<1>8. ASSUME NEW n \in Nat PROVE Pow2[n + 1] = 2 * Pow2[n]
  <2>1. n + 1 \in Nat /\ n + 1 # 0 /\ n + 1 - 1 = n
    OBVIOUS
  <2> QED BY <1>6, <2>1
<1>9. Pow2 \in [Nat -> Nat]
  <2> DEFINE Bad == {n \in Nat : Pow2[n] \notin Nat}
  <2>1. Bad = {}
    <3> SUFFICES ASSUME Bad # {} PROVE FALSE
      OBVIOUS
    <3>1. PICK j \in Bad : \A y \in Bad : j <= y
      <4>1. Bad \subseteq Nat
        OBVIOUS
      <4> HIDE DEF Bad
      <4> QED BY <4>1, LeastNumber
    <3>2. j # 0
      BY <1>7, <3>1
    <3>3. j - 1 \in Nat /\ (j - 1) + 1 = j /\ j - 1 \notin Bad
      BY <3>1, <3>2
    <3>4. Pow2[j] = 2 * Pow2[j - 1] /\ Pow2[j - 1] \in Nat
      BY <1>8, <3>3
    <3> QED BY <3>1, <3>4
  <2>2. DOMAIN Pow2 = Nat
    BY <1>6
  <2>3. Pow2 = [n \in Nat |-> Pow2[n]]
    BY <1>6
  <2> QED BY <2>1, <2>3
<1> QED BY <1>7, <1>8, <1>9

\* Powers of two grow with their exponents.
LEMMA Pow2Monotonic ==
  ASSUME NEW m \in Nat, NEW n \in Nat, m <= n
  PROVE  Pow2[m] <= Pow2[n]
<1> DEFINE Bad == {j \in Nat : m <= j /\ ~(Pow2[m] <= Pow2[j])}
<1>1. Bad = {}
  <2> SUFFICES ASSUME Bad # {} PROVE FALSE
    OBVIOUS
  <2>1. PICK j \in Bad : \A y \in Bad : j <= y
    <3>1. Bad \subseteq Nat
      OBVIOUS
    <3> HIDE DEF Bad
    <3> QED BY <3>1, LeastNumber
  <2>2. Pow2[m] \in Nat
    BY Pow2Defined
  <2>3. j # m
    BY <2>1, <2>2
  <2>4. j - 1 \in Nat /\ m <= j - 1 /\ j - 1 \notin Bad /\ (j - 1) + 1 = j
    BY <2>1, <2>3
  <2>5. Pow2[m] <= Pow2[j - 1] /\ Pow2[j - 1] \in Nat /\ Pow2[j] = 2 * Pow2[j - 1]
    <3>1. Pow2[(j - 1) + 1] = 2 * Pow2[j - 1] /\ Pow2[j - 1] \in Nat
      BY <2>4, Pow2Defined
    <3>2. Pow2[m] <= Pow2[j - 1]
      BY <2>4
    <3> QED BY <2>4, <3>1, <3>2
  <2>6. Pow2[m] <= Pow2[j]
    BY <2>2, <2>5
  <2> QED BY <2>1, <2>6
<1> QED BY <1>1

-----------------------------------------------------------------------------
(* Halving. *)

HalvedBatches == {e \in Batches : (BatchLen(e) - 1) * Pow2[e.rc] < BatchSize}

\* Doubling the power while more than halving what it multiplies.
LEMMA HalvesBelow ==
  ASSUME NEW l \in Nat \ {0}, NEW h \in Nat \ {0}, NEW p \in Nat,
         2 * (h - 1) <= l - 1, (l - 1) * p < BatchSize
  PROVE  (h - 1) * (2 * p) < BatchSize
<1>1. (h - 1) * (2 * p) = (2 * (h - 1)) * p
  OBVIOUS
<1>2. (2 * (h - 1)) * p <= (l - 1) * p
  BY TimesMonotonic
<1>3. (2 * (h - 1)) * p \in Int /\ (l - 1) * p \in Int
  OBVIOUS
<1> QED BY <1>1, <1>2, <1>3

\* A retry of any batch doubles the power and halves the batch.
LEMMA HalvedClosed == Closed(HalvedBatches)
<1> SUFFICES ASSUME NEW e \in HalvedBatches
             PROVE  RetryEntries(e) \in Seq(HalvedBatches)
  BY DEF Closed, HalvedBatches
<1>0. /\ e.lo \in 1..NTasks /\ e.hi \in 1..NTasks /\ e.rc \in Nat /\ e.lo <= e.hi
      /\ BatchLen(e) = e.hi - e.lo + 1 /\ e \in Batches
      /\ (BatchLen(e) - 1) * Pow2[e.rc] < BatchSize
  BY DEF BatchLen, HalvedBatches, Batches, Entries
<1>1. Pow2[e.rc] \in Nat /\ Pow2[e.rc + 1] = 2 * Pow2[e.rc]
  BY <1>0, Pow2Defined
<1>2. RetryEntries(e) \in Seq(Batches)
  BY <1>0, RetryEntriesType
<1>3. ASSUME NEW k \in 1..Len(RetryEntries(e))
      PROVE  /\ RetryEntries(e)[k].rc = e.rc + 1
             /\ BatchLen(RetryEntries(e)[k]) \in Nat \ {0}
             /\ 2 * (BatchLen(RetryEntries(e)[k]) - 1) <= BatchLen(e) - 1
  <2>1. CASE BatchLen(e) <= 1
    <3>1. RetryEntries(e) = << [lo |-> e.lo, hi |-> e.hi, rc |-> e.rc + 1] >> /\ k = 1
      BY <2>1 DEF RetryEntries, Whole
    <3>2. RetryEntries(e)[k] = [lo |-> e.lo, hi |-> e.hi, rc |-> e.rc + 1]
      BY <3>1
    <3>3. BatchLen(RetryEntries(e)[k]) = BatchLen(e) /\ RetryEntries(e)[k].rc = e.rc + 1
      BY <3>2 DEF BatchLen
    <3>4. BatchLen(e) = 1
      BY <1>0, <2>1
    <3> QED BY <3>3, <3>4
  <2>2. CASE ~(BatchLen(e) <= 1)
    <3> DEFINE mid == BatchLen(e) \div 2
               a == [lo |-> e.lo, hi |-> e.lo + mid - 1, rc |-> e.rc + 1]
               b == [lo |-> e.lo + mid, hi |-> e.hi, rc |-> e.rc + 1]
    <3>1. /\ mid \in Nat /\ 1 <= mid /\ mid < BatchLen(e)
          /\ 2 * mid <= BatchLen(e) /\ BatchLen(e) <= 2 * mid + 1
      <4>1. \A n \in Nat : n > 1 => /\ n \div 2 \in Nat /\ 1 <= n \div 2 /\ n \div 2 < n
                                   /\ 2 * (n \div 2) <= n /\ n <= 2 * (n \div 2) + 1
        OBVIOUS
      <4>2. BatchLen(e) \in Nat /\ BatchLen(e) > 1
        BY <1>0, <2>2
      <4> QED BY <4>1, <4>2
    <3>2. RetryEntries(e) = <<a, b>>
      BY <2>2 DEF RetryEntries, Split
    <3>3. k \in {1, 2}
      BY <3>2
    <3> HIDE DEF mid
    <3>4. BatchLen(a) = mid /\ BatchLen(b) = BatchLen(e) - mid /\ a.rc = e.rc + 1 /\ b.rc = e.rc + 1
      <4>1. PICK lo \in Nat, hi \in Nat, m \in Nat : lo = e.lo /\ hi = e.hi /\ m = mid
        BY <1>0, <3>1
      <4>2. \A x, y, z \in Int : /\ (x + z - 1) - x + 1 = z
                                 /\ y - (x + z) + 1 = (y - x + 1) - z
        OBVIOUS
      <4>3. BatchLen(e) = hi - lo + 1
        BY <1>0, <4>1
      <4>4. BatchLen(a) = (lo + m - 1) - lo + 1 /\ BatchLen(b) = hi - (lo + m) + 1
        BY <4>1 DEF BatchLen
      <4>5. BatchLen(a) = m
        BY <4>2, <4>4
      <4>6. BatchLen(b) = (hi - lo + 1) - m
        BY <4>2, <4>4
      <4> QED BY <4>1, <4>3, <4>5, <4>6
    <3> HIDE DEF a, b
    <3>5. RetryEntries(e)[k] \in {a, b}
      BY <3>2, <3>3
    <3>6. /\ 2 * (mid - 1) <= BatchLen(e) - 1
          /\ 2 * ((BatchLen(e) - mid) - 1) <= BatchLen(e) - 1
          /\ mid \in Nat \ {0} /\ BatchLen(e) - mid \in Nat \ {0}
      <4>1. BatchLen(e) \in Nat
        BY <1>0
      <4>2. PICK len \in Nat, m \in Nat : len = BatchLen(e) /\ m = mid
        BY <3>1, <4>1
      <4>3. 1 <= m /\ m < len /\ 2 * m <= len /\ len <= 2 * m + 1
        BY <3>1, <4>2
      <4>4. /\ 2 * (m - 1) <= len - 1 /\ 2 * ((len - m) - 1) <= len - 1
            /\ m \in Nat \ {0} /\ len - m \in Nat \ {0}
        BY <4>3
      <4> QED BY <4>2, <4>4
    <3>7. CASE RetryEntries(e)[k] = a
      BY <3>4, <3>6, <3>7
    <3>8. CASE RetryEntries(e)[k] = b
      BY <3>4, <3>6, <3>8
    <3> QED BY <3>5, <3>7, <3>8
  <2> QED BY <2>1, <2>2
<1>4. BatchLen(e) \in Nat \ {0}
  BY <1>0
<1>5. ASSUME NEW k \in 1..Len(RetryEntries(e))
      PROVE  RetryEntries(e)[k] \in HalvedBatches
  <2>1. (BatchLen(RetryEntries(e)[k]) - 1) * (2 * Pow2[e.rc]) < BatchSize
    BY <1>0, <1>1, <1>3, <1>4, HalvesBelow
  <2>2. RetryEntries(e)[k] \in Batches
    BY <1>2
  <2> QED BY <1>1, <1>3, <2>1, <2>2 DEF HalvedBatches
<1>6. RetryEntries(e) \in [1..Len(RetryEntries(e)) -> HalvedBatches]
  BY <1>2, <1>5
<1>7. Len(RetryEntries(e)) \in Nat
  BY <1>2
<1> QED BY <1>6, <1>7, SeqDef

\* The batches made at the start have not been halved yet.
LEMMA MakeBatchesHalved == MakeBatches(NTasks, BatchSize) \in Seq(HalvedBatches)
<1> DEFINE m == MakeBatches(NTasks, BatchSize)
<1>1. m \in Seq(Batches)
  BY MakeBatchesType
<1>2. ASSUME NEW k \in 1..Len(m) PROVE m[k] \in HalvedBatches
  <2>0. m[k] \in Batches /\ k \in Int
    BY <1>1
  <2>1. /\ m[k].lo = (k - 1) * BatchSize + 1 /\ m[k].rc = 0
        /\ m[k].hi = IF k * BatchSize < NTasks THEN k * BatchSize ELSE NTasks
    BY DEF MakeBatches
  <2>2. k * BatchSize = (k - 1) * BatchSize + BatchSize /\ (k - 1) * BatchSize \in Int
        /\ k * BatchSize \in Int
    BY <2>0
  <2> HIDE DEF m
  <2>3. m[k].hi <= k * BatchSize /\ m[k].hi \in Int
    BY <2>1, <2>2
  <2>4. BatchLen(m[k]) - 1 \in Int /\ BatchLen(m[k]) - 1 < BatchSize
    BY <2>1, <2>2, <2>3 DEF BatchLen
  <2>5. Pow2[m[k].rc] = 1
    BY <2>1, Pow2Defined
  <2> QED BY <2>0, <2>4, <2>5 DEF HalvedBatches
<1>3. m \in [1..Len(m) -> HalvedBatches] /\ Len(m) \in Nat
  <2> HIDE DEF m
  <2> QED BY <1>1, <1>2
<1> QED BY <1>3, SeqDef

\* A batch with k retries behind it is at most its k-th half.
LEMMA HalvedBatchesAlways == Spec => [](IInv /\ AllIn(HalvedBatches))
<1>1. Init => LInv /\ AllIn(HalvedBatches)
  BY InitLInv, MakeBatchesHalved, AllInInit
<1>2. LInv /\ AllIn(HalvedBatches) /\ [Next]_vars => (LInv /\ AllIn(HalvedBatches))'
  <2> SUFFICES ASSUME LInv, AllIn(HalvedBatches), [Next]_vars
               PROVE  LInv' /\ AllIn(HalvedBatches)'
    OBVIOUS
  <2>1. AllIn(HalvedBatches)'
    BY HalvedClosed, AllInNext DEF LInv
  <2> QED BY <2>1, NextLInv
<1>3. LInv => IInv
  BY DEF LInv
<1> QED BY <1>1, <1>2, <1>3, PTL DEF Spec

\* Whatever mix of exceptions, hangs and crashes a batch meets, after rc
\* failures at most BatchSize / 2^rc of its tasks, rounded up, are together:
\* retry_entries at both of its call sites, over every queue and call.
THEOREM FailuresHalve == Spec => []HalvesEveryFailure
<1>1. IInv /\ AllIn(HalvedBatches) => HalvesEveryFailure
  <2> SUFFICES ASSUME IInv, AllIn(HalvedBatches), NEW p \in Places
               PROVE  (BatchLen(BatchAt(p)) - 1) * Pow2[BatchAt(p).rc] < BatchSize
    BY DEF HalvesEveryFailure
  <2>1. (BatchLen(NoEntry) - 1) * Pow2[NoEntry.rc] < BatchSize
    <3>1. BatchLen(NoEntry) = 0 /\ NoEntry.rc = 0 /\ Pow2[0] = 1
      BY Pow2Defined DEF BatchLen, NoEntry
    <3> QED BY <3>1
  <2>2. BatchAt(p) \in HalvedBatches \cup {NoEntry}
    <3>1. /\ \A k \in 1..Len(pending) : pending[k] \in HalvedBatches
          /\ \A k \in 1..Len(deferred) : deferred[k] \in HalvedBatches
          /\ \A k \in 1..Len(waiting) : waiting[k] \in HalvedBatches
      BY DEF AllIn
    <3>2. \A i \in Slots : call[i].e \in HalvedBatches \cup {NoEntry}
      BY DEF AllIn, NoCall
    <3>3. job.e \in HalvedBatches \cup {NoEntry}
      BY DEF AllIn, IInv, TypeOK, Jobs, FailedJobs, HungJobs, NoJob
    <3> QED BY <3>1, <3>2, <3>3 DEF Places, BatchAt
  <2> QED BY <2>1, <2>2 DEF HalvedBatches
<1> QED BY <1>1, HalvedBatchesAlways, PTL

-----------------------------------------------------------------------------
(* Batchmates. *)

\* A deterministic error comes from a bad task of the batch.
CausesKnown ==
  /\ \A i \in Slots : call[i].st = "deterministic" => Tasks(call[i].e) \cap BadTasks # {}
  /\ job.kind = "deterministic" => Tasks(job.e) \cap BadTasks # {}

\* Every budget suffices to get a batch down to one task.
EnoughRetries == \A t \in AllTasks : BatchSize <= Pow2[MaxRetries[t]]

\* A batch that is given up for a deterministic error is a single task.
LEMMA GivenUpAlone ==
  ASSUME EnoughRetries, NEW e \in HalvedBatches, Tasks(e) \cap BadTasks # {},
         ~ShouldRetry(e, "deterministic")
  PROVE  Tasks(e) \subseteq BadTasks
<1>0. /\ e.lo \in 1..NTasks /\ e.hi \in 1..NTasks /\ e.rc \in Nat /\ e.lo <= e.hi
      /\ BatchLen(e) = e.hi - e.lo + 1
      /\ (BatchLen(e) - 1) * Pow2[e.rc] < BatchSize
  BY DEF BatchLen, HalvedBatches, Batches, Entries
<1>1. BatchLen(e) <= 1
  <2>1. CASE ~(e.rc < Budget(e))
    <3>1. Budget(e) \in Nat /\ BatchSize <= Pow2[Budget(e)]
      BY <1>0, MaxRetriesAssumption DEF Budget, EnoughRetries, AllTasks
    <3>2. Pow2[Budget(e)] <= Pow2[e.rc] /\ Pow2[Budget(e)] \in Nat /\ Pow2[e.rc] \in Nat
      <4>1. Budget(e) <= e.rc
        BY <1>0, <2>1, <3>1
      <4> QED BY <1>0, <3>1, <4>1, Pow2Monotonic, Pow2Defined
    <3>3. SUFFICES ASSUME 1 <= BatchLen(e) - 1 PROVE FALSE
      BY <1>0
    <3>4. 1 * Pow2[e.rc] <= (BatchLen(e) - 1) * Pow2[e.rc]
      BY <1>0, <3>2, <3>3, TimesMonotonic
    <3>5. (BatchLen(e) - 1) * Pow2[e.rc] \in Int /\ 1 * Pow2[e.rc] = Pow2[e.rc]
      BY <1>0, <3>2
    <3> QED BY <1>0, <3>1, <3>2, <3>4, <3>5
  <2>2. CASE e.rc < Budget(e)
    BY <1>0, <2>2 DEF ShouldRetry
  <2> QED BY <2>1, <2>2
<1>2. e.lo = e.hi
  BY <1>0, <1>1
<1>3. Tasks(e) = {e.lo}
  BY <1>0, <1>2 DEF Tasks
<1> QED BY <1>3

\* One outcome recorded is the last one recorded.
LEMMA AppendSingle ==
  ASSUME NEW r \in Seq(Outcomes), NEW x \in Outcomes, NEW y
  PROVE  Append(r, x) = <<y>> => r = << >> /\ x = y
<1> DEFINE a == Append(r, x)
           b == <<y>>
<1>1. Len(a) = Len(r) + 1 /\ a[Len(r) + 1] = x /\ Len(r) \in Nat
  BY AppendProperties
<1>2. Len(b) = 1 /\ b[1] = y
  OBVIOUS
<1>3. Len(r) = 0 => r = << >>
  OBVIOUS
<1> HIDE DEF a, b
<1>4. ASSUME a = b PROVE Len(r) = 0 /\ x = y
  <2>1. Len(r) + 1 = 1
    BY <1>1, <1>2, <1>4
  <2>2. \A n \in Nat : n + 1 = 1 => n = 0
    OBVIOUS
  <2>3. Len(r) = 0
    BY <1>1, <2>1, <2>2
  <2>4. a[1] = x
    BY <1>1, <2>1
  <2> QED BY <1>2, <1>4, <2>3, <2>4
<1>5. a = b => r = << >> /\ x = y
  BY <1>3, <1>4
<1> QED BY <1>5 DEF a, b

\* Recording anything but a deterministic error leaves batchmates alone.
LEMMA OtherRecords ==
  ASSUME NEW S, NEW outcome \in Outcomes, results \in [AllTasks -> Seq(Outcomes)],
         BatchmatesSurvive, Record(S, outcome),
         outcome = "deterministic" => S \subseteq BadTasks
  PROVE  BatchmatesSurvive'
<1> SUFFICES ASSUME NEW t \in AllTasks \ BadTasks, results'[t] = <<"deterministic">>
             PROVE  FALSE
  BY DEF BatchmatesSurvive
<1>1. CASE t \in S
  <2>1. results'[t] = Append(results[t], outcome) /\ outcome # "deterministic"
    BY <1>1 DEF Record
  <2>2. results[t] \in Seq(Outcomes)
    OBVIOUS
  <2> QED BY <2>1, <2>2, AppendSingle
<1>2. CASE t \notin S
  BY <1>2 DEF Record, BatchmatesSurvive
<1> QED BY <1>1, <1>2

\* A failure in hand or answered has a cause.
LEMMA CausesNext ==
  ASSUME IInv, CausesKnown, [Next]_vars
  PROVE  CausesKnown'
<1>0. TypeOK /\ JobInHand /\ call \in [Slots -> Calls]
  BY DEF IInv, TypeOK, DriverConsistent
<1>1. CASE UNCHANGED <<call, job>>
  BY <1>1 DEF CausesKnown
<1>2. ASSUME NEW i \in Slots, NEW c, call' = [call EXCEPT ![i] = c], c.st # "deterministic",
             job' = job \/ job'.kind # "deterministic"
      PROVE  CausesKnown'
  BY <1>0, <1>2 DEF CausesKnown
<1>3. \A e : NoCall.st # "deterministic" /\ NewCall(e).st # "deterministic"
  BY DEF NoCall, NewCall
<1>4. CASE Fill
  BY <1>3, <1>4 DEF Fill, CausesKnown
<1>5. ASSUME NEW i \in Slots, NEW q, AssignHead(i, q)
      PROVE  \E c : call' = [call EXCEPT ![i] = c] /\ c.st # "deterministic"
  BY <1>3, <1>5 DEF AssignHead
<1>6. ASSUME NEW i \in Slots, HarvestSuccess(i) PROVE CausesKnown'
  BY <1>2, <1>5, <1>6 DEF HarvestSuccess
<1>7. CASE RetryLater \/ FailTerminally \/ Reassign
  <2>1. AssignHead(job.slot, pending) /\ job' = NoJob /\ job # NoJob
    BY <1>0, <1>7 DEF RetryLater, FailTerminally, Reassign, JobInHand, HandlingSteps
  <2>2. job.slot \in Slots /\ NoJob.kind # "deterministic"
    BY <1>0, <2>1 DEF TypeOK, Jobs, FailedJobs, HungJobs, NoJob
  <2> QED BY <1>2, <1>5, <2>1, <2>2
<1>8. ASSUME NEW i \in Slots, HarvestFailure(i) PROVE CausesKnown'
  <2>1. /\ call' = [call EXCEPT ![i] = NoCall]
        /\ job'.kind = call[i].st /\ job'.e = call[i].e
    BY <1>8 DEF HarvestFailure
  <2> QED BY <1>0, <1>3, <2>1 DEF CausesKnown
<1>9. ASSUME NEW i \in Slots, Evict(i) PROVE CausesKnown'
  <2>1. call' = [call EXCEPT ![i] = NoCall] /\ job'.kind = "hung"
    BY <1>9 DEF Evict
  <2> QED BY <1>2, <1>3, <2>1
<1>10. CASE Dispatch
  <2>1. PICK i \in Slots : call' = [call EXCEPT ![i] = NewCall(Head(pending))]
    BY <1>10 DEF Dispatch
  <2>2. job' = job
    BY <1>10 DEF Dispatch
  <2> QED BY <1>2, <1>3, <2>1, <2>2
<1>12. ASSUME NEW i \in Slots,
              Complete(i) \/ FailTransient(i) \/ FailFatal(i) \/ FailOnDeadActor(i)
       PROVE  CausesKnown'
  <2>1. PICK st \in {"ok", "transient"} : call' = [call EXCEPT ![i] = Answer(call[i], st)]
    BY <1>12 DEF Complete, FailTransient, FailFatal, FailOnDeadActor, AnswerCall
  <2>2. job' = job /\ Answer(call[i], st).st = st
    BY <1>12 DEF Complete, FailTransient, FailFatal, FailOnDeadActor, AnswerCall, Answer
  <2> QED BY <1>2, <2>1, <2>2
<1>13. ASSUME NEW i \in Slots, FailDeterministic(i) PROVE CausesKnown'
  <2>1. /\ call' = [call EXCEPT ![i] = Answer(call[i], "deterministic")] /\ job' = job
        /\ Tasks(Answer(call[i], "deterministic").e) \cap BadTasks # {}
    BY <1>13 DEF FailDeterministic, AnswerCall, Answer
  <2> QED BY <1>0, <2>1 DEF CausesKnown
<1>14. ASSUME NEW i \in Slots, Age(i) PROVE CausesKnown'
  <2>1. /\ call' = [call EXCEPT ![i] = Aged(call[i])] /\ job' = job
        /\ Aged(call[i]).st = call[i].st /\ Aged(call[i]).e = call[i].e
    BY <1>14 DEF Age, Aged
  <2> QED BY <1>0, <2>1 DEF CausesKnown
<1>15. CASE WorkerNext
  <2>1. IdleStandbyCrash => UNCHANGED <<call, job>>
    BY DEF IdleStandbyCrash, driverVars
  <2>2. \A i \in Slots : Crash(i) \/ Wedge(i) => UNCHANGED <<call, job>>
    BY DEF Crash, Wedge, driverVars
  <2> QED BY <1>1, <1>12, <1>13, <1>14, <1>15, <2>1, <2>2 DEF WorkerNext
<1>16. CASE \/ EnterLoop \/ LeaveLoop \/ PollRefill \/ EndPoll \/ Abort \/ EndDispatch \/ Sleep
            \/ WaitTimeout \/ Probe \/ ReplaceFromPool \/ ReplaceBlocking \/ BlockingReplace
            \/ PromoteDue \/ PromoteNotDue \/ EndPromote
            \/ BeginScan \/ EndScan \/ CollectStats \/ StatsRaise \/ UNCHANGED vars
  <2>1. UNCHANGED <<call, job>>
    BY <1>16 DEF EnterLoop, LeaveLoop, PollRefill, EndPoll, Abort, EndDispatch, Sleep,
       WaitTimeout, Probe, ReplaceFromPool, ReplaceBlocking, BlockingReplace, PromoteDue,
       PromoteNotDue, EndPromote, BeginScan, EndScan, CollectStats, StatsRaise, vars, driverVars
  <2> QED BY <1>1, <2>1
<1>17. CASE DriverNext
  BY <1>4, <1>6, <1>7, <1>8, <1>9, <1>10, <1>16, <1>17 DEF DriverNext
<1> QED BY <1>15, <1>16, <1>17 DEF Next, Finished

\* No step gives up a task for the error of another.
LEMMA SurviveNext ==
  ASSUME EnoughRetries, IInv, AllIn(HalvedBatches), CausesKnown, BatchmatesSurvive,
         [Next]_vars
  PROVE  BatchmatesSurvive'
<1>0. TypeOK /\ JobInHand /\ results \in [AllTasks -> Seq(Outcomes)]
  BY DEF IInv, TypeOK, DriverConsistent
<1>1. CASE results' = results
  BY <1>1 DEF BatchmatesSurvive
<1>2. ASSUME NEW S, NEW o \in Outcomes \ {"deterministic"}, Record(S, o)
      PROVE  BatchmatesSurvive'
  BY <1>0, <1>2, OtherRecords
<1>3. ASSUME NEW i \in Slots, HarvestSuccess(i) PROVE BatchmatesSurvive'
  BY <1>2, <1>3 DEF HarvestSuccess, Outcomes
<1>4. ASSUME NEW i \in Slots, Evict(i) PROVE BatchmatesSurvive'
  <2>1. results' = results \/ Record(Tasks(call[i].e), "hung")
    BY <1>4 DEF Evict, Requeue
  <2> QED BY <1>1, <1>2, <2>1 DEF Outcomes
<1>5. CASE Abort
  BY <1>2, <1>5 DEF Abort, Outcomes
<1>6. CASE FailTerminally
  <2>1. /\ Record(Tasks(job.e), job.kind) /\ job.kind \in {"transient", "deterministic"}
        /\ ~ShouldRetry(job.e, job.kind)
    BY <1>0, <1>6 DEF FailTerminally, JobInHand, HandlingSteps, TypeOK, Jobs, FailedJobs, HungJobs
  <2>2. CASE job.kind = "transient"
    BY <1>2, <2>1, <2>2 DEF Outcomes
  <2>3. CASE job.kind = "deterministic"
    <3>1. Tasks(job.e) \subseteq BadTasks
      BY <2>1, <2>3, GivenUpAlone DEF AllIn, CausesKnown
    <3> QED BY <1>0, <2>1, <2>3, <3>1, OtherRecords DEF Outcomes
  <2> QED BY <2>1, <2>2, <2>3
<1>7. CASE \/ Fill \/ EnterLoop \/ LeaveLoop \/ PollRefill \/ EndPoll
           \/ PromoteDue \/ PromoteNotDue \/ EndPromote \/ Dispatch \/ EndDispatch \/ Sleep
           \/ WaitTimeout \/ (\E i \in Slots : HarvestFailure(i))
           \/ Probe \/ ReplaceFromPool \/ ReplaceBlocking \/ BlockingReplace
           \/ RetryLater \/ BeginScan \/ Reassign \/ EndScan \/ CollectStats \/ StatsRaise
           \/ UNCHANGED vars
  <2>1. results' = results
    BY <1>7 DEF Fill, EnterLoop, LeaveLoop, PollRefill, EndPoll, PromoteDue, PromoteNotDue,
     EndPromote, Dispatch, EndDispatch, Sleep, WaitTimeout, HarvestFailure, Probe,
     ReplaceFromPool, ReplaceBlocking, BlockingReplace, RetryLater, BeginScan, Reassign,
     EndScan, CollectStats, StatsRaise, vars, driverVars
  <2> QED BY <1>1, <2>1
<1>8. CASE WorkerNext
  <2>1. results' = results
    BY <1>8 DEF WorkerNext, Complete, FailDeterministic, FailTransient, FailFatal, AnswerCall,
       Crash, FailOnDeadActor, Wedge, Age, IdleStandbyCrash, driverVars
  <2> QED BY <1>1, <2>1
<1>9. CASE DriverNext
  BY <1>3, <1>4, <1>5, <1>6, <1>7, <1>9 DEF DriverNext
<1> QED BY <1>7, <1>8, <1>9 DEF Next, Finished

\* If every retry budget is at least log2 of the batch size, no task is given
\* up for a deterministic error of one of its batchmates, whatever else the
\* batch meets before it is down to one task (should_retry, retry_entries).
THEOREM BatchmatesUnharmed ==
  ASSUME EnoughRetries
  PROVE  Spec => []BatchmatesSurvive
<1> DEFINE Inv == LInv /\ AllIn(HalvedBatches) /\ CausesKnown /\ BatchmatesSurvive
<1>1. Init => Inv
  <2> SUFFICES ASSUME Init PROVE Inv
    OBVIOUS
  <2>1. CausesKnown
    BY DEF Init, CausesKnown, NoCall, NoJob
  <2>2. BatchmatesSurvive
    BY DEF Init, BatchmatesSurvive
  <2> QED BY <2>1, <2>2, InitLInv, MakeBatchesHalved, AllInInit
<1>2. Inv /\ [Next]_vars => Inv'
  <2> SUFFICES ASSUME Inv, [Next]_vars PROVE Inv'
    OBVIOUS
  <2>1. AllIn(HalvedBatches)'
    BY HalvedClosed, AllInNext DEF LInv
  <2> QED BY <2>1, NextLInv, CausesNext, SurviveNext DEF LInv
<1>3. Inv => BatchmatesSurvive
  OBVIOUS
<1> QED BY <1>1, <1>2, <1>3, PTL DEF Spec

-----------------------------------------------------------------------------
(* The budget of a batch is the number of times its tasks have been handed *)
(* to a worker, through every split, deferral and requeue.                 *)

USE MaxRetriesAssumption

\* Every task has the same budget: none came with a max_retries of its own.
UniformBudgets == \A t, u \in AllTasks : MaxRetries[t] = MaxRetries[u]

\* The batches whose retry count is the runs their tasks have had, and those
\* that are having or have had one more.
QueuedRuns == {e \in Batches : \A t \in Tasks(e) : e.rc <= MaxRetries[t] /\ runs[t] = e.rc}
HandedRuns == {e \in Batches : \A t \in Tasks(e) : e.rc <= MaxRetries[t] /\ runs[t] = e.rc + 1}

\* A task with a result has not outrun its budget, and has used it up if that is
\* why it was given up.
GivenUpFor == {<<"transient">>, <<"hung">>}
Spent(t) ==
  /\ runs[t] <= MaxRetries[t] + 1
  /\ results[t] \in GivenUpFor => runs[t] = MaxRetries[t] + 1

BudgetInv ==
  /\ LInv
  /\ runs \in [AllTasks -> Nat]
  /\ HeldIn(QueuedRuns, HandedRuns)
  /\ \A t \in Recorded : Spent(t)

-----------------------------------------------------------------------------
\* The budget of a batch is that of each of its tasks.
LEMMA BatchBudget ==
  ASSUME UniformBudgets, NEW e \in Batches, NEW t \in Tasks(e)
  PROVE  /\ t \in AllTasks /\ MaxRetries[t] \in Nat /\ Budget(e) = MaxRetries[t]
         /\ e.rc \in Nat
<1>1. e.lo \in AllTasks /\ e.rc \in Nat
  BY DEF Batches, Entries, AllTasks
<1>2. t \in AllTasks
  BY TasksFacts
<1> QED BY <1>1, <1>2 DEF UniformBudgets, Budget

\* A batch that failed has had one more run, which is what its retry count
\* says after retry_entries.
LEMMA RetryRuns ==
  ASSUME UniformBudgets, NEW e \in HandedRuns, e.rc < Budget(e)
  PROVE  RetryEntries(e) \in Seq(QueuedRuns)
<1>0. e \in Batches /\ \A t \in Tasks(e) : runs[t] = e.rc + 1
  BY DEF HandedRuns
<1>1. RetryEntries(e) \in Seq(Batches)
  BY <1>0, RetryEntriesType
<1>2. ASSUME NEW k \in 1..Len(RetryEntries(e)) PROVE RetryEntries(e)[k] \in QueuedRuns
  <2>1. /\ RetryEntries(e)[k].rc = e.rc + 1
        /\ Tasks(RetryEntries(e)[k]) \subseteq Tasks(e)
    BY <1>0, RetryEntriesPartition
  <2>2. RetryEntries(e)[k] \in Batches
    BY <1>1
  <2>3. ASSUME NEW t \in Tasks(e) PROVE e.rc + 1 <= MaxRetries[t]
    BY <1>0, <2>3, BatchBudget
  <2> QED BY <1>0, <2>1, <2>2, <2>3 DEF QueuedRuns
<1>3. RetryEntries(e) \in [1..Len(RetryEntries(e)) -> QueuedRuns]
  BY <1>1, <1>2
<1>4. Len(RetryEntries(e)) \in Nat
  BY <1>1
<1> QED BY <1>3, <1>4, SeqDef

\* Every task without a result is in some batch the loop holds.
LEMMA OpenTasks ==
  ASSUME BudgetInv, ~LoopLeft, NEW t \in AllTasks \ Recorded
  PROVE  \E e \in QueuedRuns \cup HandedRuns : t \in Tasks(e)
<1>1. t \in Held(pending) \cup Held(deferred) \cup Held(waiting) \cup Called \cup Tasks(job.e)
  BY DEF BudgetInv, LInv, Accounted, Divided, ZonesCover
<1>2. /\ \A k \in 1..Len(pending) : pending[k] \in QueuedRuns
      /\ \A k \in 1..Len(deferred) : deferred[k] \in QueuedRuns
      /\ \A k \in 1..Len(waiting) : waiting[k] \in QueuedRuns
  BY DEF BudgetInv, HeldIn
<1>3. t \in Held(pending) \cup Held(deferred) \cup Held(waiting) => \E e \in QueuedRuns : t \in Tasks(e)
  BY <1>2 DEF Held
<1>4. t \in Called => \E e \in HandedRuns : t \in Tasks(e)
  <2>1. Tasks(NoCall.e) = {}
    BY TasksFacts DEF NoCall
  <2> QED BY <2>1 DEF Called, BudgetInv, HeldIn
<1>5. t \in Tasks(job.e) => job.e \in HandedRuns
  BY TasksFacts DEF BudgetInv, HeldIn, LInv, IInv, TypeOK, Jobs, FailedJobs, HungJobs, NoJob
<1> QED BY <1>1, <1>3, <1>4, <1>5

\* A task not recorded has not used more than its budget.
LEMMA OpenSpent ==
  ASSUME BudgetInv, ~LoopLeft, NEW t \in AllTasks \ Recorded
  PROVE  runs[t] <= MaxRetries[t] + 1
<1>1. PICK e \in QueuedRuns \cup HandedRuns : t \in Tasks(e)
  BY OpenTasks
<1>2. e.rc \in Nat /\ MaxRetries[t] \in Nat /\ e.rc <= MaxRetries[t]
  BY <1>1 DEF QueuedRuns, HandedRuns, Batches, Entries
<1>3. runs[t] = e.rc \/ runs[t] = e.rc + 1
  BY <1>1 DEF QueuedRuns, HandedRuns
<1> QED BY <1>2, <1>3

\* A task is given up for a transient error or a hang when its budget is used up.
LEMMA GivenUpSpent ==
  ASSUME UniformBudgets, BudgetInv, [Next]_vars,
         NEW t \in AllTasks \ Recorded, results'[t] \in GivenUpFor
  PROVE  runs[t] = MaxRetries[t] + 1
<1>0. /\ TypeOK /\ JobInHand /\ SnapshotValid /\ results[t] = << >>
      /\ HeldIn(QueuedRuns, HandedRuns)
  BY DEF BudgetInv, LInv, IInv, DriverConsistent, Recorded
<1>1. results'[t] # << >>
  <2>1. << >> \notin GivenUpFor
    BY DEF GivenUpFor
  <2> QED BY <2>1
<1>2. ASSUME NEW S, NEW o \in Outcomes, Record(S, o)
      PROVE  t \in S /\ o \in {"transient", "hung"}
  <2>1. t \in S
    BY <1>0, <1>1, <1>2 DEF Record
  <2>2. results'[t] = Append(<< >>, o)
    BY <1>0, <1>2, <2>1 DEF Record
  <2>3. PICK y \in {"transient", "hung"} : Append(<< >>, o) = <<y>>
    BY <2>2 DEF GivenUpFor
  <2>4. << >> \in Seq(Outcomes)
    OBVIOUS
  <2>5. o = y
    BY <2>3, <2>4, AppendSingle
  <2> QED BY <2>1, <2>5
<1>3. ASSUME NEW e \in HandedRuns, t \in Tasks(e), ~(e.rc < Budget(e))
      PROVE  runs[t] = MaxRetries[t] + 1
  <2>1. e.rc <= MaxRetries[t] /\ runs[t] = e.rc + 1 /\ e \in Batches
    BY <1>3 DEF HandedRuns
  <2>2. Budget(e) = MaxRetries[t] /\ e.rc \in Nat /\ MaxRetries[t] \in Nat
    BY <1>3, <2>1, BatchBudget
  <2> QED BY <1>3, <2>1, <2>2
<1>4. ASSUME NEW i \in Slots, HarvestSuccess(i) PROVE FALSE
  BY <1>2, <1>4 DEF HarvestSuccess, Outcomes
<1>5. ASSUME NEW i \in Slots, Evict(i) PROVE runs[t] = MaxRetries[t] + 1
  <2>1. call[i] # NoCall /\ Requeue(call[i].e)
    BY <1>0, <1>5 DEF Evict, SnapshotValid
  <2>2. ~(call[i].e.rc < Budget(call[i].e)) /\ Record(Tasks(call[i].e), "hung")
    BY <1>0, <1>1, <2>1 DEF Requeue
  <2>3. t \in Tasks(call[i].e)
    BY <1>2, <2>2 DEF Outcomes
  <2> QED BY <1>0, <1>3, <2>1, <2>2, <2>3 DEF HeldIn
<1>6. CASE Abort
  BY <1>2, <1>6 DEF Abort, Outcomes
<1>7. CASE FailTerminally
  <2>1. /\ Record(Tasks(job.e), job.kind) /\ job.kind \in {"transient", "deterministic"}
        /\ ~ShouldRetry(job.e, job.kind)
    BY <1>0, <1>7 DEF FailTerminally, JobInHand, HandlingSteps, TypeOK, Jobs, FailedJobs, HungJobs
  <2>2. job.kind = "transient" /\ t \in Tasks(job.e)
    BY <1>2, <2>1 DEF Outcomes
  <2> QED BY <1>0, <1>3, <2>1, <2>2 DEF ShouldRetry, HeldIn
<1>8. CASE \/ Fill \/ EnterLoop \/ LeaveLoop \/ PollRefill \/ EndPoll
           \/ PromoteDue \/ PromoteNotDue \/ EndPromote \/ Dispatch \/ EndDispatch \/ Sleep
           \/ WaitTimeout \/ (\E i \in Slots : HarvestFailure(i))
           \/ Probe \/ ReplaceFromPool \/ ReplaceBlocking \/ BlockingReplace
           \/ RetryLater \/ BeginScan \/ Reassign \/ EndScan \/ CollectStats \/ StatsRaise
           \/ UNCHANGED vars
  <2>1. results' = results
    BY <1>8 DEF Fill, EnterLoop, LeaveLoop, PollRefill, EndPoll, PromoteDue, PromoteNotDue,
     EndPromote, Dispatch, EndDispatch, Sleep, WaitTimeout, HarvestFailure, Probe,
     ReplaceFromPool, ReplaceBlocking, BlockingReplace, RetryLater, BeginScan, Reassign,
     EndScan, CollectStats, StatsRaise, vars, driverVars
  <2> QED BY <1>0, <1>1, <2>1
<1>9. CASE WorkerNext
  <2>1. results' = results
    BY <1>9 DEF WorkerNext, Complete, FailDeterministic, FailTransient, FailFatal, AnswerCall,
       Crash, FailOnDeadActor, Wedge, Age, IdleStandbyCrash, driverVars
  <2> QED BY <1>0, <1>1, <2>1
<1>10. CASE DriverNext
  BY <1>4, <1>5, <1>6, <1>7, <1>8, <1>10 DEF DriverNext
<1> QED BY <1>8, <1>9, <1>10 DEF Next, Finished

-----------------------------------------------------------------------------
\* What was queued is still queued after as many runs, unless it was handed out.
LEMMA StillQueued ==
  ASSUME NEW s \in Seq(QueuedRuns), \A t \in Held(s) : runs'[t] = runs[t]
  PROVE  s \in Seq(QueuedRuns')
<1>1. ASSUME NEW k \in 1..Len(s) PROVE s[k] \in QueuedRuns'
  <2>1. s[k] \in QueuedRuns
    OBVIOUS
  <2>2. s[k] \in Batches
    BY <2>1 DEF QueuedRuns
  <2>3. \A t \in Tasks(s[k]) : t \in Held(s)
    BY <2>2, TasksFacts DEF Held
  <2> QED BY <2>1, <2>3 DEF QueuedRuns
<1>2. s \in [1..Len(s) -> QueuedRuns'] /\ Len(s) \in Nat
  BY <1>1
<1> QED BY <1>2, SeqDef

\* Every step keeps runs and retries in step.
LEMMA BudgetNext ==
  ASSUME UniformBudgets, BudgetInv, MCNext
  PROVE  BudgetInv'
<1>0. LInv /\ IInv /\ Aside /\ LInv' /\ Next /\ runs \in [AllTasks -> Nat]
  BY NextLInv DEF BudgetInv, LInv, MCNext
<1>1. PICK G, H : G = QueuedRuns /\ H = HandedRuns
  OBVIOUS
<1>2. /\ pending' \in Seq(G) /\ deferred' \in Seq(G) /\ waiting' \in Seq(G)
      /\ CallsFrom(G, H)
      /\ job'.kind \in {"transient", "deterministic"} => job'.e \in H
  <2>1. HeldIn(G, H)
    BY <1>1 DEF BudgetInv
  <2>2. \A e \in H : e.rc < Budget(e) => RetryEntries(e) \in Seq(G)
    BY <1>1, RetryRuns
  <2>3. RetriesIn(G)
    BY <1>0, <2>1, <2>2, RetriesOfHeld
  <2> QED BY <1>0, <2>1, <2>3, HeldInNext
<1>3. /\ \A t : Started(t) <=> \E i \in Slots : HandedTo(i) /\ t \in Tasks(call'[i].e)
      /\ \A t \in AllTasks : /\ Started(t) => runs'[t] = runs[t] + 1
                             /\ ~Started(t) => runs'[t] = runs[t]
  BY <1>0 DEF Started, HandedTo, MCNext
<1>4. runs' \in [AllTasks -> Nat]
  BY <1>0 DEF MCNext
<1>5. \A i \in Slots : HandedTo(i) => call'[i] # NoCall
  BY DEF HandedTo, NoCall
<1>6. \A t \in AllTasks : Started(t) => ~LoopLeft' /\ t \in Called'
  BY <1>2, <1>3, <1>5 DEF CallsFrom, Called
<1>7. ASSUME NEW t \in AllTasks, t \notin Called' PROVE runs'[t] = runs[t]
  BY <1>3, <1>6, <1>7
<1>8. ASSUME LoopLeft', NEW t \in AllTasks PROVE runs'[t] = runs[t]
  BY <1>3, <1>6, <1>8
<1>9. ~LoopLeft' => Divided'
  BY <1>0 DEF LInv, Accounted
<1>10. \A t \in Held(pending)' \cup Held(deferred)' \cup Held(waiting)' \cup Tasks(job.e)' :
         t \in AllTasks => runs'[t] = runs[t]
  BY <1>7, <1>8, <1>9 DEF Divided, ZonesApart
<1>11. pending' \in Seq(QueuedRuns') /\ deferred' \in Seq(QueuedRuns') /\ waiting' \in Seq(QueuedRuns')
  <2>1. ASSUME NEW s \in Seq(QueuedRuns), \A t \in Held(s) : runs'[t] = runs[t]
        PROVE  s \in Seq(QueuedRuns')
    BY <2>1, StillQueued
  <2>2. /\ \A t \in Held(pending)' : runs'[t] = runs[t]
        /\ \A t \in Held(deferred)' : runs'[t] = runs[t]
        /\ \A t \in Held(waiting)' : runs'[t] = runs[t]
    BY <1>10 DEF Held
  <2> QED BY <1>1, <1>2, <2>1, <2>2
<1>12. ASSUME NEW i \in Slots, call'[i] # NoCall PROVE call'[i].e \in HandedRuns'
  <2>1. CASE HandedTo(i) /\ call'[i].e \in G
    <3>1. \A t \in Tasks(call'[i].e) : t \in AllTasks /\ runs'[t] = runs[t] + 1
      BY <1>1, <1>3, <2>1, TasksFacts DEF QueuedRuns
    <3> QED BY <1>1, <2>1, <3>1 DEF QueuedRuns, HandedRuns
  <2>2. CASE ~HandedTo(i) /\ call'[i].e \in H
    <3>1. ASSUME NEW t \in Tasks(call'[i].e) PROVE t \in AllTasks /\ runs'[t] = runs[t]
      <4>1. t \in AllTasks
        BY <1>1, <2>2, TasksFacts DEF HandedRuns
      <4>2. CASE LoopLeft'
        BY <1>8, <4>1, <4>2
      <4>3. CASE ~LoopLeft'
        <5>1. \A j \in Slots : t \in Tasks(call'[j].e) => j = i
          BY <1>9, <4>3 DEF Divided, CallsApart
        <5> QED BY <1>3, <2>2, <4>1, <5>1
      <4> QED BY <4>1, <4>2, <4>3
    <3> QED BY <1>1, <2>2, <3>1 DEF HandedRuns
  <2> QED BY <1>2, <1>12, <2>1, <2>2 DEF CallsFrom
<1>13. job'.kind \in {"transient", "deterministic"} => job'.e \in HandedRuns'
  <2> SUFFICES ASSUME job'.e \in H PROVE job'.e \in HandedRuns'
    BY <1>2
  <2>1. \A t \in Tasks(job'.e) : t \in AllTasks /\ runs'[t] = runs[t]
    BY <1>1, <1>10, TasksFacts DEF HandedRuns
  <2> QED BY <1>1, <2>1 DEF HandedRuns
<1>14. HeldIn(QueuedRuns, HandedRuns)'
  BY <1>11, <1>12, <1>13 DEF HeldIn
<1>15. ASSUME NEW t \in Recorded' PROVE Spent(t)'
  <2>1. t \in AllTasks /\ runs'[t] = runs[t]
    BY <1>7, <1>8, <1>9, <1>15 DEF Recorded, Divided, ZonesCover
  <2>2. CASE t \in Recorded
    <3>1. results'[t] = results[t]
      BY <1>0, <2>1, <2>2, ResultsNext DEF Closes
    <3> QED BY <2>1, <2>2, <3>1 DEF BudgetInv, Spent
  <2>3. CASE t \notin Recorded
    <3>1. ~LoopLeft
      BY <1>0, <2>1, <2>3 DEF LInv, Accounted
    <3>2. runs[t] <= MaxRetries[t] + 1
      BY <2>1, <2>3, <3>1, OpenSpent
    <3>3. results'[t] \in GivenUpFor => runs[t] = MaxRetries[t] + 1
      BY <1>0, <2>1, <2>3, GivenUpSpent
    <3> QED BY <2>1, <3>2, <3>3 DEF Spent
  <2> QED BY <2>2, <2>3
<1> QED BY <1>0, <1>4, <1>14, <1>15 DEF BudgetInv

\* No task has run at first.
LEMMA BudgetInit == MCInit => BudgetInv
<1> SUFFICES ASSUME MCInit PROVE BudgetInv
  OBVIOUS
<1>1. LInv /\ runs = [t \in AllTasks |-> 0] /\ Init
  BY InitLInv DEF MCInit
<1>2. Recorded = {}
  BY <1>1 DEF Init, Recorded
<1>3. MakeBatches(NTasks, BatchSize) \in Seq(QueuedRuns)
  <2> DEFINE m == MakeBatches(NTasks, BatchSize)
  <2>1. m \in Seq(Batches)
    BY MakeBatchesType
  <2>2. ASSUME NEW k \in 1..Len(m) PROVE m[k] \in QueuedRuns
    <3>0. m[k].rc = 0
      BY <2>2 DEF MakeBatches
    <3> HIDE DEF m
    <3>1. m[k] \in Batches /\ m[k].rc = 0
      BY <2>1, <2>2, <3>0
    <3>2. \A t \in Tasks(m[k]) : t \in AllTasks
      BY <3>1, TasksFacts
    <3> QED BY <1>1, <3>1, <3>2 DEF QueuedRuns
  <2> HIDE DEF m
  <2>3. m \in [1..Len(m) -> QueuedRuns] /\ Len(m) \in Nat
    BY <2>1, <2>2
  <2>4. m \in Seq(QueuedRuns)
    BY <2>3, SeqDef
  <2> QED BY <2>4 DEF m
<1>4. HeldIn(QueuedRuns, HandedRuns)
  <2>1. /\ pending = MakeBatches(NTasks, BatchSize) /\ deferred = << >> /\ waiting = << >>
        /\ job = NoJob /\ \A i \in Slots : call[i] = NoCall
    BY <1>1 DEF Init
  <2> QED BY <1>3, <2>1 DEF HeldIn, NoJob
<1> QED BY <1>1, <1>2, <1>4 DEF BudgetInv

\* Under one budget for all, max_retries is the number of extra runs a task
\* gets: it is handed to workers at most max_retries + 1 times, and is given up
\* for a transient error or a hang only after that many, whatever splits,
\* deferrals, evictions and requeues its batches went through.
THEOREM BudgetTheorem ==
  ASSUME UniformBudgets
  PROVE  MCSpec => []BudgetIsRuns
<1>1. BudgetInv /\ [MCNext]_<<vars, runs>> => BudgetInv'
  <2>1. BudgetInv /\ MCNext => BudgetInv'
    BY BudgetNext
  <2>2. BudgetInv /\ UNCHANGED <<vars, runs>> => BudgetInv'
    <3> SUFFICES ASSUME BudgetInv, UNCHANGED <<vars, runs>> PROVE BudgetInv'
      OBVIOUS
    <3>1. LInv'
      BY NextLInv DEF BudgetInv
    <3>2. UNCHANGED <<pending, deferred, waiting, call, job, results, runs>>
      BY DEF vars, driverVars
    <3> QED BY <3>1, <3>2 DEF BudgetInv, HeldIn, QueuedRuns, HandedRuns, Recorded, Spent
  <2> QED BY <2>1, <2>2
<1>2. BudgetInv => BudgetIsRuns
  <2> SUFFICES ASSUME BudgetInv, NEW t \in AllTasks
               PROVE  /\ runs[t] <= MaxRetries[t] + 1
                      /\ results[t] \in GivenUpFor => runs[t] = MaxRetries[t] + 1
    BY DEF BudgetIsRuns, GivenUpFor
  <2>1. CASE t \in Recorded
    BY <2>1 DEF BudgetInv, Spent
  <2>2. CASE t \notin Recorded
    <3>1. ~LoopLeft
      BY <2>2 DEF BudgetInv, LInv, Accounted
    <3>2. results[t] = << >> /\ << >> \notin GivenUpFor
      BY <2>2 DEF Recorded, GivenUpFor
    <3> QED BY <2>2, <3>1, <3>2, OpenSpent
  <2> QED BY <2>1, <2>2
<1> QED BY <1>1, <1>2, BudgetInit, PTL DEF MCSpec
=============================================================================
