----------------------------- MODULE SplitRetry -----------------------------
(***************************************************************************)
(* Batches and the split-retry policy: utils.make_batches and              *)
(* coordinator.retry_entries.                                              *)
(*                                                                         *)
(* Tasks are the numbers 1..n in submission order.  make_batches slices    *)
(* the task list and retry_entries slices a batch, so every batch the      *)
(* coordinator ever holds is a contiguous run lo..hi of that list; rc is   *)
(* the retry_count that travels with the batch through every queue.        *)
(***************************************************************************)
EXTENDS Integers, Sequences

\* The (batch, retry_count) pairs over n tasks.
Entries(n) == {e \in [lo : 1..n, hi : 1..n, rc : Nat] : e.lo <= e.hi}

\* No batch at all: what an idle worker or an empty-handed driver holds.
NoEntry == [lo |-> 1, hi |-> 0, rc |-> 0]

Tasks(e) == e.lo .. e.hi
BatchLen(e) == e.hi - e.lo + 1

\* make_batches: slices of `size` tasks, the last one possibly shorter.
MakeBatches(n, size) ==
  [k \in 1 .. (n + size - 1) \div size |->
     [lo |-> (k - 1) * size + 1,
      hi |-> IF k * size < n THEN k * size ELSE n,
      rc |-> 0]]

\* The two parts of e cut after its first mid tasks.
Split(e, mid, new_rc) ==
  << [lo |-> e.lo, hi |-> e.lo + mid - 1, rc |-> new_rc],
     [lo |-> e.lo + mid, hi |-> e.hi, rc |-> new_rc] >>

Whole(e, new_rc) == << [lo |-> e.lo, hi |-> e.hi, rc |-> new_rc] >>

\* Mutants of RetryEntries: a singleton split too, the budget reset, the batch
\* never split, one task split off at a time, the last task dropped.
RetryEntriesNoBase(e) == Split(e, BatchLen(e) \div 2, e.rc + 1)
RetryEntriesReset(e) ==
  IF BatchLen(e) <= 1 THEN Whole(e, 0) ELSE Split(e, BatchLen(e) \div 2, 0)
RetryEntriesUnsplit(e) == Whole(e, e.rc + 1)
RetryEntriesUneven(e) ==
  IF BatchLen(e) <= 1 THEN Whole(e, e.rc + 1) ELSE Split(e, 1, e.rc + 1)
RetryEntriesShort(e) ==
  IF BatchLen(e) <= 1 THEN Whole(e, e.rc + 1)
  ELSE Split([e EXCEPT !.hi = e.hi - 1], BatchLen(e) \div 2, e.rc + 1)

\* retry_entries: a singleton whole, anything larger as its midpoint halves,
\* each with the parent's retry_count + 1.
RetryEntries(e) ==
  IF BatchLen(e) <= 1
  THEN Whole(e, e.rc + 1)
  ELSE Split(e, BatchLen(e) \div 2, e.rc + 1)
=============================================================================
