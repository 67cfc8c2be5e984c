---------------------------- MODULE StandbyPool ----------------------------
(***************************************************************************)
(* Worker slots and their replacement: _create_workers, _replace_worker,   *)
(* _blocking_replace, _start_standby_refill, _poll_standby_refills,        *)
(* _fail_refill and _teardown_standby of coordinator.py.                   *)
(*                                                                         *)
(* A slot of `workers` is "none" (the Python None: dead or being replaced) *)
(* or the condition of the actor it holds:                                 *)
(*   up      answers its health check with True                            *)
(*   bad     answers it with False (vLLM after an engine-fatal error)      *)
(*   wedged  answers nothing (its own timeout machinery is dead)           *)
(*   dead    the actor process is gone; every call on it raises            *)
(* The driver sees only "none" or not; the rest it learns by calling.      *)
(***************************************************************************)
EXTENDS Integers, Sequences

CONSTANTS
  NWorkers,             \* n_workers: number of slots
  Standby,              \* --standby: configured pool size
  ReplaceMaxAttempts,   \* max_attempts of _replace_worker (3)
  RefillMaxAttempts,    \* STANDBY_REFILL_MAX_ATTEMPTS (3)
  FreshStates,          \* how a newly constructed worker may be: up, bad
  Faults                \* what may go wrong in this instance

WorkerStates == {"up", "bad", "wedged", "dead"}
FaultKinds == {"transient", "fatal", "crash", "wedge", "construct", "submit"}

ASSUME NWorkersAssumption == NWorkers \in Nat \ {0}
ASSUME StandbyAssumption == Standby \in Nat
ASSUME ReplaceAssumption == ReplaceMaxAttempts \in Nat \ {0}
ASSUME RefillAssumption == RefillMaxAttempts \in Nat \ {0}
ASSUME FreshAssumption == FreshStates \subseteq {"up", "bad"} /\ FreshStates # {}
ASSUME FaultsAssumption == Faults \subseteq FaultKinds

VARIABLES
  slot,       \* workers: slot -> "none" or a worker's condition
  pool,       \* _standby_pool: ready handles, popped from the end
  refills,    \* _standby_refills: the attempt number of each loading standby
  inFlight,   \* in_flight: what is left of the poll loop in progress
  stats,      \* the counters of _standby_stats
  blocking    \* the slot _blocking_replace is working on, and its attempt

poolVars == <<slot, pool, refills, inFlight, stats, blocking>>

Slots == 1 .. NWorkers
Counters == {"promotions", "started", "completed", "failures", "fallbacks"}
Count(st, c) == [st EXCEPT ![c] = st[c] + 1]
NotBlocking == [slot |-> 0, attempt |-> 0]

PoolTypeOK ==
  /\ slot \in [Slots -> WorkerStates \cup {"none"}]
  /\ pool \in Seq(WorkerStates)
  /\ refills \in Seq(Nat)
  /\ inFlight \in Seq(Nat)
  /\ stats \in [Counters -> Nat]
  /\ blocking \in [slot : 0..NWorkers, attempt : Nat]

-----------------------------------------------------------------------------
\* _create_workers: every primary and standby answered the init barrier.  The
\* barrier awaits the pings and drops their values, so a worker that answered
\* False starts in its slot all the same.
PoolInit ==
  /\ slot \in [Slots -> FreshStates]
  /\ pool \in [1..Standby -> FreshStates]
  /\ refills = << >>
  /\ inFlight = << >>
  /\ stats = [c \in Counters |-> 0]
  /\ blocking = NotBlocking

\* _start_standby_refill: the construction is submitted, not awaited; one that
\* cannot be submitted is counted as a failure and never tried again.
StartRefill(attempt, st) ==
  \/ /\ refills' = Append(refills, attempt)
     /\ stats' = Count(st, "started")
  \/ /\ "submit" \in Faults
     /\ refills' = refills
     /\ stats' = Count(st, "failures")

\* _replace_worker with a ready standby: the old actor is killed, the last
\* handle of the pool takes the slot, and a refill starts in the background.
PromoteStandby(i) ==
  /\ pool # << >>
  /\ slot' = [slot EXCEPT ![i] = pool[Len(pool)]]
  /\ pool' = SubSeq(pool, 1, Len(pool) - 1)
  /\ StartRefill(0, Count(stats, "promotions"))
  /\ UNCHANGED <<inFlight, blocking>>

\* _replace_worker with an empty pool: the old actor is killed, the slot is
\* emptied, and the driver enters the blocking path.
FallBack(i) ==
  /\ pool = << >>
  /\ slot' = [slot EXCEPT ![i] = "none"]
  /\ stats' = IF Standby > 0 THEN Count(stats, "fallbacks") ELSE stats
  /\ blocking' = [slot |-> i, attempt |-> 0]
  /\ UNCHANGED <<pool, refills, inFlight>>

\* One attempt of _blocking_replace: the new worker answers within its 120 s,
\* whatever it answers; or the attempt fails, and after the last one the slot
\* stays empty.
BlockingSucceeds ==
  /\ blocking # NotBlocking
  /\ \E s \in FreshStates : slot' = [slot EXCEPT ![blocking.slot] = s]
  /\ blocking' = NotBlocking
  /\ UNCHANGED <<pool, refills, inFlight, stats>>

BlockingFails ==
  /\ blocking # NotBlocking
  /\ "construct" \in Faults
  /\ blocking' = IF blocking.attempt + 1 < ReplaceMaxAttempts
                 THEN [slot |-> blocking.slot, attempt |-> blocking.attempt + 1]
                 ELSE NotBlocking
  /\ UNCHANGED <<slot, pool, refills, inFlight, stats>>

-----------------------------------------------------------------------------
\* _poll_standby_refills takes the list of loading standbys and rebuilds it.
BeginPoll ==
  /\ inFlight' = refills
  /\ refills' = << >>
  /\ UNCHANGED <<slot, pool, stats, blocking>>

\* The readiness ping has not answered and its deadline has not passed.
PollLoading ==
  /\ inFlight # << >>
  /\ refills' = Append(refills, Head(inFlight))
  /\ inFlight' = Tail(inFlight)
  /\ UNCHANGED <<slot, pool, stats, blocking>>

\* The ping answered; again its value is not looked at.
PollReady ==
  /\ inFlight # << >>
  /\ \E s \in FreshStates : pool' = Append(pool, s)
  /\ inFlight' = Tail(inFlight)
  /\ stats' = Count(stats, "completed")
  /\ UNCHANGED <<slot, refills, blocking>>

\* Mutant: one attempt too few.
FailRefillOneShort(attempt) ==
  LET st == Count(stats, "failures")
  IN  IF attempt + 2 < RefillMaxAttempts
      THEN StartRefill(attempt + 1, st)
      ELSE refills' = refills /\ stats' = st

\* The ping raised, or stayed unanswered for WORKER_INIT_TIMEOUT_S: the actor
\* is killed and, attempts permitting, another one is started (_fail_refill).
FailRefill(attempt) ==
  LET st == Count(stats, "failures")
  IN  IF attempt + 1 < RefillMaxAttempts
      THEN StartRefill(attempt + 1, st)
      ELSE refills' = refills /\ stats' = st

PollFailed ==
  /\ inFlight # << >>
  /\ "construct" \in Faults
  /\ FailRefill(Head(inFlight))
  /\ inFlight' = Tail(inFlight)
  /\ UNCHANGED <<slot, pool, blocking>>

PollStep == PollLoading \/ PollReady \/ PollFailed

\* _teardown_standby kills what is ready and what is still loading.
TeardownStandby ==
  /\ pool' = << >>
  /\ refills' = << >>
  /\ UNCHANGED <<slot, inFlight, stats, blocking>>

\* A standby's process dies while it waits; nothing in the pool notices.
StandbyCrash ==
  /\ "crash" \in Faults
  /\ \E k \in 1..Len(pool) : pool[k] # "dead" /\ pool' = [pool EXCEPT ![k] = "dead"]
  /\ UNCHANGED <<slot, refills, inFlight, stats, blocking>>

-----------------------------------------------------------------------------
(* The books of the pool, while _teardown_standby has not thrown it away. *)

Loading == Len(refills) + Len(inFlight)
Missing == Standby - Len(pool) - Loading

\* Of the failures counted, those of a standby that had been submitted, and
\* those of a submission.
LoadFailures == stats["started"] - stats["completed"] - Loading
SubmitFailures == stats["failures"] - LoadFailures

\* The ready pool is what promotions and completed refills leave of it.
ReadyAccounted == Len(pool) = Standby - stats["promotions"] + stats["completed"]

\* The pool never holds or loads more standbys than configured, and runs one
\* smaller only after a submission that failed or RefillMaxAttempts failed
\* loads of the same standby.
MissingOnlyAfterRetries ==
  /\ SubmitFailures \in 0 .. Missing
  /\ RefillMaxAttempts * (Missing - SubmitFailures) <= LoadFailures
=============================================================================
