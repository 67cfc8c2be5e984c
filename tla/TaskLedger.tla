----------------------------- MODULE TaskLedger -----------------------------
(***************************************************************************)
(* What DistributedEvalCoordinator.run promises about its tasks, with no   *)
(* queues, workers or retries: whole groups of open tasks are closed       *)
(* with one outcome each, a closed task stays closed, and the call ends,   *)
(* by returning or by raising, only when no task is open.                  *)
(***************************************************************************)
EXTENDS Sequences

CONSTANTS LedgerTasks

VARIABLES
  results,   \* per task, the outcomes recorded for it
  run        \* "running", "returned" or "raised"

ledgerVars == <<results, run>>

Open == {t \in LedgerTasks : results[t] = << >>}

LedgerInit ==
  /\ results = [t \in LedgerTasks |-> << >>]
  /\ run = "running"

Close(S, outcome) ==
  /\ run = "running"
  /\ S # {}
  /\ S \subseteq Open
  /\ results' = [t \in LedgerTasks |-> IF t \in S THEN <<outcome>> ELSE results[t]]
  /\ UNCHANGED run

\* A batch finishes or fails for good.
CloseBatch ==
  \E S \in SUBSET LedgerTasks, outcome \in {"ok", "transient", "deterministic", "hung"} :
    Close(S, outcome)

\* No worker is left: every open task is written off at once.
WriteOff == Close(Open, "undispatched")

End ==
  /\ run = "running"
  /\ Open = {}
  /\ run' \in {"returned", "raised"}
  /\ UNCHANGED results

LedgerNext == CloseBatch \/ WriteOff \/ End
LedgerSpec == LedgerInit /\ [][LedgerNext]_ledgerVars

\* The call ends.
LedgerEnds == <>(run # "running")
=============================================================================
