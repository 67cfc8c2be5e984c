------------------------------- MODULE MCRuns -------------------------------
(***************************************************************************)
(* Coordinator with a history variable that counts dispatches per task.    *)
(***************************************************************************)
EXTENDS MCCoordinator

VARIABLE runs   \* how many times each task has been handed to a worker

Started(t) ==
  \E i \in Slots : /\ call'[i].st = "running"
                   /\ call'[i] # call[i] /\ call'[i].old = FALSE
                   /\ t \in Tasks(call'[i].e)

MCInit == Init /\ runs = [t \in AllTasks |-> 0]
MCNext ==
  /\ Next
  /\ runs' = [t \in AllTasks |-> runs[t] + IF Started(t) THEN 1 ELSE 0]

MCSpec == MCInit /\ [][MCNext]_<<vars, runs>>

\* A task is handed to workers at most max_retries + 1 times, and is given up
\* after a transient error or a hang only when that many runs are used up:
\* splitting neither resets the budget nor spends it early.
BudgetIsRuns ==
  \A t \in AllTasks :
    /\ runs[t] <= MaxRetries[t] + 1
    /\ results[t] \in {<<"transient">>, <<"hung">>} => runs[t] = MaxRetries[t] + 1
=============================================================================
