---------------------------- MODULE MCCoordinator ----------------------------
(***************************************************************************)
(* Instances of Coordinator for TLC: the retry budgets the cfg files choose. *)
(***************************************************************************)
EXTENDS Coordinator

CONSTANT Retries   \* the run's max_retries

\* Every task has the run's budget.
UniformRetries == [t \in 1..NTasks |-> Retries]
=============================================================================
