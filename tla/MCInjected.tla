----------------------------- MODULE MCInjected -----------------------------
(***************************************************************************)
(* Three tasks in batches of two, max_retries 2: every query a run can make.*)
(***************************************************************************)
EXTENDS InjectedFaults

MCRetries == [t \in 1..NTasks |-> 2]
MCQueries == {<< <<1, 2>>, 0 >>} \cup ({<<1, 1>>, <<2, 2>>} \X {0, 1})
                                 \cup ({<<3, 3>>} \X {0, 1, 2})
MCKeyHash == [k \in Keys |-> k[1]]
=============================================================================
