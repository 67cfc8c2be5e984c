------------------------------ MODULE VLLMWorker ------------------------------
(***************************************************************************)
(* worker.py, VLLMWorkerImpl: an asyncio actor in front of an asynchronous *)
(* engine.  Its coroutines interleave at their awaits; each keeps the      *)
(* engine requests it started, and all share _last_error and the counters. *)
(*                                                                         *)
(* The engine is external: a request's stream may end, raise or hang, an   *)
(* abort may raise, and the engine may die for good, after which nothing   *)
(* is generated any more.  Its own health report may lag behind or lack.   *)
(***************************************************************************)
EXTENDS Integers, Sequences, SequencesExt

CONSTANTS
  MaxCalls,    \* calls of evaluate_batch and evaluate_with_hooks
  BatchSizes,  \* lengths of a batch
  Hooked       \* whether evaluate_with_hooks is called

ASSUME MaxCallsAssumption == MaxCalls \in Nat
ASSUME BatchSizesAssumption == BatchSizes \subseteq Nat \ {0}
ASSUME HookedAssumption == Hooked \in BOOLEAN

VARIABLES
  counter,     \* _request_counter
  calls,       \* the calls made, in order
  engine,      \* requests on the engine
  stuck,       \* requests whose abort raised
  dead,        \* the engine is beyond recovery
  lastError,   \* _last_error is not None
  completed,   \* tasks_completed
  failed,      \* tasks_failed
  answered,    \* the calls answered, in the order of their answers
  checkable,   \* the engine has check_health
  probe        \* the last health_check

vars == <<counter, calls, engine, stuck, dead, lastError, completed, failed,
          answered, checkable, probe>>

Calls == 1 .. Len(calls)
In(c, stage) == c \in Calls /\ calls[c].stage = stage
Requests(c) == ToSet(calls[c].rids)
Size(c) == Len(calls[c].rids)

\* What a stream, an abort or wait_for raises: TimeoutError, one of the fatal
\* classes, a message with a CUDA fingerprint, a TimeoutError with such a message.
Exceptions == {"none", "timeout", "engine_dead", "cuda_oom", "nccl_timeout", "other"}

\* Mutant: the message is looked at first.
IsEngineFatalByMessage(e) == e \in {"engine_dead", "cuda_oom", "nccl_timeout"}

\* _is_engine_fatal: no TimeoutError is; else by class or by message.
IsEngineFatal(e) ==
  /\ e \notin {"timeout", "nccl_timeout"}
  /\ e = "engine_dead" \/ e \in {"cuda_oom", "nccl_timeout"}

NoProbe == [stage |-> "none", since |-> 0, answer |-> FALSE]

Init ==
  /\ counter = 0
  /\ calls = << >>
  /\ engine = {}
  /\ stuck = {}
  /\ dead = FALSE
  /\ lastError = FALSE
  /\ completed = 0
  /\ failed = 0
  /\ answered = << >>
  /\ checkable \in BOOLEAN
  /\ probe = NoProbe

-----------------------------------------------------------------------------
(* Calls. *)

\* A call and its requests.  evaluate_batch's gather starts all of its streams
\* before any other coroutine runs.  Of a dead engine it will hear no output.
\* (since is for the properties.)
Begin(kind, k) ==
  /\ Len(calls) < MaxCalls
  /\ LET rids == [j \in 1 .. k |-> counter + j] IN
       /\ calls' = Append(calls,
            [kind |-> kind, rids |-> rids, stage |-> "running", exc |-> "none",
             toAbort |-> << >>, heard |-> ~dead, since |-> Len(answered)])
       /\ engine' = engine \cup ToSet(rids)
  /\ counter' = counter + k
  /\ UNCHANGED <<stuck, dead, lastError, completed, failed, answered, checkable, probe>>

BeginBatch == \E k \in BatchSizes : Begin("batch", k)
BeginHooked == Hooked /\ Begin("hooked", 1)

\* The streams have all ended (or a hook has stopped the only one): the flag is
\* cleared and the results are returned.
Return(c) ==
  /\ \/ In(c, "running") /\ calls[c].exc = "none" /\ Requests(c) \cap engine = {}
     \/ In(c, "stopped")
  /\ calls' = [calls EXCEPT ![c].stage = "answered"]
  /\ lastError' = FALSE
  /\ completed' = completed + Size(c)
  /\ answered' = Append(answered, c)
  /\ UNCHANGED <<counter, engine, stuck, dead, failed, checkable, probe>>

\* Mutant: the limit covers only the time to the first stream's end.
TimeoutToFirstEnd(c) ==
  /\ In(c, "running") /\ calls[c].kind = "batch"
  /\ Requests(c) \subseteq engine
  /\ calls' = [calls EXCEPT ![c].stage = "aborting", ![c].exc = "timeout",
                            ![c].toAbort = calls[c].rids]
  /\ UNCHANGED <<counter, engine, stuck, dead, lastError, completed, failed,
                 answered, checkable, probe>>

\* Mutant: everything on the engine is aborted.
TimeoutAbortingAll(c) ==
  /\ In(c, "running") /\ calls[c].kind = "batch"
  /\ calls' = [calls EXCEPT ![c].stage = "aborting", ![c].exc = "timeout",
                            ![c].toAbort = SetToSeq(engine)]
  /\ UNCHANGED <<counter, engine, stuck, dead, lastError, completed, failed,
                 answered, checkable, probe>>

\* wait_for gives up, whatever the streams did in the meantime.  A hooked call
\* has no such limit.
Timeout(c) ==
  /\ In(c, "running") /\ calls[c].kind = "batch"
  /\ calls' = [calls EXCEPT ![c].stage = "aborting", ![c].exc = "timeout",
                            ![c].toAbort = calls[c].rids]
  /\ UNCHANGED <<counter, engine, stuck, dead, lastError, completed, failed,
                 answered, checkable, probe>>

\* except Exception: all requests of the call are to be aborted.  A hooked call
\* counts its failure now, a batch at the end.
Catch(c) ==
  /\ In(c, "running") /\ calls[c].exc # "none"
  /\ calls' = [calls EXCEPT ![c].stage = "aborting", ![c].toAbort = calls[c].rids]
  /\ failed' = failed + (IF calls[c].kind = "hooked" THEN 1 ELSE 0)
  /\ UNCHANGED <<counter, engine, stuck, dead, lastError, completed, answered,
                 checkable, probe>>

\* Mutant: the abort loop is one try block, which the first exception leaves.
AbortNextOneTry(c) ==
  /\ In(c, "aborting") /\ calls[c].toAbort # << >>
  /\ LET r == Head(calls[c].toAbort) IN
       \/ /\ engine' = engine \ {r} /\ stuck' = stuck
          /\ calls' = [calls EXCEPT ![c].toAbort = Tail(@)]
       \/ /\ engine' = engine /\ stuck' = stuck \cup {r}
          /\ calls' = [calls EXCEPT ![c].toAbort = << >>]
  /\ UNCHANGED <<counter, dead, lastError, completed, failed, answered, checkable, probe>>

\* One awaited abort, whose exception is swallowed.
AbortNext(c) ==
  /\ In(c, "aborting") /\ calls[c].toAbort # << >>
  /\ LET r == Head(calls[c].toAbort) IN
       \/ engine' = engine \ {r} /\ stuck' = stuck
       \/ engine' = engine /\ stuck' = stuck \cup {r}
  /\ calls' = [calls EXCEPT ![c].toAbort = Tail(@)]
  /\ UNCHANGED <<counter, dead, lastError, completed, failed, answered, checkable, probe>>

\* Mutants: a hooked call counts its failure here too; or does not note it.
RaiseCountingTwice(c) ==
  /\ In(c, "aborting") /\ calls[c].toAbort = << >>
  /\ calls' = [calls EXCEPT ![c].stage = "answered"]
  /\ failed' = failed + Size(c)
  /\ lastError' = (lastError \/ IsEngineFatal(calls[c].exc))
  /\ answered' = Append(answered, c)
  /\ UNCHANGED <<counter, engine, stuck, dead, completed, checkable, probe>>
RaiseUnnoted(c) ==
  /\ In(c, "aborting") /\ calls[c].toAbort = << >>
  /\ calls' = [calls EXCEPT ![c].stage = "answered"]
  /\ failed' = failed + (IF calls[c].kind = "batch" THEN Size(c) ELSE 0)
  /\ lastError' = (lastError \/ (calls[c].kind = "batch" /\ IsEngineFatal(calls[c].exc)))
  /\ answered' = Append(answered, c)
  /\ UNCHANGED <<counter, engine, stuck, dead, completed, checkable, probe>>

\* After the last abort: _note_batch_failure, and the exception is the answer.
Raise(c) ==
  /\ In(c, "aborting") /\ calls[c].toAbort = << >>
  /\ calls' = [calls EXCEPT ![c].stage = "answered"]
  /\ failed' = failed + (IF calls[c].kind = "batch" THEN Size(c) ELSE 0)
  /\ lastError' = (lastError \/ IsEngineFatal(calls[c].exc))
  /\ answered' = Append(answered, c)
  /\ UNCHANGED <<counter, engine, stuck, dead, completed, checkable, probe>>

\* On some output a hook asks to stop, and the abort of the request is awaited.
HookStop(c) ==
  /\ In(c, "running") /\ calls[c].kind = "hooked" /\ calls[c].exc = "none"
  /\ calls[c].heard
  /\ calls' = [calls EXCEPT ![c].stage = "stopping"]
  /\ UNCHANGED <<counter, engine, stuck, dead, lastError, completed, failed,
                 answered, checkable, probe>>

\* On some output a hook raises.
HookRaises(c) ==
  /\ In(c, "running") /\ calls[c].kind = "hooked" /\ calls[c].exc = "none"
  /\ calls[c].heard
  /\ calls' = [calls EXCEPT ![c].exc = "other"]
  /\ UNCHANGED <<counter, engine, stuck, dead, lastError, completed, failed,
                 answered, checkable, probe>>

\* That abort returns, or raises within the try: then the call fails.
StopAbort(c) ==
  /\ In(c, "stopping")
  /\ \/ /\ calls' = [calls EXCEPT ![c].stage = "stopped"]
        /\ engine' = engine \ Requests(c)
     \/ /\ \E e \in IF dead THEN {"engine_dead"} ELSE {"other"} :
             calls' = [calls EXCEPT ![c].stage = "running", ![c].exc = e]
        /\ engine' = engine
  /\ UNCHANGED <<counter, stuck, dead, lastError, completed, failed, answered,
                 checkable, probe>>

-----------------------------------------------------------------------------
(* health_check. *)

\* Up to its first await: the flag, then the engine's errored, then whether
\* there is a check_health to await.
HealthCheck ==
  /\ probe.stage # "checking"
  /\ \E errored \in IF dead THEN BOOLEAN ELSE {FALSE} :
       probe' = [stage |-> IF ~lastError /\ ~errored /\ checkable
                           THEN "checking" ELSE "answered",
                 since |-> Len(answered),
                 answer |-> ~lastError /\ ~errored /\ ~checkable]
  /\ UNCHANGED <<counter, calls, engine, stuck, dead, lastError, completed,
                 failed, answered, checkable>>

\* check_health returned, or it raised or timed out.  The flag is not read again.
HealthAnswer ==
  /\ probe.stage = "checking"
  /\ \E healthy \in BOOLEAN :
       probe' = [probe EXCEPT !.stage = "answered", !.answer = healthy]
  /\ UNCHANGED <<counter, calls, engine, stuck, dead, lastError, completed,
                 failed, answered, checkable>>

-----------------------------------------------------------------------------
(* The engine. *)

StreamEnds ==
  /\ ~dead
  /\ \E r \in engine : engine' = engine \ {r}
  /\ UNCHANGED <<counter, calls, stuck, dead, lastError, completed, failed,
                 answered, checkable, probe>>

\* gather passes on the first exception of a batch; one of a request nobody
\* iterates any longer is never seen.
StreamRaises ==
  /\ \E r \in engine,
        e \in IF dead THEN {"engine_dead"} ELSE {"cuda_oom", "nccl_timeout", "other"} :
       /\ engine' = engine \ {r}
       /\ calls' = [c \in Calls |->
            IF r \in Requests(c) /\ In(c, "running") /\ calls[c].exc = "none"
            THEN [calls[c] EXCEPT !.exc = e] ELSE calls[c]]
  /\ UNCHANGED <<counter, stuck, dead, lastError, completed, failed, answered,
                 checkable, probe>>

EngineDies ==
  /\ ~dead
  /\ dead' = TRUE
  /\ UNCHANGED <<counter, calls, engine, stuck, lastError, completed, failed,
                 answered, checkable, probe>>

Finished ==
  /\ Len(calls) = MaxCalls /\ \A c \in Calls : calls[c].stage = "answered"
  /\ UNCHANGED vars

Next ==
  \/ BeginBatch \/ BeginHooked
  \/ \E c \in Calls : \/ Return(c) \/ Timeout(c) \/ Catch(c) \/ AbortNext(c)
                      \/ Raise(c) \/ HookStop(c) \/ HookRaises(c) \/ StopAbort(c)
  \/ HealthCheck \/ HealthAnswer
  \/ StreamEnds \/ StreamRaises \/ EngineDies
  \/ Finished

\* The event loop runs what is ready: timers fire and coroutines resume.  Of the
\* engine only this is assumed, that an abort returns or raises.
Fairness ==
  \A c \in 1 .. MaxCalls :
    WF_vars(Timeout(c)) /\ WF_vars(AbortNext(c)) /\ WF_vars(Raise(c))

Spec == Init /\ [][Next]_vars /\ Fairness
-----------------------------------------------------------------------------
(* Correctness. *)

TypeOK ==
  /\ counter \in Nat /\ completed \in Nat /\ failed \in Nat
  /\ \A c \in Calls :
       /\ calls[c].kind \in {"batch", "hooked"}
       /\ calls[c].stage \in {"running", "aborting", "stopping", "stopped", "answered"}
       /\ calls[c].exc \in Exceptions
       /\ Requests(c) \subseteq 1 .. counter
       /\ ToSet(calls[c].toAbort) \subseteq Requests(c)
  /\ engine \cup stuck \subseteq 1 .. counter
  /\ {dead, lastError, checkable} \subseteq BOOLEAN
  /\ probe.stage \in {"none", "checking", "answered"}

Succeeded(c) == calls[c].stage = "answered" /\ calls[c].exc = "none"
Open == {c \in Calls : calls[c].stage # "answered"}

\* "health_check will report unhealthy until a batch succeeds": once a dead
\* engine has failed a call, no health check begun later answers True, unless
\* another call was under way by then and has succeeded since.
DeadEngineFailsProbe ==
  probe.stage = "answered" /\ probe.answer =>
    \A k \in 1 .. probe.since :
      calls[answered[k]].exc = "engine_dead" =>
        \E j \in k + 1 .. probe.since :
          Succeeded(answered[j]) /\ calls[answered[j]].since < k

\* A worker that only ever saw timeouts and harmless exceptions is not written
\* off by its own flag.
HarmlessStaysHealthy ==
  lastError => \E k \in 1 .. Len(answered) :
    calls[answered[k]].exc \in {"engine_dead", "cuda_oom"}

\* A call that has been answered leaves nothing running on the engine, whichever
\* way it ended, but for requests whose own abort raised.
NoOrphans ==
  \A c \in Calls : calls[c].stage = "answered" => Requests(c) \cap engine \subseteq stuck

\* Between calls every task of every call counts as completed or as failed,
\* as its call was answered.
CountersMatch ==
  Open = {} =>
    /\ completed = MapThenSumSet(Size, {c \in Calls : Succeeded(c)})
    /\ failed = MapThenSumSet(Size, {c \in Calls : ~Succeeded(c)})

\* The driver gets an answer to every batch, however the engine hangs or dies.
BatchAnswered ==
  \A c \in 1 .. MaxCalls :
    (c \in Calls /\ calls[c].kind = "batch") ~> In(c, "answered")
=============================================================================
