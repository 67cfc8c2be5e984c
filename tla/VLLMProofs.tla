----------------------------- MODULE VLLMProofs -----------------------------
(***************************************************************************)
(* The engine actor, for any number of overlapping calls and any sizes of  *)
(* batches: no call leaves requests behind, and the flag of health_check   *)
(* is right about a dead engine and about harmless failures.               *)
(***************************************************************************)
EXTENDS VLLMWorker, ProofLemmas, SequenceTheorems

Stages == {"running", "aborting", "stopping", "stopped", "answered"}
Records ==
  [kind : {"batch", "hooked"}, rids : Seq(Nat), stage : Stages, exc : Exceptions,
   toAbort : Seq(Nat), heard : BOOLEAN, since : Nat]
Probes == [stage : {"none", "checking", "answered"}, since : Nat, answer : BOOLEAN]

\* TypeOK with the shape of the records that it leaves out.
Shaped ==
  /\ counter \in Nat /\ completed \in Nat /\ failed \in Nat
  /\ calls \in Seq(Records)
  /\ engine \cup stuck \subseteq 1 .. counter
  /\ dead \in BOOLEAN /\ lastError \in BOOLEAN /\ checkable \in BOOLEAN
  /\ probe \in Probes
  /\ answered \in Seq(Nat)

\* The requests of the calls: each of one call, at least one per call.
Owned ==
  /\ \A c \in Calls : Requests(c) \subseteq 1 .. counter /\ Requests(c) # {}
  /\ \A c \in Calls : ToSet(calls[c].toAbort) \subseteq Requests(c)
  /\ \A c, d \in Calls : c # d => Requests(c) \cap Requests(d) = {}

\* What a call still has on the engine is still to be aborted, or cannot be.
Left(c) ==
  CASE calls[c].stage = "aborting" -> stuck \cup ToSet(calls[c].toAbort)
    [] calls[c].stage = "stopped"  -> {}
    [] calls[c].stage = "answered" -> stuck
    [] OTHER -> 1 .. counter
NoneForgotten == \A c \in Calls : Requests(c) \cap engine \subseteq Left(c)

\* Answers are of answered calls; a call that fails has met its exception before.
Answers ==
  /\ \A k \in 1 .. Len(answered) :
       answered[k] \in Calls /\ calls[answered[k]].stage = "answered"
  /\ \A c \in Calls :
       /\ calls[c].since <= Len(answered)
       /\ calls[c].stage = "aborting" => calls[c].exc # "none"
       /\ calls[c].stage \in {"stopping", "stopped"} => calls[c].exc = "none"

FailedDead(k) == calls[answered[k]].exc = "engine_dead"

\* Only of a dead engine does a call hear that it is dead, or nothing at all; one
\* that hears nothing waits until it fails; one that hears something was begun
\* before any call failed of a dead engine.
DeadIsDeaf ==
  /\ \A c \in Calls : calls[c].exc = "engine_dead" \/ ~calls[c].heard => dead
  /\ \A c \in Calls : ~calls[c].heard /\ calls[c].exc = "none" =>
       calls[c].stage = "running" /\ Requests(c) \subseteq engine
  /\ \A c \in Calls, k \in 1 .. Len(answered) :
       calls[c].heard /\ FailedDead(k) => calls[c].since < k

\* Among the first n answers, a failure of the dead engine is followed by the
\* success of a call that was under way by then.
Redeemed(n) ==
  \A k \in 1 .. n :
    FailedDead(k) =>
      \E j \in k + 1 .. n : Succeeded(answered[j]) /\ calls[answered[j]].since < k

FlagRight ==
  /\ ~lastError => Redeemed(Len(answered))
  /\ probe.since <= Len(answered)
  /\ probe.stage = "checking" \/ probe.answer => Redeemed(probe.since)

IInv ==
  /\ Shaped /\ Owned /\ NoneForgotten /\ Answers /\ DeadIsDeaf
  /\ FlagRight /\ HarmlessStaysHealthy

-----------------------------------------------------------------------------
(* One step of one call. *)

\* The record of a call in progress gets another stage, exception and list of
\* requests to abort; the other records stay.
Moves(c, s, e, q) ==
  /\ c \in Calls /\ calls[c].stage # "answered"
  /\ calls' \in Seq(Records) /\ Len(calls') = Len(calls)
  /\ \A d \in Calls \ {c} : calls'[d] = calls[d]
  /\ calls'[c].rids = calls[c].rids /\ calls'[c].heard = calls[c].heard
  /\ calls'[c].since = calls[c].since /\ calls'[c].kind = calls[c].kind
  /\ calls'[c].stage = s /\ calls'[c].exc = e /\ calls'[c].toAbort = q

\* The flag changes with an answer only: a success clears it.
Answering(c, s, e) ==
  \/ s # "answered" /\ UNCHANGED <<answered, lastError>>
  \/ /\ s = "answered" /\ answered' = Append(answered, c)
     /\ lastError' = ((e # "none" /\ lastError) \/ IsEngineFatal(e))

\* What all steps of calls have in common.
CallStep(c, s, e, q) ==
  /\ Moves(c, s, e, q) /\ Answering(c, s, e)
  /\ UNCHANGED <<counter, dead, checkable, probe>>
  /\ completed' \in Nat /\ failed' \in Nat
  /\ engine' \subseteq engine /\ engine \ engine' \subseteq Requests(c)
  /\ stuck \subseteq stuck' /\ stuck' \subseteq 1 .. counter
  /\ ToSet(q) \subseteq Requests(c)
  /\ Requests(c) \cap engine' \subseteq Left(c)'
  /\ e = "engine_dead" => dead
  /\ s = "aborting" => e # "none"
  /\ s \in {"stopping", "stopped"} => e = "none"
  /\ calls[c].heard \/ e # "none"

\* What a step of one call leaves alone in all.
LEMMA MovesFacts ==
  ASSUME NEW c, NEW s, NEW e, NEW q, Moves(c, s, e, q)
  PROVE  /\ Calls' = Calls
         /\ \A d \in Calls : Requests(d)' = Requests(d) /\ calls'[d].heard = calls[d].heard
                             /\ calls'[d].since = calls[d].since
<1>1. Calls' = Calls
  BY DEF Moves, Calls
<1>2. ASSUME NEW d \in Calls
      PROVE  /\ calls'[d].rids = calls[d].rids /\ calls'[d].heard = calls[d].heard
             /\ calls'[d].since = calls[d].since
  BY DEF Moves
<1> QED BY <1>1, <1>2 DEF Requests

\* A step of one call keeps the types.
LEMMA CallStepShaped ==
  ASSUME IInv, NEW c, NEW s, NEW e, NEW q, CallStep(c, s, e, q)
  PROVE  Shaped'
<1>1. /\ calls' \in Seq(Records) /\ c \in Nat /\ UNCHANGED <<counter, dead, checkable, probe>>
      /\ completed' \in Nat /\ failed' \in Nat /\ engine' \subseteq engine
      /\ stuck' \subseteq 1 .. counter
  BY DEF CallStep, Moves, Calls
<1>2. answered' \in Seq(Nat) /\ lastError' \in BOOLEAN
  <2>1. answered \in Seq(Nat) /\ lastError \in BOOLEAN
    BY DEF IInv, Shaped
  <2>2. CASE UNCHANGED <<answered, lastError>>
    BY <2>1, <2>2
  <2>3. CASE answered' = Append(answered, c) /\ lastError' \in BOOLEAN
    BY <1>1, <2>1, <2>3
  <2> QED BY <2>2, <2>3 DEF CallStep, Answering
<1> QED BY <1>1, <1>2 DEF IInv, Shaped

\* It leaves every request with its call.
LEMMA CallStepOwned ==
  ASSUME IInv, NEW c, NEW s, NEW e, NEW q, CallStep(c, s, e, q)
  PROVE  Owned'
<1>1. Calls' = Calls /\ \A d \in Calls : Requests(d)' = Requests(d)
  BY MovesFacts DEF CallStep
<1>2. counter' = counter /\ ToSet(q) \subseteq Requests(c) /\ c \in Calls
      /\ calls'[c].toAbort = q /\ \A d \in Calls \ {c} : calls'[d] = calls[d]
  BY DEF CallStep, Moves
<1>3. \A d \in Calls : ToSet(calls[d].toAbort) \subseteq Requests(d)
  BY DEF IInv, Owned
<1>4. \A d \in Calls : ToSet(calls'[d].toAbort) \subseteq Requests(d)
  BY <1>2, <1>3
<1>5. \A d \in Calls : Requests(d) \subseteq 1 .. counter /\ Requests(d) # {}
  BY DEF IInv, Owned
<1>6. \A a, d \in Calls : a # d => Requests(a) \cap Requests(d) = {}
  BY DEF IInv, Owned
<1> QED BY <1>1, <1>2, <1>4, <1>5, <1>6 DEF Owned

\* It forgets no request that still runs.
LEMMA CallStepNoneForgotten ==
  ASSUME IInv, NEW c, NEW s, NEW e, NEW q, CallStep(c, s, e, q)
  PROVE  NoneForgotten'
<1>1. Calls' = Calls /\ \A d \in Calls : Requests(d)' = Requests(d)
  BY MovesFacts DEF CallStep
<1>2. /\ counter' = counter /\ engine' \subseteq engine /\ stuck \subseteq stuck'
      /\ c \in Calls /\ \A d \in Calls \ {c} : calls'[d] = calls[d]
      /\ Requests(c) \cap engine' \subseteq Left(c)'
  BY DEF CallStep, Moves
<1>3. ASSUME NEW d \in Calls \ {c} PROVE Left(d) \subseteq Left(d)'
  BY <1>2 DEF Left
<1>4. \A d \in Calls : Requests(d) \cap engine \subseteq Left(d)
  BY DEF IInv, NoneForgotten
<1>5. \A d \in Calls : Requests(d) \cap engine' \subseteq Left(d)'
  BY <1>2, <1>3, <1>4
<1> QED BY <1>1, <1>5 DEF NoneForgotten

\* What has been answered stays as it is.
Stable ==
  /\ Len(answered) \in Nat /\ Len(answered') \in Nat /\ Len(answered) <= Len(answered')
  /\ \A k \in 1 .. Len(answered) :
       answered'[k] = answered[k] /\ calls'[answered[k]] = calls[answered[k]]

\* It changes no answer that was given.
LEMMA CallStepStable ==
  ASSUME IInv, NEW c, NEW s, NEW e, NEW q, CallStep(c, s, e, q)
  PROVE  /\ Stable
         /\ \A k \in 1 .. Len(answered) : answered[k] # c
         /\ \/ s # "answered" /\ UNCHANGED <<answered, lastError>>
            \/ /\ s = "answered" /\ Len(answered') = Len(answered) + 1
               /\ answered'[Len(answered) + 1] = c
               /\ lastError' = ((e # "none" /\ lastError) \/ IsEngineFatal(e))
<1>1. answered \in Seq(Nat) /\ c \in Nat
  BY DEF IInv, Shaped, CallStep, Moves, Calls
<1>2. \A k \in 1 .. Len(answered) :
        answered[k] \in Calls /\ answered[k] # c /\ calls'[answered[k]] = calls[answered[k]]
  BY DEF IInv, Answers, CallStep, Moves
<1>3. CASE s # "answered" /\ UNCHANGED <<answered, lastError>>
  BY <1>1, <1>2, <1>3 DEF Stable
<1>4. CASE /\ s = "answered" /\ answered' = Append(answered, c)
           /\ lastError' = ((e # "none" /\ lastError) \/ IsEngineFatal(e))
  <2>1. /\ Len(answered') = Len(answered) + 1 /\ Len(answered) \in Nat
        /\ answered'[Len(answered) + 1] = c
        /\ \A k \in 1 .. Len(answered) : answered'[k] = answered[k]
    BY <1>1, <1>4
  <2> QED BY <1>2, <1>4, <2>1 DEF Stable
<1> QED BY <1>3, <1>4 DEF CallStep, Answering

\* It answers only once.
LEMMA CallStepAnswers ==
  ASSUME IInv, NEW c, NEW s, NEW e, NEW q, CallStep(c, s, e, q)
  PROVE  Answers'
<1>1. Calls' = Calls /\ \A d \in Calls : calls'[d].since = calls[d].since
  BY MovesFacts DEF CallStep
<1>2. /\ c \in Calls /\ calls'[c].stage = s /\ calls'[c].exc = e
      /\ \A d \in Calls \ {c} : calls'[d] = calls[d]
      /\ s = "aborting" => e # "none"
      /\ s \in {"stopping", "stopped"} => e = "none"
  BY DEF CallStep, Moves
<1>3. \A k \in 1 .. Len(answered) :
        answered[k] \in Calls /\ calls[answered[k]].stage = "answered"
  BY DEF IInv, Answers
<1>4. \A k \in 1 .. Len(answered') :
        answered'[k] \in Calls /\ calls'[answered'[k]].stage = "answered"
  <2>1. CASE answered' = answered
    BY <1>3, <2>1, CallStepStable DEF Stable
  <2>2. CASE s = "answered" /\ Len(answered') = Len(answered) + 1
             /\ answered'[Len(answered) + 1] = c
    <3>1. \A k \in 1 .. Len(answered) : answered'[k] = answered[k]
            /\ calls'[answered[k]] = calls[answered[k]]
      BY CallStepStable DEF Stable
    <3>2. \A k \in 1 .. Len(answered') : k \in 1 .. Len(answered) \/ k = Len(answered) + 1
      BY <2>2, CallStepStable DEF Stable
    <3> QED BY <1>2, <1>3, <2>2, <3>1, <3>2
  <2> QED BY <2>1, <2>2, CallStepStable
<1>5. ASSUME NEW d \in Calls
      PROVE  /\ calls'[d].since <= Len(answered')
             /\ calls'[d].stage = "aborting" => calls'[d].exc # "none"
             /\ calls'[d].stage \in {"stopping", "stopped"} => calls'[d].exc = "none"
  <2>1. calls'[d].since <= Len(answered')
    <3>1. calls[d] \in Records
      BY DEF IInv, Shaped, Calls
    <3>2. calls[d].since <= Len(answered) /\ calls[d].since \in Nat
      BY <3>1 DEF IInv, Answers, Records
    <3> QED BY <1>1, <3>2, CallStepStable DEF Stable
  <2>2. /\ calls'[d].stage = "aborting" => calls'[d].exc # "none"
        /\ calls'[d].stage \in {"stopping", "stopped"} => calls'[d].exc = "none"
    BY <1>2 DEF IInv, Answers
  <2> QED BY <2>1, <2>2
<1> QED BY <1>1, <1>4, <1>5 DEF Answers

\* An answer of the dead engine among the answers after a step is an earlier one
\* or the one this step gives.
LEMMA CallStepFailedDead ==
  ASSUME IInv, NEW c, NEW s, NEW e, NEW q, CallStep(c, s, e, q)
  PROVE  /\ \A k \in 1 .. Len(answered) : FailedDead(k)' <=> FailedDead(k)
         /\ \A k \in 1 .. Len(answered) : Succeeded(answered[k])' <=> Succeeded(answered[k])
         /\ \A k \in 1 .. Len(answered') :
              \/ k \in 1 .. Len(answered)
              \/ /\ k = Len(answered) + 1 /\ s = "answered" /\ answered'[k] = c
                 /\ FailedDead(k)' <=> e = "engine_dead"
                 /\ Succeeded(c)' <=> e = "none"
<1>1. \A k \in 1 .. Len(answered) :
        answered'[k] = answered[k] /\ calls'[answered[k]] = calls[answered[k]]
  BY CallStepStable DEF Stable
<1>2. c \in Calls /\ calls'[c].stage = s /\ calls'[c].exc = e
  BY DEF CallStep, Moves
<1>3. ASSUME NEW k \in 1 .. Len(answered'), k \notin 1 .. Len(answered)
      PROVE  k = Len(answered) + 1 /\ s = "answered" /\ answered'[k] = c
  BY <1>3, CallStepStable DEF Stable
<1>4. \A k \in 1 .. Len(answered) :
        (FailedDead(k)' <=> FailedDead(k)) /\ (Succeeded(answered[k])' <=> Succeeded(answered[k]))
  BY <1>1 DEF FailedDead, Succeeded
<1>5. ASSUME NEW k \in 1 .. Len(answered'), k \notin 1 .. Len(answered)
      PROVE  (FailedDead(k)' <=> e = "engine_dead") /\ (Succeeded(c)' <=> e = "none")
  BY <1>2, <1>3, <1>5 DEF FailedDead, Succeeded
<1> QED BY <1>3, <1>4, <1>5

\* On a dead engine it does not succeed.
LEMMA CallStepDeadIsDeaf ==
  ASSUME IInv, NEW c, NEW s, NEW e, NEW q, CallStep(c, s, e, q)
  PROVE  DeadIsDeaf'
<1>1. Calls' = Calls /\ \A d \in Calls : Requests(d)' = Requests(d)
        /\ calls'[d].heard = calls[d].heard /\ calls'[d].since = calls[d].since
  BY MovesFacts DEF CallStep
<1>2. /\ c \in Calls /\ calls'[c].stage = s /\ calls'[c].exc = e
      /\ \A d \in Calls \ {c} : calls'[d] = calls[d]
      /\ dead' = dead /\ (e = "engine_dead" => dead)
      /\ engine \ engine' \subseteq Requests(c)
      /\ calls[c].heard \/ e # "none"
  BY DEF CallStep, Moves
<1>3. ASSUME NEW d \in Calls
      PROVE  calls'[d].exc = "engine_dead" \/ ~calls'[d].heard => dead'
  BY <1>1, <1>2 DEF IInv, DeadIsDeaf
<1>4. ASSUME NEW d \in Calls, ~calls'[d].heard, calls'[d].exc = "none"
      PROVE  calls'[d].stage = "running" /\ Requests(d) \subseteq engine'
  <2>1. CASE d # c
    <3>1. Requests(d) \cap Requests(c) = {}
      BY <1>2, <2>1 DEF IInv, Owned
    <3>2. calls[d].stage = "running" /\ Requests(d) \subseteq engine
      BY <1>1, <1>2, <1>4, <2>1 DEF IInv, DeadIsDeaf
    <3> QED BY <1>2, <2>1, <3>1, <3>2
  <2>2. CASE d = c
    BY <1>1, <1>2, <1>4, <2>2
  <2> QED BY <2>1, <2>2
<1>5. ASSUME NEW d \in Calls, NEW k \in 1 .. Len(answered'), calls'[d].heard, FailedDead(k)'
      PROVE  calls'[d].since < k
  <2>1. CASE k \in 1 .. Len(answered)
    <3>1. FailedDead(k) /\ calls[d].heard
      BY <1>1, <1>5, <2>1, CallStepFailedDead
    <3> QED BY <1>1, <2>1, <3>1 DEF IInv, DeadIsDeaf
  <2>2. CASE k = Len(answered) + 1
    <3>0. calls[d] \in Records /\ Len(answered) \in Nat
      BY DEF IInv, Shaped, Calls
    <3>1. calls[d].since <= Len(answered) /\ calls[d].since \in Nat /\ Len(answered) \in Nat
      BY <3>0 DEF IInv, Answers, Records
    <3> QED BY <1>1, <2>2, <3>1
  <2> QED BY <2>1, <2>2, CallStepFailedDead
<1> QED BY <1>1, <1>3, <1>4, <1>5 DEF DeadIsDeaf

\* What the answers make of a past failure, later answers do not undo.
LEMMA CallStepRedeemed ==
  ASSUME IInv, NEW c, NEW s, NEW e, NEW q, CallStep(c, s, e, q),
         NEW n \in Nat, n <= Len(answered), Redeemed(n)
  PROVE  \A k \in 1 .. n : FailedDead(k)' =>
           \E j \in k + 1 .. n :
             (Succeeded(answered[j]) /\ calls[answered[j]].since < k)'
<1> SUFFICES ASSUME NEW k \in 1 .. n, FailedDead(k)'
             PROVE  \E j \in k + 1 .. n :
                      (Succeeded(answered[j]) /\ calls[answered[j]].since < k)'
  OBVIOUS
<1>1. Len(answered) \in Nat /\ k \in 1 .. Len(answered)
  BY DEF IInv, Shaped
<1>2. FailedDead(k)
  BY <1>1, CallStepFailedDead
<1>3. PICK j \in k + 1 .. n : Succeeded(answered[j]) /\ calls[answered[j]].since < k
  BY <1>2 DEF Redeemed
<1>4. j \in 1 .. Len(answered)
  BY <1>1, <1>3
<1>5. answered'[j] = answered[j] /\ calls'[answered[j]] = calls[answered[j]]
  BY <1>4, CallStepStable DEF Stable
<1> QED BY <1>3, <1>5 DEF Succeeded

\* It leaves the health flag right.
LEMMA CallStepFlagRight ==
  ASSUME IInv, NEW c, NEW s, NEW e, NEW q, CallStep(c, s, e, q)
  PROVE  FlagRight'
<1>1. /\ c \in Calls /\ calls'[c].stage = s /\ calls'[c].exc = e /\ probe' = probe
      /\ calls'[c].since = calls[c].since
      /\ calls[c].heard \/ e # "none"
  BY DEF CallStep, Moves
<1>2. probe.since \in Nat /\ probe.since <= Len(answered) /\ Len(answered) \in Nat
  BY DEF IInv, Shaped, FlagRight, Probes
<1>3. Len(answered) <= Len(answered') /\ Len(answered') \in Nat
  BY CallStepStable DEF Stable
<1>4. probe.stage = "checking" \/ probe.answer => Redeemed(probe.since)'
  <2> SUFFICES ASSUME Redeemed(probe.since) PROVE Redeemed(probe.since)'
    BY DEF IInv, FlagRight
  <2>1. \A k \in 1 .. probe.since : FailedDead(k)' =>
           \E j \in k + 1 .. probe.since :
             (Succeeded(answered[j]) /\ calls[answered[j]].since < k)'
    BY <1>2, CallStepRedeemed
  <2> QED BY <1>1, <2>1 DEF Redeemed
<1>5. ASSUME ~lastError' PROVE Redeemed(Len(answered))'
  <2> SUFFICES ASSUME NEW k \in 1 .. Len(answered'), FailedDead(k)'
               PROVE  \E j \in k + 1 .. Len(answered') :
                        (Succeeded(answered[j]) /\ calls[answered[j]].since < k)'
    BY DEF Redeemed
  <2>1. e # "engine_dead" \/ s # "answered"
    BY <1>5, CallStepStable DEF IsEngineFatal
  <2>2. k \in 1 .. Len(answered) /\ FailedDead(k)
    BY <2>1, CallStepFailedDead
  <2>3. CASE ~lastError
    <3>1. Redeemed(Len(answered))
      BY <2>3 DEF IInv, FlagRight
    <3>2. \E j \in k + 1 .. Len(answered) :
            (Succeeded(answered[j]) /\ calls[answered[j]].since < k)'
      BY <1>2, <2>2, <3>1, CallStepRedeemed
    <3> QED BY <1>2, <1>3, <2>2, <3>2
  <2>4. CASE lastError
    <3>1. /\ s = "answered" /\ e = "none" /\ Len(answered') = Len(answered) + 1
          /\ answered'[Len(answered) + 1] = c
      BY <1>5, <2>4, CallStepStable
    <3>2. calls[c].heard
      BY <1>1, <3>1
    <3>3. calls[c].since < k
      BY <1>1, <2>2, <3>2 DEF IInv, DeadIsDeaf
    <3>4. calls'[c].stage = "answered" /\ calls'[c].exc = "none" /\ calls'[c].since < k
      BY <1>1, <3>1, <3>3
    <3>5. Len(answered) + 1 \in k + 1 .. Len(answered')
      BY <1>2, <2>2, <3>1
    <3> DEFINE last == Len(answered) + 1
    <3>6. answered'[last] = c /\ last \in k + 1 .. Len(answered')
      BY <3>1, <3>5
    <3> HIDE DEF last
    <3> QED BY <3>4, <3>6 DEF Succeeded
  <2> QED BY <2>3, <2>4
<1> QED BY <1>1, <1>2, <1>3, <1>4, <1>5 DEF FlagRight

\* It takes no harmless failure for a broken engine.
LEMMA CallStepHarmless ==
  ASSUME IInv, NEW c, NEW s, NEW e, NEW q, CallStep(c, s, e, q)
  PROVE  HarmlessStaysHealthy'
<1> SUFFICES ASSUME lastError'
             PROVE  \E k \in 1 .. Len(answered') :
                      calls'[answered'[k]].exc \in {"engine_dead", "cuda_oom"}
  BY DEF HarmlessStaysHealthy
<1>0. Len(answered) \in Nat
  BY DEF IInv, Shaped
<1>1. CASE lastError
  <2>1. PICK k \in 1 .. Len(answered) : calls[answered[k]].exc \in {"engine_dead", "cuda_oom"}
    BY <1>1 DEF IInv, HarmlessStaysHealthy
  <2>2. answered'[k] = answered[k] /\ calls'[answered[k]] = calls[answered[k]]
    BY <2>1, CallStepStable DEF Stable
  <2>3. k \in 1 .. Len(answered')
    <3>1. Len(answered) <= Len(answered') /\ Len(answered') \in Nat
      BY CallStepStable DEF Stable
    <3> QED BY <1>0, <3>1
  <2> QED BY <2>1, <2>2, <2>3
<1>2. CASE ~lastError
  <2>1. /\ IsEngineFatal(e) /\ Len(answered') = Len(answered) + 1
        /\ answered'[Len(answered) + 1] = c
    BY <1>2, CallStepStable
  <2>2. calls'[c].exc \in {"engine_dead", "cuda_oom"}
    <3>1. e \in {"engine_dead", "cuda_oom"}
      BY <2>1 DEF IsEngineFatal
    <3> QED BY <3>1 DEF CallStep, Moves
  <2>3. Len(answered) + 1 \in 1 .. Len(answered')
    BY <1>0, <2>1
  <2> QED BY <2>1, <2>2, <2>3
<1> QED BY <1>1, <1>2

\* So it keeps the invariant.
LEMMA CallStepIInv ==
  ASSUME IInv, NEW c, NEW s, NEW e, NEW q, CallStep(c, s, e, q)
  PROVE  IInv'
BY CallStepShaped, CallStepOwned, CallStepNoneForgotten, CallStepAnswers,
   CallStepDeadIsDeaf, CallStepFlagRight, CallStepHarmless DEF IInv

-----------------------------------------------------------------------------
(* The steps of the calls are such steps. *)

\* The record of a call, and that its fields have the types they should.
LEMMA Fields ==
  ASSUME Shaped, NEW c \in Calls
  PROVE  /\ c \in 1 .. Len(calls) /\ Len(calls) \in Nat /\ calls[c] \in Records
         /\ calls[c].kind \in {"batch", "hooked"} /\ calls[c].rids \in Seq(Nat)
         /\ calls[c].stage \in Stages /\ calls[c].exc \in Exceptions
         /\ calls[c].toAbort \in Seq(Nat) /\ calls[c].heard \in BOOLEAN
         /\ calls[c].since \in Nat /\ Size(c) \in Nat
<1>1. c \in 1 .. Len(calls) /\ Len(calls) \in Nat /\ calls[c] \in Records
  BY DEF Shaped, Calls
<1> QED BY <1>1 DEF Records, Size

\* A function on 1 .. n is a sequence of length n.
LEMMA FunctionIsSequence ==
  ASSUME NEW S, NEW n \in Nat, NEW f \in [1 .. n -> S]
  PROVE  f \in Seq(S) /\ Len(f) = n
<1>1. f \in Seq(S)
  BY SeqDef
<1>2. DOMAIN f = 1 .. n /\ DOMAIN f = 1 .. Len(f) /\ Len(f) \in Nat
  BY <1>1
<1>3. \A i, j \in Nat : 1 .. i = 1 .. j => i = j
  <2>1. ASSUME NEW i \in Nat, NEW j \in Nat, 1 .. i = 1 .. j PROVE i <= j
    <3>1. i # 0 => i \in 1 .. i
      OBVIOUS
    <3> QED BY <2>1, <3>1
  <2> QED BY <2>1
<1> QED BY <1>1, <1>2, <1>3

\* The assignment of a step of one call moves it.
LEMMA UpdateMoves ==
  ASSUME Shaped, NEW c \in Calls, calls[c].stage # "answered",
         NEW s \in Stages, NEW e \in Exceptions, NEW q \in Seq(Nat),
         calls' = [calls EXCEPT ![c].stage = s, ![c].exc = e, ![c].toAbort = q]
  PROVE  Moves(c, s, e, q)
<1>1. c \in 1 .. Len(calls) /\ calls[c] \in Records /\ calls \in Seq(Records)
  BY Fields DEF Shaped
<1>2. PICK r \in Records :
        r = [calls[c] EXCEPT !.stage = s, !.exc = e, !.toAbort = q]
  BY <1>1 DEF Records
<1>3. /\ r.rids = calls[c].rids /\ r.heard = calls[c].heard /\ r.since = calls[c].since
      /\ r.stage = s /\ r.exc = e /\ r.toAbort = q /\ r.kind = calls[c].kind
  BY <1>1, <1>2 DEF Records
<1>4. calls' = [calls EXCEPT ![c] = r]
  BY <1>2
<1>5. calls \in [1 .. Len(calls) -> Records] /\ Len(calls) \in Nat
  BY <1>1
<1>6. calls' \in [1 .. Len(calls) -> Records]
  BY <1>1, <1>4, <1>5
<1>7. calls'[c] = r /\ \A d \in Calls \ {c} : calls'[d] = calls[d]
  BY <1>1, <1>4, <1>5 DEF Calls
<1>8. calls' \in Seq(Records) /\ Len(calls') = Len(calls)
  BY <1>5, <1>6, FunctionIsSequence
<1> QED BY <1>3, <1>7, <1>8 DEF Moves

\* Every step of a call is such a step: all streams have ended,
LEMMA ReturnStep ==
  ASSUME IInv, NEW c \in Calls, Return(c)
  PROVE  CallStep(c, "answered", "none", calls[c].toAbort)
<1>1. calls[c].exc = "none" /\ calls[c].stage # "answered"
  BY DEF Return, In, IInv, Answers
<1>2. Moves(c, "answered", "none", calls[c].toAbort)
  <2>1. calls' = [calls EXCEPT ![c].stage = "answered", ![c].exc = "none",
                               ![c].toAbort = calls[c].toAbort]
    BY <1>1, Fields DEF Return, Records, IInv, Shaped, Calls
  <2> QED BY <1>1, <2>1, UpdateMoves, Fields DEF IInv, Stages, Exceptions
<1>3. calls[c].heard
  <2> SUFFICES ASSUME ~calls[c].heard PROVE FALSE
    OBVIOUS
  <2>1. calls[c].stage = "running" /\ Requests(c) \subseteq engine /\ Requests(c) # {}
    BY <1>1 DEF IInv, DeadIsDeaf, Owned
  <2> QED BY <2>1 DEF Return, In
<1>4. Requests(c) \cap engine = {}
  BY DEF Return, In, IInv, NoneForgotten, Left
<1>5. completed' \in Nat
  BY Fields DEF Return, IInv, Shaped
<1>6. Answering(c, "answered", "none")
  BY DEF Return, Answering, IsEngineFatal
<1> QED BY <1>1, <1>2, <1>3, <1>4, <1>5, <1>6
        DEF CallStep, Return, IInv, Shaped, Owned

\* the time is up,
LEMMA TimeoutStep ==
  ASSUME IInv, NEW c \in Calls, Timeout(c)
  PROVE  CallStep(c, "aborting", "timeout", calls[c].rids)
<1>1. Moves(c, "aborting", "timeout", calls[c].rids)
  <2>1. calls[c].stage # "answered"
    BY DEF Timeout, In
  <2> QED BY <2>1, UpdateMoves, Fields DEF Timeout, IInv, Stages, Exceptions
<1>2. (Left(c))' = stuck \cup Requests(c)
  BY <1>1 DEF Moves, Left, Timeout, Requests
<1> QED BY <1>1, <1>2 DEF CallStep, Answering, Timeout, IInv, Shaped, Requests

\* a stream has raised,
LEMMA CatchStep ==
  ASSUME IInv, NEW c \in Calls, Catch(c)
  PROVE  CallStep(c, "aborting", calls[c].exc, calls[c].rids)
<1>1. Moves(c, "aborting", calls[c].exc, calls[c].rids)
  <2>1. calls[c].stage # "answered"
    BY DEF Catch, In
  <2>2. calls' = [calls EXCEPT ![c].stage = "aborting", ![c].exc = calls[c].exc,
                               ![c].toAbort = calls[c].rids]
    BY <2>1, Fields DEF Catch, Records, IInv, Shaped, Calls
  <2> QED BY <2>1, <2>2, UpdateMoves, Fields DEF IInv, Stages
<1>2. (Left(c))' = stuck \cup Requests(c)
  BY <1>1 DEF Moves, Left, Catch, Requests
<1>3. calls[c].exc # "none" /\ (calls[c].exc = "engine_dead" => dead)
  BY DEF Catch, IInv, DeadIsDeaf
<1>4. failed' \in Nat
  BY DEF Catch, IInv, Shaped
<1> QED BY <1>1, <1>2, <1>3, <1>4 DEF CallStep, Answering, Catch, IInv, Shaped, Requests

\* Taking the first request off the list leaves the others on it.
LEMMA TailRequests ==
  ASSUME NEW q \in Seq(Nat), q # << >>
  PROVE  /\ Tail(q) \in Seq(Nat) /\ Head(q) \in ToSet(q)
         /\ ToSet(q) = {Head(q)} \cup ToSet(Tail(q))
<1>1. /\ Len(q) \in Nat /\ Len(q) # 0 /\ Head(q) = q[1] /\ DOMAIN q = 1 .. Len(q)
      /\ Tail(q) \in Seq(Nat) /\ Len(Tail(q)) = Len(q) - 1
      /\ DOMAIN Tail(q) = 1 .. Len(q) - 1
      /\ \A i \in 1 .. Len(q) - 1 : Tail(q)[i] = q[i + 1]
  OBVIOUS
<1>2. 1 \in 1 .. Len(q)
  BY <1>1
<1>3. \A i \in 1 .. Len(q) : i = 1 \/ (i - 1 \in 1 .. Len(q) - 1 /\ (i - 1) + 1 = i)
  BY <1>1
<1>4. \A i \in 1 .. Len(q) - 1 : i + 1 \in 1 .. Len(q)
  BY <1>1
<1>5. ASSUME NEW r \in ToSet(q) PROVE r = Head(q) \/ r \in ToSet(Tail(q))
  <2>1. PICK i \in 1 .. Len(q) : r = q[i]
    BY <1>1 DEF ToSet
  <2>2. i = 1 \/ (i - 1 \in DOMAIN Tail(q) /\ Tail(q)[i - 1] = q[i])
    BY <1>1, <1>3
  <2> QED BY <1>1, <2>1, <2>2 DEF ToSet
<1>6. ASSUME NEW r \in ToSet(Tail(q)) PROVE r \in ToSet(q)
  <2>1. PICK i \in 1 .. Len(q) - 1 : r = Tail(q)[i]
    BY <1>1 DEF ToSet
  <2> QED BY <1>1, <1>4, <2>1 DEF ToSet
<1>7. Head(q) \in ToSet(q)
  BY <1>1, <1>2 DEF ToSet
<1> QED BY <1>1, <1>5, <1>6, <1>7

\* the next request is aborted,
LEMMA AbortNextStep ==
  ASSUME IInv, NEW c \in Calls, AbortNext(c)
  PROVE  CallStep(c, "aborting", calls[c].exc, Tail(calls[c].toAbort))
<1> DEFINE q == calls[c].toAbort
<1>0. /\ calls[c].stage = "aborting" /\ q # << >> /\ q \in Seq(Nat)
      /\ ToSet(q) \subseteq Requests(c) /\ Requests(c) \subseteq 1 .. counter
      /\ Requests(c) \cap engine \subseteq stuck \cup ToSet(q)
      /\ calls[c].exc # "none" /\ (calls[c].exc = "engine_dead" => dead)
  BY Fields DEF AbortNext, In, IInv, Owned, NoneForgotten, Left, Answers, DeadIsDeaf
<1>1. /\ Tail(q) \in Seq(Nat) /\ Head(q) \in ToSet(q)
      /\ ToSet(q) = {Head(q)} \cup ToSet(Tail(q))
  BY <1>0, TailRequests
<1>2. calls' = [calls EXCEPT ![c].stage = "aborting", ![c].exc = calls[c].exc,
                             ![c].toAbort = Tail(q)]
  BY <1>0, Fields DEF AbortNext, Records, IInv, Shaped, Calls
<1>3. Moves(c, "aborting", calls[c].exc, Tail(q))
  BY <1>0, <1>1, <1>2, UpdateMoves, Fields DEF IInv, Stages
<1>4. \/ engine' = engine \ {Head(q)} /\ stuck' = stuck
      \/ engine' = engine /\ stuck' = stuck \cup {Head(q)}
  BY DEF AbortNext
<1>5. UNCHANGED <<counter, dead, lastError, completed, failed, answered, checkable, probe>>
  BY DEF AbortNext
<1>6. (Left(c))' = stuck' \cup ToSet(Tail(q))
  BY <1>3 DEF Moves, Left
<1>7. stuck \subseteq 1 .. counter /\ completed \in Nat /\ failed \in Nat
  BY DEF IInv, Shaped
<1> HIDE DEF q
<1>8. /\ engine' \subseteq engine /\ engine \ engine' \subseteq Requests(c)
      /\ stuck \subseteq stuck' /\ stuck' \subseteq 1 .. counter
      /\ ToSet(Tail(q)) \subseteq Requests(c)
      /\ Requests(c) \cap engine' \subseteq (Left(c))'
  BY <1>0, <1>1, <1>4, <1>6, <1>7
<1> QED BY <1>0, <1>3, <1>5, <1>7, <1>8 DEF CallStep, Answering, q

\* the last one was, and the call raises,
LEMMA RaiseStep ==
  ASSUME IInv, NEW c \in Calls, Raise(c)
  PROVE  CallStep(c, "answered", calls[c].exc, calls[c].toAbort)
<1>0. /\ calls[c].stage = "aborting" /\ ToSet(calls[c].toAbort) = {}
      /\ Requests(c) \cap engine \subseteq stuck \cup ToSet(calls[c].toAbort)
      /\ calls[c].exc # "none" /\ (calls[c].exc = "engine_dead" => dead)
  BY DEF Raise, In, IInv, NoneForgotten, Left, Answers, DeadIsDeaf, ToSet
<1>1. calls' = [calls EXCEPT ![c].stage = "answered", ![c].exc = calls[c].exc,
                             ![c].toAbort = calls[c].toAbort]
  BY <1>0, Fields DEF Raise, Records, IInv, Shaped, Calls
<1>2. Moves(c, "answered", calls[c].exc, calls[c].toAbort)
  BY <1>0, <1>1, UpdateMoves, Fields DEF IInv, Stages
<1>3. (Left(c))' = stuck
  BY <1>2 DEF Moves, Left, Raise
<1>4. Answering(c, "answered", calls[c].exc)
  BY <1>0 DEF Raise, Answering
<1>5. failed' \in Nat
  BY Fields DEF Raise, IInv, Shaped
<1> QED BY <1>0, <1>2, <1>3, <1>4, <1>5 DEF CallStep, Raise, IInv, Shaped

\* a hook asks for a stop,
LEMMA HookStopStep ==
  ASSUME IInv, NEW c \in Calls, HookStop(c)
  PROVE  CallStep(c, "stopping", calls[c].exc, calls[c].toAbort)
<1>0. /\ calls[c].stage = "running" /\ calls[c].exc = "none" /\ calls[c].heard
      /\ ToSet(calls[c].toAbort) \subseteq Requests(c) /\ Requests(c) \subseteq 1 .. counter
  BY DEF HookStop, In, IInv, Owned
<1>1. calls' = [calls EXCEPT ![c].stage = "stopping", ![c].exc = calls[c].exc,
                             ![c].toAbort = calls[c].toAbort]
  BY <1>0, Fields DEF HookStop, Records, IInv, Shaped, Calls
<1>2. Moves(c, "stopping", calls[c].exc, calls[c].toAbort)
  BY <1>0, <1>1, UpdateMoves, Fields DEF IInv, Stages
<1>3. (Left(c))' = 1 .. counter
  BY <1>2 DEF Moves, Left, HookStop
<1> QED BY <1>0, <1>2, <1>3 DEF CallStep, Answering, HookStop, IInv, Shaped

\* a hook raises,
LEMMA HookRaisesStep ==
  ASSUME IInv, NEW c \in Calls, HookRaises(c)
  PROVE  CallStep(c, "running", "other", calls[c].toAbort)
<1>0. /\ calls[c].stage = "running"
      /\ ToSet(calls[c].toAbort) \subseteq Requests(c) /\ Requests(c) \subseteq 1 .. counter
  BY DEF HookRaises, In, IInv, Owned
<1>1. calls' = [calls EXCEPT ![c].stage = "running", ![c].exc = "other",
                             ![c].toAbort = calls[c].toAbort]
  BY <1>0, Fields DEF HookRaises, Records, IInv, Shaped, Calls
<1>2. Moves(c, "running", "other", calls[c].toAbort)
  BY <1>0, <1>1, UpdateMoves, Fields DEF IInv, Stages, Exceptions
<1>3. (Left(c))' = 1 .. counter
  BY <1>2 DEF Moves, Left, HookRaises
<1> QED BY <1>0, <1>2, <1>3 DEF CallStep, Answering, HookRaises, IInv, Shaped

\* the abort a hook asked for returns or raises.
LEMMA StopAbortStep ==
  ASSUME IInv, NEW c \in Calls, StopAbort(c)
  PROVE  \E s \in Stages, e \in Exceptions :
           s \in {"running", "stopped"} /\ CallStep(c, s, e, calls[c].toAbort)
<1>0. /\ calls[c].stage = "stopping" /\ calls[c].exc = "none" /\ calls[c].heard
      /\ ToSet(calls[c].toAbort) \subseteq Requests(c) /\ Requests(c) \subseteq 1 .. counter
  <2>1. calls[c].stage = "stopping" /\ calls[c].exc = "none"
    BY DEF StopAbort, In, IInv, Answers
  <2>2. calls[c].heard
    BY <2>1 DEF IInv, DeadIsDeaf
  <2> QED BY <2>1, <2>2 DEF IInv, Owned
<1>1. CASE /\ calls' = [calls EXCEPT ![c].stage = "stopped"]
           /\ engine' = engine \ Requests(c)
  <2>1. calls' = [calls EXCEPT ![c].stage = "stopped", ![c].exc = calls[c].exc,
                               ![c].toAbort = calls[c].toAbort]
    BY <1>0, <1>1, Fields DEF Records, IInv, Shaped, Calls
  <2>2. Moves(c, "stopped", "none", calls[c].toAbort)
    BY <1>0, <2>1, UpdateMoves, Fields DEF IInv, Stages
  <2>3. CallStep(c, "stopped", "none", calls[c].toAbort)
    BY <1>0, <1>1, <2>2 DEF CallStep, Answering, StopAbort, IInv, Shaped
  <2> QED BY <2>3 DEF Stages, Exceptions
<1>2. ASSUME NEW e \in IF dead THEN {"engine_dead"} ELSE {"other"},
             calls' = [calls EXCEPT ![c].stage = "running", ![c].exc = e],
             engine' = engine
      PROVE  \E s \in Stages, x \in Exceptions :
               s \in {"running", "stopped"} /\ CallStep(c, s, x, calls[c].toAbort)
  <2>0. e \in Exceptions /\ e # "none" /\ (e = "engine_dead" => dead)
    BY DEF Exceptions
  <2>1. calls' = [calls EXCEPT ![c].stage = "running", ![c].exc = e,
                               ![c].toAbort = calls[c].toAbort]
    BY <1>0, <1>2, Fields DEF Records, IInv, Shaped, Calls
  <2>2. Moves(c, "running", e, calls[c].toAbort)
    BY <1>0, <2>0, <2>1, UpdateMoves, Fields DEF IInv, Stages
  <2>3. (Left(c))' = 1 .. counter
    BY <2>2 DEF Moves, Left, StopAbort
  <2>4. CallStep(c, "running", e, calls[c].toAbort)
    BY <1>0, <1>2, <2>0, <2>2, <2>3 DEF CallStep, Answering, StopAbort, IInv, Shaped
  <2> QED BY <2>0, <2>4 DEF Stages
<1> QED BY <1>1, <1>2 DEF StopAbort

-----------------------------------------------------------------------------
(* The steps of the engine and of health checks. *)

\* A step that touches no call and lets a dead engine be dead: what the engine
\* still runs of a call that hears nothing stays.
LEMMA EngineStep ==
  ASSUME IInv, UNCHANGED <<counter, calls, stuck, lastError, completed, failed,
                           answered, checkable, probe>>,
         engine' \subseteq engine, dead' \in BOOLEAN, dead => dead',
         \A c \in Calls : ~calls[c].heard /\ calls[c].exc = "none" =>
                            Requests(c) \subseteq engine'
  PROVE  IInv'
<1>1. Shaped'
  BY DEF IInv, Shaped
<1>2. Owned'
  BY DEF IInv, Owned, Calls, Requests
<1>3. NoneForgotten'
  BY DEF IInv, NoneForgotten, Calls, Requests, Left
<1>4. Answers'
  BY DEF IInv, Answers, Calls
<1>5. DeadIsDeaf'
  BY DEF IInv, DeadIsDeaf, Calls, Requests, FailedDead
<1>6. FlagRight'
  BY DEF IInv, FlagRight, Redeemed, FailedDead, Succeeded
<1>7. HarmlessStaysHealthy'
  BY DEF IInv, HarmlessStaysHealthy
<1> QED BY <1>1, <1>2, <1>3, <1>4, <1>5, <1>6, <1>7 DEF IInv

\* A health check asks the engine and answers by the flag.
LEMMA HealthStep ==
  ASSUME IInv, HealthCheck \/ HealthAnswer
  PROVE  IInv'
<1>0. UNCHANGED <<counter, calls, engine, stuck, dead, lastError, completed,
                  failed, answered, checkable>>
  BY DEF HealthCheck, HealthAnswer
<1>1. /\ Len(answered) \in Nat /\ probe \in Probes
      /\ lastError \in BOOLEAN /\ checkable \in BOOLEAN /\ dead \in BOOLEAN
  BY DEF IInv, Shaped
<1>2. /\ probe' \in Probes /\ probe'.since <= Len(answered)
      /\ probe'.stage = "checking" \/ probe'.answer => Redeemed(probe'.since)
  <2>1. CASE HealthCheck
    <3>1. PICK errored \in BOOLEAN :
            probe' = [stage |-> IF ~lastError /\ ~errored /\ checkable
                                THEN "checking" ELSE "answered",
                      since |-> Len(answered),
                      answer |-> ~lastError /\ ~errored /\ ~checkable]
      BY <1>1, <2>1 DEF HealthCheck
    <3>2. probe' \in Probes /\ probe'.since = Len(answered)
      BY <1>1, <3>1 DEF Probes
    <3>3. probe'.stage = "checking" \/ probe'.answer => ~lastError
      BY <1>1, <3>1
    <3> QED BY <1>1, <3>2, <3>3 DEF IInv, FlagRight
  <2>2. CASE HealthAnswer
    <3>1. probe.stage = "checking"
      BY <2>2 DEF HealthAnswer
    <3>2. PICK healthy \in BOOLEAN :
            probe' = [probe EXCEPT !.stage = "answered", !.answer = healthy]
      BY <2>2 DEF HealthAnswer
    <3>3. probe' \in Probes /\ probe'.since = probe.since
      BY <1>1, <3>2 DEF Probes
    <3> QED BY <3>1, <3>3 DEF IInv, FlagRight
  <2> QED BY <2>1, <2>2
<1>3. Shaped' /\ Owned' /\ NoneForgotten' /\ Answers' /\ DeadIsDeaf' /\ HarmlessStaysHealthy'
  BY <1>0, <1>2 DEF IInv, Shaped, Owned, NoneForgotten, Answers, DeadIsDeaf,
     HarmlessStaysHealthy, Calls, Requests, Left, FailedDead
<1>4. FlagRight'
  BY <1>0, <1>2 DEF IInv, FlagRight, Redeemed, FailedDead, Succeeded
<1> QED BY <1>3, <1>4 DEF IInv

\* An exception is heard by the call that owns the request, if that is running
\* and has met none before.
LEMMA StreamRaisesStep ==
  ASSUME IInv, StreamRaises
  PROVE  IInv'
<1>1. PICK r \in engine,
           e \in IF dead THEN {"engine_dead"} ELSE {"cuda_oom", "nccl_timeout", "other"} :
        /\ engine' = engine \ {r}
        /\ calls' = [c \in Calls |->
             IF r \in Requests(c) /\ In(c, "running") /\ calls[c].exc = "none"
             THEN [calls[c] EXCEPT !.exc = e] ELSE calls[c]]
  BY DEF StreamRaises
<1>2. /\ calls \in [1 .. Len(calls) -> Records] /\ Len(calls) \in Nat
      /\ Calls = 1 .. Len(calls) /\ dead \in BOOLEAN
  BY DEF IInv, Shaped, Calls
<1>3. e \in Exceptions /\ e # "none" /\ (e = "engine_dead" => dead)
  BY <1>2 DEF Exceptions
<1>4. UNCHANGED <<counter, stuck, dead, lastError, completed, failed, answered,
                  checkable, probe>>
  BY DEF StreamRaises
<1>5. CASE \E c \in Calls : r \in Requests(c) /\ In(c, "running") /\ calls[c].exc = "none"
  <2>1. PICK c \in Calls : r \in Requests(c) /\ In(c, "running") /\ calls[c].exc = "none"
    BY <1>5
  <2>2. /\ \A d \in Calls \ {c} : calls'[d] = calls[d]
        /\ calls'[c] = [calls[c] EXCEPT !.exc = e]
    <3>1. \A d \in Calls \ {c} : r \notin Requests(d)
      BY <2>1 DEF IInv, Owned
    <3> QED BY <1>1, <2>1, <3>1
  <2>3. calls[c] \in Records /\ [calls[c] EXCEPT !.exc = e] \in Records
    BY <1>2, <1>3 DEF Records
  <2>4. calls' \in Seq(Records) /\ Len(calls') = Len(calls)
    <3>1. \A d \in 1 .. Len(calls) : calls'[d] \in Records
      BY <1>2, <2>2, <2>3
    <3>2. calls' \in [1 .. Len(calls) -> Records]
      BY <1>1, <1>2, <3>1
    <3> QED BY <1>2, <3>2, FunctionIsSequence
  <2>5. Moves(c, "running", e, calls[c].toAbort)
    BY <2>1, <2>2, <2>3, <2>4 DEF Moves, Records, In
  <2>6. (Left(c))' = 1 .. counter
    BY <1>4, <2>5 DEF Moves, Left
  <2>7. CallStep(c, "running", e, calls[c].toAbort)
    BY <1>1, <1>3, <1>4, <2>1, <2>5, <2>6 DEF CallStep, Answering, IInv, Shaped, Owned
  <2> QED BY <2>7, CallStepIInv
<1>6. CASE ~ \E c \in Calls : r \in Requests(c) /\ In(c, "running") /\ calls[c].exc = "none"
  <2>1. calls' = calls
    BY <1>1, <1>2, <1>6
  <2>2. ASSUME NEW c \in Calls, ~calls[c].heard, calls[c].exc = "none"
        PROVE  Requests(c) \subseteq engine'
    <3>1. calls[c].stage = "running" /\ Requests(c) \subseteq engine
      BY <2>2 DEF IInv, DeadIsDeaf
    <3> QED BY <1>1, <1>6, <2>2, <3>1 DEF In
  <2>3. engine' \subseteq engine /\ dead' \in BOOLEAN /\ (dead => dead')
    BY <1>1, <1>2, <1>4
  <2> QED BY <1>4, <2>1, <2>2, <2>3, EngineStep
<1> QED BY <1>5, <1>6

-----------------------------------------------------------------------------
(* A call begins, with fresh requests. *)

\* The ids of a new call were not used before.
LEMMA FreshRequests ==
  ASSUME NEW n \in Nat, NEW k \in Nat \ {0}
  PROVE  LET rids == [j \in 1 .. k |-> n + j] IN
           /\ rids \in Seq(Nat) /\ ToSet(rids) # {}
           /\ ToSet(rids) \subseteq 1 .. n + k
           /\ ToSet(rids) \cap 1 .. n = {}
<1> DEFINE rids == [j \in 1 .. k |-> n + j]
<1>1. rids \in [1 .. k -> Nat]
  OBVIOUS
<1>2. ToSet(rids) = {n + j : j \in 1 .. k}
  BY DEF ToSet
<1>3. n + 1 \in {n + j : j \in 1 .. k}
  OBVIOUS
<1>4. \A j \in 1 .. k : n + j \in 1 .. n + k /\ n + j \notin 1 .. n
  OBVIOUS
<1>5. rids \in Seq(Nat)
  BY <1>1, FunctionIsSequence
<1> QED BY <1>2, <1>3, <1>4, <1>5

\* A call begins with requests of its own.
LEMMA BeginStep ==
  ASSUME IInv, NEW kind \in {"batch", "hooked"}, NEW k \in Nat \ {0}, Begin(kind, k)
  PROVE  IInv'
<1>a. Len(calls) + 1 \in Nat
  BY DEF IInv, Shaped
<1>b. PICK n \in Nat : n = Len(calls) + 1
  BY <1>a
<1>0. /\ calls \in Seq(Records) /\ Len(calls) \in Nat /\ Calls = 1 .. Len(calls)
      /\ counter \in Nat /\ dead \in BOOLEAN /\ Len(answered) \in Nat
      /\ engine \cup stuck \subseteq 1 .. counter
  BY DEF IInv, Shaped, Calls
<1>1. PICK rids \in Seq(Nat) :
        /\ rids = [j \in 1 .. k |-> counter + j]
        /\ ToSet(rids) # {} /\ ToSet(rids) \subseteq 1 .. counter + k
        /\ ToSet(rids) \cap 1 .. counter = {}
  BY <1>0, FreshRequests
<1>2. PICK r \in Records :
        r = [kind |-> kind, rids |-> rids, stage |-> "running", exc |-> "none",
             toAbort |-> << >>, heard |-> ~dead, since |-> Len(answered)]
  <2>1. << >> \in Seq(Nat) /\ (~dead) \in BOOLEAN
    BY <1>0
  <2>2. "running" \in Stages /\ "none" \in Exceptions
    BY DEF Stages, Exceptions
  <2> QED BY <1>0, <2>1, <2>2 DEF Records
<1>3. /\ calls' = Append(calls, r) /\ engine' = engine \cup ToSet(rids)
      /\ counter' = counter + k
      /\ UNCHANGED <<stuck, dead, lastError, completed, failed, answered, checkable, probe>>
  BY <1>1, <1>2 DEF Begin
<1>4. /\ calls' \in Seq(Records) /\ Len(calls') = n /\ calls'[n] = r
      /\ \A c \in Calls : calls'[c] = calls[c]
  BY <1>b, <1>0, <1>2, <1>3
<1>5. Calls' = Calls \cup {n} /\ n \notin Calls /\ \A c \in Calls : c # n
  BY <1>b, <1>0, <1>4 DEF Calls
<1>6. /\ \A c \in Calls : Requests(c)' = Requests(c) /\ Requests(c) \subseteq 1 .. counter
      /\ Requests(n)' = ToSet(rids)
  BY <1>2, <1>4 DEF Requests, IInv, Owned
<1>7. 1 .. counter \subseteq 1 .. counter' /\ counter' \in Nat /\ counter' = counter + k
  BY <1>0, <1>3
<1>8. Shaped'
  BY <1>0, <1>1, <1>3, <1>4, <1>7 DEF IInv, Shaped
<1>9. Owned'
  <2>1. ASSUME NEW c \in Calls'
        PROVE  /\ Requests(c)' \subseteq 1 .. counter' /\ Requests(c)' # {}
               /\ ToSet(calls'[c].toAbort) \subseteq Requests(c)'
    <3>1. CASE c \in Calls
      BY <1>4, <1>6, <1>7, <3>1 DEF IInv, Owned
    <3>2. CASE c = n
      <4>1. ToSet(calls'[n].toAbort) = {}
        BY <1>2, <1>4 DEF ToSet
      <4> QED BY <1>1, <1>6, <1>7, <3>2, <4>1
    <3> QED BY <1>5, <3>1, <3>2
  <2>2. ASSUME NEW c \in Calls', NEW d \in Calls', c # d
        PROVE  Requests(c)' \cap Requests(d)' = {}
    <3>1. CASE c \in Calls /\ d \in Calls
      BY <1>6, <2>2, <3>1 DEF IInv, Owned
    <3>2. CASE c = n /\ d \in Calls
      BY <1>1, <1>6, <3>2
    <3>3. CASE c \in Calls /\ d = n
      BY <1>1, <1>6, <3>3
    <3> QED BY <1>5, <2>2, <3>1, <3>2, <3>3
  <2> QED BY <2>1, <2>2 DEF Owned
<1>10. NoneForgotten'
  <2>1. ASSUME NEW c \in Calls'
        PROVE  Requests(c)' \cap engine' \subseteq Left(c)'
    <3>1. CASE c \in Calls
      <4>1. Requests(c) \cap engine' = Requests(c) \cap engine
        BY <1>1, <1>3, <1>6, <3>1
      <4>2. Left(c) \subseteq Left(c)'
        BY <1>3, <1>4, <1>7, <3>1 DEF Left
      <4> QED BY <1>6, <3>1, <4>1, <4>2 DEF IInv, NoneForgotten
    <3>2. CASE c = n
      <4>1. Left(n)' = 1 .. counter'
        BY <1>2, <1>4 DEF Left
      <4> QED BY <1>1, <1>6, <1>7, <3>2, <4>1
    <3> QED BY <1>5, <3>1, <3>2
  <2> QED BY <2>1 DEF NoneForgotten
<1>11. \A j \in 1 .. Len(answered) :
         /\ answered'[j] = answered[j] /\ answered[j] \in Calls
         /\ calls'[answered[j]] = calls[answered[j]] /\ calls[answered[j]].stage = "answered"
  BY <1>3, <1>4 DEF IInv, Answers
<1>12. Answers'
  <2>1. ASSUME NEW c \in Calls'
        PROVE  /\ calls'[c].since <= Len(answered)
               /\ calls'[c].stage = "aborting" => calls'[c].exc # "none"
               /\ calls'[c].stage \in {"stopping", "stopped"} => calls'[c].exc = "none"
    <3>1. CASE c \in Calls
      BY <1>4, <3>1 DEF IInv, Answers
    <3>2. CASE c = n
      BY <1>0, <1>2, <1>4, <3>2
    <3> QED BY <1>5, <3>1, <3>2
  <2> QED BY <1>3, <1>5, <1>11, <2>1 DEF Answers
<1>13. \A j \in 1 .. Len(answered) :
         (FailedDead(j)' <=> FailedDead(j)) /\ (FailedDead(j) => dead)
  BY <1>3, <1>11 DEF FailedDead, IInv, DeadIsDeaf
<1>14. DeadIsDeaf'
  <2>1. ASSUME NEW c \in Calls'
        PROVE  /\ calls'[c].exc = "engine_dead" \/ ~calls'[c].heard => dead'
               /\ ~calls'[c].heard /\ calls'[c].exc = "none" =>
                    calls'[c].stage = "running" /\ Requests(c)' \subseteq engine'
               /\ \A j \in 1 .. Len(answered) :
                    calls'[c].heard /\ FailedDead(j)' => calls'[c].since < j
    <3>1. CASE c \in Calls
      BY <1>3, <1>4, <1>6, <1>13, <3>1 DEF IInv, DeadIsDeaf
    <3>2. CASE c = n
      <4>1. /\ calls'[c].exc = "none" /\ calls'[c].stage = "running"
            /\ calls'[c].heard = ~dead /\ dead' = dead
        BY <1>2, <1>3, <1>4, <3>2
      <4>2. Requests(c)' \subseteq engine'
        BY <1>3, <1>6, <3>2
      <4>3. \A j \in 1 .. Len(answered) : ~(calls'[c].heard /\ FailedDead(j)')
        BY <1>0, <1>13, <4>1
      <4> QED BY <1>0, <4>1, <4>2, <4>3
    <3> QED BY <1>5, <3>1, <3>2
  <2> QED BY <1>3, <2>1 DEF DeadIsDeaf
<1>15. FlagRight' /\ HarmlessStaysHealthy'
  <2>1. ASSUME NEW m \in Nat, m <= Len(answered), Redeemed(m) PROVE Redeemed(m)'
    <3> SUFFICES ASSUME NEW j \in 1 .. m, FailedDead(j)'
                 PROVE  \E l \in j + 1 .. m :
                          (Succeeded(answered[l]) /\ calls[answered[l]].since < j)'
      BY DEF Redeemed
    <3>1. FailedDead(j)
      BY <1>0, <1>13, <2>1
    <3>2. PICK l \in j + 1 .. m : Succeeded(answered[l]) /\ calls[answered[l]].since < j
      BY <2>1, <3>1 DEF Redeemed
    <3>3. l \in 1 .. Len(answered)
      BY <1>0, <2>1, <3>2
    <3> QED BY <1>3, <1>11, <3>2, <3>3 DEF Succeeded
  <2>2. probe.since \in Nat
    BY DEF IInv, Shaped, Probes
  <2>3. probe.stage = "checking" \/ probe.answer =>
          Redeemed(probe.since)' /\ probe.since <= Len(answered)
    BY <1>3, <2>1, <2>2 DEF IInv, FlagRight
  <2>4. ~lastError => Redeemed(Len(answered))'
    BY <1>0, <1>3, <2>1 DEF IInv, FlagRight
  <2>5. HarmlessStaysHealthy'
    BY <1>3, <1>11 DEF IInv, HarmlessStaysHealthy
  <2> QED BY <1>3, <2>3, <2>4, <2>5 DEF FlagRight, IInv
<1> QED BY <1>8, <1>9, <1>10, <1>12, <1>14, <1>15 DEF IInv

\* No call, no request, a healthy engine.
LEMMA InitIInv == Init => IInv
<1> SUFFICES ASSUME Init PROVE IInv
  OBVIOUS
<1>1. Calls = {} /\ Len(answered) = 0 /\ Len(calls) = 0 /\ ~lastError
  BY DEF Init, Calls
<1>2. Shaped
  <2>1. calls = << >> /\ answered = << >> /\ << >> \in Seq(Records) /\ << >> \in Seq(Nat)
    BY DEF Init
  <2>2. probe \in Probes
    BY DEF Init, NoProbe, Probes
  <2>3. engine = {} /\ stuck = {} /\ counter \in Nat /\ completed \in Nat /\ failed \in Nat
        /\ dead \in BOOLEAN /\ lastError \in BOOLEAN /\ checkable \in BOOLEAN
    BY DEF Init
  <2> QED BY <2>1, <2>2, <2>3 DEF Shaped
<1>3. Owned /\ NoneForgotten /\ Answers /\ DeadIsDeaf
  BY <1>1 DEF Owned, NoneForgotten, Answers, DeadIsDeaf
<1>4. FlagRight /\ HarmlessStaysHealthy
  <2>1. probe.since = 0
    BY DEF Init, NoProbe
  <2> QED BY <1>1, <2>1 DEF FlagRight, Redeemed, HarmlessStaysHealthy
<1> QED BY <1>2, <1>3, <1>4 DEF IInv

\* Every step keeps the invariant.
LEMMA NextIInv == IInv /\ [Next]_vars => IInv'
<1> SUFFICES ASSUME IInv, [Next]_vars PROVE IInv'
  OBVIOUS
<1>1. ASSUME UNCHANGED vars PROVE IInv'
  <2>1. dead \in BOOLEAN /\ \A c \in Calls : ~calls[c].heard /\ calls[c].exc = "none" =>
          Requests(c) \subseteq engine
    BY DEF IInv, Shaped, DeadIsDeaf
  <2> QED BY <1>1, <2>1, EngineStep DEF vars
<1>2. CASE BeginBatch
  BY <1>2, BeginStep, BatchSizesAssumption DEF BeginBatch
<1>3. CASE BeginHooked
  BY <1>3, BeginStep DEF BeginHooked
<1>4. ASSUME NEW c \in Calls,
             \/ Return(c) \/ Timeout(c) \/ Catch(c) \/ AbortNext(c)
             \/ Raise(c) \/ HookStop(c) \/ HookRaises(c) \/ StopAbort(c)
      PROVE  IInv'
  BY <1>4, CallStepIInv, ReturnStep, TimeoutStep, CatchStep, AbortNextStep, RaiseStep,
     HookStopStep, HookRaisesStep, StopAbortStep
<1>5. CASE HealthCheck \/ HealthAnswer
  BY <1>5, HealthStep
<1>6. CASE StreamEnds
  <2>1. \A c \in Calls : calls[c].heard
    BY <1>6 DEF StreamEnds, IInv, DeadIsDeaf
  <2> QED BY <1>6, <2>1, EngineStep DEF StreamEnds, IInv, Shaped
<1>7. CASE StreamRaises
  BY <1>7, StreamRaisesStep
<1>8. CASE EngineDies
  BY <1>8, EngineStep DEF EngineDies, IInv, DeadIsDeaf
<1>9. CASE Finished
  BY <1>1, <1>9 DEF Finished
<1> QED BY <1>1, <1>2, <1>3, <1>4, <1>5, <1>6, <1>7, <1>8, <1>9 DEF Next

\* The invariant that the four theorems below follow from.
LEMMA Invariance == Spec => []IInv
BY InitIInv, NextIInv, PTL DEF Spec

-----------------------------------------------------------------------------
(* The theorems. *)

\* The calls, the requests and the last health check keep their types, whatever
\* the number of calls and the sizes of batches.
THEOREM WorkerTypes == Spec => []TypeOK
<1>1. IInv => TypeOK
  <2> SUFFICES ASSUME IInv PROVE TypeOK
    OBVIOUS
  <2>1. \A c \in Calls :
          /\ calls[c].kind \in {"batch", "hooked"}
          /\ calls[c].stage \in {"running", "aborting", "stopping", "stopped", "answered"}
          /\ calls[c].exc \in Exceptions
    BY Fields DEF IInv, Stages
  <2> QED BY <2>1 DEF IInv, Shaped, Owned, TypeOK, Probes
<1> QED BY <1>1, Invariance, PTL

\* A call answered in any way - a result, a timeout, an exception of a stream or
\* of a hook, a hook's stop - leaves none of its requests on the engine but those
\* whose own abort raised, however calls overlap.
THEOREM NothingLeftRunning == Spec => []NoOrphans
<1>1. IInv => NoOrphans
  BY DEF IInv, NoneForgotten, Left, NoOrphans
<1> QED BY <1>1, Invariance, PTL

\* After a call has failed of a dead engine no health check begun later answers
\* True, unless a call that was under way by then has succeeded in between: with
\* no call overlapping, never.
THEOREM DeadEngineIsNoticed == Spec => []DeadEngineFailsProbe
<1>1. IInv => DeadEngineFailsProbe
  BY DEF IInv, FlagRight, Redeemed, FailedDead, DeadEngineFailsProbe
<1> QED BY <1>1, Invariance, PTL

\* Timeouts, NCCL timeouts included, and harmless exceptions never set the flag.
THEOREM HarmlessNeverFlagged == Spec => []HarmlessStaysHealthy
<1>1. IInv => HarmlessStaysHealthy
  BY DEF IInv
<1> QED BY <1>1, Invariance, PTL

-----------------------------------------------------------------------------
(* The counters. *)

Sizes == [c \in Calls |-> Size(c)]
Completed == {c \in Calls : Succeeded(c)}

\* A hooked call counts its failure when it catches it, a batch when it answers.
FailureCounted(kind, stage, e) ==
  e # "none" /\ (stage = "answered" \/ (stage = "aborting" /\ kind = "hooked"))
GivenUp == {c \in Calls : FailureCounted(calls[c].kind, calls[c].stage, calls[c].exc)}

Counted == /\ completed = SumOver(Sizes, Completed)
           /\ failed = SumOver(Sizes, GivenUp)
HookedAlone == \A c \in Calls : calls[c].kind = "hooked" => Size(c) = 1

\* The number of requests of a call never changes, nor do sums of them.
LEMMA SizesKeep ==
  ASSUME Shaped, calls' \in Seq(Records), Len(calls) <= Len(calls'),
         \A c \in Calls : calls'[c].rids = calls[c].rids
  PROVE  /\ Sizes \in [Calls -> Nat] /\ Sizes' \in [Calls' -> Nat]
         /\ Calls \subseteq Calls'
         /\ \A S \in SUBSET Calls :
              IsFiniteSet(S) /\ SumOver(Sizes', S) = SumOver(Sizes, S)
<1>1. Len(calls) \in Nat /\ Len(calls') \in Nat /\ calls \in Seq(Records)
  BY DEF Shaped
<1>2. \A r \in Records : Len(r.rids) \in Nat
  BY DEF Records
<1>3. Calls \subseteq Calls'
  BY <1>1 DEF Calls
<1>4. Sizes \in [Calls -> Nat] /\ Sizes' \in [Calls' -> Nat]
  BY <1>1, <1>2 DEF Sizes, Size, Calls
<1>5. \A c \in Calls : Sizes'[c] = Sizes[c]
  BY <1>3 DEF Sizes, Size
<1>6. IsFiniteSet(Calls)
  BY <1>1, FS_Interval DEF Calls
<1>7. ASSUME NEW S \in SUBSET Calls
      PROVE  IsFiniteSet(S) /\ SumOver(Sizes', S) = SumOver(Sizes, S)
  <2>1. IsFiniteSet(S)
    BY <1>6, FS_Subset
  <2>2. S \in SUBSET Calls' /\ \A c \in S : Sizes'[c] = Sizes[c]
    BY <1>3, <1>5
  <2> QED BY <1>4, <2>1, <2>2, SumOfSame
<1> QED BY <1>3, <1>4, <1>7

\* Steps that count nothing.
LEMMA CountedStill ==
  ASSUME Shaped, Counted, calls' \in Seq(Records), Len(calls') = Len(calls),
         \A c \in Calls : calls'[c].rids = calls[c].rids,
         Completed' = Completed, GivenUp' = GivenUp, UNCHANGED <<completed, failed>>
  PROVE  Counted'
<1>1. Completed \in SUBSET Calls /\ GivenUp \in SUBSET Calls /\ Len(calls) <= Len(calls')
  BY DEF Completed, GivenUp, Shaped
<1>2. /\ SumOver(Sizes', Completed) = SumOver(Sizes, Completed)
      /\ SumOver(Sizes', GivenUp) = SumOver(Sizes, GivenUp)
  BY <1>1, SizesKeep
<1> QED BY <1>2 DEF Counted

\* A call counts when it comes to be completed or given up, and as many as it has
\* requests.
LEMMA CountedMove ==
  ASSUME Shaped, Counted, NEW c \in Calls, NEW s, NEW e, NEW q, Moves(c, s, e, q),
         LET was == FailureCounted(calls[c].kind, calls[c].stage, calls[c].exc)
             is == FailureCounted(calls[c].kind, s, e)
         IN  /\ was => is
             /\ failed' = failed + IF is /\ ~was THEN Size(c) ELSE 0,
         completed' = completed + IF s = "answered" /\ e = "none" THEN Size(c) ELSE 0
  PROVE  Counted'
<1>1. /\ calls' \in Seq(Records) /\ Len(calls) \in Nat /\ Len(calls') = Len(calls)
      /\ Calls' = Calls /\ \A d \in Calls : calls'[d].rids = calls[d].rids
  <2>1. calls \in Seq(Records) /\ Len(calls) \in Nat
    BY DEF Shaped
  <2>2. calls' \in Seq(Records) /\ Len(calls') = Len(calls)
    BY DEF Moves
  <2>3. Calls' = Calls
    BY <2>2 DEF Calls
  <2>4. \A d \in Calls : calls'[d].rids = calls[d].rids
    <3>1. calls'[c].rids = calls[c].rids /\ \A d \in Calls \ {c} : calls'[d] = calls[d]
      BY DEF Moves
    <3> QED BY <3>1
  <2> QED BY <2>1, <2>2, <2>3, <2>4
<1>2. /\ Sizes \in [Calls -> Nat] /\ Sizes[c] = Size(c)
      /\ \A S \in SUBSET Calls : IsFiniteSet(S) /\ SumOver(Sizes', S) = SumOver(Sizes, S)
  <2>1. Len(calls) <= Len(calls')
    BY <1>1
  <2>2. Sizes[c] = Size(c)
    BY DEF Sizes
  <2> QED BY <1>1, <2>1, <2>2, SizesKeep
<1>3. /\ Completed \in SUBSET Calls /\ GivenUp \in SUBSET Calls
      /\ completed \in Nat /\ failed \in Nat
  BY DEF Completed, GivenUp, Shaped
<1>4. completed' = SumOver(Sizes, Completed')
  <2>1. c \notin Completed
    BY DEF Completed, Succeeded, Moves
  <2>2. CASE s = "answered" /\ e = "none"
    <3>1. Completed' = Completed \cup {c}
      BY <1>1, <2>2 DEF Completed, Succeeded, Moves
    <3>2. SumOver(Sizes, Completed \cup {c}) = SumOver(Sizes, Completed) + Sizes[c]
      BY <1>2, <1>3, <2>1, SumWithOneMore
    <3> QED BY <1>2, <2>2, <3>1, <3>2 DEF Counted
  <2>3. CASE ~(s = "answered" /\ e = "none")
    <3>1. Completed' = Completed
      BY <1>1, <2>1, <2>3 DEF Completed, Succeeded, Moves
    <3> QED BY <1>3, <2>3, <3>1 DEF Counted
  <2> QED BY <2>2, <2>3
<1>5. failed' = SumOver(Sizes, GivenUp')
  <2> DEFINE was == FailureCounted(calls[c].kind, calls[c].stage, calls[c].exc)
             is == FailureCounted(calls[c].kind, s, e)
  <2>1. /\ c \in GivenUp <=> was
        /\ c \in GivenUp' <=> is
        /\ \A d \in Calls \ {c} : d \in GivenUp' <=> d \in GivenUp
    BY <1>1 DEF GivenUp, Moves
  <2>2. GivenUp' \subseteq Calls
    BY <1>1 DEF GivenUp
  <2> HIDE DEF was, is
  <2>3. CASE is /\ ~was
    <3>1. GivenUp' = GivenUp \cup {c} /\ c \notin GivenUp
      BY <1>3, <2>1, <2>2, <2>3
    <3>2. SumOver(Sizes, GivenUp \cup {c}) = SumOver(Sizes, GivenUp) + Sizes[c]
      BY <1>2, <1>3, <3>1, SumWithOneMore
    <3> QED BY <1>2, <2>3, <3>1, <3>2 DEF Counted, was, is
  <2>4. CASE ~(is /\ ~was)
    <3>1. GivenUp' = GivenUp
      BY <1>3, <2>1, <2>2, <2>4 DEF was, is
    <3>2. failed' = failed
      BY <1>3, <2>4 DEF was, is
    <3> QED BY <3>1, <3>2 DEF Counted
  <2> QED BY <2>3, <2>4
<1>6. Completed' \in SUBSET Calls /\ GivenUp' \in SUBSET Calls
  BY <1>1 DEF Completed, GivenUp
<1> QED BY <1>2, <1>4, <1>5, <1>6 DEF Counted

\* Nothing is counted at first.
LEMMA CountedInit == Init => Counted
<1> SUFFICES ASSUME Init PROVE Counted
  OBVIOUS
<1>1. Calls = {} /\ completed = 0 /\ failed = 0
  BY DEF Init, Calls
<1>2. Completed = {} /\ GivenUp = {} /\ Sizes \in [{} -> Nat]
  BY <1>1 DEF Completed, GivenUp, Sizes
<1>3. SumOver(Sizes, {}) = 0
  BY <1>2, SumOfNone
<1> QED BY <1>1, <1>2, <1>3 DEF Counted

\* A stream that raises changes the exception of a running call at most.
LEMMA StreamRaisesKeeps ==
  ASSUME IInv, IInv', StreamRaises
  PROVE  /\ Len(calls') = Len(calls) /\ Calls' = Calls
         /\ \A c \in Calls :
              /\ calls'[c].rids = calls[c].rids /\ calls'[c].kind = calls[c].kind
              /\ calls'[c].stage = calls[c].stage
              /\ calls'[c].exc = calls[c].exc \/ calls[c].stage = "running"
<1>0. calls' \in Seq(Records) /\ calls \in Seq(Records)
  BY DEF IInv, Shaped
<1>1. PICK r, e :
        calls' = [c \in Calls |->
          IF r \in Requests(c) /\ In(c, "running") /\ calls[c].exc = "none"
          THEN [calls[c] EXCEPT !.exc = e] ELSE calls[c]]
  BY DEF StreamRaises
<1>2. ASSUME NEW c \in Calls
      PROVE  /\ calls'[c].rids = calls[c].rids /\ calls'[c].kind = calls[c].kind
             /\ calls'[c].stage = calls[c].stage
             /\ calls'[c].exc = calls[c].exc \/ calls[c].stage = "running"
  <2>1. calls[c] \in Records
    BY Fields DEF IInv
  <2> QED BY <1>1, <2>1 DEF In, Records
<1>3. Len(calls') = Len(calls) /\ Calls' = Calls
  <2>1. PICK n \in Nat : n = Len(calls')
    BY <1>0
  <2>2. PICK m \in Nat : m = Len(calls)
    BY <1>0
  <2>3. DOMAIN calls' = Calls
    BY <1>1
  <2>4. 1 .. n = 1 .. m
    BY <1>0, <2>1, <2>2, <2>3 DEF Calls
  <2>5. n = m
    <3>1. n # 0 => n \in 1 .. n
      OBVIOUS
    <3>2. m # 0 => m \in 1 .. m
      OBVIOUS
    <3> QED BY <2>4, <3>1, <3>2
  <2> QED BY <2>1, <2>2, <2>5 DEF Calls
<1> QED BY <1>2, <1>3

\* evaluate_with_hooks takes one task, and keeps it.
LEMMA HookedStep ==
  IInv /\ IInv' /\ HookedAlone /\ [Next]_vars => HookedAlone'
<1> SUFFICES ASSUME IInv, IInv', HookedAlone, [Next]_vars PROVE HookedAlone'
  OBVIOUS
<1>0. calls' \in Seq(Records) /\ calls \in Seq(Records)
  BY DEF IInv, Shaped
<1>1. ASSUME Calls' = Calls,
             \A c \in Calls : calls'[c].rids = calls[c].rids /\ calls'[c].kind = calls[c].kind
      PROVE  HookedAlone'
  BY <1>1 DEF HookedAlone, Size
<1>2. ASSUME NEW c \in Calls, NEW s, NEW e, NEW q, Moves(c, s, e, q) PROVE HookedAlone'
  BY <1>1, <1>2 DEF Moves, Calls
<1>3. ASSUME NEW kind, NEW k \in Nat \ {0}, Begin(kind, k), kind = "hooked" => k = 1
      PROVE  HookedAlone'
  <2> DEFINE rids == [j \in 1 .. k |-> counter + j]
             r == [kind |-> kind, rids |-> rids, stage |-> "running", exc |-> "none",
                   toAbort |-> << >>, heard |-> ~dead, since |-> Len(answered)]
  <2>1. r.kind = kind /\ r.rids = rids /\ calls' = Append(calls, r)
    BY <1>3 DEF Begin
  <2> HIDE DEF r
  <2>2. PICK n \in Nat : n = Len(calls)
    BY <1>0
  <2>3. /\ Calls = 1 .. n /\ Calls' = 1 .. n + 1
        /\ (\A c \in 1 .. n : calls'[c] = calls[c]) /\ calls'[n + 1] = r
    BY <1>0, <2>1, <2>2 DEF Calls
  <2>4. Len(r.rids) = k
    <3>1. counter \in Nat
      BY DEF IInv, Shaped
    <3>2. r.rids \in [1 .. k -> Nat]
      BY <2>1, <3>1
    <3> QED BY <3>2, FunctionIsSequence
  <2>5. \A c \in 1 .. n + 1 : c \in 1 .. n \/ c = n + 1
    OBVIOUS
  <2> QED BY <1>3, <2>1, <2>3, <2>4, <2>5 DEF HookedAlone, Size
<1>4. ASSUME NEW c \in Calls,
             \/ Return(c) \/ Timeout(c) \/ Catch(c) \/ AbortNext(c)
             \/ Raise(c) \/ HookStop(c) \/ HookRaises(c) \/ StopAbort(c)
      PROVE  HookedAlone'
  BY <1>2, <1>4, ReturnStep, TimeoutStep, CatchStep, AbortNextStep, RaiseStep,
     HookStopStep, HookRaisesStep, StopAbortStep DEF CallStep
<1>5. CASE StreamRaises
  BY <1>1, <1>5, StreamRaisesKeeps
<1>6. CASE UNCHANGED calls
  BY <1>1, <1>6 DEF Calls
<1>7. CASE BeginBatch
  BY <1>3, <1>7, BatchSizesAssumption DEF BeginBatch
<1>8. CASE BeginHooked
  BY <1>3, <1>8 DEF BeginHooked
<1>9. CASE HealthCheck \/ HealthAnswer \/ StreamEnds \/ EngineDies \/ Finished
  BY <1>6, <1>9 DEF HealthCheck, HealthAnswer, StreamEnds, EngineDies, Finished, vars
<1>10. CASE UNCHANGED vars
  BY <1>6, <1>10 DEF vars
<1> QED BY <1>4, <1>5, <1>7, <1>8, <1>9, <1>10 DEF Next

\* Every task is counted as its call is answered, or where it failed.
LEMMA CountedNext ==
  IInv /\ IInv' /\ HookedAlone /\ Counted /\ [Next]_vars => Counted'
<1> SUFFICES ASSUME IInv, IInv', HookedAlone, Counted, [Next]_vars PROVE Counted'
  OBVIOUS
<1>0. /\ Shaped /\ calls' \in Seq(Records) /\ calls \in Seq(Records)
      /\ completed \in Nat /\ failed \in Nat
  BY DEF IInv, Shaped
<1>1. ASSUME UNCHANGED <<calls, completed, failed>> PROVE Counted'
  <2>1. Completed' = Completed /\ GivenUp' = GivenUp
    BY <1>1 DEF Completed, GivenUp, Succeeded, Calls
  <2> QED BY <1>0, <1>1, <2>1, CountedStill
<1>2. ASSUME NEW kind, NEW k, Begin(kind, k) PROVE Counted'
  <2>1. /\ UNCHANGED <<completed, failed>>
        /\ \E r : r.stage = "running" /\ calls' = Append(calls, r)
    BY <1>2 DEF Begin
  <2>2. PICK r : r.stage = "running" /\ calls' = Append(calls, r)
    BY <2>1
  <2>3. PICK n \in Nat : n = Len(calls)
    BY <1>0
  <2>4. /\ Calls = 1 .. n /\ Len(calls') = n + 1 /\ Calls' = 1 .. n + 1
        /\ \A c \in 1 .. n : calls'[c] = calls[c]
        /\ calls'[n + 1].stage = "running"
    BY <1>0, <2>2, <2>3 DEF Calls
  <2>5. Calls' = Calls \cup {n + 1} /\ n + 1 \notin Calls /\ Len(calls) <= Len(calls')
    BY <2>3, <2>4
  <2>6. Completed' = Completed /\ GivenUp' = GivenUp
    BY <2>4, <2>5 DEF Completed, GivenUp, Succeeded, FailureCounted
  <2>7. Completed \in SUBSET Calls /\ GivenUp \in SUBSET Calls
    BY DEF Completed, GivenUp
  <2>8. /\ SumOver(Sizes', Completed) = SumOver(Sizes, Completed)
        /\ SumOver(Sizes', GivenUp) = SumOver(Sizes, GivenUp)
    BY <1>0, <2>4, <2>5, <2>7, SizesKeep
  <2> QED BY <2>1, <2>6, <2>8 DEF Counted
<1>3. ASSUME NEW c \in Calls, Return(c) PROVE Counted'
  <2>1. Moves(c, "answered", "none", calls[c].toAbort)
    BY <1>3, ReturnStep DEF CallStep
  <2>2. completed' = completed + Size(c) /\ failed' = failed /\ calls[c].exc = "none"
    BY <1>3 DEF Return, In, IInv, Answers
  <2> QED BY <1>0, <2>1, <2>2, CountedMove DEF FailureCounted
<1>4. ASSUME NEW c \in Calls, Timeout(c) PROVE Counted'
  <2>1. Moves(c, "aborting", "timeout", calls[c].rids)
    BY <1>4, TimeoutStep DEF CallStep
  <2>2. /\ completed' = completed /\ failed' = failed
        /\ calls[c].kind = "batch" /\ calls[c].stage = "running"
    BY <1>4 DEF Timeout, In
  <2> QED BY <1>0, <2>1, <2>2, CountedMove DEF FailureCounted
<1>5. ASSUME NEW c \in Calls, Catch(c) PROVE Counted'
  <2>1. Moves(c, "aborting", calls[c].exc, calls[c].rids)
    BY <1>5, CatchStep DEF CallStep
  <2>2. /\ completed' = completed /\ calls[c].exc # "none" /\ calls[c].stage = "running"
        /\ failed' = failed + (IF calls[c].kind = "hooked" THEN 1 ELSE 0)
    BY <1>5 DEF Catch, In
  <2>3. calls[c].kind = "hooked" => Size(c) = 1
    BY DEF HookedAlone
  <2> QED BY <1>0, <2>1, <2>2, <2>3, CountedMove DEF FailureCounted
<1>6. ASSUME NEW c \in Calls, AbortNext(c) PROVE Counted'
  <2>1. Moves(c, "aborting", calls[c].exc, Tail(calls[c].toAbort))
    BY <1>6, AbortNextStep DEF CallStep
  <2>2. completed' = completed /\ failed' = failed /\ calls[c].stage = "aborting"
    BY <1>6 DEF AbortNext, In
  <2> QED BY <1>0, <2>1, <2>2, CountedMove DEF FailureCounted
<1>7. ASSUME NEW c \in Calls, Raise(c) PROVE Counted'
  <2>1. Moves(c, "answered", calls[c].exc, calls[c].toAbort)
    BY <1>7, RaiseStep DEF CallStep
  <2>2. /\ completed' = completed /\ calls[c].stage = "aborting" /\ calls[c].exc # "none"
        /\ failed' = failed + (IF calls[c].kind = "batch" THEN Size(c) ELSE 0)
    BY <1>7 DEF Raise, In, IInv, Answers
  <2>3. calls[c].kind \in {"batch", "hooked"}
    BY <1>0, Fields
  <2> QED BY <1>0, <2>1, <2>2, <2>3, CountedMove DEF FailureCounted
<1>8. ASSUME NEW c \in Calls, HookStop(c) PROVE Counted'
  <2>1. Moves(c, "stopping", calls[c].exc, calls[c].toAbort)
    BY <1>8, HookStopStep DEF CallStep
  <2>2. completed' = completed /\ failed' = failed /\ calls[c].exc = "none"
    BY <1>8 DEF HookStop
  <2> QED BY <1>0, <2>1, <2>2, CountedMove DEF FailureCounted
<1>9. ASSUME NEW c \in Calls, HookRaises(c) PROVE Counted'
  <2>1. Moves(c, "running", "other", calls[c].toAbort)
    BY <1>9, HookRaisesStep DEF CallStep
  <2>2. completed' = completed /\ failed' = failed /\ calls[c].exc = "none"
    BY <1>9 DEF HookRaises
  <2> QED BY <1>0, <2>1, <2>2, CountedMove DEF FailureCounted
<1>10. ASSUME NEW c \in Calls, StopAbort(c) PROVE Counted'
  <2>1. PICK s \in {"running", "stopped"}, e \in Exceptions :
          Moves(c, s, e, calls[c].toAbort)
    BY <1>10, StopAbortStep DEF CallStep
  <2>2. /\ completed' = completed /\ failed' = failed /\ calls[c].exc = "none"
    BY <1>10 DEF StopAbort, In, IInv, Answers
  <2> QED BY <1>0, <2>1, <2>2, CountedMove DEF FailureCounted
<1>11. CASE StreamRaises
  <2>1. /\ Len(calls') = Len(calls) /\ Calls' = Calls
        /\ \A c \in Calls :
             /\ calls'[c].rids = calls[c].rids /\ calls'[c].kind = calls[c].kind
             /\ calls'[c].stage = calls[c].stage
             /\ calls'[c].exc = calls[c].exc \/ calls[c].stage = "running"
    BY <1>11, StreamRaisesKeeps
  <2>2. Completed' = Completed /\ GivenUp' = GivenUp
    BY <2>1 DEF Completed, GivenUp, Succeeded, FailureCounted
  <2>3. UNCHANGED <<completed, failed>>
    BY <1>11 DEF StreamRaises
  <2> QED BY <1>0, <2>1, <2>2, <2>3, CountedStill
<1>12. CASE HealthCheck \/ HealthAnswer \/ StreamEnds \/ EngineDies \/ Finished
  BY <1>1, <1>12 DEF HealthCheck, HealthAnswer, StreamEnds, EngineDies, Finished, vars
<1>13. CASE UNCHANGED vars
  BY <1>1, <1>13 DEF vars
<1> QED
  BY <1>2, <1>3, <1>4, <1>5, <1>6, <1>7, <1>8, <1>9, <1>10, <1>11, <1>12, <1>13
  DEF Next, BeginBatch, BeginHooked

\* The fold of the property is a sum of sizes.
LEMMA SizesSummed ==
  ASSUME Shaped, NEW S \in SUBSET Calls
  PROVE  MapThenSumSet(Size, S) = SumOver(Sizes, S)
<1> DEFINE Rule(f) == [s \in SUBSET S |->
             IF s = {} THEN 0
             ELSE Size(CHOOSE x \in s : TRUE) + f[s \ {CHOOSE x \in s : TRUE}]]
           h == CHOOSE f : f = Rule(f)
           g == [c \in S |-> Sizes[c]]
<1>1. MapThenSumSet(Size, S) = h[S]
  BY DEF MapThenSumSet, MapThenFoldSet
<1>2. /\ Sizes \in [Calls -> Nat] /\ IsFiniteSet(S)
      /\ \A c \in S : g[c] = Size(c)
  <2>1. Len(calls) \in Nat /\ \A r \in Records : Len(r.rids) \in Nat
    BY DEF Shaped, Records
  <2>2. IsFiniteSet(Calls)
    BY <2>1, FS_Interval DEF Calls
  <2>3. \A c \in Calls : calls[c] \in Records
    BY Fields
  <2>4. IsFiniteSet(S)
    BY <2>2, FS_Subset
  <2> QED BY <2>1, <2>3, <2>4 DEF Sizes, Size
<1>3. PICK f : Adds(f, g, S) /\ SumOver(Sizes, S) = f[S]
  BY <1>2, SumAdds
<1>4. g \in [S -> Nat]
  BY <1>2
<1>5. \A s \in SUBSET S : s # {} => g[OneOf(s)] = Size(CHOOSE x \in s : TRUE)
  BY <1>2 DEF OneOf
<1> HIDE DEF g
<1>6. f = Rule(f)
  <2>1. f = [s \in SUBSET S |-> f[s]]
    BY <1>3 DEF Adds
  <2>2. \A s \in SUBSET S : f[s] = Rule(f)[s]
    BY <1>3, <1>5 DEF Adds, OneOf
  <2> QED BY <2>1, <2>2
<1>7. h = Rule(h)
  <2> HIDE DEF Rule
  <2> QED BY <1>6
<1>8. FollowsRule(h, g, S)
  <2> HIDE DEF h
  <2> QED BY <1>5, <1>7 DEF FollowsRule, OneOf
<1>9. Adds(h, g, S)
  <2> HIDE DEF h
  <2> QED BY <1>2, <1>4, <1>8, RuleAdds
<1>10. h[S] <= f[S] /\ f[S] <= h[S] /\ h[S] \in Nat /\ f[S] \in Nat
  <2> HIDE DEF h
  <2>1. \A x \in S : g[x] <= g[x]
    BY <1>4
  <2>2. h[S] <= f[S]
    BY <1>2, <1>3, <1>4, <1>9, <2>1, AddsLess
  <2>3. f[S] <= h[S]
    BY <1>2, <1>3, <1>4, <1>9, <2>1, AddsLess
  <2> QED BY <1>3, <1>9, <2>2, <2>3 DEF Adds
<1> QED
  <2> HIDE DEF h
  <2> QED BY <1>1, <1>3, <1>10

\* Between calls the counters tell how every task was answered, however calls
\* overlapped and failed: none was counted by both of the places that count
\* failures, nor by neither.
THEOREM TasksCountedOnce == Spec => []CountersMatch
<1>1. IInv /\ Counted => CountersMatch
  <2> SUFFICES ASSUME IInv, Counted, Open = {}
               PROVE  /\ completed = MapThenSumSet(Size, {c \in Calls : Succeeded(c)})
                      /\ failed = MapThenSumSet(Size, {c \in Calls : ~Succeeded(c)})
    BY DEF CountersMatch
  <2>1. GivenUp = {c \in Calls : ~Succeeded(c)}
    BY DEF GivenUp, Open, Succeeded, FailureCounted
  <2>2. Completed \in SUBSET Calls /\ GivenUp \in SUBSET Calls /\ Shaped
    BY DEF Completed, GivenUp, IInv
  <2>3. /\ MapThenSumSet(Size, Completed) = SumOver(Sizes, Completed)
        /\ MapThenSumSet(Size, GivenUp) = SumOver(Sizes, GivenUp)
    BY <2>2, SizesSummed
  <2> QED BY <2>1, <2>3 DEF Counted, Completed
<1>2. Init => IInv /\ HookedAlone /\ Counted
  BY InitIInv, CountedInit DEF Init, HookedAlone, Calls
<1>3. IInv /\ HookedAlone /\ Counted /\ [Next]_vars => (IInv /\ HookedAlone /\ Counted)'
  BY NextIInv, HookedStep, CountedNext
<1> QED BY <1>1, <1>2, <1>3, PTL DEF Spec
=============================================================================
