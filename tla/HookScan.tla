------------------------------ MODULE HookScan ------------------------------
(***************************************************************************)
(* hooks.EarlyStoppingHook driven by a generation in progress.  At every   *)
(* step the backend calls the hook with all the text generated so far; the *)
(* hook searches only a window of it: what is new since its last scan, and *)
(* as much before as a trigger that straddles the boundary may need.       *)
(*                                                                         *)
(* vLLM streams text that only grows.  The HF criterion decodes all tokens *)
(* anew at every step, so the characters that stand for an incomplete byte *)
(* sequence may be replaced when the next token completes it, in text that *)
(* has been scanned; and nothing is scanned if the text is no longer then. *)
(***************************************************************************)
EXTENDS Integers, Sequences, FiniteSetsExt

CONSTANTS
  Backends,    \* which generation loops to consider: "hf", "vllm"
  Chars,       \* the characters a step may produce
  Incomplete,  \* what decode shows for an incomplete byte sequence
  Lower,       \* str.lower on characters; the identity if case_sensitive
  Triggers,    \* the hook's list of triggers
  MaxDelta,    \* bound: characters per step
  MaxText      \* bound: characters per generation

ASSUME BackendsAssumption == Backends \subseteq {"hf", "vllm"}
ASSUME LowerAssumption == DOMAIN Lower = Chars
ASSUME TriggersAssumption ==
  Triggers \in Seq(Seq(Chars)) /\ \A i \in DOMAIN Triggers : Triggers[i] # << >>
ASSUME BoundsAssumption == MaxDelta \in Nat /\ MaxText \in Nat

VARIABLES
  backend,        \* the loop that runs the hook
  text,           \* the completion as decoded after the last step
  accumulated,    \* the text the hook has last been called with
  scanned_upto,   \* _scanned_upto
  triggered_by,   \* index of the trigger found, 0 for None
  stopped,        \* stopped_early: the loop has halted on the hook's word
  late            \* for the properties: <<p, u>> if a scan up to the character u
                  \* saw another one at p <= u than the next scan did

vars == <<backend, text, accumulated, scanned_upto, triggered_by, stopped, late>>

MaxTriggerLen == Max({0} \cup {Len(Triggers[i]) : i \in DOMAIN Triggers})

Init ==
  /\ backend \in Backends
  /\ text = << >>
  /\ accumulated = << >>
  /\ scanned_upto = 0
  /\ triggered_by = 0
  /\ stopped = FALSE
  /\ late = {}

\* Trigger t stands in s with k characters before it.
At(t, s, k) == \A j \in 1 .. Len(t) : Lower[s[k + j]] = Lower[t[j]]

\* The triggers that occur in s[start:], and the one the loop over the list
\* comes to first.
FoundFrom(s, start) ==
  {i \in DOMAIN Triggers : \E k \in start .. Len(s) - Len(Triggers[i]) : At(Triggers[i], s, k)}
First(found) == IF found = {} THEN 0
                ELSE CHOOSE i \in found : \A j \in found : i <= j

\* Mutant: the overlap is one character short.
WindowStartShort ==
  LET k == scanned_upto - MaxTriggerLen + 2 IN IF k < 0 THEN 0 ELSE k

WindowStart ==
  LET k == scanned_upto - MaxTriggerLen + 1 IN IF k < 0 THEN 0 ELSE k

\* should_stop(s), and the loop that breaks if it says so.
ShouldStop(s) ==
  /\ accumulated' = s
  /\ late' = late \cup {<<p, Len(accumulated)>> :
                         p \in {q \in DOMAIN accumulated : s[q] # accumulated[q]}}
  /\ triggered_by' = First(FoundFrom(s, WindowStart))
  /\ stopped' = (triggered_by' # 0)
  /\ scanned_upto' = IF triggered_by' = 0 /\ Triggers # << >> THEN Len(s) ELSE scanned_upto

\* The texts one more step may leave: some characters more, and, where all is
\* decoded anew, some for what was shown for the first bytes of one (once for all
\* of them, or for each).
Deltas == UNION {[1 .. d -> Chars] : d \in 0 .. MaxDelta}
Grown == {text \o d : d \in Deltas}
Redecoded ==
  LET From == {k \in DOMAIN text : \A j \in k .. Len(text) : text[j] = Incomplete}
  IN  UNION {{SubSeq(text, 1, k - 1) \o d : d \in Deltas \ {<< >>}} : k \in From}

\* _HookCriterion.__call__: no new characters, no scan.
HFStep ==
  /\ backend = "hf"
  /\ ~stopped
  /\ \E full_text \in Grown \cup Redecoded :
       /\ Len(full_text) <= MaxText
       /\ text' = full_text
       /\ IF Len(full_text) <= Len(accumulated)
          THEN UNCHANGED <<accumulated, scanned_upto, triggered_by, stopped, late>>
          ELSE ShouldStop(full_text)
  /\ UNCHANGED backend

\* The async for of VLLMWorkerImpl.evaluate_with_hooks: a scan at every output.
VLLMStep ==
  /\ backend = "vllm"
  /\ ~stopped
  /\ \E output \in Grown :
       /\ Len(output) <= MaxText
       /\ text' = output
       /\ ShouldStop(output)
  /\ UNCHANGED backend

Next == HFStep \/ VLLMStep

Spec == Init /\ [][Next]_vars
-----------------------------------------------------------------------------
(* Correctness. *)

\* The one way for a trigger with k characters before it to go unnoticed: one of
\* its characters was completed after a scan whose overlap no longer reached back to
\* where it begins.
Missed(i, k) ==
  \E c \in late : /\ k < c[1] /\ c[1] <= k + Len(Triggers[i])
                  /\ k + MaxTriggerLen <= c[2]

\* The window is as good as the text, but for such triggers: the generation has
\* stopped exactly when a trigger was reported; that one occurs in what was last
\* scanned; and no other that occurs anywhere in it comes before it in the list.
StopsOnAnyTrigger ==
  /\ stopped <=> triggered_by # 0
  /\ triggered_by # 0 => triggered_by \in FoundFrom(accumulated, 0)
  /\ \A i \in DOMAIN Triggers : \A k \in 0 .. Len(accumulated) - Len(Triggers[i]) :
       At(Triggers[i], accumulated, k) /\ ~Missed(i, k) => triggered_by \in 1 .. i
=============================================================================
