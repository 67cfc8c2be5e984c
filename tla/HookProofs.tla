----------------------------- MODULE HookProofs -----------------------------
(***************************************************************************)
(* The overlap window of EarlyStoppingHook is right for every list of      *)
(* triggers and every generation, but for triggers that are completed in   *)
(* text it no longer overlaps; where text only grows there are none.       *)
(***************************************************************************)
EXTENDS HookScan, ProofLemmas

\* What a next scan finds: all that the hook was called with has been scanned.
IInv ==
  /\ text \in Seq(Chars) /\ accumulated \in Seq(Chars) /\ scanned_upto \in Nat
  /\ ~stopped /\ Triggers # << >> => scanned_upto = Len(accumulated)
  /\ StopsOnAnyTrigger

-----------------------------------------------------------------------------
(* The longest trigger, and the first found. *)

\* The longest trigger is at least as long as each.
LEMMA MaxTriggerLenBounds ==
  /\ MaxTriggerLen \in Nat
  /\ \A i \in DOMAIN Triggers : Len(Triggers[i]) <= MaxTriggerLen
<1> DEFINE Lens(m) == {0} \cup {Len(Triggers[i]) : i \in 1 .. m}
           Top(m) == \E x \in Lens(m) : \A y \in Lens(m) : x >= y
           Bad == {m \in 0 .. Len(Triggers) : ~Top(m)}
<1>0. /\ Len(Triggers) \in Nat /\ DOMAIN Triggers = 1 .. Len(Triggers)
      /\ \A i \in 1 .. Len(Triggers) : Len(Triggers[i]) \in Nat
  BY TriggersAssumption
<1>1. Bad = {}
  <2> SUFFICES ASSUME Bad # {} PROVE FALSE
    OBVIOUS
  <2>1. PICK m \in Bad : \A y \in Bad : m <= y
    <3>1. Bad \subseteq Nat
      BY <1>0
    <3> HIDE DEF Bad
    <3> QED BY <3>1, LeastNumber
  <2>2. m # 0
    <3>1. Lens(0) = {0}
      BY DEF Lens
    <3> QED BY <2>1, <3>1
  <2>3. m \in Nat /\ m - 1 \in 0 .. Len(Triggers) /\ m \in 1 .. Len(Triggers)
    BY <1>0, <2>1, <2>2
  <2>4. Top(m - 1)
    <3>1. m - 1 \notin Bad
      <4> HIDE DEF Bad
      <4> QED BY <2>1, <2>3
    <3> HIDE DEF Top
    <3> QED BY <2>3, <3>1
  <2>5. PICK x \in Lens(m - 1) : \A y \in Lens(m - 1) : x >= y
    BY <2>4
  <2>6. Lens(m) = Lens(m - 1) \cup {Len(Triggers[m])}
    BY <2>3
  <2>7. Lens(m) \subseteq Nat /\ x \in Nat
    BY <1>0, <2>3, <2>5
  <2>8. Len(Triggers[m]) \in Nat
    BY <1>0, <2>3
  <2> HIDE DEF Lens
  <2>9. CASE x >= Len(Triggers[m])
    BY <2>1, <2>5, <2>6, <2>9
  <2>10. CASE ~(x >= Len(Triggers[m]))
    <3>1. \A y \in Lens(m - 1) : x >= y /\ y \in Nat
      BY <2>5, <2>6, <2>7
    <3>2. \A y \in Lens(m) : y \in Lens(m - 1) \/ y = Len(Triggers[m])
      BY <2>6
    <3>3. \A y \in Lens(m) : Len(Triggers[m]) >= y
      <4>1. PICK l \in Nat : l = Len(Triggers[m])
        BY <2>8
      <4>2. ~(x >= l)
        BY <2>10, <4>1
      <4>3. \A y \in Lens(m - 1) : l >= y
        BY <2>7, <3>1, <4>1, <4>2
      <4> QED BY <3>2, <4>1, <4>3
    <3> QED BY <2>1, <2>6, <3>3
  <2> QED BY <2>9, <2>10
<1>2. Top(Len(Triggers))
  <2> HIDE DEF Top
  <2> QED BY <1>0, <1>1
<1>3. Lens(Len(Triggers)) = {0} \cup {Len(Triggers[i]) : i \in DOMAIN Triggers}
  BY <1>0
<1>4. /\ MaxTriggerLen \in Lens(Len(Triggers))
      /\ \A y \in Lens(Len(Triggers)) : MaxTriggerLen >= y
  <2> HIDE DEF Lens
  <2> QED BY <1>2, <1>3 DEF MaxTriggerLen, Max
<1> QED BY <1>0, <1>3, <1>4

\* The trigger reported is the first of those found, 0 if there is none.
LEMMA FirstFound ==
  ASSUME NEW s, NEW start
  PROVE  /\ FoundFrom(s, start) = {} => First(FoundFrom(s, start)) = 0
         /\ FoundFrom(s, start) # {} =>
              /\ First(FoundFrom(s, start)) \in FoundFrom(s, start)
              /\ First(FoundFrom(s, start)) \in 1 .. Len(Triggers)
              /\ \A j \in FoundFrom(s, start) : First(FoundFrom(s, start)) <= j
<1> DEFINE found == FoundFrom(s, start)
<1>1. found \subseteq 1 .. Len(Triggers) /\ Len(Triggers) \in Nat
  BY TriggersAssumption DEF FoundFrom
<1> HIDE DEF found
<1>2. CASE found = {}
  BY <1>2 DEF First, found
<1>3. CASE found # {}
  <2>0. found \subseteq Nat
    BY <1>1
  <2>1. \E x \in found : \A y \in found : x <= y
    BY <1>3, <2>0, LeastNumber
  <2>2. First(found) \in found /\ \A y \in found : First(found) <= y
    BY <1>3, <2>1 DEF First
  <2>3. First(found) \in 1 .. Len(Triggers)
    BY <1>1, <2>2
  <2> QED BY <1>3, <2>2, <2>3 DEF found
<1> QED BY <1>2, <1>3

-----------------------------------------------------------------------------
(* The window. *)

\* An occurrence that begins before the window ends in the text already scanned.
LEMMA BeforeWindow ==
  ASSUME scanned_upto \in Nat, NEW i \in DOMAIN Triggers, NEW k \in Nat, k < WindowStart
  PROVE  /\ k + MaxTriggerLen <= scanned_upto /\ k + Len(Triggers[i]) <= scanned_upto
         /\ Len(Triggers[i]) \in Nat
<1>1. Len(Triggers[i]) \in Nat /\ Len(Triggers[i]) <= MaxTriggerLen /\ MaxTriggerLen \in Nat
  BY TriggersAssumption, MaxTriggerLenBounds
<1> QED BY <1>1 DEF WindowStart

\* If nothing was reported of what was scanned before, a trigger that begins before
\* the window is one of those that may be missed.
LEMMA WindowSuffices ==
  ASSUME IInv, ~stopped, NEW s \in Seq(Chars), ShouldStop(s),
         NEW i \in DOMAIN Triggers, NEW k \in Nat, k < WindowStart, At(Triggers[i], s, k)
  PROVE  Missed(i, k)'
<1>1. PICK u \in Nat, l \in Nat :
        /\ u = Len(accumulated) /\ l = Len(Triggers[i])
        /\ k + MaxTriggerLen <= u /\ k + l <= u
  <2>1. Triggers # << >>
    BY TriggersAssumption
  <2>2. scanned_upto = Len(accumulated) /\ Len(accumulated) \in Nat /\ scanned_upto \in Nat
    BY <2>1 DEF IInv
  <2> QED BY <2>2, BeforeWindow
<1>2. DOMAIN accumulated = 1 .. u
  BY <1>1 DEF IInv
<1>3. late' = late \cup {<<p, u>> : p \in {q \in 1 .. u : s[q] # accumulated[q]}}
  BY <1>1, <1>2 DEF ShouldStop
<1>4. CASE \E j \in 1 .. l : s[k + j] # accumulated[k + j]
  <2>1. PICK j \in 1 .. l : s[k + j] # accumulated[k + j]
    BY <1>4
  <2>2. PICK p \in 1 .. u : p = k + j
    BY <1>1, <2>1
  <2>3. <<p, u>> \in late'
    BY <1>3, <2>1, <2>2
  <2>4. PICK c : c = <<p, u>>
    OBVIOUS
  <2>5. c \in late' /\ k < c[1] /\ c[1] <= k + l /\ k + MaxTriggerLen <= c[2]
    BY <1>1, <2>2, <2>3, <2>4
  <2> QED BY <1>1, <2>5 DEF Missed
<1>5. CASE \A j \in 1 .. l : s[k + j] = accumulated[k + j]
  <2>1. At(Triggers[i], accumulated, k)
    BY <1>1, <1>5 DEF At
  <2>2. k \in 0 .. Len(accumulated) - Len(Triggers[i])
    BY <1>1
  <2>3. triggered_by = 0
    BY DEF IInv, StopsOnAnyTrigger
  <2>4. Missed(i, k)
    BY <2>1, <2>2, <2>3 DEF IInv, StopsOnAnyTrigger
  <2> QED BY <1>3, <2>4 DEF Missed
<1> QED BY <1>4, <1>5

-----------------------------------------------------------------------------
(* The generation. *)

\* Nothing is scanned at first.
LEMMA InitIInv == Init => IInv
<1> SUFFICES ASSUME Init PROVE IInv
  OBVIOUS
<1>1. \A i \in DOMAIN Triggers : 0 .. Len(<< >>) - Len(Triggers[i]) = {}
  <2>1. \A i \in DOMAIN Triggers : Len(Triggers[i]) \in Nat /\ Len(Triggers[i]) # 0
    BY TriggersAssumption
  <2> QED BY <2>1
<1>2. << >> \in Seq(Chars) /\ Len(<< >>) = 0
  OBVIOUS
<1> QED BY <1>1, <1>2 DEF Init, IInv, StopsOnAnyTrigger

\* A scan, of whatever the text has become.
LEMMA ScanStep ==
  ASSUME IInv, ~stopped, NEW s \in Seq(Chars), text' = s, ShouldStop(s)
  PROVE  IInv'
<1> DEFINE found == FoundFrom(s, WindowStart)
<1>0. WindowStart \in Nat
  BY MaxTriggerLenBounds DEF WindowStart, IInv
<1>1. /\ accumulated' = s /\ triggered_by' = First(found)
      /\ stopped' = (triggered_by' # 0)
      /\ scanned_upto' = IF triggered_by' = 0 /\ Triggers # << >> THEN Len(s) ELSE scanned_upto
  BY DEF ShouldStop
<1>2. /\ found = {} => First(found) = 0
      /\ found # {} => First(found) \in found /\ First(found) \in 1 .. Len(Triggers)
                        /\ \A j \in found : First(found) <= j
  BY FirstFound
<1>3. found \subseteq FoundFrom(s, 0) /\ found \subseteq Nat
  BY <1>0, TriggersAssumption DEF FoundFrom
<1>4. ASSUME NEW i \in DOMAIN Triggers, NEW k \in 0 .. Len(s) - Len(Triggers[i]),
             At(Triggers[i], s, k), ~Missed(i, k)'
      PROVE  First(found) \in 1 .. i
  <2>1. k \in Nat /\ Len(s) \in Nat /\ Len(Triggers[i]) \in Nat
    BY TriggersAssumption
  <2>2. ~(k < WindowStart)
    BY <1>4, <2>1, WindowSuffices
  <2>3. k \in WindowStart .. Len(s) - Len(Triggers[i])
    BY <1>0, <2>1, <2>2
  <2>4. i \in found
    BY <1>4, <2>3 DEF FoundFrom
  <2> HIDE DEF found
  <2>5. First(found) <= i /\ First(found) \in Nat /\ First(found) >= 1 /\ i \in Nat
    BY <1>2, <1>3, <2>4, TriggersAssumption
  <2> QED BY <2>5
<1> HIDE DEF found
<1>5. StopsOnAnyTrigger'
  <2>1. stopped' <=> triggered_by' # 0
    BY <1>1, Zenon
  <2>2. triggered_by' # 0 => triggered_by' \in FoundFrom(s, 0)
    BY <1>1, <1>2, <1>3
  <2>3. FoundFrom(accumulated, 0)' = FoundFrom(s, 0)
    BY <1>1 DEF FoundFrom, At
  <2>4. ASSUME NEW i \in DOMAIN Triggers, NEW k \in 0 .. Len(s) - Len(Triggers[i])
        PROVE  At(Triggers[i], s, k) /\ ~Missed(i, k)' => triggered_by' \in 1 .. i
    BY <1>1, <1>4
  <2> QED BY <1>1, <2>1, <2>2, <2>3, <2>4 DEF StopsOnAnyTrigger, At
<1>6. scanned_upto' \in Nat /\ (~stopped' /\ Triggers # << >> => scanned_upto' = Len(s))
  <2>1. scanned_upto \in Nat /\ Len(s) \in Nat
    BY DEF IInv
  <2>2. ~stopped' => triggered_by' = 0
    BY <1>1, Zenon
  <2> QED BY <1>1, <2>1, <2>2
<1> QED BY <1>1, <1>5, <1>6 DEF IInv

\* Some characters more, in place of others or not, are a text.
LEMMA TextsOfAStep ==
  ASSUME text \in Seq(Chars), NEW s \in Grown \cup Redecoded
  PROVE  s \in Seq(Chars)
<1>0. \A d \in Deltas : d \in Seq(Chars)
  BY BoundsAssumption DEF Deltas
<1>1. CASE s \in Grown
  <2>1. PICK d \in Deltas : s = text \o d
    BY <1>1, Zenon DEF Grown
  <2> QED BY <1>0, <2>1
<1>2. CASE s \in Redecoded
  <2>1. PICK k \in DOMAIN text, d \in Deltas : s = SubSeq(text, 1, k - 1) \o d
    BY <1>2 DEF Redecoded
  <2>2. PICK b : b = SubSeq(text, 1, k - 1) /\ b \in Seq(Chars)
    <3>1. SubSeq(text, 1, k - 1) \in Seq(Chars)
      <4>1. PICK n \in Nat : n = Len(text) /\ k \in 1 .. n
        OBVIOUS
      <4>2. \A j \in 1 .. k - 1 : text[j] \in Chars
        BY <4>1
      <4> QED BY <4>1, <4>2
    <3> QED BY <3>1
  <2> QED BY <1>0, <2>1, <2>2
<1> QED BY <1>1, <1>2

\* A step scans the text it leaves, or leaves the hook alone.
LEMMA HookSteps ==
  ASSUME text \in Seq(Chars), Next
  PROVE  /\ ~stopped
         /\ \E s \in Seq(Chars) :
              /\ s \in Grown \cup Redecoded /\ text' = s
              /\ \/ ShouldStop(s)
                 \/ /\ Len(s) <= Len(accumulated)
                    /\ UNCHANGED <<accumulated, scanned_upto, triggered_by, stopped, late>>
<1>1. CASE HFStep
  <2>1. PICK s \in Grown \cup Redecoded :
          /\ text' = s
          /\ IF Len(s) <= Len(accumulated)
             THEN UNCHANGED <<accumulated, scanned_upto, triggered_by, stopped, late>>
             ELSE ShouldStop(s)
    BY <1>1 DEF HFStep
  <2>2. s \in Seq(Chars)
    BY TextsOfAStep
  <2> QED BY <1>1, <2>1, <2>2 DEF HFStep
<1>2. CASE VLLMStep
  <2>1. PICK s \in Grown : text' = s /\ ShouldStop(s)
    BY <1>2 DEF VLLMStep
  <2>2. s \in Seq(Chars)
    BY TextsOfAStep
  <2> QED BY <1>2, <2>1, <2>2 DEF VLLMStep
<1> QED BY <1>1, <1>2 DEF Next

\* The hook is left alone.
LEMMA NoScan ==
  ASSUME IInv, text' \in Seq(Chars),
         UNCHANGED <<accumulated, scanned_upto, triggered_by, stopped, late>>
  PROVE  IInv'
BY DEF IInv, StopsOnAnyTrigger, FoundFrom, At, Missed

\* Every step keeps the invariant.
LEMMA NextIInv == IInv /\ [Next]_vars => IInv'
<1> SUFFICES ASSUME IInv, [Next]_vars PROVE IInv'
  OBVIOUS
<1>1. CASE Next
  <2>1. text \in Seq(Chars)
    BY DEF IInv
  <2>2. PICK s \in Seq(Chars) :
          /\ text' = s
          /\ \/ ShouldStop(s)
             \/ UNCHANGED <<accumulated, scanned_upto, triggered_by, stopped, late>>
    BY <1>1, <2>1, HookSteps
  <2>3. ~stopped
    BY <1>1, <2>1, HookSteps
  <2> QED BY <2>2, <2>3, ScanStep, NoScan
<1>2. CASE UNCHANGED vars
  BY <1>2, NoScan DEF vars, IInv
<1> QED BY <1>1, <1>2

\* EarlyStoppingHook misses no trigger, with any triggers and any lengths of the
\* steps, but one that a redecoding completes where the window no longer reaches:
\* any other that occurs anywhere in the text stops the generation, unless one
\* before it in the list does.
THEOREM WindowMissesNothing == Spec => []StopsOnAnyTrigger
<1>1. IInv => StopsOnAnyTrigger
  BY DEF IInv
<1> QED BY InitIInv, NextIInv, <1>1, PTL DEF Spec

-----------------------------------------------------------------------------
(* Text that only grows. *)

\* The trigger reported is the one a search of the whole text would report.
AsWholeText == triggered_by = First(FoundFrom(accumulated, 0))

\* Nothing scanned has changed since.
Unchanged == late = {} /\ (~stopped => accumulated = text)

\* Nothing changes that was decoded from whole characters.
LEMMA UnchangedNext ==
  ASSUME Incomplete \notin Chars, IInv, Unchanged, [Next]_vars
  PROVE  Unchanged'
<1>1. CASE Next
  <2>1. text \in Seq(Chars)
    BY DEF IInv
  <2>2. ~stopped /\ accumulated = text /\ late = {}
    BY <1>1, <2>1, HookSteps DEF Unchanged
  <2>3. Redecoded = {}
    <3>1. \A k \in DOMAIN text : text[k] # Incomplete /\ k \in k .. Len(text)
      BY <2>1
    <3> QED BY <3>1 DEF Redecoded
  <2>4. PICK s \in Seq(Chars) :
          /\ s \in Grown \cup Redecoded /\ text' = s
          /\ \/ ShouldStop(s)
             \/ /\ Len(s) <= Len(accumulated)
                /\ UNCHANGED <<accumulated, scanned_upto, triggered_by, stopped, late>>
    BY <1>1, <2>1, HookSteps
  <2>5. PICK d \in Seq(Chars) : s = text \o d
    BY <2>3, <2>4, BoundsAssumption DEF Grown, Deltas
  <2>6. CASE ShouldStop(s)
    <3>1. {q \in DOMAIN accumulated : s[q] # accumulated[q]} = {}
      BY <2>1, <2>2, <2>5
    <3> QED BY <2>2, <2>4, <2>6, <3>1 DEF ShouldStop, Unchanged
  <2>7. CASE /\ Len(s) <= Len(accumulated)
             /\ UNCHANGED <<accumulated, scanned_upto, triggered_by, stopped, late>>
    <3>1. s = text
      BY <2>1, <2>2, <2>5, <2>7
    <3> QED BY <2>2, <2>4, <2>7, <3>1 DEF Unchanged
  <2> QED BY <2>4, <2>6, <2>7
<1>2. CASE UNCHANGED vars
  BY <1>2 DEF vars, Unchanged
<1> QED BY <1>1, <1>2

\* If nothing has changed, no trigger is missed.
LEMMA WholeText ==
  ASSUME IInv, Unchanged
  PROVE  AsWholeText
<1> DEFINE found == FoundFrom(accumulated, 0)
<1>1. /\ found = {} => First(found) = 0
      /\ found # {} => First(found) \in found /\ \A j \in found : First(found) <= j
  BY FirstFound
<1>2. found \subseteq Nat
  BY TriggersAssumption DEF FoundFrom
<1>3. \A i, k : ~Missed(i, k)
  BY DEF Missed, Unchanged
<1>4. \A i \in found : triggered_by \in 1 .. i
  BY <1>3 DEF IInv, StopsOnAnyTrigger, FoundFrom
<1>5. triggered_by # 0 => triggered_by \in found
  BY DEF IInv, StopsOnAnyTrigger
<1> HIDE DEF found
<1>6. CASE found = {}
  BY <1>1, <1>5, <1>6 DEF AsWholeText, found
<1>7. CASE found # {}
  <2>1. PICK f \in found : f = First(found) /\ \A j \in found : f <= j
    BY <1>1, <1>7
  <2>2. triggered_by \in 1 .. f /\ triggered_by \in found
    BY <1>2, <1>4, <1>5, <2>1
  <2>3. triggered_by = f
    BY <1>2, <2>1, <2>2
  <2> QED BY <2>1, <2>3 DEF AsWholeText, found
<1> QED BY <1>6, <1>7

\* Where no incomplete character is decoded, as in vLLM's stream, the windowed
\* search reports exactly what a search of the whole text would.
THEOREM GrowingTextIsSearchedWhole ==
  ASSUME Incomplete \notin Chars
  PROVE  Spec => []AsWholeText
<1>1. Init => IInv /\ Unchanged
  BY InitIInv DEF Init, Unchanged
<1>2. IInv /\ Unchanged /\ [Next]_vars => (IInv /\ Unchanged)'
  BY NextIInv, UnchangedNext
<1>3. IInv /\ Unchanged => AsWholeText
  BY WholeText
<1> QED BY <1>1, <1>2, <1>3, PTL DEF Spec
=============================================================================
