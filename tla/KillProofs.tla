----------------------------- MODULE KillProofs -----------------------------
(***************************************************************************)
(* What the report of a kill test says is true of the run, for every       *)
(* number of rows, samples and failures, any length of a second, a day and *)
(* a grace period, and whenever the run, the kill and the sampler's scans  *)
(* took place.  What the report takes from the stamps of the log holds if  *)
(* the head's clock shows UTC; the rest whatever it shows.                 *)
(***************************************************************************)
EXTENDS KillTest, ProofLemmas, SequenceTheorems

\* The constants' types.
LEMMA Numbers ==
  /\ T0 \in Nat /\ MaxTime \in Nat /\ Slack \in Nat /\ Lead \in Nat /\ Grace \in Nat
  /\ DuringMax \in Nat /\ RetryMax \in Nat /\ None = -1
  /\ Second \in Nat \ {0} /\ Day \in Nat \ {0}
  /\ Second <= Slack /\ Second <= Lead /\ Day % Second = 0 /\ MaxTime + Slack < Day
  /\ UtcOffset \in Int
<1>1. /\ T0 \in Nat /\ MaxTime \in Nat /\ Slack \in Nat /\ Lead \in Nat /\ Grace \in Nat
      /\ DuringMax \in Nat /\ RetryMax \in Nat /\ Second \in Nat /\ Day \in Nat
  BY TimesAssumption
<1> QED BY <1>1, TimesAssumption DEF None

Rows == [replacement : BOOLEAN, at : Nat]
LogLines == [at : Nat, stamp : Nat, kind : {"ready", "failure", "retry"}, tasks : Nat]
Samples == [epoch : Nat, total : Nat, repl : Nat, read : Nat]

\* TypeOK, with what it leaves out; no time is ahead of the clock.
Shape ==
  /\ now \in Nat /\ T0 <= now /\ now <= T0 + MaxTime
  /\ over \in BOOLEAN /\ half \in BOOLEAN /\ promoted \in BOOLEAN
  /\ rows \in Seq(Rows) /\ \A k \in 1 .. Len(rows) : rows[k].at \in T0 .. now
  /\ log \in Seq(LogLines)
  /\ \A k \in 1 .. Len(log) : log[k].at \in T0 .. now /\ log[k].stamp = Asctime(log[k].at)
  /\ samples \in Seq(Samples) /\ \A k \in 1 .. Len(samples) : samples[k].epoch <= now
  /\ killed = None \/ killed \in T0 .. now
  /\ marker = None \/ marker \in T0 .. now
  /\ readAt = None \/ readAt \in T0 .. now
  /\ offset \in Nat /\ total \in Nat /\ repl \in Nat

\* Rows are written in the order of their times.
InOrder ==
  \A j, k \in 1 .. Len(rows) : j < k => rows[j].at <= rows[k].at

\* tot rows, rp of them of replacements, is what the file held at the time at.
Replaced(m) == {k \in 1 .. m : rows[k].replacement}
Saw(tot, rp, at) ==
  /\ tot \in 0 .. Len(rows) /\ rp = Cardinality(Replaced(tot))
  /\ \A k \in 1 .. tot : rows[k].at <= at
  /\ \A k \in tot + 1 .. Len(rows) : at <= rows[k].at

\* The sampler has read its total's rows, whole; what it has yet to write, and
\* every sample, is what the file held when it read it; and samples follow each
\* other.
Sampled ==
  /\ offset = 2 * total /\ total <= Len(rows) /\ repl = Cardinality(Replaced(total))
  /\ readAt # None =>
       /\ Saw(total, repl, readAt)
       /\ \A k \in 1 .. Len(samples) : samples[k].epoch <= readAt
  /\ \A k \in 1 .. Len(samples) :
       /\ Saw(samples[k].total, samples[k].repl, samples[k].read)
       /\ T0 <= samples[k].read /\ samples[k].read <= samples[k].epoch
  /\ \A j, k \in 1 .. Len(samples) : j < k => samples[j].epoch <= samples[k].read

\* Nothing is reported of a run that goes on.
Reported == report.made \in BOOLEAN /\ (report.made => over)

IInv == Shape /\ InOrder /\ Sampled /\ Reported

-----------------------------------------------------------------------------
(* The steps of the run. *)

\* What the file held at some time it still holds of that time.
LEMMA SawGrows ==
  ASSUME rows \in Seq(Rows), NEW r \in Rows, rows' = Append(rows, r),
         NEW tot, NEW rp, NEW at, Saw(tot, rp, at), at <= r.at
  PROVE  Saw(tot, rp, at)'
<1>1. PICK n \in Nat : n = Len(rows)
  OBVIOUS
<1>2. /\ Len(rows') = n + 1 /\ rows'[n + 1] = r
      /\ \A k \in 1 .. n : rows'[k] = rows[k]
  BY <1>1
<1>3. tot \in 0 .. n /\ tot \in 0 .. n + 1
  BY <1>1 DEF Saw
<1>4. Replaced(tot)' = Replaced(tot)
  BY <1>2, <1>3 DEF Replaced
<1>5. \A k \in tot + 1 .. n + 1 : k \in tot + 1 .. n \/ k = n + 1
  BY <1>3
<1>6. \A k \in 1 .. tot : k \in 1 .. n
  BY <1>3
<1>7. \A k \in tot + 1 .. n : k \in 1 .. n
  BY <1>3
<1> QED BY <1>1, <1>2, <1>3, <1>4, <1>5, <1>6, <1>7 DEF Saw

\* The file, the log and the samples are empty.
LEMMA InitIInv == Init => IInv
<1> SUFFICES ASSUME Init PROVE IInv
  OBVIOUS
<1>1. /\ rows = << >> /\ log = << >> /\ samples = << >>
      /\ << >> \in Seq(Rows) /\ << >> \in Seq(LogLines) /\ << >> \in Seq(Samples)
      /\ Len(rows) = 0 /\ Len(log) = 0 /\ Len(samples) = 0
  BY DEF Init
<1>2. Shape
  <2>1. /\ now = T0 /\ over = FALSE /\ half = FALSE /\ promoted = FALSE
        /\ killed = None /\ marker = None /\ readAt = None
        /\ offset = 0 /\ total = 0 /\ repl = 0
    BY DEF Init
  <2>2. now \in Nat /\ T0 <= now /\ now <= T0 + MaxTime
    BY <2>1, Numbers
  <2>3. /\ \A k \in 1 .. Len(rows) : FALSE
        /\ \A k \in 1 .. Len(log) : FALSE
        /\ \A k \in 1 .. Len(samples) : FALSE
    BY <1>1
  <2>4. rows \in Seq(Rows) /\ log \in Seq(LogLines) /\ samples \in Seq(Samples)
    BY <1>1
  <2> QED BY <2>1, <2>2, <2>3, <2>4 DEF Shape
<1>3. Replaced(0) = {} /\ Cardinality({}) = 0
  BY FS_EmptySet DEF Replaced
<1>4. \A k \in 1 .. Len(samples) : FALSE
  BY <1>1
<1>5. /\ offset = 2 * total /\ total <= Len(rows) /\ repl = Cardinality(Replaced(total))
      /\ readAt = None
  <2>1. offset = 0 /\ total = 0 /\ repl = 0 /\ readAt = None
    BY DEF Init
  <2>2. offset = 2 * total /\ total <= Len(rows)
    BY <1>1, <2>1
  <2>3. Replaced(total) = {}
    BY <2>1 DEF Replaced
  <2> QED BY <1>3, <2>1, <2>2, <2>3
<1>6. Sampled
  BY <1>4, <1>5 DEF Sampled
<1>7. InOrder
  BY <1>1 DEF InOrder
<1>8. Reported
  BY DEF Reported, Init, NoReport
<1> QED BY <1>2, <1>6, <1>7, <1>8 DEF IInv

\* A step that leaves the rows and the sampler alone.
LEMMA SampledStays ==
  ASSUME Sampled, UNCHANGED <<rows, samplerVars>>
  PROVE  Sampled'
BY DEF Sampled, Saw, Replaced, samplerVars

\* A failed batch and what comes of it.
Logs == BatchFails \/ RetryBatch \/ Replace

\* The head's clock shows a second of the day.
LEMMA AsctimeType ==
  ASSUME NEW at \in Nat
  PROVE  Asctime(at) \in Nat
<1>1. PICK local \in Int, s \in Nat \ {0}, d \in Nat \ {0} :
        local = at + UtcOffset /\ s = Second /\ d = Day
  BY Numbers
<1>2. PICK x \in Int : x = local - (local % s)
  OBVIOUS
<1>3. x % d \in Nat
  OBVIOUS
<1> QED BY <1>1, <1>2, <1>3 DEF Asctime

\* What is logged is a line of its time.
LEMMA LineFields ==
  ASSUME NEW kind \in {"ready", "failure", "retry"}, NEW k \in Nat, now \in Nat
  PROVE  /\ Line(kind, k) \in LogLines /\ Line(kind, k).at = now
         /\ Line(kind, k).stamp = Asctime(now)
BY AsctimeType DEF Line, LogLines

\* Time goes on or stands still.
LEMMA TimesStay ==
  ASSUME Shape, now' \in Nat, now <= now'
  PROVE  /\ \A k \in 1 .. Len(rows) : rows[k].at \in T0 .. now'
         /\ \A k \in 1 .. Len(log) :
              log[k].at \in T0 .. now' /\ log[k].stamp = Asctime(log[k].at)
         /\ \A k \in 1 .. Len(samples) : samples[k].epoch \in Nat /\ samples[k].epoch <= now'
         /\ killed = None \/ killed \in T0 .. now'
         /\ marker = None \/ marker \in T0 .. now'
         /\ readAt = None \/ readAt \in T0 .. now'
         /\ now \in T0 .. now'
<1>1. now \in Nat /\ T0 \in Nat /\ T0 <= now
  BY Numbers DEF Shape
<1>2. \A x \in T0 .. now : x \in T0 .. now'
  BY <1>1
<1>3. \A k \in 1 .. Len(samples) : samples[k].epoch \in Nat /\ samples[k].epoch <= now
  <2>1. \A k \in 1 .. Len(samples) : samples[k] \in Samples
    BY DEF Shape
  <2> QED BY <2>1 DEF Shape, Samples
<1> QED BY <1>1, <1>2, <1>3 DEF Shape

\* The clock, the kill and the lines of the log.
LEMMA LogStep ==
  ASSUME IInv, Tick \/ Ready \/ WritePart \/ Kill \/ Logs \/ RunEnds
  PROVE  IInv'
<1>0. /\ now \in Nat /\ T0 \in Nat /\ MaxTime \in Nat /\ T0 <= now /\ now <= T0 + MaxTime
      /\ over \in BOOLEAN /\ half \in BOOLEAN /\ promoted \in BOOLEAN /\ Shape
      /\ log \in Seq(LogLines)
      /\ \A j \in 1 .. Len(log) : log[j].at \in T0 .. now /\ log[j].stamp = Asctime(log[j].at)
  BY Numbers DEF IInv, Shape
<1>1. /\ UNCHANGED <<rows, samplerVars, report>>
      /\ now' \in Nat /\ now <= now' /\ now' <= T0 + MaxTime
  <2>1. UNCHANGED <<rows, samplerVars, report>>
    BY DEF Tick, Ready, WritePart, Kill, Logs, BatchFails, RetryBatch, Replace, RunEnds, runVars
  <2>2. now' = now \/ (now' = now + 1 /\ now < T0 + MaxTime)
    BY DEF Tick, Ready, WritePart, Kill, Logs, BatchFails, RetryBatch, Replace, RunEnds
  <2> QED BY <1>0, <2>1, <2>2
<1>2. Sampled' /\ InOrder'
  BY <1>1, SampledStays DEF IInv, InOrder
<1>3. Reported'
  BY <1>1 DEF IInv, Reported, Tick, Ready, WritePart, Kill, Logs, BatchFails, RetryBatch, Replace, RunEnds
<1>4. /\ log' \in Seq(LogLines)
      /\ \A k \in 1 .. Len(log') :
           log'[k].at \in T0 .. now' /\ log'[k].stamp = Asctime(log'[k].at)
  <2>0. now \in T0 .. now
    BY <1>0
  <2>1. CASE log' = log
    BY <1>0, <1>1, <2>1, TimesStay
  <2>2. CASE Ready
    <3>1. PICK l \in LogLines : l = Line("ready", 0) /\ l.at = now /\ l.stamp = Asctime(l.at)
      BY <1>0, LineFields
    <3>2. log' = << l >> /\ now' = now
      BY <2>2, <3>1 DEF Ready
    <3>3. log' \in Seq(LogLines) /\ Len(log') = 1 /\ log'[1] = l
      BY <3>2
    <3> QED BY <2>0, <3>1, <3>2, <3>3
  <2>3. CASE BatchFails \/ RetryBatch
    <3>1. PICK l \in LogLines :
            /\ log' = Append(log, l) /\ now' = now
            /\ l.at = now /\ l.stamp = Asctime(l.at)
      <4>1. CASE BatchFails
        BY <1>0, <4>1, LineFields DEF BatchFails
      <4>2. CASE RetryBatch
        <5>1. PICK k \in RetrySizes : log' = Append(log, Line("retry", k)) /\ now' = now
          BY <4>2 DEF RetryBatch
        <5>2. k \in Nat
          BY RetrySizesAssumption
        <5> QED BY <1>0, <5>1, <5>2, LineFields
      <4> QED BY <2>3, <4>1, <4>2
    <3>2. PICK n \in Nat : n = Len(log)
      BY <1>0
    <3>3. /\ log' \in Seq(LogLines) /\ Len(log') = n + 1 /\ log'[n + 1] = l
          /\ \A j \in 1 .. n : log'[j] = log[j]
      BY <1>0, <3>1, <3>2
    <3>4. \A j \in 1 .. n + 1 : j \in 1 .. n \/ j = n + 1
      OBVIOUS
    <3>5. \A j \in 1 .. n : log[j].at \in T0 .. now /\ log[j].stamp = Asctime(log[j].at)
      BY <1>0, <3>2
    <3> QED BY <2>0, <3>1, <3>3, <3>4, <3>5
  <2> QED BY <2>1, <2>2, <2>3 DEF Tick, WritePart, Kill, Logs, Replace, RunEnds, runVars
<1>5. /\ killed' = None \/ killed' \in T0 .. now'
      /\ marker' = None \/ marker' \in T0 .. now'
      /\ readAt' = None \/ readAt' \in T0 .. now'
  <2>1. readAt' = readAt /\ killed' \in {killed, now} /\ marker' \in {marker, now, None}
    BY DEF Tick, Ready, WritePart, Kill, Logs, BatchFails, RetryBatch, Replace, RunEnds, runVars, samplerVars
  <2> QED BY <1>0, <1>1, <2>1, TimesStay
<1>6. over' \in BOOLEAN /\ half' \in BOOLEAN /\ promoted' \in BOOLEAN
  BY <1>0 DEF Tick, Ready, WritePart, Kill, Logs, BatchFails, RetryBatch, Replace, RunEnds, runVars
<1>7. /\ \A k \in 1 .. Len(rows) : rows[k].at \in T0 .. now'
      /\ \A k \in 1 .. Len(samples) : samples[k].epoch <= now'
  BY <1>0, <1>1, TimesStay
<1>8. Shape'
  BY <1>0, <1>1, <1>4, <1>5, <1>6, <1>7 DEF Shape, samplerVars
<1> QED BY <1>2, <1>3, <1>8 DEF IInv

\* A row is written after all that was read.
LEMMA RowStep ==
  ASSUME IInv, WriteRest
  PROVE  IInv'
<1>0. /\ now \in Nat /\ T0 \in Nat /\ T0 <= now /\ Shape /\ InOrder /\ Sampled
      /\ rows \in Seq(Rows) /\ samples \in Seq(Samples)
  BY Numbers DEF IInv, Shape
<1>1. PICK r \in Rows : rows' = Append(rows, r) /\ r.at = now
  <2>1. PICK rp \in {FALSE, promoted} : rows' = Append(rows, [replacement |-> rp, at |-> now])
    BY DEF WriteRest
  <2>2. [replacement |-> rp, at |-> now] \in Rows
    BY <1>0 DEF Rows, Shape
  <2> QED BY <2>1, <2>2
<1>2. /\ half' = FALSE
      /\ UNCHANGED <<now, over, killed, marker, promoted, log, samplerVars, report>>
  BY DEF WriteRest
<1>3. UNCHANGED <<offset, total, repl, readAt, samples>>
  BY <1>2 DEF samplerVars
<1>4. PICK n \in Nat : n = Len(rows)
  BY <1>0
<1>5. /\ rows' \in Seq(Rows) /\ Len(rows') = n + 1 /\ rows'[n + 1] = r
      /\ \A k \in 1 .. n : rows'[k] = rows[k]
  BY <1>0, <1>1, <1>4
<1>6. \A k \in 1 .. n + 1 : k \in 1 .. n \/ k = n + 1
  OBVIOUS
<1>7. \A k \in 1 .. n : rows[k].at \in T0 .. now
  BY <1>0, <1>4 DEF Shape
<1>8. now \in T0 .. now
  BY <1>0
<1>9. \A k \in 1 .. n + 1 : rows'[k].at \in T0 .. now
  BY <1>1, <1>5, <1>6, <1>7, <1>8
<1>10. Shape'
  BY <1>0, <1>2, <1>3, <1>5, <1>9 DEF Shape
<1>11. InOrder'
  <2> SUFFICES ASSUME NEW j \in 1 .. n + 1, NEW k \in 1 .. n + 1, j < k
               PROVE  rows'[j].at <= rows'[k].at
    BY <1>5 DEF InOrder
  <2>1. j \in 1 .. n
    OBVIOUS
  <2>2. CASE k \in 1 .. n
    BY <1>0, <1>4, <1>5, <2>1, <2>2 DEF InOrder
  <2>3. CASE k = n + 1
    BY <1>0, <1>1, <1>5, <1>7, <2>1, <2>3
  <2> QED BY <1>6, <2>2, <2>3
<1>12. Sampled'
  <2>1. readAt # None => readAt <= now
    BY <1>0 DEF Shape
  <2>2. readAt # None =>
          /\ Saw(total, repl, readAt)'
          /\ \A k \in 1 .. Len(samples) : samples[k].epoch <= readAt
    <3>1. readAt # None => Saw(total, repl, readAt) /\ readAt <= r.at
      BY <1>0, <1>1, <2>1 DEF Sampled
    <3>2. ASSUME readAt # None PROVE Saw(total, repl, readAt)'
      <4>1. PICK a, b, c : a = total /\ b = repl /\ c = readAt
        OBVIOUS
      <4>2. Saw(a, b, c) /\ c <= r.at
        BY <3>1, <3>2, <4>1
      <4>3. Saw(a, b, c)'
        BY <1>0, <1>1, <4>2, SawGrows
      <4> QED BY <1>3, <4>1, <4>3
    <3> QED BY <1>0, <3>2 DEF Sampled
  <2>3. ASSUME NEW k \in 1 .. Len(samples)
        PROVE  Saw(samples[k].total, samples[k].repl, samples[k].read)'
    <3>1. PICK a, b, c : a = samples[k].total /\ b = samples[k].repl /\ c = samples[k].read
      OBVIOUS
    <3>2. Saw(a, b, c) /\ c <= r.at
      <4>1. samples[k] \in Samples /\ samples[k].read <= samples[k].epoch
            /\ samples[k].epoch <= now
        BY <1>0 DEF Sampled, Shape
      <4>2. Saw(a, b, c)
        BY <1>0, <3>1 DEF Sampled
      <4>3. PICK x \in Nat, y \in Nat : x = samples[k].read /\ y = samples[k].epoch
        BY <4>1 DEF Samples
      <4>4. x <= y /\ y <= now
        BY <4>1, <4>3
      <4>5. x <= r.at
        BY <1>0, <1>1, <4>3, <4>4
      <4> QED BY <3>1, <4>2, <4>3, <4>5
    <3>3. Saw(a, b, c)'
      BY <1>0, <1>1, <3>2, SawGrows
    <3> QED BY <1>3, <3>1, <3>3
  <2>4. total <= n + 1 /\ total \in Nat /\ total <= n
    BY <1>0, <1>4 DEF Sampled, Shape
  <2>5. Replaced(total)' = Replaced(total)
    <3>1. \A k \in 1 .. total : k \in 1 .. n
      BY <2>4
    <3> QED BY <1>3, <1>5, <3>1 DEF Replaced
  <2> QED BY <1>0, <1>3, <1>5, <2>2, <2>3, <2>4, <2>5 DEF Sampled
<1>13. Reported'
  BY <1>2 DEF IInv, Reported
<1> QED BY <1>10, <1>11, <1>12, <1>13 DEF IInv

-----------------------------------------------------------------------------
(* The steps of the sampler. *)

\* A scan counts what it had not counted.
LEMMA ScanStep ==
  ASSUME IInv, Scan
  PROVE  IInv'
<1>0. /\ now \in Nat /\ T0 \in Nat /\ T0 <= now /\ Shape /\ InOrder /\ Sampled
      /\ rows \in Seq(Rows) /\ samples \in Seq(Samples)
  BY Numbers DEF IInv, Shape
<1>1. PICK n \in Nat : n = Len(rows)
  BY <1>0
<1>2. PICK m \in Nat : m = total /\ offset = 2 * m /\ m <= n
  BY <1>0, <1>1 DEF Sampled, Shape
<1>3. /\ {k \in 1 .. Len(rows) : 2 * k > offset} = m + 1 .. n
      /\ {k \in m + 1 .. n : 2 * (k - 1) >= offset} = m + 1 .. n
  <2>1. \A k \in 1 .. n : 2 * k > 2 * m <=> k \in m + 1 .. n
    OBVIOUS
  <2>2. \A k \in m + 1 .. n : k \in 1 .. n /\ 2 * (k - 1) >= 2 * m
    OBVIOUS
  <2> QED BY <1>1, <1>2, <2>1, <2>2
<1>4. /\ total' = m + Cardinality(m + 1 .. n)
      /\ repl' = repl + Cardinality({k \in m + 1 .. n : rows[k].replacement})
      /\ offset' = 2 * n /\ readAt' = now /\ readAt = None
      /\ UNCHANGED <<now, over, runVars, samples, report>>
  BY <1>1, <1>2, <1>3 DEF Scan, NextOffset
<1>5. total' = n
  <2>1. PICK a \in Int : a = m + 1
    OBVIOUS
  <2>2. Cardinality(a .. n) = IF a > n THEN 0 ELSE n - a + 1
    BY FS_Interval
  <2>3. Cardinality(a .. n) = n - m
    BY <1>2, <2>1, <2>2
  <2> QED BY <1>2, <1>4, <2>1, <2>3
<1>6. repl' = Cardinality(Replaced(n)) /\ repl' \in Nat
  <2> DEFINE New == {k \in m + 1 .. n : rows[k].replacement}
  <2>1. Replaced(n) = Replaced(m) \cup New /\ Replaced(m) \cap New = {}
    <3>1. \A k \in 1 .. n : k \in 1 .. m \/ k \in m + 1 .. n
      OBVIOUS
    <3>2. \A k \in 1 .. m : k \in 1 .. n /\ k \notin m + 1 .. n
      BY <1>2
    <3>3. \A k \in m + 1 .. n : k \in 1 .. n
      OBVIOUS
    <3> QED BY <3>1, <3>2, <3>3 DEF Replaced
  <2>2. IsFiniteSet(Replaced(m)) /\ IsFiniteSet(New)
    <3>1. IsFiniteSet(1 .. m) /\ IsFiniteSet(m + 1 .. n)
      BY FS_Interval
    <3> QED BY <3>1, FS_Subset DEF Replaced
  <2>3. Cardinality(Replaced(n)) =
          Cardinality(Replaced(m)) + Cardinality(New) - Cardinality({})
    BY <2>1, <2>2, FS_Union
  <2>4. Cardinality({}) = 0 /\ Cardinality(Replaced(m)) \in Nat /\ Cardinality(New) \in Nat
    BY <2>2, FS_EmptySet, FS_CardinalityType
  <2>5. repl = Cardinality(Replaced(m))
    BY <1>0, <1>2 DEF Sampled
  <2> QED BY <1>4, <2>3, <2>4, <2>5
<1>7. UNCHANGED <<rows, log, half, killed, marker, promoted>>
  BY <1>4 DEF runVars
<1>8. Replaced(n)' = Replaced(n)
  BY <1>7 DEF Replaced
<1>9. Shape'
  <2>1. now \in T0 .. now /\ 2 * n \in Nat
    BY <1>0
  <2> QED BY <1>0, <1>4, <1>5, <1>6, <1>7, <2>1 DEF Shape
<1>10. PICK rp \in Nat : rp = repl' /\ rp = Cardinality(Replaced(n))
  BY <1>6
<1>11. Saw(n, rp, now)'
  <2>1. \A k \in 1 .. n : rows[k].at \in T0 .. now
    BY <1>0, <1>1 DEF Shape
  <2>2. n \in 0 .. n /\ \A k \in 1 .. n : rows[k].at <= now
    BY <1>0, <2>1
  <2>3. \A k \in n + 1 .. n : FALSE
    OBVIOUS
  <2>4. now' = now /\ rows' = rows
    BY <1>4, <1>7
  <2> QED BY <1>1, <1>8, <1>10, <2>2, <2>3, <2>4 DEF Saw
<1>12. Sampled'
  <2>1. /\ now' = now /\ samples' = samples /\ rows' = rows /\ readAt' = now
        /\ offset' = 2 * n /\ total' = n /\ repl' = rp
    BY <1>4, <1>5, <1>7, <1>10
  <2>3. \A k \in 1 .. Len(samples) : samples[k].epoch <= now
    BY <1>0 DEF Shape
  <2>4. ASSUME NEW k \in 1 .. Len(samples)
        PROVE  Saw(samples[k].total, samples[k].repl, samples[k].read)'
    <3>1. Saw(samples[k].total, samples[k].repl, samples[k].read)
      BY <1>0 DEF Sampled
    <3> QED BY <2>1, <3>1 DEF Saw, Replaced
  <2>5. total' <= Len(rows') /\ repl' = Cardinality(Replaced(total))'
    BY <1>1, <1>8, <1>10, <2>1
  <2> QED BY <1>0, <1>11, <2>1, <2>3, <2>4, <2>5 DEF Sampled
<1>13. InOrder' /\ Reported'
  BY <1>4, <1>7 DEF IInv, InOrder, Reported
<1> QED BY <1>9, <1>12, <1>13 DEF IInv

\* The line of the CSV is of what was read, and not from before it.
LEMMA StampStep ==
  ASSUME IInv, Stamp
  PROVE  IInv'
<1>0. /\ now \in Nat /\ T0 \in Nat /\ T0 <= now /\ Shape /\ InOrder /\ Sampled
      /\ rows \in Seq(Rows) /\ samples \in Seq(Samples)
      /\ total \in Nat /\ repl \in Nat
  BY Numbers DEF IInv, Shape
<1>1. PICK at \in T0 .. now : at = readAt
  BY DEF IInv, Shape, Stamp
<1>2. PICK s \in Samples : /\ s.epoch = now /\ s.total = total /\ s.repl = repl
                          /\ s.read = at /\ samples' = Append(samples, s)
  <2> DEFINE s == [epoch |-> now, total |-> total, repl |-> repl, read |-> at]
  <2>1. s \in Samples /\ s.epoch = now /\ s.total = total /\ s.repl = repl /\ s.read = at
    BY <1>0, <1>1 DEF Samples
  <2>2. samples' = Append(samples, s)
    BY <1>1 DEF Stamp
  <2> QED BY <2>1, <2>2
<1>3. PICK n \in Nat : n = Len(samples)
  BY <1>0
<1>4. /\ samples' \in Seq(Samples) /\ Len(samples') = n + 1 /\ samples'[n + 1] = s
      /\ \A k \in 1 .. n : samples'[k] = samples[k]
  BY <1>0, <1>2, <1>3
<1>5. \A k \in 1 .. n + 1 : k \in 1 .. n \/ k = n + 1
  OBVIOUS
<1>6. readAt' = None /\ UNCHANGED <<now, over, runVars, offset, total, repl, report>>
  BY DEF Stamp
<1>7. UNCHANGED <<rows, log, half, killed, marker, promoted>>
  BY <1>6 DEF runVars
<1>8. \A k \in 1 .. n + 1 : samples'[k].epoch <= now
  <2>1. \A k \in 1 .. n : samples[k].epoch <= now
    BY <1>0, <1>3 DEF Shape
  <2> QED BY <1>0, <1>2, <1>4, <1>5, <2>1
<1>9. Shape'
  BY <1>0, <1>4, <1>6, <1>7, <1>8 DEF Shape
<1>10. /\ Saw(total, repl, at) /\ \A k \in 1 .. n : samples[k].epoch <= at
  BY <1>0, <1>1, <1>3, Numbers DEF Sampled
<1>11. ASSUME NEW k \in 1 .. n + 1
       PROVE  /\ Saw(samples[k].total, samples[k].repl, samples[k].read)'
              /\ T0 <= samples'[k].read /\ samples'[k].read <= samples'[k].epoch
  <2>1. CASE k \in 1 .. n
    <3>1. /\ Saw(samples[k].total, samples[k].repl, samples[k].read)
          /\ T0 <= samples[k].read /\ samples[k].read <= samples[k].epoch
      BY <1>0, <1>3, <2>1 DEF Sampled
    <3>2. samples'[k] = samples[k] /\ rows' = rows
      BY <1>4, <1>7, <2>1
    <3> QED BY <3>1, <3>2 DEF Saw, Replaced
  <2>2. CASE k = n + 1
    <3>1. samples'[k] = s /\ rows' = rows
      BY <1>4, <1>7, <2>2
    <3>2. s.total = total /\ s.repl = repl /\ s.read = at /\ s.epoch = now
      BY <1>2
    <3>3. T0 <= at /\ at <= now
      BY <1>0, <1>1
    <3> QED BY <1>10, <3>1, <3>2, <3>3 DEF Saw, Replaced
  <2> QED BY <1>5, <2>1, <2>2
<1>12. ASSUME NEW j \in 1 .. n + 1, NEW k \in 1 .. n + 1, j < k
       PROVE  samples'[j].epoch <= samples'[k].read
  <2>1. j \in 1 .. n
    BY <1>12
  <2>2. CASE k \in 1 .. n
    BY <1>0, <1>3, <1>4, <1>12, <2>1, <2>2 DEF Sampled
  <2>3. CASE k = n + 1
    BY <1>2, <1>4, <1>10, <2>1, <2>3
  <2> QED BY <1>5, <2>2, <2>3
<1>13. Sampled'
  <2>1. offset' = 2 * total' /\ total' <= Len(rows') /\ repl' = Cardinality(Replaced(total))'
    BY <1>0, <1>6, <1>7 DEF Sampled, Replaced
  <2> QED BY <1>4, <1>6, <1>11, <1>12, <2>1 DEF Sampled
<1>14. InOrder' /\ Reported'
  BY <1>6, <1>7 DEF IInv, InOrder, Reported
<1> QED BY <1>9, <1>13, <1>14 DEF IInv

\* A report is made, or nothing happens any more.
LEMMA LastStep ==
  ASSUME IInv, Measure \/ Finished \/ UNCHANGED vars
  PROVE  IInv'
<1>1. UNCHANGED <<now, over, runVars, samplerVars>>
  BY DEF Measure, Finished, vars
<1>2. UNCHANGED <<now, over, rows, half, killed, marker, promoted, log, samplerVars>>
      /\ UNCHANGED <<offset, total, repl, readAt, samples>>
  BY <1>1 DEF runVars, samplerVars
<1>3. Shape' /\ InOrder'
  BY <1>2 DEF IInv, Shape, InOrder
<1>4. Sampled'
  BY <1>2, SampledStays DEF IInv
<1>5. Reported'
  <2>1. CASE Measure
    <3>1. report'.made = TRUE
      BY <2>1 DEF Measure, BuildReport
    <3> QED BY <2>1, <3>1 DEF Measure, Reported
  <2>2. CASE Finished \/ UNCHANGED vars
    BY <2>2 DEF IInv, Reported, Finished, vars
  <2> QED BY <2>1, <2>2
<1> QED BY <1>3, <1>4, <1>5 DEF IInv

\* Every step keeps the invariant.
LEMMA NextIInv == IInv /\ [Next]_vars => IInv'
BY LogStep, RowStep, ScanStep, StampStep, LastStep DEF Next, Logs

\* It holds throughout.
LEMMA Invariant == Spec => []IInv
BY InitIInv, NextIInv, PTL DEF Spec

-----------------------------------------------------------------------------
(* The samples. *)

\* There are no more rows of replacements than rows.
LEMMA ReplacedFew ==
  ASSUME NEW n \in Nat
  PROVE  /\ IsFiniteSet(1 .. n) /\ Cardinality(1 .. n) = n
         /\ IsFiniteSet(Replaced(n)) /\ Cardinality(Replaced(n)) \in 0 .. n
<1>1. IsFiniteSet(1 .. n)
  BY FS_Interval
<1>2. Cardinality(1 .. n) = n
  <2>1. Cardinality(1 .. n) = IF 1 > n THEN 0 ELSE n - 1 + 1
    BY FS_Interval
  <2> QED BY <2>1
<1>3. Replaced(n) \in SUBSET (1 .. n)
  BY DEF Replaced
<1>4. IsFiniteSet(Replaced(n)) /\ Cardinality(Replaced(n)) <= n
  BY <1>1, <1>2, <1>3, FS_Subset
<1>5. Cardinality(Replaced(n)) \in Nat
  BY <1>4, FS_CardinalityType
<1> QED BY <1>1, <1>2, <1>4, <1>5

\* Every variable has its type; the sampler has counted rows that are there, and
\* no more of replacements than of all.
THEOREM KillTypes == Spec => []TypeOK
<1>1. IInv => TypeOK
  <2> SUFFICES ASSUME IInv PROVE TypeOK
    OBVIOUS
  <2>1. PICK n \in Nat : n = Len(rows)
    BY DEF IInv, Shape
  <2>2. PICK m \in Nat : m = total /\ offset = 2 * m /\ m <= n
    BY <2>1 DEF IInv, Shape, Sampled
  <2>3. repl = Cardinality(Replaced(m))
    BY <2>2 DEF IInv, Sampled
  <2>4. repl \in 0 .. m /\ offset \in 0 .. 2 * n + 1 /\ total \in 0 .. n
    BY <2>2, <2>3, ReplacedFew
  <2>5. now \in T0 .. T0 + MaxTime
    BY Numbers DEF IInv, Shape
  <2>6. /\ over \in BOOLEAN /\ half \in BOOLEAN /\ promoted \in BOOLEAN
        /\ killed \in {None} \cup T0 .. now /\ marker \in {None} \cup T0 .. now
        /\ readAt \in {None} \cup T0 .. now
    BY DEF IInv, Shape
  <2> QED BY <2>1, <2>2, <2>4, <2>5, <2>6 DEF TypeOK
<1> QED BY <1>1, Invariant, PTL

\* What was seen at a time lies between what was there before and after it.
LEMMA SawBounds ==
  ASSUME Shape, NEW tot, NEW rp, NEW at \in Nat, Saw(tot, rp, at),
         NEW lo \in Nat, NEW hi \in Nat, lo <= at, at < hi
  PROVE  /\ Before(lo, BOOLEAN) <= tot /\ tot <= Before(hi, BOOLEAN)
         /\ Before(lo, {TRUE}) <= rp /\ rp <= Before(hi, {TRUE})
<1>1. PICK n \in Nat : n = Len(rows)
  BY DEF Shape
<1>2. tot \in Nat /\ tot <= n
  BY <1>1 DEF Saw
<1>3. \A k \in 1 .. n : rows[k].at \in Nat /\ rows[k].replacement \in BOOLEAN
  <2>1. \A k \in 1 .. n : rows[k] \in Rows
    BY <1>1 DEF Shape
  <2> QED BY <2>1 DEF Rows
<1> DEFINE S(e, R) == {k \in 1 .. n : rows[k].at < e /\ rows[k].replacement \in R}
<1>4. /\ Before(lo, BOOLEAN) = Cardinality(S(lo, BOOLEAN))
      /\ Before(hi, BOOLEAN) = Cardinality(S(hi, BOOLEAN))
      /\ Before(lo, {TRUE}) = Cardinality(S(lo, {TRUE}))
      /\ Before(hi, {TRUE}) = Cardinality(S(hi, {TRUE}))
  BY <1>1 DEF Before
<1>5. \A k \in 1 .. n : rows[k].at < lo => k \in 1 .. tot
  <2>1. \A k \in 1 .. n : k \in 1 .. tot \/ k \in tot + 1 .. n
    BY <1>2
  <2>2. \A k \in tot + 1 .. n : k \in 1 .. n /\ at <= rows[k].at
    BY <1>1, <1>2 DEF Saw
  <2> QED BY <1>3, <2>1, <2>2
<1>6. \A k \in 1 .. tot : k \in 1 .. n /\ rows[k].at < hi
  <2>1. \A k \in 1 .. tot : k \in 1 .. n /\ rows[k].at <= at
    BY <1>2 DEF Saw
  <2> QED BY <1>3, <2>1
<1>7. /\ S(lo, BOOLEAN) \in SUBSET (1 .. tot) /\ S(lo, {TRUE}) \in SUBSET Replaced(tot)
      /\ 1 .. tot \in SUBSET S(hi, BOOLEAN) /\ Replaced(tot) \in SUBSET S(hi, {TRUE})
  BY <1>3, <1>5, <1>6 DEF Replaced
<1>8. IsFiniteSet(S(hi, BOOLEAN)) /\ IsFiniteSet(S(hi, {TRUE}))
  <2>1. IsFiniteSet(1 .. n)
    BY ReplacedFew
  <2> QED BY <2>1, FS_Subset
<1>9. /\ IsFiniteSet(1 .. tot) /\ Cardinality(1 .. tot) = tot
      /\ IsFiniteSet(Replaced(tot)) /\ rp = Cardinality(Replaced(tot))
  BY <1>2, ReplacedFew DEF Saw
<1> HIDE DEF S
<1>10. /\ Cardinality(S(lo, BOOLEAN)) <= tot /\ tot <= Cardinality(S(hi, BOOLEAN))
       /\ Cardinality(S(lo, {TRUE})) <= rp /\ rp <= Cardinality(S(hi, {TRUE}))
  <2>1. Cardinality(S(lo, BOOLEAN)) <= Cardinality(1 .. tot)
    BY <1>7, <1>9, FS_Subset
  <2>2. Cardinality(1 .. tot) <= Cardinality(S(hi, BOOLEAN))
    BY <1>7, <1>8, FS_Subset
  <2>3. Cardinality(S(lo, {TRUE})) <= Cardinality(Replaced(tot))
    BY <1>7, <1>9, FS_Subset
  <2>4. Cardinality(Replaced(tot)) <= Cardinality(S(hi, {TRUE}))
    BY <1>7, <1>8, FS_Subset
  <2> QED BY <1>9, <2>1, <2>2, <2>3, <2>4
<1> QED BY <1>4, <1>10

\* A row seen in part by a scan is neither lost to the samples, nor counted twice,
\* nor robbed of its worker.
THEOREM SamplesLagTheorem == Spec => []SamplesLag
<1>1. IInv => SamplesLag
  <2> SUFFICES ASSUME IInv, NEW k \in 1 .. Len(samples)
               PROVE  LET s == samples[k]
                          prev == IF k = 1 THEN T0 ELSE samples[k - 1].epoch
                      IN  /\ Before(prev, BOOLEAN) <= s.total
                          /\ s.total <= Before(s.epoch + 1, BOOLEAN)
                          /\ Before(prev, {TRUE}) <= s.repl
                          /\ s.repl <= Before(s.epoch + 1, {TRUE})
    BY DEF SamplesLag
  <2>1. Shape /\ Sampled /\ T0 \in Nat
    BY Numbers DEF IInv
  <2>2. PICK n \in Nat : n = Len(samples)
    BY <2>1 DEF Shape
  <2>3. /\ \A j \in 1 .. n : samples[j] \in Samples
        /\ \A j \in 1 .. n : samples[j].epoch \in Nat /\ samples[j].read \in Nat
    <3>1. \A j \in 1 .. n : samples[j] \in Samples
      BY <2>1, <2>2 DEF Shape
    <3> QED BY <3>1 DEF Samples
  <2> DEFINE prev == IF k = 1 THEN T0 ELSE samples[k - 1].epoch
  <2>4. prev \in Nat /\ prev <= samples[k].read
    <3>1. CASE k = 1
      BY <2>1, <3>1 DEF Sampled
    <3>2. CASE k # 1
      <4>1. k - 1 \in 1 .. n /\ k - 1 < k
        BY <2>2, <3>2
      <4> QED BY <2>1, <2>2, <2>3, <3>2, <4>1 DEF Sampled
    <3> QED BY <3>1, <3>2
  <2>5. PICK lo \in Nat, at \in Nat, hi \in Nat :
          lo = prev /\ at = samples[k].read /\ hi = samples[k].epoch + 1
    BY <2>2, <2>3, <2>4
  <2>6. PICK tot, rp : tot = samples[k].total /\ rp = samples[k].repl
    OBVIOUS
  <2>7. Saw(tot, rp, at) /\ lo <= at /\ at < hi
    BY <2>1, <2>2, <2>3, <2>4, <2>5, <2>6 DEF Sampled
  <2>8. /\ Before(lo, BOOLEAN) <= tot /\ tot <= Before(hi, BOOLEAN)
        /\ Before(lo, {TRUE}) <= rp /\ rp <= Before(hi, {TRUE})
    BY <2>1, <2>7, SawBounds
  <2> QED BY <2>5, <2>6, <2>8
<1> QED BY <1>1, Invariant, PTL

-----------------------------------------------------------------------------
(* The report. *)

\* A report is made of the run as it is, and stays.
LEMMA ReportSteps ==
  ASSUME IInv, [Next]_vars
  PROVE  \/ UNCHANGED vars
         \/ report' = report /\ ~report.made
         \/ Measure /\ UNCHANGED <<now, over, runVars, samplerVars>>
<1>1. CASE Tick \/ Ready \/ WritePart \/ WriteRest \/ Kill \/ Logs
           \/ Scan \/ Stamp \/ RunEnds
  <2>1. ~over /\ report' = report
    BY <1>1 DEF Tick, Ready, WritePart, WriteRest, Kill, Logs, BatchFails,
               RetryBatch, Replace, Scan, Stamp, RunEnds
  <2> QED BY <2>1 DEF IInv, Reported
<1>2. CASE Measure
  BY <1>2 DEF Measure
<1>3. CASE Finished \/ UNCHANGED vars
  BY <1>3 DEF Finished
<1> QED BY <1>1, <1>2, <1>3 DEF Next, Logs

\* The kill epoch the report is built from.
KillEpoch == IF marker # None THEN marker ELSE FirstOf("failure")

\* Min is the least of some numbers.
LEMMA MinOf ==
  ASSUME NEW T, T \subseteq Nat, T # {}
  PROVE  Min(T) \in T /\ \A y \in T : Min(T) <= y
<1>1. PICK x \in T : \A y \in T : x <= y
  BY LeastNumber
<1> QED BY <1>1 DEF Min

\* What a sample says is of its types, and was seen when it was read.
LEMMA SampleFields ==
  ASSUME Shape, Sampled, NEW k \in 1 .. Len(samples)
  PROVE  /\ samples[k] \in Samples /\ samples[k].epoch \in Nat /\ samples[k].total \in Nat
         /\ samples[k].repl \in Nat /\ samples[k].read \in Nat
         /\ samples[k].read <= samples[k].epoch
         /\ Saw(samples[k].total, samples[k].repl, samples[k].read)
<1>1. samples[k] \in Samples
  BY DEF Shape
<1> QED BY <1>1 DEF Samples, Sampled

\* Samples are in the order of their times.
LEMMA SamplesInOrder ==
  ASSUME Shape, Sampled, NEW j \in 1 .. Len(samples), NEW k \in 1 .. Len(samples), j <= k
  PROVE  samples[j].epoch <= samples[k].epoch
<1>1. PICK n \in Nat : n = Len(samples)
  BY DEF Shape
<1>2. samples[j].epoch \in Nat /\ samples[k].epoch \in Nat /\ samples[k].read \in Nat
      /\ samples[k].read <= samples[k].epoch
  BY SampleFields
<1>3. CASE j = k
  BY <1>2, <1>3
<1>4. CASE j < k
  <2>1. samples[j].epoch <= samples[k].read
    BY <1>4 DEF Sampled
  <2> QED BY <1>2, <2>1
<1> QED BY <1>1, <1>3, <1>4

\* A stamp of the log stands for a time.
LEMMA EpochType ==
  ASSUME NEW stamp \in Nat
  PROVE  Epoch(stamp) \in Nat
<1>1. PICK a \in Nat : a = T0 % Day /\ a <= T0
  <2>1. T0 \in Nat /\ Day \in Nat \ {0}
    BY Numbers
  <2> QED BY <2>1
<1>2. PICK at \in Nat : at = (T0 - a) + stamp
  <2>1. T0 \in Nat
    BY Numbers
  <2>2. (T0 - a) + stamp \in Nat
    BY <1>1, <2>1
  <2> QED BY <2>2
<1>3. Epoch(stamp) = IF at < T0 - Slack THEN at + Day ELSE at
  BY <1>1, <1>2 DEF Epoch
<1> QED BY <1>2, <1>3, Numbers

\* The first line of a kind stands for a time, if there is one.
LEMMA FirstOfType ==
  ASSUME Shape, NEW kind
  PROVE  FirstOf(kind) \in Nat \cup {None}
<1> DEFINE S == {k \in 1 .. Len(log) : Events[k].kind = kind}
<1>1. \A k \in 1 .. Len(log) : Events[k].at \in Nat
  <2> SUFFICES ASSUME NEW k \in 1 .. Len(log) PROVE Events[k].at \in Nat
    OBVIOUS
  <2>1. PICK l \in LogLines : l = log[k]
    BY DEF Shape
  <2>2. Events[k] = [l EXCEPT !.at = Epoch(l.stamp)]
    BY <2>1 DEF Events
  <2>3. Events[k].at = Epoch(l.stamp) /\ l.stamp \in Nat
    BY <2>2 DEF LogLines
  <2> QED BY <2>3, EpochType
<1>2. S \subseteq Nat
  BY DEF Shape
<1>3. S # {} => Min(S) \in 1 .. Len(log)
  <2>1. S # {} => Min(S) \in S
    BY <1>2, MinOf
  <2> QED BY <2>1
<1>4. FirstOf(kind) = IF S = {} THEN None ELSE Events[Min(S)].at
  BY DEF FirstOf
<1> QED BY <1>1, <1>3, <1>4

\* So does the kill.
LEMMA KillEpochType ==
  ASSUME Shape
  PROVE  KillEpoch \in Nat \cup {None}
<1>1. marker # None => marker \in Nat
  <2>1. now \in Nat /\ T0 \in Nat
    BY Numbers DEF Shape
  <2> QED BY <2>1 DEF Shape
<1> QED BY <1>1, FirstOfType DEF KillEpoch

-----------------------------------------------------------------------------
(* The recovery. *)

ReplacementRows == {k \in 1 .. Len(rows) : rows[k].replacement}

\* A sample without replacements' rows was read before the first of them came;
\* so was one from before the kill, if none came before the kill.
LEMMA ReadBefore ==
  ASSUME Shape, Sampled, NEW K \in Nat, Before(K, {TRUE}) = 0, ReplacementRows # {},
         NEW k \in 1 .. Len(samples),
         ~(samples[k].epoch >= K /\ samples[k].repl > 0)
  PROVE  samples[k].read <= rows[Min(ReplacementRows)].at
<1>1. PICK n \in Nat : n = Len(rows)
  BY DEF Shape
<1>2. PICK m \in ReplacementRows : m = Min(ReplacementRows)
  <2>1. ReplacementRows \subseteq Nat
    BY <1>1 DEF ReplacementRows
  <2> QED BY <2>1, MinOf
<1>3. m \in 1 .. n /\ rows[m].replacement /\ rows[m] \in Rows
  BY <1>1, <1>2 DEF ReplacementRows, Shape
<1>4. rows[m].at \in Nat /\ rows[m].replacement = TRUE
  BY <1>3 DEF Rows
<1>5. PICK s \in Samples : s = samples[k] /\ s.epoch \in Nat /\ s.read \in Nat
                           /\ s.total \in Nat /\ s.repl \in Nat
                           /\ s.read <= s.epoch /\ Saw(s.total, s.repl, s.read)
  BY SampleFields
<1>6. CASE s.epoch < K
  <2>1. {j \in 1 .. n : rows[j].at < K /\ rows[j].replacement \in {TRUE}} = {}
    <3> DEFINE S == {j \in 1 .. n : rows[j].at < K /\ rows[j].replacement \in {TRUE}}
    <3>1. IsFiniteSet(S)
      BY ReplacedFew, FS_Subset
    <3>2. Cardinality(S) = 0
      BY <1>1 DEF Before
    <3> HIDE DEF S
    <3>3. S = {}
      BY <3>1, <3>2, FS_EmptySet
    <3> QED BY <3>3 DEF S
  <2>2. ~(rows[m].at < K)
    BY <1>3, <1>4, <2>1
  <2> QED BY <1>2, <1>4, <1>5, <1>6, <2>2
<1>7. CASE s.repl = 0
  <2>1. Replaced(s.total) = {}
    <3>1. IsFiniteSet(Replaced(s.total)) /\ Cardinality(Replaced(s.total)) = 0
      BY <1>5, <1>7, ReplacedFew DEF Saw
    <3> QED BY <3>1, FS_EmptySet
  <2>2. m \notin 1 .. s.total
    BY <1>3, <2>1 DEF Replaced
  <2>3. m \in s.total + 1 .. Len(rows)
    BY <1>1, <1>3, <1>5, <2>2
  <2> QED BY <1>2, <1>5, <2>3 DEF Saw
<1> QED BY <1>5, <1>6, <1>7

\* A sample with a replacement's row was read after the first of them came.
LEMMA ReadAfter ==
  ASSUME Shape, InOrder, Sampled, NEW k \in 1 .. Len(samples), samples[k].repl > 0
  PROVE  /\ ReplacementRows # {}
         /\ rows[Min(ReplacementRows)].at <= samples[k].epoch
<1>1. PICK n \in Nat : n = Len(rows)
  BY DEF Shape
<1>2. PICK s \in Samples : s = samples[k] /\ s.epoch \in Nat /\ s.read \in Nat
                           /\ s.total \in Nat /\ s.repl \in Nat
                           /\ s.read <= s.epoch /\ Saw(s.total, s.repl, s.read)
  BY SampleFields
<1>3. Replaced(s.total) # {}
  <2>1. Cardinality(Replaced(s.total)) # 0
    BY <1>2 DEF Saw
  <2> QED BY <2>1, FS_EmptySet
<1>4. PICK j \in 1 .. s.total : rows[j].replacement
  BY <1>3 DEF Replaced
<1>5. j \in ReplacementRows /\ ReplacementRows \subseteq Nat
  <2>1. s.total <= n
    BY <1>1, <1>2 DEF Saw
  <2> QED BY <1>1, <1>2, <1>4, <2>1 DEF ReplacementRows
<1>6. PICK m \in ReplacementRows : m = Min(ReplacementRows) /\ m <= j
  BY <1>5, MinOf
<1>7. m \in 1 .. s.total /\ m \in 1 .. n
  BY <1>1, <1>2, <1>4, <1>6 DEF ReplacementRows
<1>8. rows[m].at <= s.read
  BY <1>2, <1>7 DEF Saw
<1>9. rows[m].at \in Nat
  <2>1. rows[m] \in Rows
    BY <1>1, <1>7 DEF Shape
  <2> QED BY <2>1 DEF Rows
<1> QED BY <1>2, <1>5, <1>6, <1>8, <1>9

\* The time of the first row of a replacement.
LEMMA FirstReplacementIs ==
  FirstReplacement = IF ReplacementRows = {} THEN None ELSE rows[Min(ReplacementRows)].at
BY DEF FirstReplacement, ReplacementRows

\* What the report says of the recovery is true when it is made.
LEMMA Bracketed ==
  ASSUME Shape, InOrder, Sampled, NEW K \in Nat, Before(K, {TRUE}) = 0,
         NEW recovery,
         recovery = IF FindRecovery(K) = None THEN None ELSE samples[FindRecovery(K)].epoch
  PROVE  IF recovery = None
         THEN samples # << >> =>
                FirstReplacement = None \/ FirstReplacement >= Last(samples).read
         ELSE /\ FirstReplacement # None /\ FirstReplacement <= recovery
              /\ \A k \in 1 .. Len(samples) :
                   samples[k].epoch < recovery => samples[k].read <= FirstReplacement
<1>1. PICK n \in Nat : n = Len(samples)
  BY DEF Shape
<1> DEFINE S == {k \in 1 .. n : samples[k].epoch >= K /\ samples[k].repl > 0}
<1>2. FindRecovery(K) = IF S = {} THEN None ELSE Min(S)
  BY <1>1 DEF FindRecovery
<1>3. CASE S = {}
  <2>1. recovery = None
    BY <1>2, <1>3
  <2>2. ASSUME samples # << >>, ReplacementRows # {}
        PROVE  rows[Min(ReplacementRows)].at >= Last(samples).read
    <3>1. n \in 1 .. n
      BY <1>1, <2>2 DEF Shape
    <3>2. ~(samples[n].epoch >= K /\ samples[n].repl > 0)
      BY <1>3, <3>1
    <3>3. samples[n].read <= rows[Min(ReplacementRows)].at
      BY <1>1, <2>2, <3>1, <3>2, ReadBefore
    <3> QED BY <1>1, <3>3 DEF Last
  <2> QED BY <2>1, <2>2, FirstReplacementIs
<1>4. CASE S # {}
  <2>1. PICK r \in S : r = Min(S) /\ FindRecovery(K) = r
    BY <1>2, <1>4, MinOf
  <2>2. r \in 1 .. n /\ samples[r].epoch >= K /\ samples[r].repl > 0
    BY <2>1
  <2>3. recovery = samples[r].epoch /\ samples[r].epoch \in Nat
    BY <1>1, <2>1, <2>2, SampleFields DEF None
  <2>4. /\ ReplacementRows # {}
        /\ rows[Min(ReplacementRows)].at <= samples[r].epoch
    BY <1>1, <2>2, ReadAfter
  <2>5. rows[Min(ReplacementRows)].at \in Nat
    <3>1. PICK m \in ReplacementRows : m = Min(ReplacementRows)
      <4>1. ReplacementRows \subseteq Nat
        BY DEF ReplacementRows, Shape
      <4> QED BY <2>4, <4>1, MinOf
    <3>2. rows[m] \in Rows
      BY <3>1 DEF ReplacementRows, Shape
    <3> QED BY <3>1, <3>2 DEF Rows
  <2>6. ASSUME NEW k \in 1 .. n, samples[k].epoch < recovery
        PROVE  samples[k].read <= rows[Min(ReplacementRows)].at
    <3>1. samples[k].epoch \in Nat
      BY <1>1, SampleFields
    <3>2. ~(r <= k)
      <4>1. r <= k => samples[r].epoch <= samples[k].epoch
        BY <1>1, <2>2, SamplesInOrder
      <4> QED BY <2>3, <2>6, <3>1, <4>1
    <3>3. k \notin S
      BY <1>4, <2>1, <3>2, MinOf
    <3> QED BY <1>1, <2>4, <3>3, ReadBefore
  <2>7. recovery # None /\ FirstReplacement = rows[Min(ReplacementRows)].at
        /\ FirstReplacement # None
    BY <2>3, <2>4, <2>5, FirstReplacementIs DEF None
  <2> QED BY <1>1, <2>3, <2>4, <2>6, <2>7
<1> QED BY <1>3, <1>4

\* If no replacement had written a row before the kill, the first one to write
\* did so between the reading of the sample before the recovery reported and the
\* recovery; without a recovery, none had when the file was last read.
THEOREM RecoveryTheorem == Spec => []RecoveryBracketed
<1>1. Init => RecoveryBracketed
  BY DEF Init, NoReport, RecoveryBracketed
<1>2. IInv /\ RecoveryBracketed /\ [Next]_vars => RecoveryBracketed'
  <2> SUFFICES ASSUME IInv, RecoveryBracketed, [Next]_vars PROVE RecoveryBracketed'
    OBVIOUS
  <2>1. CASE UNCHANGED vars
    BY <2>1 DEF RecoveryBracketed, Before, FirstReplacement, vars, runVars, samplerVars
  <2>2. CASE report' = report /\ ~report.made
    BY <2>2 DEF RecoveryBracketed
  <2>3. CASE Measure /\ UNCHANGED <<now, over, runVars, samplerVars>>
    <3>1. report' = BuildReport(KillEpoch)
      BY <2>3 DEF Measure, KillEpoch
    <3>2. rows' = rows /\ samples' = samples
      BY <2>3 DEF runVars, samplerVars
    <3>3. FirstReplacement' = FirstReplacement /\ \A e, R : Before(e, R)' = Before(e, R)
      BY <3>2 DEF FirstReplacement, Before
    <3>4. PICK K : K = KillEpoch
      OBVIOUS
    <3>5. SUFFICES ASSUME K # None, Before(K, {TRUE}) = 0
                   PROVE  RecoveryBracketed'
      <4>1. report'.kill = K
        BY <3>1, <3>4 DEF BuildReport
      <4> QED BY <3>3, <4>1 DEF RecoveryBracketed
    <3>6. K \in Nat
      BY <3>4, <3>5, KillEpochType DEF IInv
    <3>7. PICK recovery :
            recovery = IF FindRecovery(K) = None THEN None ELSE samples[FindRecovery(K)].epoch
      OBVIOUS
    <3>8. report'.recovery = recovery
      BY <3>1, <3>4, <3>5, <3>7 DEF BuildReport
    <3>9. IF recovery = None
          THEN samples # << >> =>
                 FirstReplacement = None \/ FirstReplacement >= Last(samples).read
          ELSE /\ FirstReplacement # None /\ FirstReplacement <= recovery
               /\ \A k \in 1 .. Len(samples) :
                    samples[k].epoch < recovery => samples[k].read <= FirstReplacement
      BY <3>5, <3>6, <3>7, Bracketed DEF IInv
    <3> QED BY <3>2, <3>3, <3>8, <3>9 DEF RecoveryBracketed
  <2> QED BY <2>1, <2>2, <2>3, ReportSteps
<1> QED BY <1>1, <1>2, Invariant, PTL DEF Spec

-----------------------------------------------------------------------------
(* The phases. *)

\* Max is the greatest of some numbers up to n.
LEMMA MaxOf ==
  ASSUME NEW n \in Nat, NEW T, T \subseteq 1 .. n, T # {}
  PROVE  Max(T) \in T /\ \A y \in T : y <= Max(T)
<1> DEFINE U == {n - k : k \in T}
<1>1. U \subseteq Nat /\ U # {}
  <2>1. \A k \in T : n - k \in Nat
    OBVIOUS
  <2>2. PICK k \in T : TRUE
    OBVIOUS
  <2>3. n - k \in U
    OBVIOUS
  <2> QED BY <2>1, <2>3
<1>2. PICK u \in U : \A y \in U : u <= y
  <2> HIDE DEF U
  <2> QED BY <1>1, LeastNumber
<1>3. PICK x \in T : u = n - x
  OBVIOUS
<1>4. ASSUME NEW y \in T PROVE x >= y
  <2>1. n - y \in U
    OBVIOUS
  <2>2. u <= n - y
    BY <1>2, <2>1
  <2> QED BY <1>3, <2>2
<1> HIDE DEF U
<1>5. \E z \in T : \A y \in T : z >= y
  BY <1>4
<1>6. Max(T) \in T /\ \A y \in T : Max(T) >= y
  BY <1>5 DEF Max
<1> QED BY <1>6

\* Of two numbers, Min is the lesser.
LEMMA MinOfTwo ==
  ASSUME NEW a \in Nat, NEW b \in Nat
  PROVE  Min({a, b}) = IF a <= b THEN a ELSE b
<1>1. {a, b} \subseteq Nat /\ {a, b} # {}
  OBVIOUS
<1>2. PICK m \in {a, b} : m = Min({a, b}) /\ \A y \in {a, b} : m <= y
  BY <1>1, MinOf
<1>3. m <= a /\ m <= b
  BY <1>2
<1> QED BY <1>2, <1>3

\* total_at is a sample's total, from the last sample on the last's.
LEMMA TotalAtIs ==
  ASSUME Shape, Sampled, NEW e \in Nat
  PROVE  /\ TotalAt(e) \in Nat
         /\ samples # << >> /\ Last(samples).epoch <= e => TotalAt(e) = Last(samples).total
<1>1. PICK n \in Nat : n = Len(samples)
  BY DEF Shape
<1> DEFINE upTo == {k \in 1 .. n : \A j \in 1 .. k : samples[j].epoch <= e}
<1>2. TotalAt(e) = IF upTo = {} THEN 0 ELSE samples[Max(upTo)].total
  BY <1>1 DEF TotalAt
<1>3. upTo # {} => Max(upTo) \in upTo /\ \A y \in upTo : y <= Max(upTo)
  <2>1. upTo \subseteq 1 .. n
    OBVIOUS
  <2> HIDE DEF upTo
  <2> QED BY <2>1, MaxOf
<1>4. TotalAt(e) \in Nat
  <2>1. CASE upTo = {}
    BY <1>2, <2>1
  <2>2. CASE upTo # {}
    <3>1. Max(upTo) \in 1 .. Len(samples)
      BY <1>1, <1>3, <2>2
    <3>2. samples[Max(upTo)].total \in Nat
      <4> HIDE DEF upTo
      <4> QED BY <3>1, SampleFields
    <3> QED BY <1>2, <2>2, <3>2
  <2> QED BY <2>1, <2>2
<1>5. ASSUME samples # << >>, Last(samples).epoch <= e
      PROVE  TotalAt(e) = Last(samples).total
  <2>1. n \in 1 .. n /\ Last(samples) = samples[n]
    BY <1>1, <1>5 DEF Shape, Last
  <2>2. ASSUME NEW j \in 1 .. n PROVE samples[j].epoch <= e
    <3>1. samples[j].epoch <= samples[n].epoch
      BY <1>1, <2>1, SamplesInOrder
    <3>2. samples[j].epoch \in Nat /\ samples[n].epoch \in Nat
      BY <1>1, <2>1, SampleFields
    <3> QED BY <1>5, <2>1, <3>1, <3>2
  <2>3. n \in upTo
    BY <2>1, <2>2
  <2>4. Max(upTo) \in 1 .. n /\ n <= Max(upTo)
    BY <1>3, <2>3
  <2>5. Max(upTo) = n
    <3> HIDE DEF upTo
    <3> QED BY <2>4
  <2> QED BY <1>2, <2>1, <2>3, <2>5
<1> QED BY <1>4, <1>5

\* The three phases share out what was done since the first of them began.
LEMMA PhasesShare ==
  ASSUME Shape, Sampled, samples # << >>, NEW start \in Nat, NEW K \in Nat,
         NEW dur \in Nat, dur <= Last(samples).epoch, dur >= K \/ dur = Last(samples).epoch
  PROVE  Done(start, K) + Done(K, dur) + Done(dur, Last(samples).epoch)
           = Last(samples).total - TotalAt(Min({start, K}))
<1>1. PICK end \in Nat, total1 \in Nat :
        end = Last(samples).epoch /\ total1 = Last(samples).total
  <2>1. PICK n \in Nat : n = Len(samples)
    BY DEF Shape
  <2>2. n \in 1 .. n /\ Last(samples) = samples[n]
    BY <2>1 DEF Shape, Last
  <2> QED BY <2>1, <2>2, SampleFields
<1>2. PICK a \in Nat, b \in Nat, c \in Nat, d \in Nat :
        a = TotalAt(start) /\ b = TotalAt(K) /\ c = TotalAt(dur) /\ d = TotalAt(end)
  BY TotalAtIs
<1>3. d = total1 /\ (end <= K => b = total1)
  <2>1. TotalAt(end) = Last(samples).total
    <3>1. Last(samples).epoch <= end
      BY <1>1
    <3> QED BY <3>1, TotalAtIs
  <2>2. ASSUME end <= K PROVE b = total1
    <3>1. Last(samples).epoch <= K
      BY <1>1, <2>2
    <3> QED BY <1>1, <1>2, <3>1, TotalAtIs
  <2> QED BY <1>1, <1>2, <2>1, <2>2
<1>4. /\ Done(start, K) = IF K <= start THEN 0 ELSE b - a
      /\ Done(K, dur) = IF dur <= K THEN 0 ELSE c - b
      /\ Done(dur, end) = IF end <= dur THEN 0 ELSE d - c
  BY <1>2 DEF Done
<1>5. TotalAt(Min({start, K})) = IF start <= K THEN a ELSE b
  BY <1>2, MinOfTwo
<1>6. dur = K => c = b
  BY <1>2
<1>7. dur = end => c = d
  BY <1>2
<1>8. start = K => a = b
  BY <1>2
<1>9. dur <= end /\ (dur >= K \/ dur = end)
  BY <1>1
<1>10. Done(K, dur) + Done(dur, end) = IF end <= K THEN 0 ELSE d - b
  BY <1>3, <1>4, <1>6, <1>7, <1>9
<1>11. Done(start, K) + (IF end <= K THEN 0 ELSE d - b)
         = total1 - (IF start <= K THEN a ELSE b)
  BY <1>3, <1>4, <1>8
<1>12. PICK x \in Int, y \in Int, z \in Int :
         x = Done(start, K) /\ y = Done(K, dur) /\ z = Done(dur, end)
  <2>1. Done(start, K) \in Int /\ Done(K, dur) \in Int /\ Done(dur, end) \in Int
    BY <1>4
  <2> QED BY <2>1
<1>13. x + y + z = total1 - (IF start <= K THEN a ELSE b)
  <2>0. x \in Int /\ y \in Int /\ z \in Int /\ b \in Nat /\ d \in Nat
    BY <1>2, <1>12
  <2>1. PICK w \in Int : w = IF end <= K THEN 0 ELSE d - b
    <3>1. (IF end <= K THEN 0 ELSE d - b) \in Int
      BY <2>0
    <3> QED BY <3>1
  <2>2. y + z = w
    BY <1>10, <1>12, <2>1
  <2>3. x + w = total1 - (IF start <= K THEN a ELSE b)
    BY <1>11, <1>12, <2>1
  <2>4. x + y + z = x + w
    <3>1. w \in Int
      BY <2>1
    <3> QED BY <2>0, <2>2, <3>1
  <2> QED BY <2>3, <2>4
<1> QED BY <1>1, <1>5, <1>12, <1>13

\* The phases of the report share out all the tasks sampled since the first of
\* them began, whatever the order of the kill, the recovery and the end.
THEOREM PhasesTheorem == Spec => []PhasesAddUp
<1>1. Init => PhasesAddUp
  BY DEF Init, NoReport, PhasesAddUp
<1>2. IInv /\ PhasesAddUp /\ [Next]_vars => PhasesAddUp'
  <2> SUFFICES ASSUME IInv, PhasesAddUp, [Next]_vars PROVE PhasesAddUp'
    OBVIOUS
  <2>1. CASE UNCHANGED vars
    BY <2>1 DEF PhasesAddUp, TotalAt, vars, samplerVars
  <2>2. CASE report' = report /\ ~report.made
    BY <2>2 DEF PhasesAddUp
  <2>3. CASE Measure /\ UNCHANGED <<now, over, runVars, samplerVars>>
    <3>1. report' = BuildReport(KillEpoch)
      BY <2>3 DEF Measure, KillEpoch
    <3>2. samples' = samples
      BY <2>3 DEF samplerVars
    <3>3. \A e : TotalAt(e)' = TotalAt(e)
      BY <3>2 DEF TotalAt
    <3>4. PICK K : K = KillEpoch
      OBVIOUS
    <3> DEFINE rec == FindRecovery(K)
               end == Last(samples).epoch
    <3>5. PICK start : start = IF FirstOf("ready") # None THEN FirstOf("ready")
                               ELSE samples[1].epoch
      OBVIOUS
    <3>6. PICK dur : dur = IF rec # None THEN samples[rec].epoch
                           ELSE Min({K + DuringMax, end})
      OBVIOUS
    <3>7. /\ report'.start = start /\ report'.kill = K
          /\ K # None /\ samples # << >> =>
               report'.phases = << Done(start, K), Done(K, dur), After(K, dur, end) >>
          /\ K = None \/ samples = << >> => report'.phases = << >>
      BY <3>1, <3>4, <3>5, <3>6 DEF BuildReport
    <3>8. SUFFICES ASSUME K # None, samples # << >>
                   PROVE  Done(start, K) + Done(K, dur) + Done(dur, end)
                            = Last(samples).total - TotalAt(Min({start, K}))
      <4>1. CASE K # None /\ samples # << >>
        <5>1. /\ report'.phases[1] = Done(start, K) /\ report'.phases[2] = Done(K, dur)
              /\ report'.phases[3] = Done(dur, end)
          BY <3>7, <4>1 DEF After
        <5>2. Done(start, K) + Done(K, dur) + Done(dur, end)
                = Last(samples).total - TotalAt(Min({start, K}))
          BY <3>8, <4>1
        <5>3. Min({report.start, report.kill})' = Min({start, K})
          BY <3>7
        <5> QED BY <3>2, <3>3, <3>7, <5>1, <5>2, <5>3 DEF PhasesAddUp
      <4>2. CASE ~(K # None /\ samples # << >>)
        BY <3>7, <4>2 DEF PhasesAddUp
      <4> QED BY <4>1, <4>2
    <3>9. Shape /\ Sampled /\ DuringMax \in Nat
      BY Numbers DEF IInv
    <3>10. K \in Nat
      BY <3>4, <3>8, <3>9, KillEpochType
    <3>11. PICK n \in Nat : n = Len(samples) /\ n >= 1 /\ end = samples[n].epoch
      BY <3>8, <3>9 DEF Shape, Last
    <3>12. start \in Nat /\ end \in Nat
      <4>1. samples[1].epoch \in Nat /\ end \in Nat
        BY <3>9, <3>11, SampleFields
      <4>2. FirstOf("ready") \in Nat \cup {None}
        BY <3>9, FirstOfType
      <4> QED BY <3>5, <4>1, <4>2
    <3>13. dur \in Nat /\ dur <= end /\ (dur >= K \/ dur = end)
      <4>1. CASE rec = None
        <5>1. dur = Min({K + DuringMax, end})
          BY <3>6, <4>1
        <5>2. PICK k1 \in Nat : k1 = K + DuringMax
          BY <3>9, <3>10
        <5>3. dur = IF k1 <= end THEN k1 ELSE end
          BY <3>12, <5>1, <5>2, MinOfTwo
        <5> QED BY <3>9, <3>10, <3>12, <5>2, <5>3
      <4>2. CASE rec # None
        <5> DEFINE S == {k \in 1 .. n : samples[k].epoch >= K /\ samples[k].repl > 0}
        <5>1. rec = IF S = {} THEN None ELSE Min(S)
          BY <3>11 DEF FindRecovery
        <5>2. rec \in 1 .. n /\ samples[rec].epoch >= K
          <6>1. S # {} /\ S \subseteq Nat
            BY <4>2, <5>1
          <6>2. Min(S) \in S
            <7> HIDE DEF S
            <7> QED BY <6>1, MinOf
          <6> QED BY <5>1, <6>1, <6>2
        <5>3. dur = samples[rec].epoch
          BY <3>6, <4>2
        <5>4. samples[rec].epoch <= samples[n].epoch /\ samples[rec].epoch \in Nat
          <6> HIDE DEF rec
          <6>1. n \in 1 .. Len(samples) /\ rec \in 1 .. Len(samples) /\ rec <= n
            BY <3>11, <5>2
          <6> QED BY <3>9, <6>1, SamplesInOrder, SampleFields
        <5> QED BY <3>11, <5>2, <5>3, <5>4
      <4> QED BY <4>1, <4>2
    <3> QED BY <3>8, <3>9, <3>10, <3>12, <3>13, PhasesShare
  <2> QED BY <2>1, <2>2, <2>3, ReportSteps
<1> QED BY <1>1, <1>2, Invariant, PTL DEF Spec

-----------------------------------------------------------------------------
(* The stamps of the log. *)

\* A stamp of a UTC head, on the day parse_log finds for it, is the second its
\* line was logged in, before midnight and after.
LEMMA EpochIs ==
  ASSUME UtcHead, NEW at \in T0 .. T0 + MaxTime
  PROVE  Epoch(Asctime(at)) = at - (at % Second) /\ at % Second \in 0 .. Second - 1
<1>1. PICK t0 \in Nat, mt \in Nat, s \in Nat \ {0}, d \in Nat \ {0}, sl \in Nat :
        /\ t0 = T0 /\ mt = MaxTime /\ s = Second /\ d = Day /\ sl = Slack
        /\ s <= sl /\ mt + sl < d /\ d % s = 0
  BY Numbers
<1>2. at \in Nat /\ t0 <= at /\ at <= t0 + mt
  BY <1>1
<1>3. PICK p \in Nat, r0 \in 0 .. d - 1 : t0 = d * p + r0 /\ r0 = t0 % d
  BY Division
<1>4. PICK q \in Nat, r \in 0 .. s - 1 : at = s * q + r /\ r = at % s
  BY <1>2, Division
<1>5. PICK e \in Nat : d = s * e
  <2>1. PICK e \in Nat : d = s * e + (d % s)
    BY Division
  <2>2. s * e \in Nat
    OBVIOUS
  <2> QED BY <1>1, <2>1, <2>2
<1>6. PICK base \in Nat, y \in Nat : /\ base = d * p /\ y = s * q
                                   /\ t0 = base + r0 /\ at = y + r
  <2>1. d * p \in Nat /\ s * q \in Nat
    OBVIOUS
  <2> QED BY <1>3, <1>4, <2>1
<1>7. base <= y
  <2>1. PICK m \in Nat : m = e * p /\ base = s * m
    <3>1. e * p \in Nat /\ s * (e * p) = (s * e) * p
      OBVIOUS
    <3> QED BY <1>5, <1>6, <3>1
  <2>2. CASE m <= q
    <3>1. PICK f \in Nat : q = m + f
      <4>1. q - m \in Nat /\ q = m + (q - m)
        BY <2>2
      <4> QED BY <4>1
    <3>2. s * q = s * m + s * f /\ s * f \in Nat
      BY <3>1
    <3>3. PICK z \in Nat : z = s * f
      BY <3>2
    <3> QED BY <1>6, <2>1, <3>2, <3>3
  <2>3. CASE m > q
    <3>1. PICK f \in Nat : m = q + 1 + f
      <4>1. m - q - 1 \in Nat /\ m = q + 1 + (m - q - 1)
        BY <2>3
      <4> QED BY <4>1
    <3>2. s * m = s * q + s + s * f /\ s * f \in Nat
      BY <3>1
    <3>3. PICK z \in Nat : z = s * f
      BY <3>2
    <3>4. base = y + s + z
      BY <1>6, <2>1, <3>2, <3>3
    <3> QED BY <1>2, <1>6, <3>4
  <2> QED BY <2>2, <2>3
<1>8. PICK z \in Nat : y = base + z /\ z < d + d
  <2>1. y - base \in Nat /\ y = base + (y - base) /\ y - base < d + d
    BY <1>1, <1>2, <1>6, <1>7
  <2> QED BY <2>1
<1>9. PICK stamp \in Nat : /\ stamp = base + (y % d)
                          /\ stamp = IF z < d THEN y ELSE y - d
  <2>1. CASE z < d
    <3>1. (d * p + z) % d = z
      BY <2>1, Remainder
    <3>2. y % d = z
      BY <1>6, <1>8, <3>1
    <3> QED BY <1>8, <2>1, <3>2
  <2>2. CASE z >= d
    <3>1. PICK w \in 0 .. d - 1 : z = d + w
      <4>1. z - d \in 0 .. d - 1 /\ z = d + (z - d)
        BY <1>8, <2>2
      <4> QED BY <4>1
    <3>2. d * (p + 1) = d * p + d
      OBVIOUS
    <3>3. (d * (p + 1) + w) % d = w
      BY Remainder
    <3>4. y = d * (p + 1) + w
      BY <1>6, <1>8, <3>1, <3>2
    <3>5. y % d = w
      BY <3>3, <3>4
    <3>6. base + w \in Nat /\ base + w = y - d /\ ~(z < d)
      BY <1>8, <2>2, <3>1
    <3> QED BY <3>5, <3>6
  <2> QED BY <2>1, <2>2
<1>10. Epoch(Asctime(at)) = IF stamp < t0 - sl THEN stamp + d ELSE stamp
  <2>1. at - (at % Second) = y /\ T0 - (T0 % Day) = base
    BY <1>1, <1>3, <1>4, <1>6
  <2>2. Asctime(at) = y % d
    <3>1. at + UtcOffset = at
      BY <1>2 DEF UtcHead
    <3> QED BY <1>1, <2>1, <3>1 DEF Asctime
  <2>3. Epoch(y % d) = IF base + (y % d) < t0 - sl THEN base + (y % d) + d ELSE base + (y % d)
    BY <1>1, <2>1 DEF Epoch
  <2> QED BY <1>9, <2>2, <2>3
<1>11. Epoch(Asctime(at)) = y
  <2>1. CASE z < d
    <3>1. y > at - s
      BY <1>2, <1>6
    <3>2. ~(y < t0 - sl)
      BY <1>1, <1>2, <3>1
    <3> QED BY <1>9, <1>10, <2>1, <3>2
  <2>2. CASE ~(z < d)
    <3>1. y - d < t0 - sl
      BY <1>1, <1>2, <1>6
    <3> QED BY <1>9, <1>10, <2>2, <3>1
  <2> QED BY <2>1, <2>2
<1> QED BY <1>1, <1>4, <1>6, <1>11

\* On a UTC head the kill is put at its detection, but for the truncation of the
\* stamp, when nothing failed before it and nobody noted the time.
THEOREM InferredTheorem ==
  ASSUME UtcHead
  PROVE  Spec => []InferredAfterKill
<1>1. Init => InferredAfterKill
  BY DEF Init, NoReport, InferredAfterKill
<1>2. IInv /\ InferredAfterKill /\ [Next]_vars => InferredAfterKill'
  <2> SUFFICES ASSUME IInv, InferredAfterKill, [Next]_vars PROVE InferredAfterKill'
    OBVIOUS
  <2>1. CASE UNCHANGED vars
    BY <2>1 DEF InferredAfterKill, vars, runVars
  <2>2. CASE report' = report /\ ~report.made
    BY <2>2 DEF InferredAfterKill
  <2>3. CASE Measure /\ UNCHANGED <<now, over, runVars, samplerVars>>
    <3>1. report' = BuildReport(KillEpoch)
      BY <2>3 DEF Measure, KillEpoch
    <3>2. marker' = marker /\ killed' = killed /\ log' = log /\ now' = now
      BY <2>3 DEF runVars
    <3>3. report'.kill = KillEpoch
      BY <3>1 DEF BuildReport
    <3> SUFFICES ASSUME marker = None, killed # None, KillEpoch # None,
                        \A k \in 1 .. Len(log) : log[k].kind = "failure" => log[k].at >= killed
                 PROVE  KillEpoch > killed - Second /\ KillEpoch <= now
      BY <3>2, <3>3 DEF InferredAfterKill
    <3> DEFINE S == {k \in 1 .. Len(log) : Events[k].kind = "failure"}
    <3>4. KillEpoch = Events[Min(S)].at /\ S # {}
      BY DEF KillEpoch, FirstOf
    <3>5. PICK m \in S : m = Min(S)
      <4>1. S \subseteq Nat
        BY DEF IInv, Shape
      <4> HIDE DEF S
      <4> QED BY <3>4, <4>1, MinOf
    <3>6. m \in 1 .. Len(log) /\ Events[m].kind = "failure"
      OBVIOUS
    <3>7. PICK l \in LogLines : l = log[m] /\ l.at \in T0 .. now /\ l.stamp = Asctime(l.at)
      BY <3>6 DEF IInv, Shape
    <3>8. Events[m] = [l EXCEPT !.at = Epoch(Asctime(l.at))]
      BY <3>6, <3>7 DEF Events
    <3>9. Events[m].at = Epoch(Asctime(l.at)) /\ l.kind = "failure"
      BY <3>6, <3>8 DEF LogLines
    <3>10. l.at >= killed
      BY <3>6, <3>7, <3>9
    <3>11. PICK t0 \in Nat, n \in Nat, mt \in Nat :
             t0 = T0 /\ n = now /\ mt = MaxTime /\ t0 <= n /\ n <= t0 + mt
      BY Numbers DEF IInv, Shape
    <3>12. l.at \in T0 .. T0 + MaxTime /\ l.at <= now
      BY <3>7, <3>11
    <3>13. PICK a \in Nat, s \in Nat, r \in Nat :
             a = l.at /\ s = Second /\ r < s /\ Epoch(Asctime(l.at)) = a - r
      <4>1. PICK a \in Nat, s \in Nat : a = l.at /\ s = Second
        BY <3>7, <3>11, Numbers
      <4>2. PICK r \in Nat : r < s /\ Epoch(Asctime(l.at)) = a - r
        BY <3>12, <4>1, EpochIs
      <4> QED BY <4>1, <4>2
    <3>14. killed \in Nat
      BY <3>11 DEF IInv, Shape
    <3> QED BY <3>4, <3>5, <3>9, <3>10, <3>11, <3>12, <3>13, <3>14
  <2> QED BY <2>1, <2>2, <2>3, ReportSteps
<1> QED BY <1>1, <1>2, Invariant, PTL DEF Spec

-----------------------------------------------------------------------------
(* The retries. *)

TasksOf(f, S) == MapThenSumSet(LAMBDA k : f[k].tasks, S)

\* The tasks of some lines are a sum.
LEMMA TasksSummed ==
  ASSUME NEW f, NEW S, IsFiniteSet(S), \A k \in S : f[k].tasks \in Nat
  PROVE  TasksOf(f, S) = SumOver([k \in S |-> f[k].tasks], S)
<1> DEFINE Rule(u) == [s \in SUBSET S |->
             IF s = {} THEN 0
             ELSE f[CHOOSE x \in s : TRUE].tasks + u[s \ {CHOOSE x \in s : TRUE}]]
           h == CHOOSE u : u = Rule(u)
           g == [k \in S |-> f[k].tasks]
<1>1. TasksOf(f, S) = h[S]
  BY DEF TasksOf, MapThenSumSet, MapThenFoldSet
<1>2. g \in [S -> Nat] /\ S \in SUBSET S /\ [x \in S |-> g[x]] = g
  OBVIOUS
<1>3. \A s \in SUBSET S : s # {} => g[OneOf(s)] = f[CHOOSE x \in s : TRUE].tasks
  BY DEF OneOf
<1> HIDE DEF g
<1>4. PICK a : Adds(a, g, S) /\ SumOver(g, S) = a[S]
  <2>1. PICK a : Adds(a, [x \in S |-> g[x]], S) /\ SumOver(g, S) = a[S]
    BY <1>2, SumAdds
  <2> QED BY <1>2, <2>1
<1>5. a = Rule(a)
  <2>1. a = [s \in SUBSET S |-> a[s]]
    BY <1>4 DEF Adds
  <2>2. \A s \in SUBSET S : a[s] = Rule(a)[s]
    BY <1>3, <1>4 DEF Adds, OneOf
  <2> QED BY <2>1, <2>2
<1>6. h = Rule(h)
  <2> HIDE DEF Rule
  <2> QED BY <1>5
<1>7. FollowsRule(h, g, S)
  <2> HIDE DEF h
  <2> QED BY <1>3, <1>6 DEF FollowsRule, OneOf
<1>8. Adds(h, g, S)
  <2> HIDE DEF h
  <2> QED BY <1>2, <1>7, RuleAdds
<1>9. h[S] <= a[S] /\ a[S] <= h[S] /\ h[S] \in Nat /\ a[S] \in Nat
  <2> HIDE DEF h
  <2>1. \A x \in S : g[x] <= g[x]
    BY <1>2
  <2>2. h[S] <= a[S]
    BY <1>2, <1>4, <1>8, <2>1, AddsLess
  <2>3. a[S] <= h[S]
    BY <1>2, <1>4, <1>8, <2>1, AddsLess
  <2> QED BY <1>4, <1>8, <2>2, <2>3 DEF Adds
<1>10. h[S] = SumOver(g, S)
  <2> HIDE DEF h
  <2> QED BY <1>4, <1>9
<1> QED
  <2> HIDE DEF h
  <2> QED BY <1>1, <1>10 DEF g

\* More lines retry no fewer tasks.
LEMMA TasksOfMore ==
  ASSUME NEW f, NEW e, NEW S, NEW T, IsFiniteSet(T), S \subseteq T,
         \A k \in T : e[k].tasks = f[k].tasks /\ f[k].tasks \in Nat
  PROVE  TasksOf(e, S) <= TasksOf(f, T)
<1>1. IsFiniteSet(S) /\ S \in SUBSET S /\ T \in SUBSET T
  BY FS_Subset
<1> DEFINE g == [k \in S |-> e[k].tasks]
           h == [k \in T |-> f[k].tasks]
<1>2. g \in [S -> Nat] /\ h \in [T -> Nat] /\ \A k \in S : g[k] <= h[k]
  OBVIOUS
<1>3. TasksOf(e, S) = SumOver(g, S) /\ TasksOf(f, T) = SumOver(h, T)
  BY <1>1, TasksSummed
<1> HIDE DEF g, h
<1>4. SumOver(g, S) <= SumOver(h, T)
  BY <1>1, <1>2, SumOfLess
<1> QED BY <1>3, <1>4

\* On a UTC head an event is its line, to the second.
LEMMA EventFields ==
  ASSUME UtcHead, Shape, NEW k \in 1 .. Len(log)
  PROVE  /\ Events[k].kind = log[k].kind /\ Events[k].tasks = log[k].tasks
         /\ log[k].tasks \in Nat /\ log[k].at \in Nat
         /\ \E r \in 0 .. Second - 1 : Events[k].at = log[k].at - r
<1>1. PICK l \in LogLines : l = log[k] /\ l.at \in T0 .. now /\ l.stamp = Asctime(l.at)
  BY DEF Shape
<1>2. Events[k] = [l EXCEPT !.at = Epoch(Asctime(l.at))]
  BY <1>1 DEF Events
<1>3. /\ Events[k].kind = l.kind /\ Events[k].tasks = l.tasks
      /\ Events[k].at = Epoch(Asctime(l.at))
      /\ l.tasks \in Nat /\ l.at \in Nat
  BY <1>2 DEF LogLines
<1>4. l.at \in T0 .. T0 + MaxTime
  <2>1. PICK t0 \in Nat, n \in Nat, mt \in Nat :
          t0 = T0 /\ n = now /\ mt = MaxTime /\ t0 <= n /\ n <= t0 + mt
    BY Numbers DEF Shape
  <2> QED BY <1>1, <2>1
<1>5. Epoch(Asctime(l.at)) = l.at - (l.at % Second) /\ l.at % Second \in 0 .. Second - 1
  BY <1>4, EpochIs
<1> QED BY <1>1, <1>3, <1>5

\* The retries of a window, to the second.
LEMMA RetriedBounds ==
  ASSUME UtcHead, Shape, NEW K \in Nat, NEW rE \in Nat
  PROVE  /\ RetriesIn(K, rE) <= Retried(K - Lead, rE)
         /\ Retried(K - Lead, rE) <= RetriesIn(K - Lead, rE + Second - 1)
<1>1. PICK n \in Nat, s \in Nat, ld \in Nat :
        n = Len(log) /\ s = Second /\ ld = Lead /\ s <= ld
  BY Numbers DEF Shape
<1> DEFINE A == {k \in 1 .. Len(log) : log[k].kind = "retry" /\ K <= log[k].at /\ log[k].at <= rE}
           B == {k \in 1 .. Len(log) :
                   Events[k].kind = "retry" /\ K - Lead <= Events[k].at /\ Events[k].at <= rE}
           C == {k \in 1 .. Len(log) : log[k].kind = "retry" /\ K - Lead <= log[k].at
                                         /\ log[k].at <= rE + Second - 1}
<1>2. /\ RetriesIn(K, rE) = TasksOf(log, A) /\ Retried(K - Lead, rE) = TasksOf(Events, B)
      /\ RetriesIn(K - Lead, rE + Second - 1) = TasksOf(log, C)
  BY DEF RetriesIn, Retried, TasksOf
<1>3. ASSUME NEW k \in 1 .. Len(log)
      PROVE  (k \in A => k \in B) /\ (k \in B => k \in C)
  <2>1. PICK a \in Nat, r \in Nat : a = log[k].at /\ r < s /\ Events[k].at = a - r
    BY <1>1, EventFields
  <2>2. Events[k].kind = log[k].kind
    BY EventFields
  <2> QED BY <1>1, <2>1, <2>2
<1>4. A \subseteq B /\ B \subseteq C
  BY <1>3
<1>5. IsFiniteSet(B) /\ IsFiniteSet(C)
  <2>1. IsFiniteSet(1 .. Len(log))
    BY <1>1, FS_Interval
  <2> QED BY <2>1, FS_Subset
<1>6. \A k \in B \cup C : Events[k].tasks = log[k].tasks /\ log[k].tasks \in Nat
  BY EventFields
<1> HIDE DEF A, B, C
<1>7. TasksOf(log, A) <= TasksOf(Events, B)
  <2>1. PICK E : E = Events
    OBVIOUS
  <2>2. \A k \in B : log[k].tasks = E[k].tasks /\ E[k].tasks \in Nat
    BY <1>6, <2>1
  <2>3. TasksOf(log, A) <= TasksOf(E, B)
    BY <1>4, <1>5, <2>2, TasksOfMore
  <2> QED BY <2>1, <2>3
<1>8. TasksOf(Events, B) <= TasksOf(log, C)
  <2>1. PICK E : E = Events
    OBVIOUS
  <2>2. \A k \in C : E[k].tasks = log[k].tasks /\ log[k].tasks \in Nat
    BY <1>6, <2>1
  <2>3. TasksOf(E, B) <= TasksOf(log, C)
    BY <1>4, <1>5, <2>2, TasksOfMore
  <2> QED BY <2>1, <2>3
<1> QED BY <1>2, <1>7, <1>8

\* On a UTC head, of a kill that was marked, the retries reported are those logged
\* from the kill, or at most Lead before it, to the end of the grace period, to the
\* second.
THEOREM RetriesTheorem ==
  ASSUME UtcHead
  PROVE  Spec => []RetriesOfKill
<1>1. Init => RetriesOfKill
  BY DEF Init, NoReport, RetriesOfKill
<1>2. IInv /\ RetriesOfKill /\ [Next]_vars => RetriesOfKill'
  <2> SUFFICES ASSUME IInv, RetriesOfKill, [Next]_vars PROVE RetriesOfKill'
    OBVIOUS
  <2>1. CASE UNCHANGED vars
    <3>1. \A a, b : RetriesIn(a, b)' = RetriesIn(a, b)
      BY <2>1 DEF RetriesIn, MapThenSumSet, MapThenFoldSet, vars, runVars
    <3>2. report' = report /\ marker' = marker
      BY <2>1 DEF vars, runVars
    <3> QED BY <3>1, <3>2 DEF RetriesOfKill
  <2>2. CASE report' = report /\ ~report.made
    BY <2>2 DEF RetriesOfKill
  <2>3. CASE Measure /\ UNCHANGED <<now, over, runVars, samplerVars>>
    <3>1. report' = BuildReport(KillEpoch)
      BY <2>3 DEF Measure, KillEpoch
    <3>2. marker' = marker /\ log' = log
      BY <2>3 DEF runVars
    <3>3. \A a, b : RetriesIn(a, b)' = RetriesIn(a, b)
      BY <3>2 DEF RetriesIn, MapThenSumSet, MapThenFoldSet
    <3>4. PICK K : K = KillEpoch
      OBVIOUS
    <3> DEFINE rec == FindRecovery(K)
    <3>5. PICK retryEnd : retryEnd = IF rec # None THEN samples[rec].epoch ELSE K + RetryMax
      OBVIOUS
    <3>6. /\ report'.kill = K
          /\ K # None => report'.retryEnd = retryEnd
          /\ K # None => report'.retried = Retried(K - Lead, retryEnd + Grace)
      BY <3>1, <3>4, <3>5 DEF BuildReport
    <3>7. SUFFICES ASSUME K # None
                   PROVE  /\ RetriesIn(K, retryEnd + Grace) <= Retried(K - Lead, retryEnd + Grace)
                          /\ Retried(K - Lead, retryEnd + Grace)
                               <= RetriesIn(K - Lead, retryEnd + Grace + Second - 1)
      <4>1. CASE K = None
        BY <3>6, <4>1 DEF RetriesOfKill
      <4>2. CASE K # None
        <5>1. PICK a, b, c : /\ a = K - Lead /\ b = retryEnd + Grace
                             /\ c = retryEnd + Grace + Second - 1
          OBVIOUS
        <5>2. /\ report'.kill = K /\ report'.kill - Lead = a
              /\ report'.retryEnd + Grace = b /\ report'.retryEnd + Grace + Second - 1 = c
              /\ report'.retried = Retried(a, b)
          BY <3>6, <4>2, <5>1
        <5>3. RetriesIn(K, b)' <= report'.retried /\ report'.retried <= RetriesIn(a, c)'
          BY <3>3, <3>7, <4>2, <5>1, <5>2
        <5> QED BY <5>2, <5>3 DEF RetriesOfKill
      <4> QED BY <4>1, <4>2
    <3>8. K \in Nat /\ Shape /\ Sampled
      BY <3>4, <3>7, KillEpochType DEF IInv
    <3>9. retryEnd \in Nat
      <4>1. CASE rec = None
        BY <3>5, <3>8, <4>1, Numbers
      <4>2. CASE rec # None
        <5> DEFINE S == {k \in 1 .. Len(samples) : samples[k].epoch >= K /\ samples[k].repl > 0}
        <5>1. rec = IF S = {} THEN None ELSE Min(S)
          BY DEF FindRecovery
        <5>2. rec \in 1 .. Len(samples)
          <6>1. S # {} /\ S \subseteq Nat
            BY <3>8, <4>2, <5>1 DEF Shape
          <6>2. Min(S) \in S
            <7> HIDE DEF S
            <7> QED BY <6>1, MinOf
          <6> QED BY <5>1, <6>1, <6>2
        <5> HIDE DEF rec
        <5> QED BY <3>5, <3>8, <4>2, <5>2, SampleFields
      <4> QED BY <4>1, <4>2
    <3>10. PICK rE \in Nat : rE = retryEnd + Grace
      BY <3>9, Numbers
    <3> QED BY <3>8, <3>10, RetriedBounds
  <2> QED BY <2>1, <2>2, <2>3, ReportSteps
<1> QED BY <1>1, <1>2, Invariant, PTL DEF Spec
=============================================================================
