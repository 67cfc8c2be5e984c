------------------------------- MODULE KillTest -------------------------------
(***************************************************************************)
(* bench/multinode: what the two-node kill test observes of a run and what *)
(* measure.py makes of it.                                                 *)
(*                                                                         *)
(* Module Coordinator models the run itself; here it is what it leaves: it *)
(* logs lines, and writes rows to results.jsonl, which may be there in     *)
(* part.                                                                   *)
(* sample_progress.py reads the file, then takes the time, and sleeps;     *)
(* somebody kills a node; at the end of the run measure.py reads the log   *)
(* and the samples.  Time, like time.time(), is counted from an epoch in   *)
(* UTC, in fractions of a second; a line of the log says only the second   *)
(* of the day, and that of the head's local time.                          *)
(***************************************************************************)
EXTENDS Integers, Sequences, SequencesExt

CONSTANTS
  T0,               \* t0_epoch of run_meta.json
  MaxTime,          \* how long a run takes at most
  Second, Day,      \* a second and a day
  UtcOffset,        \* what the head's local time is ahead of UTC
  Slack,            \* how far before T0 a stamp is still of T0's day: 300 s
  RetrySizes,       \* how many tasks a failure may retry
  Lead,             \* retries count from this long before the kill: 2 s
  Grace,            \* --grace
  DuringMax,        \* length of an unfinished recovery: 60 s
  RetryMax,         \* and of its retries: 180 s
  MaxRows, MaxSamples, MaxFailures  \* bounds on the run

ASSUME RetrySizesAssumption == RetrySizes \subseteq Nat

ASSUME TimesAssumption ==
  /\ {T0, MaxTime, Second, Day, Slack, Lead, Grace, DuringMax, RetryMax} \subseteq Nat
  /\ Second > 0 /\ Second <= Slack /\ Second <= Lead /\ Day % Second = 0
  /\ MaxTime + Slack < Day
  /\ UtcOffset \in Int

\* "parse_log assumes a UTC head" (tests/test_multinode_measure.py:113), while the
\* "harness logs in head-local time" (:20).  What depends on the stamps of the log
\* is claimed of such a head only.
UtcHead == UtcOffset = 0

VARIABLES
  now,       \* time.time()
  over,      \* main.py has exited and the sampler was killed
  rows,      \* the complete rows of results.jsonl
  half,      \* part of another row follows them
  killed,    \* when the node was killed
  marker,    \* kill_marker
  promoted,  \* a replacement is in service
  log,       \* the stamped lines of run.log
  offset,    \* the sampler's byte offset, a row being two bytes
  total,     \* its rows
  repl,      \* its rows of replacements
  readAt,    \* when it read the file, if it has yet to take the time
  samples,   \* progress.csv
  report     \* build_report's answer

runVars == <<rows, half, killed, marker, promoted, log>>
samplerVars == <<offset, total, repl, readAt, samples>>
vars == <<now, over, runVars, samplerVars, report>>

None == -1
NoReport == [made |-> FALSE]

Init ==
  /\ now = T0
  /\ over = FALSE
  /\ rows = << >>
  /\ half = FALSE
  /\ killed = None
  /\ marker = None
  /\ promoted = FALSE
  /\ log = << >>
  /\ offset = 0
  /\ total = 0
  /\ repl = 0
  /\ readAt = None
  /\ samples = << >>
  /\ report = NoReport

-----------------------------------------------------------------------------
(* The run and the kill. *)

Tick ==
  /\ ~over /\ now < T0 + MaxTime
  /\ now' = now + 1
  /\ UNCHANGED <<over, runVars, samplerVars, report>>

\* "%H:%M:%S" of logging.basicConfig: the second of the day in local time.
Asctime(at) == LET local == at + UtcOffset IN (local - (local % Second)) % Day

\* A line has no more of its time than the stamp.  (at is for the properties.)
Line(kind, k) == [at |-> now, stamp |-> Asctime(now), kind |-> kind, tasks |-> k]
Logged(kind) == SelectSeq(log, LAMBDA l : l.kind = kind)

\* "workers ready and validated".
Ready ==
  /\ ~over /\ log = << >>
  /\ log' = << Line("ready", 0) >>
  /\ UNCHANGED <<now, over, rows, half, killed, marker, promoted, samplerVars, report>>

\* The file's buffer ends within a row.
WritePart ==
  /\ ~over /\ ~half /\ log # << >> /\ Len(rows) < MaxRows
  /\ half' = TRUE
  /\ UNCHANGED <<now, over, rows, killed, marker, promoted, log, samplerVars, report>>

\* The rest of it, by a primary or by a replacement.
WriteRest ==
  /\ ~over /\ half
  /\ half' = FALSE
  /\ \E r \in {FALSE, promoted} : rows' = Append(rows, [replacement |-> r, at |-> now])
  /\ UNCHANGED <<now, over, killed, marker, promoted, log, samplerVars, report>>

\* kill_node.sh takes the time, kills, and writes kill_marker; a node may as
\* well be killed without it.
Kill ==
  /\ ~over /\ killed = None
  /\ killed' = now
  /\ marker' \in {now, None}
  /\ UNCHANGED <<now, over, rows, half, promoted, log, samplerVars, report>>

\* A call raises, or is outstanding for too long, of the kill or of something else.
BatchFails ==
  /\ ~over /\ log # << >> /\ Len(Logged("failure")) < MaxFailures
  /\ log' = Append(log, Line("failure", 0))
  /\ UNCHANGED <<now, over, rows, half, killed, marker, promoted, samplerVars, report>>

\* The failed batch's line is followed, when the worker has been probed and perhaps
\* replaced, by that of its retry; or by none, if the failure is terminal.
RetryBatch ==
  /\ ~over /\ log # << >> /\ Last(log).kind = "failure"
  /\ \E k \in RetrySizes : log' = Append(log, Line("retry", k))
  /\ UNCHANGED <<now, over, rows, half, killed, marker, promoted, samplerVars, report>>

\* Replacements are made for failed workers only, before the retry's line or after.
Replace ==
  /\ ~over /\ Logged("failure") # << >>
  /\ promoted' = TRUE
  /\ UNCHANGED <<now, over, rows, half, killed, marker, log, samplerVars, report>>

-----------------------------------------------------------------------------
(* sample_progress.py. *)

\* Mutants: every scan starts where the last did; the part after the last newline
\* is skipped as well.
NextOffsetUnmoved == offset
NextOffsetPastPart == 2 * Len(rows) + (IF half THEN 1 ELSE 0)

\* The offset after a scan: only complete lines are consumed.
NextOffset == 2 * Len(rows)

\* scan_new_lines: the lines that end after offset are counted, of those only
\* the ones that begin after it can be parsed and attributed.
Scan ==
  /\ ~over /\ readAt = None /\ Len(samples) < MaxSamples
  /\ LET Lines == {k \in 1 .. Len(rows) : 2 * k > offset}
         Parsed == {k \in Lines : 2 * (k - 1) >= offset}
     IN  /\ total' = total + Cardinality(Lines)
         /\ repl' = repl + Cardinality({k \in Parsed : rows[k].replacement})
  /\ offset' = NextOffset
  /\ readAt' = now
  /\ UNCHANGED <<now, over, runVars, samples, report>>

\* The line of the CSV, with the time it is by now.  (read is for the properties.)
Stamp ==
  /\ ~over /\ readAt # None
  /\ samples' = Append(samples,
       [epoch |-> now, total |-> total, repl |-> repl, read |-> readAt])
  /\ readAt' = None
  /\ UNCHANGED <<now, over, runVars, offset, total, repl, report>>

\* main.py returns and run.sh kills the sampler, wherever it is.
RunEnds ==
  /\ ~over /\ log # << >> /\ ~half
  /\ over' = TRUE
  /\ UNCHANGED <<now, runVars, samplerVars, report>>

-----------------------------------------------------------------------------
(* measure.py. *)

\* Mutant: any stamp before t0 is of the next day.
EpochWithoutSlack(stamp) ==
  LET at == (T0 - (T0 % Day)) + stamp IN IF at < T0 THEN at + Day ELSE at

\* parse_log: a stamp, on T0's day in UTC, or on the next if it is well before T0.
Epoch(stamp) ==
  LET at == (T0 - (T0 % Day)) + stamp IN IF at < T0 - Slack THEN at + Day ELSE at

Events == [k \in 1 .. Len(log) |-> [log[k] EXCEPT !.at = Epoch(log[k].stamp)]]

FirstOf(kind) ==
  LET S == {k \in 1 .. Len(log) : Events[k].kind = kind}
  IN  IF S = {} THEN None ELSE Events[Min(S)].at

\* total_at: of the last sample before the first that is later than epoch.
TotalAt(epoch) ==
  LET upTo == {k \in 1 .. Len(samples) : \A j \in 1 .. k : samples[j].epoch <= epoch}
  IN  IF upTo = {} THEN 0 ELSE samples[Max(upTo)].total

\* rate, before it is divided by the length of the window.
Done(start, end) == IF end <= start THEN 0 ELSE TotalAt(end) - TotalAt(start)

\* Mutant: the loop goes on to the last such sample.
FindRecoveryLast(kill) ==
  LET S == {k \in 1 .. Len(samples) : samples[k].epoch >= kill /\ samples[k].repl > 0}
  IN  IF S = {} THEN None ELSE Max(S)

\* find_recovery: the sample whose epoch is the upper bound; its predecessor's
\* is the lower.
FindRecovery(kill) ==
  LET S == {k \in 1 .. Len(samples) : samples[k].epoch >= kill /\ samples[k].repl > 0}
  IN  IF S = {} THEN None ELSE Min(S)

\* Mutant: retries count from the kill on.
RetriedFromKill(start, end) ==
  LET E == {k \in 1 .. Len(log) :
              Events[k].kind = "retry" /\ start + Lead <= Events[k].at /\ Events[k].at <= end}
  IN  MapThenSumSet(LAMBDA k : Events[k].tasks, E)

\* retried_tasks_in_window.
Retried(start, end) ==
  LET E == {k \in 1 .. Len(log) :
              Events[k].kind = "retry" /\ start <= Events[k].at /\ Events[k].at <= end}
  IN  MapThenSumSet(LAMBDA k : Events[k].tasks, E)

\* Mutant: the last phase begins at the kill.
AfterFromKill(kill, duringEnd, end) == Done(kill, end)

After(kill, duringEnd, end) == Done(duringEnd, end)

\* build_report, of a kill epoch or of None.
BuildReport(kill) ==
  LET rec == IF kill = None THEN None ELSE FindRecovery(kill)
      recovery == IF rec = None THEN None ELSE samples[rec].epoch
      end == Last(samples).epoch
      start == IF FirstOf("ready") # None THEN FirstOf("ready") ELSE samples[1].epoch
      duringEnd == IF rec # None THEN recovery ELSE Min({kill + DuringMax, end})
      retryEnd == IF rec # None THEN recovery ELSE kill + RetryMax
  IN  [made |-> TRUE, kill |-> kill, recovery |-> recovery,
       lower |-> IF rec \in {None, 1} THEN None ELSE samples[rec - 1].epoch,
       phases |-> IF kill = None \/ samples = << >> THEN << >>
                  ELSE << Done(start, kill), Done(kill, duringEnd),
                          After(kill, duringEnd, end) >>,
       start |-> start, retryEnd |-> retryEnd,
       retried |-> IF kill = None THEN 0 ELSE Retried(kill - Lead, retryEnd + Grace)]

\* main: the marker's epoch, or that of the first failure in the log.
Measure ==
  /\ over /\ report = NoReport
  /\ report' = BuildReport(IF marker # None THEN marker ELSE FirstOf("failure"))
  /\ UNCHANGED <<now, over, runVars, samplerVars>>

Finished == report.made /\ UNCHANGED vars

Next ==
  \/ Tick \/ Ready \/ WritePart \/ WriteRest \/ Kill
  \/ BatchFails \/ RetryBatch \/ Replace
  \/ Scan \/ Stamp \/ RunEnds \/ Measure \/ Finished

Spec == Init /\ [][Next]_vars
-----------------------------------------------------------------------------
(* Correctness. *)

TypeOK ==
  /\ now \in T0 .. T0 + MaxTime
  /\ {over, half, promoted} \subseteq BOOLEAN
  /\ offset \in 0 .. 2 * Len(rows) + 1
  /\ repl \in 0 .. total /\ total \in 0 .. Len(rows)
  /\ {killed, marker, readAt} \subseteq {None} \cup T0 .. now

\* What a sample says lies between what was complete on disk at the sample before
\* and what was at its own time, replacements' rows included: a row seen in part
\* is neither lost nor counted twice nor robbed of its worker.
Before(e, R) == Cardinality({k \in 1 .. Len(rows) : rows[k].at < e /\ rows[k].replacement \in R})
SamplesLag ==
  \A k \in 1 .. Len(samples) :
    LET s == samples[k]
        prev == IF k = 1 THEN T0 ELSE samples[k - 1].epoch
    IN  /\ Before(prev, BOOLEAN) <= s.total /\ s.total <= Before(s.epoch + 1, BOOLEAN)
        /\ Before(prev, {TRUE}) <= s.repl /\ s.repl <= Before(s.epoch + 1, {TRUE})

\* "(upper_bound_epoch, lower_bound_epoch)": if no replacement had written before
\* the kill, its first row came after the previous sample was read (which is
\* before the lower bound reported) and no later than the upper bound; without a
\* recovery there was no such row when the file was last read.
FirstReplacement ==
  LET R == {k \in 1 .. Len(rows) : rows[k].replacement}
  IN  IF R = {} THEN None ELSE rows[Min(R)].at
RecoveryBracketed ==
  report.made /\ report.kill # None /\ Before(report.kill, {TRUE}) = 0 =>
    IF report.recovery = None
    THEN samples # << >> =>
           FirstReplacement = None \/ FirstReplacement >= Last(samples).read
    ELSE /\ FirstReplacement # None /\ FirstReplacement <= report.recovery
         /\ \A k \in 1 .. Len(samples) :
              samples[k].epoch < report.recovery => samples[k].read <= FirstReplacement

\* The phases share out all tasks sampled since the first of them began, none in
\* two of them.
PhasesAddUp ==
  report.made /\ report.phases # << >> =>
    report.phases[1] + report.phases[2] + report.phases[3] =
      Last(samples).total - TotalAt(Min({report.start, report.kill}))

\* On a UTC head, the retries put down to the kill are those logged from the kill,
\* or at most Lead before it, to the end of the grace period, to the second.
RetriesIn(start, end) ==
  MapThenSumSet(LAMBDA k : log[k].tasks,
    {k \in 1 .. Len(log) : log[k].kind = "retry" /\ start <= log[k].at /\ log[k].at <= end})
RetriesOfKill ==
  report.made /\ report.kill # None /\ report.kill = marker =>
    /\ report.retried >= RetriesIn(report.kill, report.retryEnd + Grace)
    /\ report.retried <= RetriesIn(report.kill - Lead, report.retryEnd + Grace + Second - 1)

\* Without a marker, and on a UTC head, the kill is placed at its detection, "LATER
\* than the kill" but for the truncation of the stamp, if nothing had failed before.
InferredAfterKill ==
  report.made /\ marker = None /\ killed # None /\ report.kill # None
    /\ (\A k \in 1 .. Len(log) : log[k].kind = "failure" => log[k].at >= killed) =>
      report.kill > killed - Second /\ report.kill <= now
=============================================================================
