------------------------------- MODULE Timers -------------------------------
(***************************************************************************)
(* The millisecond clock of Timer.h and what a loop does with it: every    *)
(* pass measures the time since the last one, across the wrap of the       *)
(* 32-bit counter, updates the timers with it and gives it to UpdateTime,  *)
(* which keeps statistics of the last passes.                              *)
(***************************************************************************)
EXTENDS Integers, SequencesExt

CONSTANTS WordSize,      \* numbers a uint32 has
          Steps,         \* lengths of a pass
          MaxPasses,     \* bound: passes of the loop
          Intervals,     \* of the timers
          AVG_DIFF_COUNT,
          Radices        \* microseconds of a millisecond, and so on up to the hours of a day

VARIABLES now,        \* milliseconds since the start of the program
          seen,       \* getMSTime() at the last pass
          measured,   \* history: the sum of the differences
          diffs,      \* history: the differences
          timers,     \* the timers
          passes,     \* history: times each timer passed
          stats,      \* UpdateTime
          undefined   \* history: a division by zero

vars == <<now, seen, measured, diffs, timers, passes, stats, undefined>>

getMSTime(time) == time % WordSize

\* Mutant of getMSTimeDiff: as if the counter did not wrap.
DiffWithoutWrap(old, new) == IF old > new THEN old - new ELSE new - old

\* Across the wrap, 0xFFFFFFFF stands for 2^32: one millisecond is missing.
getMSTimeDiff(old, new) ==
    IF old > new THEN (WordSize - 1 - old) + new ELSE new - old

-----------------------------------------------------------------------------
(***************************************************************************)
(* The timers: an IntervalTimer that is Reset() when it passed, a          *)
(* TimeTracker (TimeTrackerSmall) that is Reset(interval) when it passed,  *)
(* and a PeriodicTimer.  Each operator gives the timer after a difference. *)
(* The members of the last two are int32; Library assumes passes and       *)
(* intervals of less than half the counter's range, so that they fit.      *)
(***************************************************************************)
IntervalPassed(t, diff) == t.current + diff >= t.interval

IntervalUpdate(t, diff) ==
    [interval |-> t.interval,
     current  |-> IF IntervalPassed(t, diff) THEN (t.current + diff) % t.interval ELSE t.current + diff]

TrackerPassed(t, diff) == t.expiry - diff <= 0
TrackerUpdate(t, diff) ==
    [interval |-> t.interval,
     expiry   |-> IF TrackerPassed(t, diff) THEN t.interval ELSE t.expiry - diff]

PeriodicPassed(t, diff) == t.expire - diff <= 0

PeriodicUpdate(t, diff) ==
    [interval |-> t.interval,
     expire   |-> IF ~PeriodicPassed(t, diff) THEN t.expire - diff
                  ELSE t.expire - diff + (IF t.interval > diff THEN t.interval ELSE diff)]

-----------------------------------------------------------------------------
(***************************************************************************)
(* UpdateTime                                                              *)
(***************************************************************************)
Slots == 0 .. AVG_DIFF_COUNT - 1
Larger(a, b) == IF a > b THEN a ELSE b

NewStats == [table |-> [i \in Slots |-> 0], index |-> 0, total |-> 0, average |-> 0,
             max |-> 0, maxOfCurrent |-> 0, maxOfLast |-> 0]

\* The table counts as full when its last slot is not zero.
UpdateWithDiff(s, diff) ==
    LET table == [s.table EXCEPT ![s.index] = diff]
        total == (s.total - s.table[s.index] + diff) % WordSize
        index == (s.index + 1) % AVG_DIFF_COUNT
        maxOfCurrent == Larger(s.maxOfCurrent, diff)
    IN [table        |-> table,
        index        |-> index,
        total        |-> total,
        average      |-> CASE table[AVG_DIFF_COUNT - 1] # 0 -> total \div AVG_DIFF_COUNT
                           [] table[AVG_DIFF_COUNT - 1] = 0 /\ index # 0 -> total \div index
                           [] OTHER -> s.average,
        max          |-> Larger(s.max, diff),
        maxOfCurrent |-> IF index = 0 THEN 0 ELSE maxOfCurrent,
        maxOfLast    |-> IF index = 0 THEN maxOfCurrent ELSE s.maxOfLast]

GetMaxUpdateTimeOfCurrentTable(s) == Larger(s.maxOfCurrent, s.maxOfLast)
GetLastUpdateTime(s) == s.table[IF s.index # 0 THEN s.index - 1 ELSE AVG_DIFF_COUNT - 1]
GetTimeWeightedAverageUpdateTime(s) ==
    LET sum[i \in 0 .. AVG_DIFF_COUNT] ==
            IF i = 0 THEN 0 ELSE (sum[i - 1] + s.table[i - 1] * s.table[i - 1]) % WordSize
        weightsum[i \in 0 .. AVG_DIFF_COUNT] ==
            IF i = 0 THEN 0 ELSE (weightsum[i - 1] + s.table[i - 1]) % WordSize
    IN IF weightsum[AVG_DIFF_COUNT] = 0 THEN 0 ELSE sum[AVG_DIFF_COUNT] \div weightsum[AVG_DIFF_COUNT]

\* RecordUpdateTime(): a log line when the last one is longer ago than the interval.
RecordDue(r, ms) == r.interval > 0 /\ getMSTimeDiff(r.last, ms) > r.interval
RecordUpdateTime(r, ms) == IF RecordDue(r, ms) THEN [interval |-> r.interval, last |-> ms] ELSE r

-----------------------------------------------------------------------------
(***************************************************************************)
(* ToTimeString()                                                          *)
(***************************************************************************)

\* The units from the day down to the microsecond.
Units == LET up[k \in 0 .. Len(Radices)] == IF k = 0 THEN 1 ELSE up[k - 1] * Radices[k]
         IN [k \in 1 .. Len(Radices) + 1 |-> up[Len(Radices) + 1 - k]]

\* The parts of a duration that are not zero, as many as asked for.  The texts give
\* each its unit, TimeFormat::Numeric does not: 1:30 has lost which parts were zero.
ToTimeString(duration, outCount) ==
    LET value(k) == LET n == duration \div Units[k]
                    IN IF k = 1 THEN n ELSE n % Radices[Len(Radices) + 2 - k]
        text[k \in 0 .. Len(Radices) + 1] ==
            IF k = 0 THEN << >>
            ELSE IF value(k) # 0 /\ Len(text[k - 1]) < outCount
                 THEN Append(text[k - 1], [unit |-> Units[k], value |-> value(k)])
                 ELSE text[k - 1]
    IN text[Len(Radices) + 1]

-----------------------------------------------------------------------------
Init ==
    /\ now = 0 /\ seen = 0 /\ measured = 0 /\ diffs = << >> /\ undefined = FALSE
    /\ timers = << >> /\ passes = [interval |-> 0, tracker |-> 0, periodic |-> 0, record |-> 0]
    /\ stats = NewStats

\* SetInterval(), the constructors
Begin ==
    /\ timers = << >>
    /\ \E interval \in Intervals :
        timers' = [interval |-> [interval |-> interval, current |-> 0],
                   tracker  |-> [interval |-> interval, expiry |-> interval],
                   periodic |-> [interval |-> interval, expire |-> interval],
                   record   |-> [interval |-> interval, last |-> 0]]
    /\ UNCHANGED <<now, seen, measured, diffs, passes, stats, undefined>>

Pass ==
    \E step \in Steps :
        LET diff == getMSTimeDiff(seen, getMSTime(now + step))
            tick(passed) == IF passed THEN 1 ELSE 0
        IN /\ timers # << >> /\ ~undefined /\ Len(diffs) < MaxPasses
           /\ now' = now + step /\ seen' = getMSTime(now')
           /\ measured' = measured + diff /\ diffs' = Append(diffs, diff)
           /\ stats' = UpdateWithDiff(stats, diff)
           /\ passes' = [interval |-> passes.interval + tick(IntervalPassed(timers.interval, diff)),
                         tracker  |-> passes.tracker + tick(TrackerPassed(timers.tracker, diff)),
                         periodic |-> passes.periodic + tick(PeriodicPassed(timers.periodic, diff)),
                         record   |-> passes.record + tick(RecordDue(timers.record, seen'))]
           /\ IF timers.interval.interval = 0
              THEN undefined' = TRUE /\ UNCHANGED timers   \* _current %= 0
              ELSE /\ timers' = [interval |-> IntervalUpdate(timers.interval, diff),
                                 tracker  |-> TrackerUpdate(timers.tracker, diff),
                                 periodic |-> PeriodicUpdate(timers.periodic, diff),
                                 record   |-> RecordUpdateTime(timers.record, seen')]
                   /\ UNCHANGED undefined

Next == Begin \/ Pass
-----------------------------------------------------------------------------
(***************************************************************************)
(* Properties                                                              *)
(***************************************************************************)
Sum(list) ==
    LET upTo[i \in 0 .. Len(list)] == IF i = 0 THEN 0 ELSE upTo[i - 1] + list[i]
    IN upTo[Len(list)]
Maximum(list) ==
    LET upTo[i \in 0 .. Len(list)] == IF i = 0 THEN 0 ELSE Larger(upTo[i - 1], list[i])
    IN upTo[Len(list)]
Window == SubSeq(diffs, Larger(1, Len(diffs) - AVG_DIFF_COUNT + 1), Len(diffs))

\* A loop measures all the time there is but one millisecond at each wrap of the
\* counter, and its timers keep pace with it: the interval timer does not drift, the
\* others stay ahead, none passes more often than its interval, and the log lines of
\* RecordUpdateTime() are more than theirs apart.
TimersKeepPace ==
    /\ measured + now \div WordSize = now
    /\ timers # << >> /\ ~undefined /\ timers.interval.interval > 0 =>
        LET interval == timers.interval.interval
            whole == measured \div interval
        IN /\ timers.interval.current = measured % interval
           /\ passes.interval <= whole
           /\ (\A i \in DOMAIN diffs : diffs[i] <= interval) => passes.interval = whole
           /\ timers.tracker.expiry \in 1 .. interval /\ passes.tracker <= whole
           /\ timers.periodic.expire \in 1 .. interval /\ passes.periodic <= whole
           /\ passes.record * (interval + 1) <= now

\* The text of a duration is exact down to its last part; it is short of what the
\* parts that were not asked for hold, less than the unit of the last one.
TextsTell ==
    \A outCount \in 1 .. Len(Units) :
        LET text == ToTimeString(measured, outCount)
            rest == measured - Sum([i \in DOMAIN text |-> text[i].value * text[i].unit])
        IN /\ rest >= 0 /\ (Len(text) < outCount => rest = 0)
           /\ text # << >> => rest < text[Len(text)].unit

\* The statistics are those of the last passes: the total is theirs in 32 bits and the last
\* difference is exact, the maxima cover the window, the weighted average is between the
\* average and the maximum while its squares do not overflow, and the average is the window's
\* unless the last slot of a table that is full holds a zero.
StatisticsOfWindow ==
    diffs # << >> =>
        /\ stats.total = Sum(Window) % WordSize /\ GetLastUpdateTime(stats) = Last(diffs)
        /\ stats.max = Maximum(diffs)
        /\ Maximum(Window) <= GetMaxUpdateTimeOfCurrentTable(stats)
        /\ GetMaxUpdateTimeOfCurrentTable(stats) <= stats.max
        /\ AVG_DIFF_COUNT * Maximum(Window) * Maximum(Window) < WordSize =>
            GetTimeWeightedAverageUpdateTime(stats) \in stats.total \div AVG_DIFF_COUNT .. Maximum(Window)
        /\ Len(diffs) < AVG_DIFF_COUNT \/ stats.table[AVG_DIFF_COUNT - 1] # 0
            => stats.average = stats.total \div Len(Window)
=============================================================================
