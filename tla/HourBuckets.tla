------------------------------ MODULE HourBuckets -----------------------------
(***************************************************************************)
(* Hours and windows of siemctl (siemctl/src/time.rs).  An hour bucket is  *)
(* a calendar hour.  Instants are counted in ticks, so that a window can   *)
(* start and end within a second, as one that is relative to now does.     *)
(***************************************************************************)
EXTENDS Integers, Sequences, FiniteSets

CONSTANTS
    TicksPerSecond,    \* what the clock tells apart
    SecondsPerMinute, MinutesPerHour

ASSUME HourBucketsAssumption ==
    {TicksPerSecond, SecondsPerMinute, MinutesPerHour} \subseteq Nat \ {0}

Second(tick) == tick \div TicksPerSecond
Minute(second) == second \div SecondsPerMinute
Hour(second) == Minute(second) \div MinutesPerHour

-------------------------------------------------------------------------------
(* The calendar.                                                            *)

Bucket(y, m, d, h) == [year |-> y, month |-> m, day |-> d, hour |-> h]

\* Mutant: no leap years.
DaysWithoutLeap(m, y) == IF m = 2 THEN 28 ELSE IF m \in {4, 6, 9, 11} THEN 30 ELSE 31
DaysInMonth(m, y) ==
    CASE m \in {4, 6, 9, 11} -> 30
      [] m = 2 -> IF y % 4 = 0 /\ (y % 100 # 0 \/ y % 400 = 0) THEN 29 ELSE 28
      [] OTHER -> 31

Advance(b) ==
    IF b.hour < 23 THEN Bucket(b.year, b.month, b.day, b.hour + 1)
    ELSE IF b.day < DaysInMonth(b.month, b.year) THEN Bucket(b.year, b.month, b.day + 1, 0)
    ELSE IF b.month < 12 THEN Bucket(b.year, b.month + 1, 1, 0)
    ELSE Bucket(b.year + 1, 1, 1, 0)

AdvanceBy(b, n) ==
    LET A[k \in 0..n] == IF k = 0 THEN b ELSE Advance(A[k - 1])
    IN A[n]

\* The order derived for the struct: its fields in turn.
Before(a, b) ==
    \/ a.year < b.year
    \/ a.year = b.year /\ a.month < b.month
    \/ a.year = b.year /\ a.month = b.month /\ a.day < b.day
    \/ a.year = b.year /\ a.month = b.month /\ a.day = b.day /\ a.hour < b.hour

\* to_datetime: chrono's hours since the year 0, by the Gregorian calendar.
ToHours(b) ==
    LET leaps == (b.year - 1) \div 4 - (b.year - 1) \div 100 + (b.year - 1) \div 400
        leap  == (b.year % 4 = 0 /\ b.year % 100 # 0) \/ b.year % 400 = 0
        past  == << 0, 31, 59, 90, 120, 151, 181, 212, 243, 273, 304, 334 >>[b.month]
        days  == 365 * (b.year - 1) + leaps + past
                     + (IF leap /\ b.month > 2 THEN 1 ELSE 0) + b.day
    IN 24 * days + b.hour

\* dirs_in_range_under, the hours whose directory it looks for.
HoursInRange(from, to) ==
    IF Before(to, from) THEN << >>
    ELSE [k \in 1..(ToHours(to) - ToHours(from) + 1) |-> AdvanceBy(from, k - 1)]

-------------------------------------------------------------------------------
(* Windows, [start, end) in ticks.                                          *)

Duration(win) == win.end - win.start
Baseline(win) == [start |-> win.start - Duration(win), end |-> win.start]
Lookback(win, length) == [start |-> win.end - length, end |-> win.end]

\* Mutant: the second of the upper bound is in the range.
InClosedRange(second, win) ==
    Second(win.start) <= second /\ second <= Second(win.end)
\* raw_file_range with the predicate raw_file >= lo AND raw_file < hi: a path goes
\* down to the second, and sorts after the bound of its own second.
InRawFileRange(second, win) == Second(win.start) <= second /\ second < Second(win.end)

\* parse_raw_file_time compared with the window, as raw_files_in_range does.
TimeInWindow(second, win) ==
    win.start <= second * TicksPerSecond /\ second * TicksPerSecond < win.end
===============================================================================
