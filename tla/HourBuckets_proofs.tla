--------------------------- MODULE HourBuckets_proofs --------------------------
(***************************************************************************)
(* The calendar of siemctl, for every year: the two ways in which time.rs  *)
(* counts hours, by advance and by chrono's hours since a fixed instant,   *)
(* are one calendar.                                                       *)
(***************************************************************************)
EXTENDS HourBuckets, TLAPS

\* The hours there are; a directory of any other name is no bucket.
CalendarHour ==
    {b \in [year : Nat \ {0}, month : 1..12, day : 1..31, hour : 0..23] :
        b.day <= DaysInMonth(b.month, b.year)}

LEMMA MonthLength ==
  ASSUME NEW m \in 1..12, NEW y \in Nat
  PROVE  /\ DaysInMonth(m, y) \in 28..31
         /\ m = 12 => DaysInMonth(m, y) = 31
         /\ m = 1 => DaysInMonth(m, y) = 31
  BY DEF DaysInMonth

(***************************************************************************)
(* A bucket by its parts.                                                  *)
(***************************************************************************)

LEMMA BucketIsHour ==
  ASSUME NEW y \in Nat \ {0}, NEW m \in 1..12, NEW d \in 1..31, NEW h \in 0..23,
         d <= DaysInMonth(m, y)
  PROVE  Bucket(y, m, d, h) \in CalendarHour
  BY DEF Bucket, CalendarHour

LEMMA HourIsBucket ==
  ASSUME NEW b \in CalendarHour
  PROVE  \E y \in Nat \ {0}, m \in 1..12, d \in 1..31, h \in 0..23 :
            b = Bucket(y, m, d, h) /\ d <= DaysInMonth(m, y)
<1>1. /\ b \in [year : Nat \ {0}, month : 1..12, day : 1..31, hour : 0..23]
      /\ b.day <= DaysInMonth(b.month, b.year)
  BY DEF CalendarHour
<1>2. b = Bucket(b.year, b.month, b.day, b.hour)
  BY <1>1 DEF Bucket
<1>3. QED
  BY <1>1, <1>2

LEMMA PartsOfBucket ==
  ASSUME NEW y, NEW m, NEW d, NEW h
  PROVE  /\ Bucket(y, m, d, h).year = y /\ Bucket(y, m, d, h).month = m
         /\ Bucket(y, m, d, h).day = d /\ Bucket(y, m, d, h).hour = h
  BY DEF Bucket

LEMMA ToHoursByParts ==
  ASSUME NEW y \in Nat, NEW m \in Nat, NEW d \in Nat, NEW h \in Nat
  PROVE  ToHours(Bucket(y, m, d, h))
         = 24 * (365 * (y - 1) + ((y - 1) \div 4 - (y - 1) \div 100 + (y - 1) \div 400)
                 + << 0, 31, 59, 90, 120, 151, 181, 212, 243, 273, 304, 334 >>[m]
                 + (IF ((y % 4 = 0 /\ y % 100 # 0) \/ y % 400 = 0) /\ m > 2 THEN 1 ELSE 0) + d)
           + h
<1>1. /\ Bucket(y, m, d, h).year = y /\ Bucket(y, m, d, h).month = m
      /\ Bucket(y, m, d, h).day = d /\ Bucket(y, m, d, h).hour = h
  BY PartsOfBucket
<1>2. QED
  BY <1>1, SMTT(30) DEF ToHours

(***************************************************************************)
(* The next hour.                                                          *)
(***************************************************************************)

\* A loop that calls `advance` visits every hour of the calendar in turn: the next
\* bucket is an hour of the calendar, it comes after the last one in the derived order
\* of the struct, and no hour lies between them.  (time.rs advance, days_in_month.)
THEOREM AdvanceIsNext ==
  ASSUME NEW b \in CalendarHour
  PROVE  /\ Advance(b) \in CalendarHour
         /\ Before(b, Advance(b))
         /\ \A c \in CalendarHour : Before(b, c) => c = Advance(b) \/ Before(Advance(b), c)
<1>1. PICK y \in Nat \ {0}, m \in 1..12, d \in 1..31, h \in 0..23 :
         b = Bucket(y, m, d, h) /\ d <= DaysInMonth(m, y)
  BY HourIsBucket
<1> b.year = y /\ b.month = m /\ b.day = d /\ b.hour = h
  BY <1>1, PartsOfBucket
<1> DEFINE length == DaysInMonth(m, y)
<1>2. length \in 28..31 /\ (m = 12 => length = 31)
  BY MonthLength
<1>3. DaysInMonth(1, y + 1) = 31 /\ (m < 12 => DaysInMonth(m + 1, y) \in 28..31)
  BY MonthLength
<1> HIDE DEF length
<1>4. ASSUME NEW z \in Nat \ {0}, NEW n \in 1..12, NEW e \in 1..31, NEW i \in 0..23,
             Advance(b) = Bucket(z, n, e, i), e <= DaysInMonth(n, z),
             \/ z = y /\ n = m /\ e = d /\ i = h + 1
             \/ z = y /\ n = m /\ e = d + 1 /\ i = 0 /\ h = 23
             \/ z = y /\ n = m + 1 /\ e = 1 /\ i = 0 /\ h = 23 /\ d = length
             \/ z = y + 1 /\ n = 1 /\ e = 1 /\ i = 0 /\ h = 23 /\ d = length /\ m = 12
      PROVE  /\ Advance(b) \in CalendarHour
             /\ Before(b, Advance(b))
             /\ \A c \in CalendarHour : Before(b, c) => c = Advance(b) \/ Before(Advance(b), c)
  <2>1. Advance(b) \in CalendarHour
    BY <1>4, BucketIsHour
  <2> DEFINE a == Advance(b)
  <2> a.year = z /\ a.month = n /\ a.day = e /\ a.hour = i
    BY <1>4, PartsOfBucket
  <2> HIDE DEF a
  <2>2. Before(b, a)
    BY <1>4 DEF Before
  <2>3. ASSUME NEW c \in CalendarHour, Before(b, c)
        PROVE  c = a \/ Before(a, c)
    <3>1. PICK yc \in Nat \ {0}, mc \in 1..12, dc \in 1..31, hc \in 0..23 :
             c = Bucket(yc, mc, dc, hc) /\ dc <= DaysInMonth(mc, yc)
      BY HourIsBucket
    <3> c.year = yc /\ c.month = mc /\ c.day = dc /\ c.hour = hc
      BY <3>1, PartsOfBucket
    <3>2. yc = y /\ mc = m => dc <= length
      BY <3>1 DEF length
    <3>3. \/ y < yc
          \/ y = yc /\ m < mc
          \/ y = yc /\ m = mc /\ d < dc
          \/ y = yc /\ m = mc /\ d = dc /\ h < hc
      BY <2>3 DEF Before
    <3>4. \/ yc = z /\ mc = n /\ dc = e /\ hc = i
          \/ z < yc
          \/ z = yc /\ n < mc
          \/ z = yc /\ n = mc /\ e < dc
          \/ z = yc /\ n = mc /\ e = dc /\ i < hc
      BY <1>2, <1>4, <3>1, <3>2, <3>3
    <3>5. QED
      BY <1>4, <3>1, <3>4 DEF Before, a
  <2>4. QED
    BY <2>1, <2>2, <2>3 DEF a
<1>5. CASE h < 23
  <2>1. Advance(b) = Bucket(y, m, d, h + 1) /\ h + 1 \in 0..23
    BY <1>5 DEF Advance
  <2>2. QED
    BY <1>1, <1>4, <2>1
<1>6. CASE ~(h < 23) /\ d < length
  <2>1. Advance(b) = Bucket(y, m, d + 1, 0)
    BY <1>6 DEF Advance, length
  <2>2. d + 1 \in 1..31 /\ d + 1 <= length /\ h = 23
    BY <1>2, <1>6
  <2>3. QED
    BY <1>4, <2>1, <2>2 DEF length
<1>7. CASE ~(h < 23) /\ ~(d < length) /\ m < 12
  <2>1. Advance(b) = Bucket(y, m + 1, 1, 0)
    BY <1>7 DEF Advance, length
  <2>2. m + 1 \in 1..12 /\ 1 <= DaysInMonth(m + 1, y) /\ h = 23 /\ d = length
    BY <1>1, <1>2, <1>3, <1>7 DEF length
  <2>3. QED
    BY <1>4, <2>1, <2>2
<1>8. CASE ~(h < 23) /\ ~(d < length) /\ ~(m < 12)
  <2>1. Advance(b) = Bucket(y + 1, 1, 1, 0)
    BY <1>8 DEF Advance, length
  <2>2. y + 1 \in Nat \ {0} /\ 1 <= DaysInMonth(1, y + 1) /\ h = 23 /\ d = length /\ m = 12
    BY <1>1, <1>2, <1>3, <1>8 DEF length
  <2>3. QED
    BY <1>4, <2>1, <2>2
<1>9. QED
  BY <1>5, <1>6, <1>7, <1>8

\* The leap days before the year after y.
LEMMA LeapDays ==
  ASSUME NEW y \in Nat \ {0}
  PROVE  y \div 4 - y \div 100 + y \div 400
         = (y - 1) \div 4 - (y - 1) \div 100 + (y - 1) \div 400
           + (IF (y % 4 = 0 /\ y % 100 # 0) \/ y % 400 = 0 THEN 1 ELSE 0)
<1>1. y \div 4 = (y - 1) \div 4 + (IF y % 4 = 0 THEN 1 ELSE 0)
  OBVIOUS
<1>2. y \div 100 = (y - 1) \div 100 + (IF y % 100 = 0 THEN 1 ELSE 0)
  OBVIOUS
<1>3. y \div 400 = (y - 1) \div 400 + (IF y % 400 = 0 THEN 1 ELSE 0)
  OBVIOUS
<1>4. (y % 400 = 0 => y % 100 = 0) /\ (y % 100 = 0 => y % 4 = 0)
  OBVIOUS
<1>5. /\ y \div 4 \in Int /\ y \div 100 \in Int /\ y \div 400 \in Int
      /\ (y - 1) \div 4 \in Int /\ (y - 1) \div 100 \in Int /\ (y - 1) \div 400 \in Int
  OBVIOUS
<1>6. QED
  BY <1>1, <1>2, <1>3, <1>4, <1>5

\* One step of `advance` is one hour of chrono's calendar, at the ends of months and
\* years and in leap years too: a column of the trend table that `advance` begins holds
\* the buckets whose distance in hours says so.  (time.rs advance, to_datetime;
\* main.rs cmd_stats_trend.)
THEOREM CalendarsAgree ==
  ASSUME NEW b \in CalendarHour
  PROVE  ToHours(Advance(b)) = ToHours(b) + 1
<1> DEFINE Leap(z) == (z % 4 = 0 /\ z % 100 # 0) \/ z % 400 = 0
           Leaps(z) == (z - 1) \div 4 - (z - 1) \div 100 + (z - 1) \div 400
           Past(n) == << 0, 31, 59, 90, 120, 151, 181, 212, 243, 273, 304, 334 >>[n]
           Extra(z, n) == IF Leap(z) /\ n > 2 THEN 1 ELSE 0
           Hours(z, n, e, i) == 24 * (365 * (z - 1) + Leaps(z) + Past(n) + Extra(z, n) + e) + i
<1>1. PICK y \in Nat \ {0}, m \in 1..12, d \in 1..31, h \in 0..23 :
         b = Bucket(y, m, d, h) /\ d <= DaysInMonth(m, y)
  BY HourIsBucket
<1>2. \A z, n, e, i \in Nat : ToHours(Bucket(z, n, e, i)) = Hours(z, n, e, i)
  BY ToHoursByParts
<1> b.year = y /\ b.month = m /\ b.day = d /\ b.hour = h
  BY <1>1, PartsOfBucket
<1>3. DaysInMonth(m, y) \in 28..31 /\ (m = 12 => DaysInMonth(m, y) = 31)
  BY MonthLength
<1>4. /\ Leaps(y) \in Int /\ Past(1) = 0 /\ Past(12) = 334
      /\ Past(m) \in Int /\ Extra(y, m) \in {0, 1} /\ Extra(y + 1, 1) = 0
  OBVIOUS
<1>5. m < 12 => /\ Past(m + 1) \in Int /\ Extra(y, m + 1) \in {0, 1}
                /\ Past(m + 1) + Extra(y, m + 1) = Past(m) + Extra(y, m) + DaysInMonth(m, y)
  BY DEF DaysInMonth
<1>6. Leaps(y + 1) = Leaps(y) + Extra(y, 12)
  <2>1. (y + 1) - 1 = y
    OBVIOUS
  <2>2. QED
    BY <2>1, LeapDays
<1>7. Extra(y, 12) \in {0, 1}
  OBVIOUS
<1> HIDE DEF Leaps, Past, Extra
<1>8. ToHours(b) = Hours(y, m, d, h)
  BY <1>1, <1>2
<1>9. CASE h < 23
  <2>1. Advance(b) = Bucket(y, m, d, h + 1)
    BY <1>9 DEF Advance
  <2>2. ToHours(Advance(b)) = Hours(y, m, d, h + 1)
    BY <1>2, <2>1
  <2>3. QED
    BY <1>4, <1>8, <2>2
<1>10. CASE ~(h < 23) /\ d < DaysInMonth(m, y)
  <2>1. Advance(b) = Bucket(y, m, d + 1, 0)
    BY <1>10 DEF Advance
  <2>2. ToHours(Advance(b)) = Hours(y, m, d + 1, 0)
    BY <1>2, <2>1
  <2>3. QED
    BY <1>4, <1>8, <1>10, <2>2
<1>11. CASE ~(h < 23) /\ ~(d < DaysInMonth(m, y)) /\ m < 12
  <2>1. Advance(b) = Bucket(y, m + 1, 1, 0)
    BY <1>11 DEF Advance
  <2>2. ToHours(Advance(b)) = Hours(y, m + 1, 1, 0)
    BY <1>2, <2>1
  <2>3. h = 23 /\ d = DaysInMonth(m, y)
    BY <1>1, <1>3, <1>11
  <2>4. QED
    BY <1>4, <1>5, <1>8, <1>11, <2>2, <2>3
<1>12. CASE ~(h < 23) /\ ~(d < DaysInMonth(m, y)) /\ ~(m < 12)
  <2>1. Advance(b) = Bucket(y + 1, 1, 1, 0)
    BY <1>12 DEF Advance
  <2>2. ToHours(Advance(b)) = Hours(y + 1, 1, 1, 0)
    BY <1>2, <2>1
  <2>3. h = 23 /\ d = 31 /\ m = 12
    BY <1>1, <1>3, <1>12
  <2>4. QED
    BY <1>4, <1>6, <1>7, <1>8, <2>2, <2>3
<1>13. QED
  BY <1>9, <1>10, <1>11, <1>12
===============================================================================
