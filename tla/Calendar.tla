------------------------------ MODULE Calendar ------------------------------
(***************************************************************************)
(* The calendar arithmetic of system/rtc/rtc_utils.c and the dates that    *)
(* system/rtc/rtc.c keeps in the RTC and FatFs in its directory entries,   *)
(* checked against the Gregorian calendar: the state walks it day by day.  *)
(* A struct tm is a record with its year in full.                          *)
(***************************************************************************)
EXTENDS Integers, Sequences

CONSTANTS
  SecPerMin, MinPerHour, HourPerDay,    \* 60, 60, 24
  W,                                    \* 2^32: uint32_t is modulo W
  EpochYear,                            \* _EPOCH_YEAR
  Starts,                               \* the first days of the walks
  MaxDays                               \* bound on the length of a walk

CalendarAssumption ==
  /\ {SecPerMin, MinPerHour, HourPerDay} \subseteq Nat \ {0, 1}
  /\ W \in Nat /\ EpochYear \in Nat \ {0} /\ MaxDays \in Nat

Hour == SecPerMin * MinPerHour
Day == Hour * HourPerDay

VARIABLES
  start, days,  \* where the walk began and how far it is
  today,        \* the date, by the Gregorian calendar
  hw            \* the date registers of the RTC: two digits of the year

vars == <<start, days, today, hw>>

Date(y, m, d) == [year |-> y, mon |-> m, mday |-> d]
Tm(date, h, min, s) == [year |-> date.year, mon |-> date.mon, mday |-> date.mday,
                        hour |-> h, min |-> min, sec |-> s]
DateOf(t) == Date(t.year, t.mon, t.mday)

\* div: the quotient is rounded towards zero.
Quot(a, b) == IF a >= 0 THEN a \div b ELSE -((-a) \div b)
Rem(a, b) == a - Quot(a, b) * b
-----------------------------------------------------------------------------
(* Plausible mistakes in the functions below. *)

\* The year itself counts.
_leap_years_up_to(year) == year \div 4 - year \div 100 + year \div 400
-----------------------------------------------------------------------------
(* rtc_utils.c.                                                            *)

_is_leap_year(year) ==
  IF year % 4 = 0 /\ (year % 25 # 0 \/ year % 16 = 0) THEN 1 ELSE 0

_leap_years_before(year) == (year - 1) \div 4 - (year - 1) \div 100 + (year - 1) \div 400

_leap_years_since_epoch(year) ==
  IF year < EpochYear THEN 0 ELSE _leap_years_before(year) - _leap_years_before(EpochYear)

_month_length(month, year) ==
  IF month = 1 THEN 28 + _is_leap_year(year) ELSE 31 - ((month % 7) % 2)

_wday(day, month, year) ==
  LET t == <<0, 3, 2, 5, 0, 3, 5, 1, 4, 6, 2, 4>>
      y == IF month < 2 THEN year - 1 ELSE year
  IN (y + y \div 4 - y \div 100 + y \div 400 + t[month + 1] + day) % 7

\* The table holds bytes: from October on 256 is added back.
_yday(day, month, year) ==
  LET d == <<0, 31, 59, 90, 120, 151, 181, 212, 243, 17, 48, 78>>
      n == day + (IF month > 1 THEN _is_leap_year(year) ELSE 0)
  IN d[month + 1] + n + (IF month > 8 THEN 256 ELSE 0) - 1

\* The loop of rtc_tm_normalize: days that exceed the month.
Overflow(year, mon, mday) ==
  LET carry[p \in Nat \X Nat] ==            \* the month from January of year, and the days
        LET m == p[1] % 12
            y == year + p[1] \div 12
            len == _month_length(m, y)
        IN IF p[2] <= len THEN Date(y, m, p[2]) ELSE carry[<<p[1] + 1, p[2] - len>>]
  IN carry[<<mon, mday>>]

rtc_tm_normalize(t) ==
  LET min == t.min + Quot(t.sec, SecPerMin)
      hour == t.hour + Quot(min, MinPerHour)
      mday == (IF t.mday = 0 THEN 1 ELSE t.mday) + Quot(hour, HourPerDay)
  IN Tm(Overflow(t.year + Quot(t.mon, 12), Rem(t.mon, 12), mday),
        Rem(hour, HourPerDay), Rem(min, MinPerHour), Rem(t.sec, SecPerMin))

rtc_mktime(t) ==
  LET leap == _leap_years_since_epoch(t.year)
      common == t.year - EpochYear - leap
  IN (t.sec + t.min * SecPerMin + t.hour * Hour + _yday(t.mday, t.mon, t.year) * Day
       + (leap * 366 + common * 365) * Day) % W

rtc_localtime(time) ==
  LET down[p \in Nat \X Nat] ==             \* the seconds left, and the year
        LET secs == (365 + _is_leap_year(p[2])) * Day
        IN IF p[1] > secs THEN down[<<p[1] - secs, p[2] + 1>>]
           ELSE rtc_tm_normalize(Tm(Date(p[2], 0, 0), 0, 0, p[1]))
  IN down[<<time, EpochYear>>]

rtc_tm_valid(t) ==
  /\ \A f \in {"sec", "min", "hour", "mday", "mon"} : t[f] >= 0
  /\ t.year >= 1900
  /\ rtc_tm_normalize(t) = t
-----------------------------------------------------------------------------
(* The RTC's registers, and the FAT time stamp.                            *)

YEAR_OFFSET == EpochYear - 1900

\* rtc_set_time and rtc_get_time: the date registers, written and read.
rtc_set_time(d) == Date((d.year - 1900 - YEAR_OFFSET) % 256, d.mon + 1, d.mday)
rtc_get_time(r) == Date(r.year + YEAR_OFFSET + 1900, r.mon - 1, r.mday)

\* The RTC goes on by itself; a leap year is one whose number it can divide by 4.
RtcTomorrow(r) ==
  LET len == <<31, IF r.year % 4 = 0 THEN 29 ELSE 28, 31, 30, 31, 30, 31, 31, 30, 31, 30, 31>>[r.mon]
  IN IF r.mday < len THEN Date(r.year, r.mon, r.mday + 1)
     ELSE IF r.mon < 12 THEN Date(r.year, r.mon + 1, 1)
     ELSE Date((r.year + 1) % 100, 1, 1)

get_fattime(t) == [year |-> (t.year - 1980) % 128, mon |-> t.mon + 1, mday |-> t.mday,
                   hour |-> t.hour, min |-> t.min, half |-> t.sec \div 2]

_fatfs_time_to_timespec(f) == Tm(Date(f.year + 1980, f.mon - 1, f.mday), f.hour, f.min, f.half)
-----------------------------------------------------------------------------
(* The Gregorian calendar.                                                 *)

Leap(y) == y % 4 = 0 /\ (y % 100 # 0 \/ y % 400 = 0)
Length(y, m) == <<31, IF Leap(y) THEN 29 ELSE 28, 31, 30, 31, 30, 31, 31, 30, 31, 30, 31>>[m + 1]
Tomorrow(d) ==
  IF d.mday < Length(d.year, d.mon) THEN Date(d.year, d.mon, d.mday + 1)
  ELSE IF d.mon < 11 THEN Date(d.year, d.mon + 1, 1)
  ELSE Date(d.year + 1, 0, 1)

Init == /\ start \in Starts /\ days = 0 /\ today = start
        /\ hw = rtc_set_time(start)

Next == /\ days < MaxDays
        /\ days' = days + 1
        /\ today' = Tomorrow(today)
        /\ hw' = RtcTomorrow(hw)
        /\ UNCHANGED start

Spec == Init /\ [][Next]_vars
-----------------------------------------------------------------------------
(* Properties.                                                             *)

Times == {Tm(today, 0, 0, 0), Tm(today, 0, MinPerHour - 1, 1),
          Tm(today, HourPerDay - 1, MinPerHour - 1, SecPerMin - 1)}

\* rtc_utils.h: rtc_mktime is the number of seconds since the epoch; so it grows
\* by a day from one day to the next, over leap days, years and centuries.
Counted == rtc_mktime(Tm(today, 0, 0, 0)) = (rtc_mktime(Tm(start, 0, 0, 0)) + days * Day) % W

\* rtc_localtime undoes rtc_mktime at every time of the day, midnight of a new
\* year included.
RoundTrip == \A t \in Times : rtc_localtime(rtc_mktime(t)) = t

\* rtc_utils.h: 40 October is changed into 9 November.  Days, hours or seconds
\* too many come out as the day they lead to.
Carried ==
  /\ DateOf(rtc_tm_normalize([Tm(start, 0, 0, 0) EXCEPT !.mday = @ + days])) = today
  /\ \A t \in Times :
       rtc_tm_normalize(Tm(start, 0, 0, days * Day + t.hour * Hour + t.min * SecPerMin + t.sec)) = t

\* Each day is the next day of the week.
Weekdays ==
  _wday(today.mday, today.mon, today.year) = (_wday(start.mday, start.mon, start.year) + days) % 7

\* rtc_tm_valid takes exactly the days of the calendar and the times of the day.
Valid ==
  \A d \in 0..32, h \in {-1, 0, HourPerDay - 1, HourPerDay} :
    rtc_tm_valid(Tm(Date(today.year, today.mon, d), h, 0, 0))
      = (d \in 1..Length(today.year, today.mon) /\ h \in 0..(HourPerDay - 1))

\* rtc.h: rtc_get_time gets the current time.  A date that was set stays right.
DateKept == rtc_get_time(hw) = today

\* A file's date, hour and minute are read back as they were written, in the years
\* that FAT has.  (Its seconds are not: they are stored halved and not doubled.)
FileTime ==
  today.year \in 1980..2107 =>
    \A t \in Times : \E s \in 0..t.sec :
      _fatfs_time_to_timespec(get_fattime(t)) = [t EXCEPT !.sec = s]

\* rtc_utils.c: all its functions agree with the calendar, on every day.
CalendarRight == Counted /\ RoundTrip /\ Carried /\ Valid /\ Weekdays /\ FileTime
=============================================================================
