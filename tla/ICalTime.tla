------------------------------- MODULE ICalTime -------------------------------
(***************************************************************************)
(* The calendar arithmetic of libical (icaltime.c, caldate.c).  A time is  *)
(* a record of year, month, day, hour, minute and second, in UTC.          *)
(***************************************************************************)
EXTENDS Integers, Sequences

\* icaltime_is_leap_year, since 1752.
Leap(year) == year % 4 = 0 /\ (year % 100 # 0 \/ year % 400 = 0)

DaysInMonth(month, year) ==
  IF month = 2 /\ Leap(year) THEN 29
  ELSE <<31, 28, 31, 30, 31, 30, 31, 31, 30, 31, 30, 31>>[month]

\* days_in_year_passed_month.
Passed(month, leap) ==
  <<0, 31, 59, 90, 120, 151, 181, 212, 243, 273, 304, 334, 365>>[month]
    + (IF leap /\ month > 2 THEN 1 ELSE 0)

DayOfYear(t) == Passed(t.month, Leap(t.year)) + t.day

DaysIn(year) == Passed(13, Leap(year))

\* A day of a year that may be one of the year before or after.
ToItsYear(d) ==
  CASE d.doy < 1            -> [year |-> d.year - 1, doy |-> d.doy + DaysIn(d.year - 1)]
    [] d.doy > DaysIn(d.year) -> [year |-> d.year + 1, doy |-> d.doy - DaysIn(d.year)]
    [] OTHER                -> d

\* The month and day of day d.doy in a year with or without a leap day.
InMonth(t, d, leap) ==
  LET m == CHOOSE m \in 1..12 : /\ Passed(m, leap) < d.doy
                                /\ m = 12 \/ d.doy <= Passed(m + 1, leap)
  IN  [t EXCEPT !.year = d.year, !.month = m, !.day = d.doy - Passed(m, leap)]

\* icaltime_from_day_of_year: past the end of the year the leap day is that
\* of the year that is left, before it that of the year that is entered.
FromDayOfYear(t, doy, year) ==
  InMonth(t, ToItsYear([year |-> year, doy |-> doy]),
          IF doy < 1 THEN Leap(year - 1) ELSE Leap(year))

\* icaltime_normalize, of a day that is not in its month but at most in the
\* year after the next or in the year before the last.
Normalize(t) ==
  LET d == ToItsYear(ToItsYear([year |-> t.year, doy |-> DayOfYear(t)]))
  IN  InMonth(t, d, Leap(d.year))

\* juldat, for a day after October 1582.
JulianDay(t) ==
  LET early == t.month <= 2
      y == IF early THEN t.year - 1 ELSE t.year
      m == IF early THEN t.month + 12 ELSE t.month
  IN  (1461 * y) \div 4 + (306001 * (m + 1)) \div 10000 + t.day + 1720994
        + 2 - y \div 100 + y \div 400

\* 1 is Sunday.
DayOfWeek(t) == 1 + ((JulianDay(t) + 2) % 7)

\* caldat knows every fourth year as a leap year.
JulianDayOfYear(t) == Passed(t.month, t.year % 4 = 0) + t.day

\* icaltime_start_doy_week: the day its week starts on, which may not be in
\* its year.
StartDoyWeek(t, first) == JulianDayOfYear(t) - ((DayOfWeek(t) - first) % 7)

\* icaltime_week_number, in C's division.
WeekNumber(t) ==
  LET d == JulianDayOfYear(t) - (DayOfWeek(t) - 1) IN IF d < 0 THEN 0 ELSE d \div 7

\* icaltime_compare: is the first not later?
NotAfter(t, u) ==
  LET fields == <<"year", "month", "day", "hour", "minute", "second">>
  IN  \/ t = u
      \/ \E i \in 1..6 : /\ t[fields[i]] < u[fields[i]]
                         /\ \A j \in 1..i - 1 : t[fields[j]] = u[fields[j]]

Earlier(t, u) == NotAfter(t, u) /\ t # u
=============================================================================
