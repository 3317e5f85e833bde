---------------------------- MODULE RecurrenceSet ----------------------------
(***************************************************************************)
(* The times a recurrence rule stands for, as RFC 2445, the standard this  *)
(* library implements, says it: the periods of the rule's frequency that   *)
(* its interval selects, and in them every time that all of its BY parts   *)
(* admit, where a part that is not given and is finer than the frequency   *)
(* is that of the start.  Each time is judged by itself; nothing is        *)
(* iterated.  This is what the code should compute, not what it does.      *)
(***************************************************************************)
EXTENDS ICalTime, FiniteSets, SequencesExt

LOCAL Given(rule, part) == rule.by[part] # <<>>
LOCAL In(rule, part, v) == v \in Range(rule.by[part])

\* Counted from the front, or from the back when negative.
LOCAL Counted(rule, part, n, size) == In(rule, part, n) \/ In(rule, part, n - size - 1)

\* How many periods after the start's the time is in.
Period(rule, start, t) ==
  LET days    == JulianDay(t) - JulianDay(start)
      hours   == 24 * days + t.hour - start.hour
      minutes == 60 * hours + t.minute - start.minute
      Week(u) == (JulianDay(u) - ((DayOfWeek(u) - rule.wkst) % 7)) \div 7
  IN  CASE rule.freq = "YEARLY"   -> t.year - start.year
        [] rule.freq = "MONTHLY"  -> 12 * (t.year - start.year) + t.month - start.month
        [] rule.freq = "WEEKLY"   -> Week(t) - Week(start)
        [] rule.freq = "DAILY"    -> days
        [] rule.freq = "HOURLY"   -> hours
        [] rule.freq = "MINUTELY" -> minutes
        [] rule.freq = "SECONDLY" -> 60 * minutes + t.second - start.second

\* Is it the pos'th of its weekday, or the pos'th from the end?
LOCAL IsNth(pos, day, size) ==
  (pos > 0 /\ pos = 1 + ((day - 1) \div 7)) \/ (pos < 0 /\ -pos = 1 + ((size - day) \div 7))

\* A weekday's position is one in the month, or in the year of a YEARLY rule
\* that names no months.
LOCAL Weekday(rule, t) ==
  \E d \in Range(rule.by.weekday) :
    /\ d.dow = DayOfWeek(t)
    /\ \/ d.pos = 0
       \/ IF rule.freq = "YEARLY" /\ ~Given(rule, "month")
          THEN IsNth(d.pos, DayOfYear(t), DaysIn(t.year))
          ELSE IsNth(d.pos, t.day, DaysInMonth(t.month, t.year))

\* The day, before BYSETPOS.
LOCAL DayAdmitted(rule, start, t) ==
  LET Parts(S) == {p \in S : Given(rule, p)}
  IN  /\ Given(rule, "month") => In(rule, "month", t.month)
      /\ Given(rule, "weekday") => Weekday(rule, t)
      /\ Given(rule, "day") => Counted(rule, "day", t.day, DaysInMonth(t.month, t.year))
      /\ Given(rule, "yearday") => Counted(rule, "yearday", DayOfYear(t), DaysIn(t.year))
      /\ rule.freq = "WEEKLY" /\ ~Given(rule, "weekday") => DayOfWeek(t) = DayOfWeek(start)
      /\ rule.freq \in {"MONTHLY", "YEARLY"} /\ Parts({"weekday", "day", "yearday"}) = {}
           => t.day = start.day
      /\ rule.freq = "YEARLY" /\ Parts({"month", "weekday", "day", "yearday"}) = {}
           => t.month = start.month

\* BYSETPOS: the place among the days of its month.
LOCAL Placed(rule, start, t) ==
  LET set   == {d \in 1..DaysInMonth(t.month, t.year) :
                  DayAdmitted(rule, start, [t EXCEPT !.day = d])}
      place == Cardinality({d \in set : d <= t.day})
  IN  Given(rule, "setpos") => Counted(rule, "setpos", place, Cardinality(set))

\* The values a field of the clock may have: those of its part, any of a
\* period that is not longer than the field, or the start's.
LOCAL ClockValues(rule, start, field) ==
  LET finer == [second |-> {"SECONDLY"}, minute |-> {"SECONDLY", "MINUTELY"},
                hour |-> {"SECONDLY", "MINUTELY", "HOURLY"}][field]
  IN  IF Given(rule, field) THEN Range(rule.by[field])
      ELSE IF rule.freq \in finer THEN 0..(IF field = "hour" THEN 23 ELSE 59)
      ELSE {start[field]}

\* The rule's times of the years, not before the one time and not after the
\* other.
Instances(rule, start, from, to) ==
  LET Days(y) == (IF y = from.year THEN DayOfYear(from) ELSE 1)
                 ..(IF y = to.year THEN DayOfYear(to) ELSE DaysIn(y))
      dates   == UNION {{FromDayOfYear(start, n, y) : n \in Days(y)} : y \in from.year..to.year}
      daily   == rule.freq \in {"DAILY", "WEEKLY", "MONTHLY", "YEARLY"}
      days    == {t \in dates : /\ daily => Period(rule, start, t) % rule.interval = 0
                                /\ DayAdmitted(rule, start, t) /\ Placed(rule, start, t)}
      times   == {[t EXCEPT !.hour = h, !.minute = m, !.second = s] :
                    t \in days, h \in ClockValues(rule, start, "hour"),
                    m \in ClockValues(rule, start, "minute"),
                    s \in ClockValues(rule, start, "second")}
  IN  {t \in times : /\ NotAfter(from, t) /\ NotAfter(t, to)
                     /\ Period(rule, start, t) % rule.interval = 0}
=============================================================================
