------------------------------ MODULE ICalRecur ------------------------------
(***************************************************************************)
(* The iterator over the times of a recurrence rule (icalrecur.c).  A step *)
(* is one pass of the loop of icalrecur_iterator_next: the time moves on   *)
(* by what next_second to next_year do for the rule's frequency, and is    *)
(* given out once no other part of the rule keeps it back.                 *)
(*                                                                         *)
(* A rule has a frequency, an interval, a count (0 is none), an end (Never *)
(* is none), the day weeks start on, and a sequence of values for each BY  *)
(* part, named by the field of a time it is about; a BYDAY is a day of the *)
(* week and a position, 0 when it has none.                                *)
(***************************************************************************)
EXTENDS RecurrenceSet

CONSTANTS
  Cases,     \* pairs of a rule and the time it starts at
  LastYear,  \* bound: the year the code stops at is 2038
  MaxYears,  \* bound: the years in which a search for days is followed
  Never      \* no time

ASSUME YearsAreNumbers == LastYear \in Nat /\ MaxYears \in Nat

VARIABLES
  rule,    \* the rule
  start,   \* dtstart
  it,      \* the iterator: last, by, at (by_indices), days, dayAt, no
  phase,   \* "new", "idle", "looping", "ended" or "refused"
  out      \* history: what was given out last, or Never

recurVars == <<rule, start, it, phase, out>>

----------------------------------------------------------------------------
(* Rules.                                                                  *)

ClockParts == {"second", "minute", "hour"}
DateParts  == {"weekday", "day", "yearday", "weekno", "month"}
Fields     == ClockParts \cup {"day", "month"}

Has(part) == rule.by[part] # <<>>

\* expand_map: the parts that keep times back instead of giving more.
Contracts(part) ==
  part \in CASE rule.freq = "SECONDLY" -> ClockParts \cup DateParts
             [] rule.freq = "MINUTELY" -> {"minute", "hour"} \cup DateParts
             [] rule.freq = "HOURLY"   -> {"hour"} \cup DateParts
             [] rule.freq = "DAILY"    -> DateParts
             [] rule.freq = "WEEKLY"   -> {"weekno", "month"}
             [] rule.freq = "MONTHLY"  -> {"month"}
             [] rule.freq = "YEARLY"   -> {}

Freq(field) == [second |-> "SECONDLY", minute |-> "MINUTELY", hour |-> "HOURLY",
                day |-> "DAILY", month |-> "MONTHLY"][field]

\* icalrecur_one_byrule.
OnlyHas(part) == {p \in DateParts : Has(p)} = {part}

\* What icalrecur_iterator_new refuses; icalrecur_two_byrule always says no.
Refused ==
  \/ rule.freq = "MONTHLY" /\ OnlyHas("weekno")
  \/ rule.freq = "WEEKLY" /\ OnlyHas("day")
  \/ rule.freq # "YEARLY" /\ OnlyHas("yearday")

\* nth_weekday: the day of the month that is the pos'th of its weekday.
NthWeekday(d, t) ==
  LET len   == DaysInMonth(t.month, t.year)
      first == 1 + ((d.dow - DayOfWeek([t EXCEPT !.day = 1])) % 7)
      final == len - ((DayOfWeek([t EXCEPT !.day = len]) - d.dow) % 7)
  IN  IF d.pos >= 0 THEN first + 7 * (IF d.pos = 0 THEN 0 ELSE d.pos - 1)
                    ELSE final + 7 * (d.pos + 1)

Matches(d, t) == (d.pos = 0 /\ d.dow = DayOfWeek(t)) \/ NthWeekday(d, t) = t.day

\* is_day_in_byday.
InByDay(t) == \E d \in Range(rule.by.weekday) : Matches(d, t)

\* check_contracting_rules.  A BYDAY is compared with a day of the week.
Passes(t) ==
  LET Allows(part, v) == Contracts(part) /\ it.by[part] # <<>> => v \in Range(it.by[part])
  IN  /\ \A f \in Fields : Allows(f, t[f])
      /\ Allows("weekday", [dow |-> DayOfWeek(t), pos |-> 0])
      /\ Allows("weekno", WeekNumber(t))
      /\ Allows("yearday", DayOfYear(t))

----------------------------------------------------------------------------
(* The increments.  A step takes an iterator to the next.                  *)

\* What Op makes of x, which is evaluated once.
Of(x, Op(_)) == CHOOSE v \in {Op(y) : y \in {x}} : TRUE

\* Mutant: a year that is over is not counted.
IncMonthInYear(i) ==
  LET m == i.last.month - 1 + (IF rule.freq = "MONTHLY" THEN rule.interval ELSE 1)
      n == 1 + (i.at.month % Len(i.by.month))
  IN  IF ~Has("month") THEN [i EXCEPT !.last.month = 1 + (m % 12)]
                       ELSE [i EXCEPT !.at.month = n, !.last.month = i.by.month[n]]

\* increment_month: BYMONTH goes before the interval, in any frequency.
IncMonth(i) ==
  LET n == i.at.month + 1
      m == i.last.month - 1 + (IF rule.freq = "MONTHLY" THEN rule.interval ELSE 1)
  IN  IF ~Has("month")
      THEN [i EXCEPT !.last.month = 1 + (m % 12), !.last.year = @ + m \div 12]
      ELSE IF n <= Len(i.by.month)
      THEN [i EXCEPT !.at.month = n, !.last.month = i.by.month[n]]
      ELSE [i EXCEPT !.at.month = 1, !.last.month = i.by.month[1], !.last.year = @ + 1]

\* increment_monthday, day by day.
OneDay(i) ==
  LET len == DaysInMonth(i.last.month, i.last.year)
  IN  IF i.last.day < len THEN [i EXCEPT !.last.day = @ + 1]
                          ELSE IncMonth([i EXCEPT !.last.day = @ + 1 - len])

IncDay(i, n) == FoldLeft(LAMBDA j, k : Of(j, OneDay), i, [k \in 1..n |-> k])

IncHour(i, n) ==
  LET h == i.last.hour + n IN IncDay([i EXCEPT !.last.hour = h % 24], h \div 24)

IncMinute(i, n) ==
  LET m == i.last.minute + n IN IncHour([i EXCEPT !.last.minute = m % 60], m \div 60)

IncSecond(i, n) ==
  LET s == i.last.second + n IN IncMinute([i EXCEPT !.last.second = s % 60], s \div 60)

----------------------------------------------------------------------------
(* The time of day.                                                        *)

\* Is that the last value of a list?  To the next one, or to the first again.
AtEnd(i, part) == i.at[part] + 1 > Len(i.by[part])

NextValue(i, part) ==
  LET n == IF AtEnd(i, part) THEN 1 ELSE i.at[part] + 1
  IN  [i EXCEPT !.at[part] = n, !.last[part] = i.by[part][n]]

\* next_second, next_minute and next_hour: a BY list goes before the interval;
\* its end is what the next level waits for.
NextPart(i, part, Inc(_, _), Carry(_, _)) ==
  IF i.by[part] = <<>> THEN [it |-> Inc(i, rule.interval), end |-> FALSE]
  ELSE [it  |-> IF AtEnd(i, part) /\ rule.freq = Freq(part)
                THEN Carry(NextValue(i, part), 1) ELSE NextValue(i, part),
        end |-> AtEnd(i, part)]

NextSecond(i) == NextPart(i, "second", IncSecond, IncMinute)

NextMinute(i) ==
  Of(NextSecond(i),
     LAMBDA s : IF s.end THEN NextPart(s.it, "minute", IncMinute, IncHour) ELSE s)

NextHour(i) ==
  Of(NextMinute(i),
     LAMBDA m : IF m.end THEN NextPart(m.it, "hour", IncHour, IncDay) ELSE m)

----------------------------------------------------------------------------
(* Days, weeks, months.                                                    *)

NextDay(i) ==
  Of(NextHour(i), LAMBDA h : IF h.end THEN IncDay(h.it, rule.interval) ELSE h.it)

\* next_weekday_by_week: the next BYDAY, counted from the start of the week.
\* One that is in the year before is left out unless it ends the list.
NextWeekday(i) ==
  LET list    == i.by.weekday
      week    == StartDoyWeek(i.last, rule.wkst)
      Doy(n)  == week + ((list[n].dow - rule.wkst) % 7)
      ahead   == {n \in i.at.weekday + 1..Len(list) : Doy(n) >= 1}
      end     == ahead = {}
      n       == IF end THEN 1 ELSE CHOOSE n \in ahead : \A k \in ahead : n <= k
  IN  IF ~Has("weekday") THEN [it |-> i, end |-> TRUE]
      ELSE [it |-> [i EXCEPT !.at.weekday = n,
                             !.last = FromDayOfYear(i.last, Doy(n), i.last.year)],
            end |-> end]

\* BYWEEKNO adds its week numbers to the time, "HACK".
AddWeeks(i) ==
  LET end  == i.at.weekno + 1 > Len(i.by.weekno)
      n    == IF end THEN 1 ELSE i.at.weekno + 1
      far  == Normalize([i.last EXCEPT !.day = @ + 7 * i.by.weekno[n]])
  IN  [i EXCEPT !.at.weekno = n,
                !.last = IF end THEN [far EXCEPT !.year = @ + 1] ELSE far]

\* next_week.
NextWeek(i) ==
  Of(NextHour(i), LAMBDA h :
    IF ~h.end THEN h.it
    ELSE Of(NextWeekday(h.it), LAMBDA d :
           CASE ~d.end -> d.it
             [] d.end /\ Has("weekno") -> AddWeeks(d.it)
             [] d.end /\ ~Has("weekno") -> IncDay(d.it, 7 * rule.interval)))

On(i, day) == [i.last EXCEPT !.day = day]
MonthOf(i) == 1..DaysInMonth(i.last.month, i.last.year)
Least(S)   == CHOOSE n \in S : \A k \in S : n <= k

\* To the first of the days, or to the first of the next month.
ToDay(i, days) ==
  IF days = {} THEN IncMonth([i EXCEPT !.last.day = 1])
               ELSE [i EXCEPT !.last.day = Least(days)]

\* Case 1: BYDAY and BYMONTHDAY.
ByDayAndMonthDay(i) ==
  LET days == {d \in MonthOf(i) : d > i.last.day /\ d \in Range(i.by.day) /\ InByDay(On(i, d))}
  IN  [it |-> ToDay(i, days), valid |-> days # {}]

\* Case 2: BYDAY, of which BYSETPOS may choose some of the month's.
InSetPos(set, d) ==
  LET place == Cardinality({e \in set : e <= d})
  IN  {place, place - Cardinality(set) - 1} \cap Range(rule.by.setpos) # {}

\* Mutant: the first of the next month is not looked at.
ByDayFromSecond(i) ==
  LET set  == {d \in MonthOf(i) : InByDay(On(i, d))}
      days == {d \in set : d > i.last.day /\ (Has("setpos") => InSetPos(set, d))}
  IN  [it |-> ToDay(i, days), valid |-> days # {}]

ByDay(i) ==
  LET set  == {d \in MonthOf(i) : InByDay(On(i, d))}
      days == {d \in set : d > i.last.day /\ (Has("setpos") => InSetPos(set, d))}
      j    == ToDay(i, days)
  IN  [it |-> j,
       valid |-> \/ days # {}
                 \/ InByDay(j.last) /\ (Has("setpos") => 1 \in Range(rule.by.setpos))]

\* Case 3: BYMONTHDAY, counted from the end if negative.
ByMonthDay(i) ==
  LET end == i.at.day + 1 > Len(i.by.day)
      j   == IF end THEN IncMonth([i EXCEPT !.at.day = 1]) ELSE [i EXCEPT !.at.day = @ + 1]
      len == DaysInMonth(j.last.month, j.last.year)
      d   == j.by.day[j.at.day]
      day == IF d < 0 THEN len + d + 1 ELSE d
  IN  [it |-> [j EXCEPT !.last.day = day], valid |-> day <= len]

\* None of them: the day of the start, or the last one of a shorter month.
SameDay(i) ==
  LET j   == IncMonth(i)
      len == DaysInMonth(j.last.month, j.last.year)
  IN  [it |-> [j EXCEPT !.last.day = IF i.by.day[1] > len THEN len ELSE i.by.day[1]],
       valid |-> TRUE]

\* next_month: the iterator, and whether it is at a time of the rule.
NextMonth(i) ==
  Of(NextHour(i), LAMBDA h :
      CASE ~h.end -> [it |-> h.it, valid |-> TRUE]
        [] h.end /\ Has("weekday") /\ Has("day") -> ByDayAndMonthDay(h.it)
        [] h.end /\ Has("weekday") /\ ~Has("day") -> ByDay(h.it)
        [] h.end /\ ~Has("weekday") /\ Has("day") -> ByMonthDay(h.it)
        [] h.end /\ ~Has("weekday") /\ ~Has("day") -> SameDay(h.it))

----------------------------------------------------------------------------
(* Years: the days of a year are listed one year at a time.                *)

\* expand_by_day: the days, of a year or a month of so many days that starts
\* on this weekday.
Weekdays(d, first, len) ==
  LET one   == 1 + ((d.dow - first) % 7)
      count == 1 + ((len - one) \div 7)
  IN  CASE d.pos = 0 -> [k \in 1..count |-> one + 7 * (k - 1)]
        [] d.pos > 0 -> <<one + 7 * (d.pos - 1)>>
        [] d.pos < 0 -> <<one + 7 * (count + d.pos)>>

ForEach(list, Op(_)) == FlattenSeq([k \in DOMAIN list |-> Op(list[k])])

Date(year, month, day) == [start EXCEPT !.year = year, !.month = month, !.day = day]

WeekdaysOfYear(year) ==
  ForEach(rule.by.weekday,
          LAMBDA d : Weekdays(d, DayOfWeek(Date(year, 1, 1)), DaysIn(year)))

\* BYDAY with BYMONTH, and BYSETPOS in each month.
WeekdaysOfMonth(month, year) ==
  LET len   == DaysInMonth(month, year)
      set   == {d \in 1..len : InByDay(Date(year, month, d))}
      days  == IF Has("setpos")
               THEN SetToSortSeq({d \in set : InSetPos(set, d)}, <)
               ELSE SelectSeq(ForEach(rule.by.weekday,
                                LAMBDA d : Weekdays(d, DayOfWeek(Date(year, month, 1)), len)),
                              LAMBDA d : d \in 1..len)
  IN  [k \in DOMAIN days |-> DayOfYear(Date(year, month, days[k]))]

\* The days by BYDAY, each once for every entry of a list that it matches.
Listed(year, list, Value(_)) ==
  ForEach(WeekdaysOfYear(year),
          LAMBDA n : LET v == Value(FromDayOfYear(start, n, year))
                     IN  [k \in DOMAIN SelectSeq(list, LAMBDA x : x = v) |-> n])

GivenParts == {p \in DateParts : Has(p)}

\* expand_year_days, by the parts the rule has; BYWEEKNO with BYMONTH is not
\* modelled, the other combinations are ICAL_UNIMPLEMENTED_ERROR.
Implemented ==
  \/ "weekno" \notin GivenParts /\ ("yearday" \in GivenParts => GivenParts = {"yearday"})
  \/ GivenParts = {"weekday", "weekno"}

ExpandYearDays(year) ==
  LET by == rule.by
      Doys(months, days) ==
        ForEach(months, LAMBDA m : [k \in DOMAIN days |-> DayOfYear(Date(year, m, days[k]))])
  IN  CASE GivenParts = {} -> Doys(<<start.month>>, <<start.day>>)
        [] GivenParts = {"month"} -> Doys(by.month, <<start.day>>)
        [] GivenParts = {"day"} -> Doys(<<start.month>>, by.day)
        [] GivenParts = {"day", "month"} -> Doys(by.month, by.day)
        [] GivenParts = {"weekday"} -> WeekdaysOfYear(year)
        [] GivenParts = {"weekday", "month"} ->
             ForEach(by.month, LAMBDA m : WeekdaysOfMonth(m, year))
        [] GivenParts = {"weekday", "day"} -> Listed(year, by.day, LAMBDA t : t.day)
        [] GivenParts = {"weekday", "day", "month"} ->
             Listed(year, ForEach(by.month, LAMBDA m : [k \in DOMAIN by.day |-> <<m, by.day[k]>>]),
                    LAMBDA t : <<t.month, t.day>>)
        [] GivenParts = {"weekday", "weekno"} -> Listed(year, by.weekno, LAMBDA t : WeekNumber(t))
        [] GivenParts = {"yearday"} -> by.yearday

\* Mutant: the loop does not go on to a further year.
OneYear(i, from) ==
  LET year == i.last.year + rule.interval * from
  IN  {[i EXCEPT !.last.year = year, !.days = days, !.dayAt = 1] :
         days \in {ExpandYearDays(year)} \ {<<>>}}

\* for (;;): to the first year that has days, if there is one.
ToYear(i, from) ==
  LET Year(k) == i.last.year + rule.interval * k
      Lists(k) == ExpandYearDays(Year(k)) # <<>>
      k       == CHOOSE n \in from..MaxYears : (Lists(n) \/ n = MaxYears)
                                               /\ \A j \in from..n - 1 : ~Lists(j)
  IN  {[i EXCEPT !.last.year = Year(k), !.days = days, !.dayAt = 1] :
         days \in {ExpandYearDays(Year(k))} \ {<<>>}}

\* The day and month of the day in the list; not its year.
AtDay(i) ==
  LET t == FromDayOfYear(i.last, i.days[i.dayAt], i.last.year)
  IN  [i EXCEPT !.last.day = t.day, !.last.month = t.month]

\* next_year: none if the loop does not end.
NextYear(i) ==
  Of(NextHour(i), LAMBDA h :
    CASE ~h.end -> {h.it}
      [] h.end /\ i.dayAt < Len(i.days) -> {AtDay([h.it EXCEPT !.dayAt = @ + 1])}
      [] h.end /\ i.dayAt = Len(i.days) -> {AtDay(j) : j \in ToYear(h.it, 1)})

----------------------------------------------------------------------------
(* icalrecur_iterator_new.                                                 *)

\* setup_defaults: the start's field stands for a list that is missing, and
\* the first value of a list is where the first time is.
Defaults ==
  [p \in DOMAIN rule.by |->
     CASE p \in Fields /\ ~Has(p) /\ ~Contracts(p) -> <<start[p]>>
       [] p = "weekday" /\ ~Has(p) /\ rule.freq = "WEEKLY" ->
            <<[dow |-> DayOfWeek(start), pos |-> 0]>>
       [] OTHER -> rule.by[p]]

FirstTime ==
  [f \in DOMAIN start |->
     IF f \in Fields /\ rule.freq # Freq(f) /\ ~Contracts(f) THEN Defaults[f][1] ELSE start[f]]

Fresh ==
  [last |-> FirstTime, by |-> Defaults, at |-> [p \in DOMAIN rule.by |-> 1],
   days |-> <<>>, dayAt |-> 1, no |-> 0]

\* A BYDAY as the rule stores it: its position times eight, and the weekday.
Coded(d) == IF d.pos < 0 THEN 8 * d.pos - d.dow ELSE 8 * d.pos + d.dow

\* A WEEKLY rule moves the first time to the first BYDAY of its week, and
\* takes the stored number for the weekday.
Shifted ==
  LET shift == Coded(Fresh.by.weekday[1]) - DayOfWeek(FirstTime)
  IN  IF Has("weekday") /\ shift # 0
        THEN [Fresh EXCEPT !.last = Normalize([@ EXCEPT !.day = @ + shift])]
        ELSE Fresh

\* With BYMONTHDAY the first time may be on a day its month has not.
Settled(i) == IF Has("day") THEN [i EXCEPT !.last = Normalize(@)] ELSE i

\* The iterators the constructor may return: none, or one.
Built ==
  LET days == {n \in MonthOf(Fresh) : Matches(Fresh.by.weekday[1], On(Fresh, n))}
  IN  CASE rule.freq = "WEEKLY" -> {Settled(Shifted)}
        [] rule.freq = "YEARLY" -> {Settled(AtDay(j)) : j \in ToYear(Fresh, 0)}
        [] rule.freq = "MONTHLY" /\ Has("weekday") ->
             IF days = {} THEN {} ELSE {[Fresh EXCEPT !.last.day = Least(days)]}
        [] OTHER -> {Settled(Fresh)}

RecurInit ==
  /\ \E c \in Cases : rule = c.rule /\ start = c.start
  /\ it = Never
  /\ phase = "new"
  /\ out = Never

New ==
  /\ phase = "new"
  /\ \/ /\ \/ Refused
           \/ rule.freq = "YEARLY" /\ ~Implemented
           \/ rule.freq = "MONTHLY" /\ Built = {}
        /\ phase' = "refused" /\ UNCHANGED it
     \/ /\ ~Refused /\ (rule.freq = "YEARLY" => Implemented)
        /\ it' \in Built
        /\ phase' = "idle"
  /\ UNCHANGED <<rule, start, out>>

----------------------------------------------------------------------------
(* icalrecur_iterator_next.                                                *)

PastUntil(t) == rule.until # Never /\ Earlier(rule.until, t)

\* The part before the loop.
Call ==
  /\ phase = "idle"
  /\ LET over  == (rule.count # 0 /\ it.no >= rule.count) \/ PastUntil(it.last)
         first == it.no = 0 /\ NotAfter(start, it.last)
     IN  \/ over /\ phase' = "ended" /\ UNCHANGED <<it, out>>
         \/ ~over /\ first /\ it' = [it EXCEPT !.no = 1] /\ out' = it.last /\ UNCHANGED phase
         \/ ~over /\ ~first /\ phase' = "looping" /\ UNCHANGED <<it, out>>
  /\ UNCHANGED <<rule, start>>

\* Mutant: the end is only looked at before the loop.
PassUntilUnchecked(next, valid) ==
  LET t     == next.last
      again == t.year < LastYear /\ (~valid \/ ~Passes(t) \/ Earlier(t, start))
      late  == t.year >= LastYear
  IN  \/ again /\ it' = next /\ UNCHANGED <<phase, out>>
      \/ late /\ phase' = "ended" /\ it' = next /\ UNCHANGED out
      \/ ~again /\ ~late /\ phase' = "idle" /\ out' = t /\ it' = [next EXCEPT !.no = @ + 1]

\* One pass: on at the next time, over, or a time that is given out.
Pass(next, valid) ==
  LET t     == next.last
      late  == t.year >= LastYear
      again == ~late /\ (~valid \/ ~Passes(t) \/ Earlier(t, start))
      over  == late \/ (~again /\ PastUntil(t))
  IN  \/ again /\ it' = next /\ UNCHANGED <<phase, out>>
      \/ over /\ phase' = "ended" /\ it' = next /\ UNCHANGED out
      \/ ~again /\ ~over /\ phase' = "idle" /\ out' = t /\ it' = [next EXCEPT !.no = @ + 1]

Loops(freq) == phase = "looping" /\ rule.freq = freq /\ UNCHANGED <<rule, start>>

Secondly == Loops("SECONDLY") /\ \E j \in {NextSecond(it)} : Pass(j.it, TRUE)
Minutely == Loops("MINUTELY") /\ \E j \in {NextMinute(it)} : Pass(j.it, TRUE)
Hourly   == Loops("HOURLY") /\ \E j \in {NextHour(it)} : Pass(j.it, TRUE)
Daily    == Loops("DAILY") /\ \E j \in {NextDay(it)} : Pass(j, TRUE)
Weekly   == Loops("WEEKLY") /\ \E j \in {NextWeek(it)} : Pass(j, TRUE)
Monthly  == Loops("MONTHLY") /\ \E m \in {NextMonth(it)} : Pass(m.it, m.valid)
Yearly   == Loops("YEARLY") /\ \E j \in NextYear(it) : Pass(j, TRUE)

RecurNext ==
  New \/ Call \/ Secondly \/ Minutely \/ Hourly \/ Daily \/ Weekly \/ Monthly \/ Yearly

RecurSpec == RecurInit /\ [][RecurNext]_recurVars

----------------------------------------------------------------------------
(* Properties.                                                             *)

From == IF out = Never THEN start ELSE out

\* What is given out is the first time of the rule after the one before: none
\* is left out, given twice, out of order or not of the rule.
NextIsNext ==
  [][phase # "new" /\ it'.no # it.no
       => Instances(rule, start, From, out') \ {out} = {out'}]_recurVars

\* The iterator is over when the count is reached or no time is left before the
\* end of the rule or the year at which the code stops, and not later.
EndIsEnd ==
  LET end == IF rule.until = Never THEN [Date(LastYear - 1, 12, 31) EXCEPT !.hour = 23]
                                   ELSE rule.until
  IN  /\ phase = "ended" => \/ rule.count # 0 /\ it.no = rule.count
                            \/ Instances(rule, start, From, end) \ {out} = {}
      /\ out # Never => /\ NotAfter(out, end)
                        /\ rule.count # 0 => it.no <= rule.count

\* The lists whose values are gone through, one after the other.
Walked(r) ==
  {"second", "month"}
    \cup (IF r.freq # "SECONDLY" THEN {"minute"} ELSE {})
    \cup (IF r.freq \notin {"SECONDLY", "MINUTELY"} THEN {"hour"} ELSE {})
    \cup (IF r.freq = "MONTHLY" /\ r.by.weekday = <<>> /\ r.by.day # <<>> THEN {"day"} ELSE {})

Ascending(list) == \A i, j \in DOMAIN list : i < j => list[i] < list[j]

Times == [year : Int, month : 1..12, day : Int, hour : 0..23, minute : 0..59, second : 0..59]

ByLists == [second : Seq(0..59), minute : Seq(0..59), hour : Seq(0..23),
            weekday : Seq([pos : Int, dow : 1..7]), day : Seq(Int), yearday : Seq(Int),
            weekno : Seq(Int), month : Seq(1..12), setpos : Seq(Int)]

\* What RFC 2445 lets a rule and its DTSTART be, and the parser does not check: an
\* interval, values in their ranges and a day there is.
InRange(r, s) ==
  /\ r.interval \in Nat \ {0} /\ r.by \in ByLists
  /\ s \in Times /\ s.day \in 1..DaysInMonth(s.month, s.year)

\* A rule of a frequency other than WEEKLY and YEARLY whose lists are sorted, and
\* that starts with the first of their values, as the indices do.
Advances(r, s) ==
  /\ InRange(r, s)
  /\ r.freq \in {"SECONDLY", "MINUTELY", "HOURLY", "DAILY", "MONTHLY"}
  /\ \A p \in Walked(r) :
       /\ Ascending(r.by[p])
       /\ (p = "month" \/ r.freq = Freq(p)) /\ r.by[p] # <<>> => s[p] = r.by[p][1]
  /\ "day" \in Walked(r) => r.by.day[1] \in 1..s.day

\* The loop of a call ends: each pass takes the time further, to the last year
\* if nothing is found before.
PassMovesOn == [][phase = "looping" => Earlier(it.last, it'.last)]_recurVars

\* And so does the loop over the years that is inside of it, "break when no
\* days are expanded" (icalrecur.c:1003).
SearchEnds ==
  /\ phase = "looping" /\ rule.freq = "YEARLY" => NextYear(it) # {}
  /\ phase = "new" /\ rule.freq = "YEARLY" /\ Implemented => Built # {}
=============================================================================
