----------------------------- MODULE MCICalRecur -----------------------------
(***************************************************************************)
(* ICalRecur for TLC: rules of each frequency, with the starts they have   *)
(* their first time at.                                                    *)
(***************************************************************************)
EXTENDS ICalRecur

At(y, mo, d, h, mi, s) ==
  [year |-> y, month |-> mo, day |-> d, hour |-> h, minute |-> mi, second |-> s]

Day(y, m, d) == At(y, m, d, 9, 0, 0)

NoParts ==
  [p \in {"second", "minute", "hour", "weekday", "day", "yearday", "weekno",
          "month", "setpos"} |-> <<>>]

By(part, list) == [NoParts EXCEPT ![part] = list]
And(by, part, list) == [by EXCEPT ![part] = list]

W(pos, dow) == [pos |-> pos, dow |-> dow]
MO == W(0, 2)
WE == W(0, 4)
FR == W(0, 6)

Rule(freq, interval, by) ==
  [freq |-> freq, interval |-> interval, by |-> by, count |-> 0, until |-> Never, wkst |-> 2]

Counted(n, r) == [r EXCEPT !.count = n]
Until(t, r) == [r EXCEPT !.until = t]
Case(r, t) == [rule |-> r, start |-> t]

\* Once with a count, once with an end.
Both(r, t, end) == {Case(Counted(5, r), t), Case(Until(end, r), t)}

Clock ==
  LET t == At(2023, 12, 31, 22, 58, 30)
      e == At(2024, 1, 1, 2, 0, 0)
  IN  Both(Rule("SECONDLY", 45, NoParts), t, [t EXCEPT !.minute = 59])
      \cup Both(Rule("SECONDLY", 1, By("second", <<30, 50>>)), t, At(2023, 12, 31, 23, 1, 0))
      \cup Both(Rule("MINUTELY", 61, NoParts), t, e)
      \cup Both(Rule("MINUTELY", 1, And(By("minute", <<58, 59>>), "second", <<30, 40>>)), t, e)
      \cup Both(Rule("HOURLY", 25, NoParts), t, At(2024, 1, 5, 0, 0, 0))
      \cup Both(Rule("HOURLY", 1, And(By("hour", <<22, 23>>), "weekday", <<W(0, 1), MO>>)), t,
                At(2024, 1, 15, 0, 0, 0))

Days ==
  LET e == Day(2024, 3, 20)
  IN  UNION {Both(Rule("DAILY", n, by), Day(2024, 2, 28), e) :
               n \in 1..3, by \in {NoParts, By("hour", <<9, 17>>), By("weekday", <<WE, FR>>)}}
      \cup Both(Rule("DAILY", 1, By("month", <<2, 4>>)), Day(2024, 2, 28), Day(2024, 4, 3))
      \cup Both(Rule("DAILY", 1, By("day", <<13, 28>>)), Day(2023, 12, 28), e)

Weeks ==
  LET e == Day(2024, 2, 10)
  IN  UNION {Both([Rule("WEEKLY", n, by) EXCEPT !.wkst = w], Day(2023, 12, 18), e) :
               n \in 1..3, w \in 1..2,
               by \in {NoParts, By("weekday", <<MO, WE, FR>>), By("weekday", <<MO>>)}}
      \cup Both(Rule("WEEKLY", 1, By("weekday", <<MO, WE>>)), Day(2024, 2, 28), Day(2024, 3, 20))

Months ==
  LET e == Day(2025, 1, 20)
  IN  UNION {Both(Rule("MONTHLY", n, by), Day(2023, 11, 20), e) :
               n \in {1, 2, 13},
               by \in {NoParts, By("day", <<20, 31>>), By("weekday", <<W(3, 2)>>),
                       By("weekday", <<MO>>), By("weekday", <<W(-2, 2), W(-1, 6)>>),
                       And(By("weekday", <<MO, WE>>), "day", <<20, 5>>),
                       And(By("weekday", <<MO, WE>>), "setpos", <<-4, 2, 6>>)}}
      \cup Both(Rule("MONTHLY", 1, By("day", <<-1>>)), Day(2023, 12, 31), e)
      \cup Both(Rule("MONTHLY", 1, And(By("day", <<20>>), "month", <<11, 12>>)),
                Day(2023, 11, 20), e)

Years ==
  LET t == Day(2023, 11, 20)
      e == Day(2028, 1, 1)
  IN  UNION {Both(Rule("YEARLY", n, by), t, e) :
               n \in 1..2,
               by \in {NoParts, By("month", <<11, 12>>),
                       And(By("day", <<1, 20>>), "month", <<11, 12>>),
                       By("weekday", <<W(47, 2)>>), By("weekday", <<W(-6, 2)>>),
                       And(By("weekday", <<W(3, 2)>>), "month", <<11>>),
                       And(By("weekday", <<MO>>), "day", <<20, 6>>),
                       And(And(By("weekday", <<MO>>), "day", <<20>>), "month", <<5, 11>>),
                       And(And(By("weekday", <<MO, WE>>), "setpos", <<-3>>), "month", <<11>>),
                       By("yearday", <<1, 324>>)}}
      \cup Both(Rule("YEARLY", 1, And(By("weekday", <<W(5, 2)>>), "month", <<1>>)),
                Day(2023, 1, 30), e)

Refusals ==
  {Case(Rule("MONTHLY", 1, By("weekno", <<3>>)), Day(2024, 1, 1)),
   Case(Rule("WEEKLY", 1, By("day", <<1>>)), Day(2024, 1, 1)),
   Case(Rule("DAILY", 1, By("yearday", <<1>>)), Day(2024, 1, 1)),
   Case(Rule("YEARLY", 1, By("weekno", <<20>>)), Day(2024, 1, 1))}

Rules == Clock \cup Days \cup Weeks \cup Months \cup Years \cup Refusals

\* Some of the rules advance in every list they walk through.
ASSUME SomeAdvance ==
  \A f \in {"SECONDLY", "MINUTELY", "HOURLY", "DAILY", "MONTHLY"} :
    \E c \in Rules : c.rule.freq = f /\ Advances(c.rule, c.start)

----------------------------------------------------------------------------
(* Rules whose times the iterator does not give.                           *)

\* DTSTART is in the second of the months.
OtherMonth == {Case(Counted(5, Rule("DAILY", 1, By("month", <<1, 3>>))), Day(2024, 3, 30))}

\* The first of a month is never looked at.
FirstOfMonth ==
  {Case(Counted(3, Rule("MONTHLY", 1, And(By("weekday", <<W(0, 1)>>), "day", <<1>>))),
        Day(2023, 10, 1))}

\* The end of a week is before its start.
WeekFromSunday ==
  {Case(Counted(4, Rule("WEEKLY", 1, By("weekday", <<MO, W(0, 1)>>))), Day(2024, 1, 7))}

\* No January has six Mondays.
SixthMonday ==
  {Case(Counted(2, Rule("YEARLY", 1, And(By("weekday", <<W(6, 2)>>), "month", <<1>>))),
        Day(2024, 1, 1))}

\* Lists that are not sorted, or whose second value is the one of DTSTART.
OutOfOrder ==
  {Case(Counted(5, Rule("DAILY", 1, By("hour", <<17, 9>>))), Day(2024, 2, 28)),
   Case(Counted(5, Rule("HOURLY", 1, By("hour", <<7, 9>>))), Day(2024, 2, 28))}

Missed == OtherMonth \cup FirstOfMonth \cup WeekFromSunday \cup SixthMonday \cup OutOfOrder
=============================================================================
