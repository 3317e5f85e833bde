--------------------------- MODULE MCICalTimezone ---------------------------
(***************************************************************************)
(* ICalTimezone for TLC: an hour is the unit, a year has twelve days of    *)
(* four hours.  The clocks go forward early and back late in the year.     *)
(***************************************************************************)
EXTENDS ICalTimezone

CONSTANTS here, there

Part(daylight, from, to, start) ==
  [daylight |-> daylight, from |-> from, to |-> to, start |-> start,
   rdates |-> <<>>, yearly |-> TRUE, until |-> 1000, untilUtc |-> FALSE]

Once(part) == [part EXCEPT !.yearly = FALSE]

Until(part, t) == [part EXCEPT !.until = t, !.untilUtc = TRUE]

Listed(part, rdates) == [part EXCEPT !.yearly = FALSE, !.rdates = rdates]

At(at, kind) == [at |-> at, kind |-> kind]

\* Every year one hour forward and back, east and west of UTC.
Yearly(o) == <<Part(FALSE, o + 1, o, 85), Part(TRUE, o, o + 1, 61)>>

\* Daylight time for two years, then another offset, for good.
Reform == <<Until(Part(TRUE, 1, 2, 61), 108), Until(Part(FALSE, 2, 1, 86), 132),
            Once(Part(FALSE, 1, 0, 182))>>

\* Changes that are listed: in the clock of the zone, in UTC and by the day.
ByHand == <<Listed(Part(TRUE, 0, 1, 61), <<At(61, "local"), At(204, "date"), At(252, "utc")>>),
            Listed(Part(FALSE, 1, 0, 85), <<At(229, "local"), At(276, "utc"), At(84, "utc")>>)>>

\* A change that is listed and recurs as well.
Doubled == <<[Part(FALSE, 2, 1, 85) EXCEPT !.rdates = <<At(85, "local")>>],
             Part(TRUE, 1, 2, 61)>>

\* A change that is listed by the day, of a zone that is not at UTC.
ByDate == <<Listed(Part(TRUE, 1, 2, 61), <<At(61, "local"), At(204, "date")>>),
            Part(FALSE, 2, 1, 85)>>

\* A change in the first hour of a year, east of UTC.
NewYear == <<Part(TRUE, 2, 3, 96), Part(FALSE, 3, 2, 85)>>

\* No component: a new zone, or one whose VTIMEZONE had no TZID.
Empty == <<>>

\* One zone may be any of these, the other is west of UTC.
Zones(vtimezones) == [z \in {here, there} |-> IF z = here THEN vtimezones ELSE {Yearly(-2)}]

Usual == Zones({Yearly(1), Reform, ByHand, Empty})
Odd == Zones({Doubled, ByDate, NewYear})

AroundChanges ==
  {48 * y + k : y \in {1, 2, 4, 6}, k \in {-1, 0} \cup 11..15 \cup 34..38}

Years == {1, 3}

\* The usual zones are what the theorems ask of them, the odd ones are not.
ASSUME UsualIsRegular ==
  /\ \A z \in {here, there} : \A v \in Usual[z] : Regular(v)
  /\ \A v \in Odd[here] : ~Regular(v)
=============================================================================
