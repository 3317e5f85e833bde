---------------------------- MODULE ICalTimezone ----------------------------
(***************************************************************************)
(* The time zones of libical (icaltimezone.c): every zone expands the      *)
(* STANDARD and DAYLIGHT parts of its VTIMEZONE into a sorted table of     *)
(* changes, up to a year that is raised whenever a later time is asked     *)
(* for, and answers from the table by a binary search and a few steps.     *)
(* One icaltimetype, read from a text, is converted from zone to zone.     *)
(*                                                                         *)
(* Times are whole numbers, years and days have a fixed length; a yearly   *)
(* RRULE stands for the recurrences, which ICalRecur models.               *)
(***************************************************************************)
EXTENDS Integers, Sequences, SequencesExt

CONSTANTS
  Names,        \* the zones
  Vtimezones,   \* the VTIMEZONEs a zone may have: sequences of parts, <<>>
                \* for a zone without one
  Moments,      \* the times that are read
  Todays,       \* the years the process may be started in
  Year, Day,    \* how long a year and a day are
  Extra,        \* ICALTIMEZONE_EXTRA_COVERAGE
  MaxYear,      \* ICALTIMEZONE_MAX_YEAR
  Utc, NoZone

\* A part of a VTIMEZONE: STANDARD or DAYLIGHT.
Rdates == [at : Int, kind : {"date", "utc", "local"}]
Parts == [daylight : BOOLEAN, from : Int, to : Int, start : Nat, rdates : Seq(Rdates),
          yearly : BOOLEAN, until : Int, untilUtc : BOOLEAN]

ASSUME VtimezonesAreParts == \A z \in Names : Vtimezones[z] \subseteq Seq(Parts)
ASSUME TimesAreNumbers == Moments \subseteq Int /\ Todays \subseteq Nat
ASSUME LengthsAreNumbers == Year \in Nat \ {0} /\ Day \in Nat \ {0}
ASSUME CoverageAssumption == Extra \in Nat /\ MaxYear \in Nat
ASSUME UtcIsNoName == Utc # NoZone /\ {Utc, NoZone} \cap Names = {}

VARIABLES
  component,    \* zone->component, of every zone
  changes,      \* zone->changes; NoTable before anything was asked
  endYear,      \* zone->end_year
  minimum,      \* icaltimezone_minimum_expansion_year
  tt            \* the time: what its clock shows, is_daylight, its zone

vars == <<component, changes, endYear, minimum, tt>>

NoTime == [zone |-> "none"]
NoTable == <<NoTime>>

YearOf(t) == t \div Year

-----------------------------------------------------------------------------
(* The expansion of a VTIMEZONE.                                           *)

Change(part, at) == [at |-> at, to |-> part.to, from |-> part.from, daylight |-> part.daylight]

\* An RDATE that is a DATE takes its time from DTSTART, and is not put in UTC.
OfRdate(part, r) ==
  Change(part, CASE r.kind = "date"  -> (r.at \div Day) * Day + (part.start % Day)
                 [] r.kind = "utc"   -> r.at
                 [] r.kind = "local" -> r.at - part.from)

\* A bug: an UNTIL in UTC is compared as it is.
EndAsIs(part) == part.until

\* An UNTIL in UTC is compared as a local time, by the offset before the change.
EndOf(part) == IF part.untilUtc THEN part.until + part.from ELSE part.until

\* The changes that recur, as long as they are within the end and the last year.
Recurrences(part, lastYear) ==
  LET last == CHOOSE n \in 0..lastYear + 1 :
                \A m \in 0..lastYear + 1 :
                  m < n <=> /\ part.start + m * Year <= EndOf(part)
                            /\ YearOf(part.start + m * Year) <= lastYear
  IN  [n \in 1..last |-> Change(part, part.start + (n - 1) * Year - part.from)]

\* icaltimezone_expand_vtimezone: DTSTART counts only where nothing recurs.
ExpandPart(part, lastYear) ==
  IF part.rdates = <<>> /\ ~part.yearly THEN <<Change(part, part.start - part.from)>>
  ELSE [i \in DOMAIN part.rdates |-> OfRdate(part, part.rdates[i])]
         \o (IF part.yearly THEN Recurrences(part, lastYear) ELSE <<>>)

\* icaltimezone_compare_change_fn: sorted by the time alone.
Place(cs, c) ==
  CHOOSE i \in 1..Len(cs) + 1 : /\ \A j \in 1..i - 1 : cs[j].at <= c.at
                                /\ i <= Len(cs) => c.at < cs[i].at

InOrder(cs) == FoldLeft(LAMBDA s, c : InsertAt(s, Place(s, c), c), <<>>, cs)

Gathered(vtimezone, lastYear) ==
  FlattenSeq([i \in DOMAIN vtimezone |-> ExpandPart(vtimezone[i], lastYear)])

ExpandChanges(vtimezone, lastYear) == InOrder(Gathered(vtimezone, lastYear))

\* The year a table is made up to, for a time of the year asked.
Reaches(asked) ==
  LET year == (IF asked < minimum THEN minimum ELSE asked) + Extra
  IN  IF year > MaxYear THEN MaxYear ELSE year

\* A bug: a table that reaches further than it needs to is made anew.
CoversJust(z, asked) == changes[z] # NoTable /\ endYear[z] = asked

Covers(z, asked) == changes[z] # NoTable /\ endYear[z] >= asked

TableFor(z, asked) ==
  IF Covers(z, asked) THEN changes[z] ELSE ExpandChanges(component[z], Reaches(asked))

EndFor(z, asked) == IF Covers(z, asked) THEN endYear[z] ELSE Reaches(asked)

-----------------------------------------------------------------------------
(* Looking a time up in a table.  An index counts from 0, -1 is none.      *)

\* icaltimezone_find_nearby_change.
Nearby(cs, t) ==
  LET search[p \in (0..Len(cs)) \X (0..Len(cs)) \X (0..Len(cs))] ==
        LET lower == p[1]
            upper == p[2]
            m == (lower + upper) \div 2
        IN  IF lower >= upper THEN p[3]
            ELSE IF t = cs[m + 1].at THEN m
            ELSE IF t < cs[m + 1].at THEN search[<<lower, m, m>>]
            ELSE search[<<m + 1, upper, m>>]
  IN  search[<<0, Len(cs), 0>>]

\* The steps from there to the change that applies, by the times from which each
\* does: forwards while the time is on or after the change, else backwards until
\* it is.
Step(since, t, near) ==
  LET walk[p \in (-1..Len(since)) \X {-1, 1} \X (-1..Len(since))] ==
        LET n == p[1]
            on == t >= since[n + 1]
            step == IF on THEN p[2] ELSE -1
            use == IF on THEN n ELSE p[3]
        IN  IF n < 0 THEN -1
            ELSE IF n >= Len(since) THEN p[3]
            ELSE IF step = -1 /\ use # -1 THEN use
            ELSE walk[<<n + step, step, use>>]
  IN  walk[<<near, 1, -1>>]

Answer(cs, n) ==
  IF n = -1 THEN [offset |-> 0, daylight |-> FALSE]
  ELSE [offset |-> cs[n + 1].to, daylight |-> cs[n + 1].daylight]

\* icaltimezone_get_utc_offset_of_utc_time.
Comes(cs) == [i \in DOMAIN cs |-> cs[i].at]

OfUtc(cs, t) == Answer(cs, Step(Comes(cs), t, Nearby(cs, t)))

\* A change by the earlier of the two clocks that show it.
OnWall(c) == c.at + (IF c.to < c.from THEN c.to ELSE c.from)

Shows(cs) == [i \in DOMAIN cs |-> OnWall(cs[i])]

\* A bug: the setting of is_daylight is not looked at, the hour is the later one.
OfLocalLater(cs, t, daylight) == Answer(cs, Step(Shows(cs), t, Nearby(cs, t)))

\* icaltimezone_get_utc_offset: an hour that is shown twice is the one whose
\* change has the setting of is_daylight.
OfLocal(cs, t, daylight) ==
  LET n == Step(Shows(cs), t, Nearby(cs, t))
      c == cs[n + 1]
      twice == n > 0 /\ c.to < c.from /\ t < c.at + c.from
  IN  IF twice /\ c.daylight # daylight /\ cs[n].daylight = daylight
      THEN Answer(cs, n - 1) ELSE Answer(cs, n)

-----------------------------------------------------------------------------
Init ==
  /\ component \in {f \in [Names -> UNION {Vtimezones[z] : z \in Names}] :
                      \A z \in Names : f[z] \in Vtimezones[z]}
  /\ changes = [z \in Names |-> NoTable]
  /\ endYear = [z \in Names |-> 0]
  /\ minimum \in Todays
  /\ tt = NoTime

\* icaltime_from_string: a time with a Z is in UTC, any other one floats.
FromString(t, zone) ==
  /\ tt = NoTime
  /\ tt' = [at |-> t, daylight |-> FALSE, zone |-> zone]
  /\ UNCHANGED <<component, changes, endYear, minimum>>

\* A bound: without it the time could wander off, an offset at a time.
Near == tt # NoTime => tt.at \in Moments

\* icaltime_set_timezone: the clock shows the same, in another zone.
SetTimezone(zone) ==
  /\ tt # NoTime /\ Near
  /\ tt' = [tt EXCEPT !.zone = zone]
  /\ UNCHANGED <<component, changes, endYear, minimum>>

\* The program is done with the time.
Drop ==
  /\ tt # NoTime
  /\ tt' = NoTime
  /\ UNCHANGED <<component, changes, endYear, minimum>>

\* icaltime_convert_to_zone of a time that floats does not move the clock.
Float(zone) ==
  /\ tt.zone = NoZone
  /\ SetTimezone(zone)

\* The table of a zone that is asked about a year, NoTable for UTC, which has none.
Expanded(z, asked) == IF z = Utc THEN NoTable ELSE TableFor(z, asked)

\* icaltimezone_convert_time: what the clock shows less its offset is the moment
\* in UTC, and that with the offset there is what the clock of the other zone
\* shows.  A zone is first expanded as far as it is asked.
ToUtc(table) == tt.at - (IF tt.zone = Utc THEN 0 ELSE OfLocal(table, tt.at, tt.daylight).offset)

FromUtc(table, u, zone) ==
  LET answer == IF zone = Utc THEN Answer(<<>>, -1) ELSE OfUtc(table, u)
  IN  [at |-> u + answer.offset, daylight |-> answer.daylight, zone |-> zone]

Convert(zone) ==
  /\ tt # NoTime
  /\ tt.zone \notin {NoZone, zone}
  /\ \E source \in {Expanded(tt.zone, YearOf(tt.at))} :
       \E u \in {ToUtc(source)} :
         \E target \in {Expanded(zone, YearOf(u))} :
           /\ tt' = FromUtc(target, u, zone)
           /\ changes' = [z \in Names |-> IF z = tt.zone THEN source
                                          ELSE IF z = zone THEN target ELSE changes[z]]
           /\ endYear' = [z \in Names |-> IF z = tt.zone THEN EndFor(z, YearOf(tt.at))
                                          ELSE IF z = zone THEN EndFor(z, YearOf(u))
                                          ELSE endYear[z]]
  /\ UNCHANGED <<component, minimum>>

\* icaltimezone_set_component: the table of the old component is freed.  One
\* that has no TZID is refused after that and leaves the zone empty, which then
\* expands to no change: an empty sequence of parts stands for it.
SetComponent(z, vtimezone) ==
  /\ Near
  /\ component' = [component EXCEPT ![z] = vtimezone]
  /\ changes' = [changes EXCEPT ![z] = NoTable]
  /\ endYear' = [endYear EXCEPT ![z] = 0]
  /\ UNCHANGED <<minimum, tt>>

Next ==
  \/ \E t \in Moments, zone \in {Utc, NoZone} : FromString(t, zone)
  \/ Drop
  \/ \E zone \in Names \cup {Utc} : SetTimezone(zone) \/ Float(zone) \/ Convert(zone)
  \/ \E z \in Names : \E v \in Vtimezones[z] : SetComponent(z, v)

Spec == Init /\ [][Next]_vars

-----------------------------------------------------------------------------
C == INSTANCE ZoneClock

\* The changes a VTIMEZONE tells of: its DTSTARTs, what recurs and what is
\* listed, every one in UTC; libical knows of none that is after MaxYear.
Tells(part) ==
  {Change(part, part.start - part.from)}
    \cup {Change(part, CASE r.kind = "utc" -> r.at
                         [] r.kind = "local" -> r.at - part.from
                         [] r.kind = "date" -> r.at + (part.start % Day) - part.from) :
            r \in {part.rdates[i] : i \in DOMAIN part.rdates}}
    \cup {Change(part, part.start + n * Year - part.from) :
            n \in {m \in 0..MaxYear : /\ part.yearly
                                      /\ YearOf(part.start + m * Year) <= MaxYear
                                      /\ part.start + m * Year - part.from
                                           <= part.until - (IF part.untilUtc THEN 0
                                                            ELSE part.from)}}

ClockOf(vtimezone) == UNION {Tells(vtimezone[i]) : i \in DOMAIN vtimezone}

Clock(z) == ClockOf(component[z])

\* The moments the time may stand for, those with its daylight setting if any is.
Meant ==
  IF tt.zone = Utc THEN {tt.at}
  ELSE LET shown == C!Showing(Clock(tt.zone), tt.at)
           same  == {u \in shown : C!DaylightAt(Clock(tt.zone), u) = tt.daylight}
       IN  IF ~C!Told(Clock(tt.zone), tt.at) THEN {}
           ELSE IF same # {} THEN same ELSE shown

\* A VTIMEZONE libical makes no mistake about: its DTSTARTs are among what recurs
\* or is listed, only a zone that is at UTC lists days, and no two of its changes
\* come at the same time.
Plain(vtimezone) ==
  /\ \A i \in DOMAIN vtimezone :
       LET part == vtimezone[i]
       IN  /\ part.yearly => part.start <= EndOf(part)
           /\ part.rdates # <<>> /\ ~part.yearly =>
                \E j \in DOMAIN part.rdates :
                  OfRdate(part, part.rdates[j]).at = part.start - part.from
           /\ \A j \in DOMAIN part.rdates :
                part.rdates[j].kind = "date" => part.from = 0 /\ part.rdates[j].at % Day = 0
  /\ \A lastYear \in 0..MaxYear :
       LET cs == Gathered(vtimezone, lastYear)
       IN  \A i, j \in DOMAIN cs : i < j => cs[i].at # cs[j].at

\* One whose clock is orderly as well, with no change that is in a later year by
\* the clock before it than by UTC or by the clock after it.
Regular(vtimezone) ==
  LET cs == ClockOf(vtimezone)
  IN  /\ Plain(vtimezone)
      /\ \A i \in DOMAIN vtimezone :
           vtimezone[i].yearly => YearOf(vtimezone[i].start) <= MaxYear
      /\ C!Orderly(cs)
      /\ \A c \in cs : \A o \in {0, c.to} : YearOf(c.at + c.from) <= YearOf(c.at + o)

AllPlain == \A z \in Names : \A v \in Vtimezones[z] : Plain(v)
AllRegular == \A z \in Names : \A v \in Vtimezones[z] : Regular(v)

\* A time that is converted from zone to zone, in any order and whatever the
\* zones were asked before, is still the same moment: the clock it shows is the
\* one of that moment in the new zone, and tells whether it is daylight time
\* (icaltimezone.c:777).  A time that never was, in the hour that is skipped,
\* is not constrained, nor is one so near to the first change of its zone that
\* its clock does not tell which side of it the time is on (ZoneClock!Told).
ConversionKeepsMoment ==
  [][NoTime \notin {tt, tt'} /\ tt.zone \notin {NoZone, tt'.zone} /\ Meant # {} /\ Convert(tt'.zone)
       => \E u \in Meant :
            IF tt'.zone = Utc THEN tt' = [at |-> u, daylight |-> FALSE, zone |-> Utc]
            ELSE /\ tt'.at = C!Wall(Clock(tt'.zone), u)
                 /\ tt'.daylight = C!DaylightAt(Clock(tt'.zone), u)]_vars

\* A table that was kept is the one its component has now: every change the
\* component tells of up to the year the table ends with is in it, once, in order
\* (icaltimezone.c:508, 1253).
TableIsComplete ==
  \A z \in Names : changes[z] # NoTable =>
    /\ Range(changes[z]) \subseteq Clock(z)
    /\ {c \in Clock(z) : YearOf(c.at + c.from) <= endYear[z]} \subseteq Range(changes[z])
    /\ \A i, j \in DOMAIN changes[z] : i < j => changes[z][i].at < changes[z][j].at

\* A change that is in a table twice answers as it does once, whatever the clock
\* shows (the comment on the sort: "We may have duplicates but I don't think it
\* will matter", icaltimezone.c:531).
DuplicatesDoNotMatter ==
  \A z \in Names : changes[z] # NoTable =>
    LET once == FoldLeft(LAMBDA cs, c : IF c \in Range(cs) THEN cs ELSE Append(cs, c), <<>>,
                         changes[z])
    IN  \A t \in Moments, daylight \in BOOLEAN :
          OfLocal(changes[z], t, daylight).offset = OfLocal(once, t, daylight).offset

\* A table is never made shorter: a zone that could answer for a year can still
\* do so after any other time was asked for (icaltimezone.c:503).
CoverageGrows ==
  [][\A z \in Names : component'[z] = component[z] /\ endYear'[z] < endYear[z]
       => \E v \in Vtimezones[z] : SetComponent(z, v)]_vars
=============================================================================
