------------------------------ MODULE ICSFile ------------------------------
(***************************************************************************)
(* What RootViewController.parseICS makes of one calendar file: which of   *)
(* its three ends it reaches (nothing read, an exception, a dictionary of  *)
(* details) and what the dictionary holds.                                 *)
(*                                                                         *)
(* A file is abstracted to what the code reads of it: whether the text can *)
(* be loaded, whether libical returns a component, the TZID of the first   *)
(* VTIMEZONE, and the VEVENTs below the root in the order                  *)
(* icalcomponent_get_next_component yields them.  Time is counted in       *)
(* ticks: DayLength ticks make a day, and Offset[z] is how far the clock   *)
(* of zone z is ahead of GMT, as NSDateFormatter applies it to that name.  *)
(***************************************************************************)
EXTENDS Integers, Sequences

CONSTANTS
  Nil,          \* Objective-C nil: no object, no property, no date
  Files,        \* the files that can be handed to the application
  Content,      \* what each file holds
  Offset,       \* zone name -> ticks its clock is ahead of GMT
  DeviceZone,   \* the zone of the device, in which dates are displayed
  DayLength,    \* ticks in a day
  NilDatesRaise \* does EventKit raise on a predicate with a nil date?

ASSUME NilIsNoFile == Nil \notin Files
ASSUME ContentOfFiles == DOMAIN Content = Files
ASSUME EventsAreLists ==
  \A f \in Files : /\ Len(Content[f].events) \in Nat
                   /\ DOMAIN Content[f].events = 1..Len(Content[f].events)
ASSUME NilDatesRaiseIsBoolean == NilDatesRaise \in BOOLEAN
ASSUME DayLengthAssumption == DayLength \in Nat \ {0}

(***************************************************************************)
(* The string of a DTSTART or DTEND.  A date-time has a clock reading and  *)
(* may carry the UTC mark; a DATE value has no clock.                      *)
(***************************************************************************)
DateTime(clock, utc) == [clock |-> clock, utc |-> utc]
DateOnly == [clock |-> Nil, utc |-> FALSE]

(***************************************************************************)
(* parseDate: "Z" and "T" are deleted from the string, and what is left is *)
(* read in zone tzid; a string without a time does not match the format    *)
(* and reads as nil.                                                       *)
(***************************************************************************)
ParseDate(t, tzid) == IF t.clock = Nil THEN Nil ELSE t.clock - Offset[tzid]

(***************************************************************************)
(* The two formatters show an instant in the device's zone: df the day, tf *)
(* the time of day.  Formatting nil gives nil.                             *)
(***************************************************************************)
LocalDay(instant)  == (instant + Offset[DeviceZone]) \div DayLength
LocalTime(instant) == (instant + Offset[DeviceZone]) % DayLength

(***************************************************************************)
(* The text under "When".  A nil start makes every message of the last     *)
(* branch a message to nil, so the text is nil; a nil end is appended to a *)
(* string there, which raises.                                             *)
(***************************************************************************)
WhenRaises(start, end) == start # Nil /\ end = Nil

FormatWhen(start, end) ==
  IF start = Nil \/ end = Nil THEN Nil
  ELSE LET sameDay  == LocalDay(start) = LocalDay(end)
           sameTime == LocalTime(start) = LocalTime(end)
       IN  IF sameDay
             THEN IF sameTime
                    THEN [kind |-> "all day", day |-> LocalDay(start)]
                    ELSE [kind  |-> "one day", day |-> LocalDay(start),
                          times |-> <<LocalTime(start), LocalTime(end)>>]
             ELSE IF sameTime
                    THEN [kind |-> "days",
                          days |-> <<LocalDay(start), LocalDay(end)>>]
                    ELSE [kind  |-> "until",
                          days  |-> <<LocalDay(start), LocalDay(end)>>,
                          times |-> <<LocalTime(start), LocalTime(end)>>]

----------------------------------------------------------------------------

\* The dictionary calendarDetails before the first VEVENT: no key is set.
NoKeys == [summary |-> Nil, location |-> Nil, description |-> Nil,
           start |-> Nil, end |-> Nil, when |-> Nil,
           organizer |-> Nil, organizerCN |-> Nil]

\* The zone every date of the file is read in: "GMT" unless the first
\* VTIMEZONE of the file names another.
FileZone(file) == IF file.tzid = Nil THEN "GMT" ELSE file.tzid

HasDates(event) == event.start # Nil /\ event.end # Nil

\* An ORGANIZER is [address, colon, cn]: colon says whether its value holds
\* the ":" the code splits it at; asking for the part after a missing one
\* raises.  So does making a string of a property without a value, for
\* icalvalue_as_ical_string gives NULL: event.blank says that one of those
\* the loop reads (DTSTART and DTEND only when both are there) has none.
EventRaises(event, tzid) ==
  \/ event.blank
  \/ /\ HasDates(event)
     /\ WhenRaises(ParseDate(event.start, tzid), ParseDate(event.end, tzid))
  \/ event.organizer # Nil /\ ~event.organizer.colon

\* A property that is present replaces the key, one that is absent leaves
\* what an earlier VEVENT put there.
Replace(old, new) == IF new = Nil THEN old ELSE new

(***************************************************************************)
(* One turn of the loop over the VEVENTs.  Only the text under "When" is   *)
(* removed when the event has no pair of dates; a date that reads as nil   *)
(* removes its key, for setValue:forKey: with nil does.                    *)
(***************************************************************************)
ReadEvent(details, event, tzid) ==
  [summary     |-> Replace(details.summary, event.summary),
   location    |-> Replace(details.location, event.location),
   description |-> Replace(details.description, event.description),
   start       |-> IF HasDates(event) THEN ParseDate(event.start, tzid)
                                      ELSE details.start,
   end         |-> IF HasDates(event) THEN ParseDate(event.end, tzid)
                                      ELSE details.end,
   when        |-> IF HasDates(event)
                     THEN FormatWhen(ParseDate(event.start, tzid),
                                     ParseDate(event.end, tzid))
                     ELSE Nil,
   organizer   |-> IF event.organizer = Nil THEN details.organizer
                                            ELSE event.organizer.address,
   organizerCN |-> IF event.organizer = Nil THEN details.organizerCN
                   ELSE Replace(details.organizerCN, event.organizer.cn)]

\* The dictionary after the first n VEVENTs of the file.
DetailsAfter(file) ==
  LET after[n \in 0..Len(file.events)] ==
        IF n = 0 THEN NoKeys
        ELSE ReadEvent(after[n - 1], file.events[n], FileZone(file))
  IN  after

----------------------------------------------------------------------------

\* What inviteDetails holds when it was set from file f.
Details(f) == DetailsAfter(Content[f])[Len(Content[f].events)]

\* Early ends of parseICS: the text could not be loaded, or libical
\* returned no component.
Unread(f) == ~Content[f].readable \/ ~Content[f].parses

\* The @catch block is entered: a VEVENT raised, or the calendar query did
\* because a date is missing.
Raises(f) ==
  /\ ~Unread(f)
  /\ \/ \E i \in DOMAIN Content[f].events :
          EventRaises(Content[f].events[i], FileZone(Content[f]))
     \/ /\ NilDatesRaise
        /\ Details(f).start = Nil \/ Details(f).end = Nil

Parsed(f) == ~Unread(f) /\ ~Raises(f)

=============================================================================
