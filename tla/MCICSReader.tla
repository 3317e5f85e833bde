---------------------------- MODULE MCICSReader ----------------------------
(***************************************************************************)
(* Instances of ICSReader for TLC: a calendar of two-hour ticks and a few  *)
(* files, one for each way through parseICS.                               *)
(***************************************************************************)
EXTENDS ICSReaderClaims

CONSTANTS good, late, bare, broken, unread

MCOffset == [GMT |-> 0, Berlin |-> 1]

Event(summary, description, start, end) ==
  [summary |-> summary, location |-> Nil, description |-> description,
   start |-> DateTime(start, TRUE), end |-> DateTime(end, TRUE),
   organizer |-> Nil, blank |-> FALSE]

File(events) == [readable |-> TRUE, parses |-> TRUE, tzid |-> Nil,
                 events |-> events]

Contents ==
  [good   |-> File(<<Event("s", "d", 6, 8)>>),
   late   |-> File(<<Event("s", "d", 7, 9)>>),
   \* no SUMMARY and no DESCRIPTION
   bare   |-> File(<<Event(Nil, Nil, 30, 31)>>),
   \* an ORGANIZER without a colon
   broken |-> File(<<[Event("s", "d", 6, 8) EXCEPT
                       !.organizer = [address |-> "a", colon |-> FALSE,
                                      cn |-> Nil]]>>),
   unread |-> [File(<<>>) EXCEPT !.readable = FALSE]]

MCContent ==
  [f \in Files |-> CASE f = good   -> Contents.good
                     [] f = late   -> Contents.late
                     [] f = bare   -> Contents.bare
                     [] f = broken -> Contents.broken
                     [] f = unread -> Contents.unread]

\* An entry of another application in the time of the files good and late.
MCForeign == {[start |-> 7, end |-> 8, file |-> Nil, copy |-> 0]}
=============================================================================
