------------------------------ MODULE ICSParse ------------------------------
(***************************************************************************)
(* RootViewController.parseICS one step at a time: what it owns on the way *)
(* and what it leaves behind at each of its ends.  ICSReader takes the     *)
(* whole method as one step, by the operators of ICSFile; here the loop    *)
(* itself runs, and EndsAsTold says that it ends as those operators tell.  *)
(***************************************************************************)
EXTENDS ICSFile, FiniteSets, FiniteSetsExt

VARIABLES
  file,   \* the file that is parsed
  pc,     \* where the method is
  turn,   \* VEVENTs read so far
  dict,   \* calendarDetails
  owned,  \* what parseICS has allocated and not released
  shown   \* inviteDetails: of the file before, of this one, or nil

stepVars == <<file, pc, turn, dict, owned, shown>>

Events == Content[file].events
Zone == FileZone(Content[file])

----------------------------------------------------------------------------

ParseInit ==
  /\ file \in Files
  /\ pc = "start"
  /\ turn = 0
  /\ dict = NoKeys
  /\ owned = {}
  /\ shown = "before"

\* The dictionary is allocated before the text is loaded.
LoadText ==
  /\ pc = "start"
  /\ owned' = {"dictionary"}
  /\ pc' = IF Content[file].readable THEN "text" ELSE "end"
  /\ UNCHANGED <<file, turn, dict, shown>>

ParseText ==
  /\ pc = "text"
  /\ IF Content[file].parses
       THEN /\ pc' = "events"
            /\ owned' = owned \cup {"root", "zone"}
       ELSE /\ pc' = "end"
            /\ UNCHANGED owned
  /\ UNCHANGED <<file, turn, dict, shown>>

\* The @catch block.
Catch ==
  /\ pc' = "end"
  /\ shown' = "none"
  /\ UNCHANGED <<file, turn, dict, owned>>

\* Mutant: the text is that of the first VEVENT.
ReadNextKeepsText ==
  /\ pc = "events" /\ turn < Len(Events)
  /\ ~EventRaises(Events[turn + 1], Zone)
  /\ turn' = turn + 1
  /\ dict' = [ReadEvent(dict, Events[turn + 1], Zone) EXCEPT
                !.when = IF dict.when = Nil THEN @ ELSE dict.when]
  /\ UNCHANGED <<file, pc, owned, shown>>

\* Mutant: one turn too many is skipped.
ReadNextSkips ==
  /\ pc = "events" /\ turn < Len(Events)
  /\ ~EventRaises(Events[turn + 1], Zone)
  /\ turn' = Len(Events)
  /\ dict' = ReadEvent(dict, Events[turn + 1], Zone)
  /\ UNCHANGED <<file, pc, owned, shown>>

ReadNext ==
  /\ pc = "events" /\ turn < Len(Events)
  /\ ~EventRaises(Events[turn + 1], Zone)
  /\ turn' = turn + 1
  /\ dict' = ReadEvent(dict, Events[turn + 1], Zone)
  /\ UNCHANGED <<file, pc, owned, shown>>

ReadRaises ==
  /\ pc = "events" /\ turn < Len(Events)
  /\ EventRaises(Events[turn + 1], Zone)
  /\ Catch

\* Mutant: the root component is not freed.
PublishLeaks ==
  /\ pc = "events" /\ turn = Len(Events)
  /\ pc' = "published"
  /\ shown' = "this"
  /\ UNCHANGED <<file, turn, dict, owned>>

\* After the last VEVENT: icalcomponent_free(root) and self.inviteDetails.
Publish ==
  /\ pc = "events" /\ turn = Len(Events)
  /\ pc' = "published"
  /\ owned' = owned \ {"root"}
  /\ shown' = "this"
  /\ UNCHANGED <<file, turn, dict>>

QueryRaises == NilDatesRaise /\ (dict.start = Nil \/ dict.end = Nil)

\* The calendar query and the release of the dictionary.
QueryCalendar ==
  /\ pc = "published"
  /\ IF QueryRaises THEN Catch
     ELSE /\ pc' = "end"
          /\ owned' = owned \ {"dictionary"}
          /\ UNCHANGED <<file, turn, dict, shown>>

ParseNext ==
  \/ LoadText \/ ParseText
  \/ ReadNext \/ ReadRaises
  \/ Publish \/ QueryCalendar

ParseSpec == ParseInit /\ [][ParseNext]_stepVars

----------------------------------------------------------------------------
(* Properties.                                                             *)

\* Every variable has its type.
ParseTypeOK ==
  /\ file \in Files
  /\ pc \in {"start", "text", "events", "published", "end"}
  /\ turn \in 0..Len(Events)
  /\ DOMAIN dict = DOMAIN NoKeys
  /\ owned \subseteq {"dictionary", "root", "zone"}
  /\ shown \in {"before", "this", "none"}

\* The method ends with the details of this file, with none or with those
\* of the file before exactly as ICSFile tells from the file alone, and the
\* dictionary it leaves is the one ICSFile computes.
EndsAsTold ==
  pc = "end" =>
    /\ shown = "before" <=> Unread(file)
    /\ shown = "none"   <=> Raises(file)
    /\ shown = "this"   <=> Parsed(file)
    /\ shown = "this" => dict = Details(file)

\* The text under "When" always describes the two dates that are compared
\* with the calendar and saved, even if they come from an earlier VEVENT.
WhenMatchesDates ==
  dict.when # Nil => /\ Nil \notin {dict.start, dict.end}
                     /\ dict.when = FormatWhen(dict.start, dict.end)

\* The last of the VEVENTs read so far that has a text under this key.
LastWith(key) ==
  LET having == {i \in 1..turn : Events[i][key] # Nil}
  IN  IF having = {} THEN Nil ELSE Events[Max(having)][key]

\* Of several VEVENTs, the last that has a property decides its key.
LastEventWins ==
  \A key \in {"summary", "location", "description"} :
    dict[key] = LastWith(key)

\* A file read to the end leaves nothing behind but the time zone; only an
\* exception may leave the component tree.
TreeIsFreed == pc = "end" /\ shown = "this" => owned = {"zone"}

----------------------------------------------------------------------------
(* What documents and comments say of it.                                  *)

\* UsingLibical.txt: what a routine with "new" in its name returns is given
\* back to the corresponding free routine.  Claimed of icaltimezone_new.
ZoneIsFreed == pc = "end" /\ shown = "this" => "zone" \notin owned

\* The help page: the details shown are those of the appointment.  Claimed
\* of files with several VEVENTs: all keys belong to one of them.
DetailsOfOneEvent ==
  pc = "end" /\ shown = "this" /\ Len(Events) > 0 =>
    \E i \in DOMAIN Events : dict = ReadEvent(NoKeys, Events[i], Zone)

\* UsingLibical.txt: is_utc distinguishes between times in UTC and a local
\* time zone.  Claimed of the dates that are shown and saved.
UtcIsHonoured ==
  pc = "end" /\ shown = "this" /\ Len(Events) = 1 =>
    LET event == Events[1]
    IN  HasDates(event) /\ event.start.utc => dict.start = event.start.clock

\* The comment in the code: equal times on one day mean an all-day event.
\* Claimed of events whose DTSTART and DTEND are dates.
AllDayIsShown ==
  pc = "end" /\ Len(Events) = 1 =>
    LET event == Events[1]
    IN  event.start = DateOnly /\ event.end = DateOnly /\ event.organizer = Nil
          => shown = "this" /\ dict.when # Nil
=============================================================================
