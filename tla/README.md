# ICS Reader: a verification project

The repository holds an iPhone application that opens calendar files
(`src/Classes`, `src/main.m`) and the library it parses them with
(`src/Support Libs/libical-0.44`). This directory holds TLA+ models of both,
configurations for the model checker TLC, and proofs checked by TLAPS.

    tlc -workers 2 -config ICSReader.cfg MCICSReader    a run
    tlapm ICSReaderProofs.tla                           the proofs of a module

RVC below is `src/Classes/RootViewController.m`, AD is
`ICS_ReaderAppDelegate.m`, DVC `DetailViewController.m` and HVC
`HelpViewController.m` of the same directory; names such as `pvl.c` without a
path are in `src/Support Libs/libical-0.44/src/libical/`; `icalfileset.c`,
`icaldirset.c`, `icalset.c` and `icalcluster.c` are in `libicalss` next to it.

## 1. The system

### 1.1 The application

| Part | State | Operations | Talks to |
|---|---|---|---|
| Application delegate (AD) | `launchURL`, the file opened last | launch, open a file, become active, resign, background, terminate | calls `refresh` on a launch with a file, posts `RefreshSent` on every activation |
| Root controller (RVC) | its own `launchURL`, `inviteDetails`, `exceptionFired`, the Save button, the table, the warning and the covering view `noICSView` | `viewDidLoad`, `refresh`, `parseICS`, `clearExceptionFlag`, `didRotate`, rows, `saveEvent`, completion of the event editor | libical, the event store, the pages it pushes, the event editor it presents |
| Detail and help page (DVC, HVC) | their HTML; the detail page registers for rotations | appear, disappear (and pop themselves) | the navigation controller, the notification center |
| Event store and editor (EventKit) | the calendar | query, edit, save | shared with every other application |

All of it runs on the main thread: a callback is atomic. What makes it hard is
the order of the callbacks. iOS activates, suspends and ends the process and
releases views when it likes; the user opens a second file while the editor of
the first one is up; the timer of an exception fires while another file is being
opened; a view is loaded again from inside a pop. Two objects hold a
`launchURL`, and the button, the rows, the warning and the covering message are
four renderings of one dictionary that are updated at different places.

What makes it correct: what is offered, shown, edited and saved is one and the
same file, one whose parse came to its end; the flag that empties the table
comes down again, and once; nothing is saved that the user did not confirm;
nothing a user does with an open file ends the application.

### 1.2 libical

| Part | State | Why it is hard |
|---|---|---|
| Linked list (`pvl.c`) | elements with `next`, `prior`, `d`; `head`, `tail`, `count`, `p` | every insertion and removal has cases for the ends; addresses are reused |
| Line parser (`icalparser.c`) | the stack `components`, `level`, `root_component`, `state`, a buffer of 80 bytes | inputs whose BEGINs and ENDs do not match; lines that fail half way; lines longer than the buffer |
| Component tree (`icalcomponent.c`) | children, properties, parent, one internal iterator each, the array of zones | removal under an iterator; who frees what |
| Properties, parameters, values | one value, a list of parameters | ownership of the value |
| Temporary memory (`icalmemory.c`) | a ring of 2500 buffers per thread | results die when the ring comes round |
| Recurrence rules (`icalrecur.c`) | the rule; an iterator with the last time, an index into each BY list, the days of the year or month | each increment carries into the next field; parts of a rule restrict or expand depending on its frequency; loops that end only when a day is found |
| Time zones (`icaltimezone.c`) | per zone the VTIMEZONE and a sorted table of changes, expanded up to a year | the table grows when it is asked for a later year; the hour that is shown twice and the one that is skipped; a search that starts near and walks |
| Times (`icaltime.c`, `caldate.c`) | none | ends of months, leap years, weeks |
| File stores (`icalfileset.c`, `icalset.c`) | a tree in memory, `changed`, an open and locked file | several processes, failed writes and crashes in the middle of a commit |
| Directory stores (`icaldirset.c`, `icalcluster.c`) | the cluster of one month in memory, its `changed` flag, the directory list and two iterators | a cluster is replaced under a visit, a removal or an addition of another month |
| Span lists, queries, messages, MIME, transport, vCalendar, bindings | see the components of `PROJECT.json` | mostly pure functions or unfinished |

The application uses the parser, the tree and the time zone of a file; the
parser and the tree are made of the linked list. A file store reads with the
parser and keeps a tree; a directory store writes each of its months through a
file store; a zone expands its changes with the recurrence iterator, and the
iterator counts with the calendar arithmetic. The stores are not used by the
application. What makes these parts correct: a save is all or nothing and one
writer's at a time, and who waits gets the file; a component is in the file of
its month and in no other, and a visit returns each once; the iterator returns
exactly the times of the rule, in order, and stops; the table of a zone has
every change up to its end, and a conversion there and back is the same moment.

The hazards of this code are listed line by line in `PROJECT.json`, each with
the properties that are about it, and with a note where none is, or where they
leave a part of it open.

## 2. Modules

    ICSFile          what parseICS makes of one file (operators)
      ICSReader      the application            implements CalendarPromise
        ICSReaderClaims    what its documents and messages say
        MCICSReader        files and calendar for TLC
      ICSParse       parseICS step by step
        MCICSParse         every small file for TLC
      ICSReaderProofs    of ICSReader and of ICSParse
    CalendarPromise  what the owner of the calendar may rely on
    Pvl              the linked list            implements ItemList
      MCPvl, PvlProofs
    ItemList         a sequence of items
    ICalParser       the line parser and the tree it builds
      MCICalParser, ICalParserProofs
    ICalComponent    calendars, iterators, zones, removal and merging
      MCICalComponent, ICalComponentProofs
    ICalFileSet      processes on one locked file  implements ComponentStore
      MCICalFileSet, ICalFileSetProofs
    ComponentStore   a file one writer at a time has, saved as a whole
    ICalDirSet       a directory with a file for each month
      MCICalDirSet, ICalDirSetProofs
    ICalTime         calendar arithmetic (operators)
      RecurrenceSet  the times of a rule, each judged by itself (operators)
        ICalRecur    the iterator over them
          MCICalRecur
    ICalRecurRule    a rule as text, read and written
      MCICalRecurRule
    ZoneClock        the clocks of a zone (operators)
      ICalTimezone     the tables of changes and conversion
        MCICalTimezone
    RulesAndZonesProofs  of ICalRecur, ICalRecurRule and ICalTimezone
    Induction        induction over numbers and sequences, recursive functions
                     of a sequence, loops that end, and operators on sequences:
                     lemmas that the modules ...Proofs use

**ICSFile.** A file is what the code reads of it: whether the text loads,
whether libical returns a component, the TZID of the first VTIMEZONE, and the
VEVENTs in order, each with its properties or `Nil`. `ParseDate`, `FormatWhen`,
`ReadEvent` and `DetailsAfter` translate RVC 112-127, 275-314 and the loop
192-390; `Unread`, `Raises` and `Parsed` say which end of `parseICS` the file
reaches. A property without a value, which the parser leaves behind when a line has an
unknown parameter, is the event's `blank`: its text is null and reading it raises. Time is counted in ticks with `DayLength` ticks to a day and a constant
offset for each zone.

**ICSReader.** One variable for each piece of state in the table above. `proc`
and `crashed` are the process as iOS sees it; `appURL` and `rootURL` are the two
copies of `launchURL`; `loaded`, `observing`, `overlay`, `table` and `warning`
are the root view; `orphaned` says that a freed detail page is still registered
for rotations; `details`, `saveButton`, `exceptionFired` and `timers` are what
`parseICS` leaves; `top`, `modal` and `alert` are the screen; `calendar` is the
event store. `inviteDetails` is represented by the file it came from, as its
content is a function of that file. Each handler is an action that contains
every call the handler makes: `Refresh` pops to the root, takes over the URL,
sets the overlay, runs the whole of `parseICS` (one of `RefreshNoFile`,
`RefreshUnread`, `RefreshRaises`, `RefreshParsed`) and reloads the table, and it
is part of `LaunchWithFile` and `DidBecomeActive`. `AfterSave` is the whole
completion handler, including the loading of a view that was released under the
editor, which happens because the handler touches `self.view` (RVC 561).

**CalendarPromise.** Four variables: the file that is open, the file that is
offered, the draft in the editor and the calendar. ICSReader implements it with
`opened <- appURL`, `offer <- details` while the button is there,
`draft <- modal`.

**ICSParse.** `parseICS` as a program with a counter: load the text, parse it,
one turn per VEVENT, publish, query the calendar, or the `@catch` block. It
keeps what the method owns (dictionary, root component, zone). `EndsAsTold`
says that the loop ends as the operators of ICSFile tell; ICSReader may
therefore use those operators.

**Pvl.** The heap is explicit: addresses, which of them are alive, and three
fields. A new element may get any address that is not alive, a freed one
included, so a pointer left behind can become valid again. Each routine is its
links (`LinkFront`, `LinkBack`, `LinkAfter`, `LinkBefore`, `Unlink`) and its
counting (`Adds`), as the routines of `pvl.c` call each other. `pvl_clear` takes
one step for each element. **ItemList** is the same without pointers: an item is
added somewhere or one is taken.

**ICalParser.** `icalparser_parse_string` from whole content lines on. A line is
what the parser tells apart: three kinds of BEGIN, an END (whose name is never
read), and a property line with what may be wrong with it. The component begun
at line i is component i. `Begin`, `EndInner`, `EndOuter` and `Property` are the
branches of `icalparser_add_line`; `EndOuter` contains `icalparser_clean` and
what `icalparser_parse` does with the component it is handed, as these run
before the next line is read. `FreeParser` is the end of the input and
`icalparser_free`. The tree an input should lead to is defined by counting
BEGINs and ENDs (`Depth`, `Open`, `Around`, `ClosedIn`), without a stack.

**ICalComponent.** `icalcomponent.c` without the properties: calendars with the
list of their children, the internal iterator (`cursor`) and the array of time
zones beside the list (`zones`, `sorted`). The operators `AddComponent`,
`RemoveComponent`, `FreeComponent`, `First`, `After`, `Sorted` and `FindZone`
are what the functions do to the heap; a function that calls others is their
composition, in the order of the code, which matters: `icalcomponent_remove_component`
frees the zone of a VTIMEZONE, and with it the component, unless its parent is
still set. The client calls what it likes, or runs one of the two loops of
UsingLibical 5.2.4 (taken from `test_iterators` of `regression.c`), or merges
two calendars. A turn of a loop is a step, `job` holds the local variables.

**ICalFileSet.** A set goes through `icalfileset_init` (the size, then open,
lock and read), changes its copy, commits and is freed. The commit is the
backup, one write per component, the mark taken off, and the truncation; a
process may die between any two, and in the middle of a write. The text of a
component is one or two blocks, so that a file can be torn; what is read from a
torn one is what `icalparser_parse` makes of its BEGINs and ENDs (`Parse`). The
lock is the kernel's: it is taken in `OpenLocked` by a writer only, because
`icalfileset_new_writer` opens `O_RDONLY` as a reader does, and it is given back
by `close`, because `icalfileset_unlock` calls `fcntl` with a command it does
not have. **ComponentStore** knows no blocks, locks or steps: who has the file
open has a view that starts from what is stored, a save stores it, and a save
that is cut short stores anything but is counted. ICalFileSet implements it with
`stored <- before` during a save and what the parser reads otherwise.

**ICalDirSet.** `set[d]` is the `icaldirset` with its cluster, the list of the
directory and both iterators. The operators `Load`, `NextCluster`,
`NextComponent`, `FirstComponent` are the functions of the same names; an action
is one function of the interface. Reading and writing one file is one step here,
as ICalFileSet models it. The order of the directory is any. `tour` records what
a visit has returned. `icaldirset_add_component` does not look whether the UID is in
the store already; the guard of `Add` leaves that to the caller, who never adds
a component that is there.

**ICalTime, RecurrenceSet, ICalRecur.** ICalTime is the arithmetic of
`icaltime.c` and `caldate.c`. RecurrenceSet says when a time belongs to a rule
as RFC 2445, the standard the library implements, says it: one predicate for a
time, no iteration. It is not translated from the code and not in the map.
ICalRecur is the iterator: `New` is `icalrecur_iterator_new` with its checks and
its setup, `Call` the beginning of `icalrecur_iterator_next`, and `Secondly` to
`Yearly` are one turn of its loop each, which ends with a time that is given out,
if no other part of the rule keeps it back, or with the end (`Pass`). The
operators `NextSecond` to `NextYear` and `ExpandYearDays` are the functions of
the code, with the indices into the BY lists.

**ICalRecurRule.** `icalrecurrencetype_from_string` takes one clause a step,
`icalrecurrencetype_as_string` is an operator. A BYDAY is one number, coded and
decoded as in the code, and the list is sorted by the insertion of
`sort_bydayrules`, which exchanges a day with each before it that comes later in
the week.

**ICalTimezone, ZoneClock.** The table of a zone is a sequence of changes,
`TableFor` is `icaltimezone_ensure_coverage` with the expansion of every part,
`OfLocal` and `OfUtc` are the two lookups: the binary search (`Nearby`), the walk
from there (`Step`), and for a local time the choice between the two changes of
the hour that is shown twice. The search and the walk are recursive functions of
the loops' variables. A component without a TZID is refused after the zone was reset,
which leaves it without any (`SetComponent` of `<<>>`): it is then a zone without
changes. One time is read, set
into zones and converted; each conversion raises the coverage of both zones.
**ZoneClock** says what a zone's clocks show without any table: from each change
to the next, one offset.

Definitions that are marked as mutants in the modules are not part of any
specification. Each is a plausible mistake in the code, with the property that
notices it named in `PROJECT.json`.

## 3. Runs

Runs that pass:

| Run | States | What it shows |
|---|---|---|
| `ICSReader` | 178 160 | with a file for each end of `parseICS`, two that can be saved, and an entry of another application: the safety properties of the application, that `exceptionFired` does not stay set, and CalendarPromise |
| `ICSParse` | 99 697 | every file of up to two VEVENTs over four values of each date and three organizers, and one VEVENT with a property that has no value |
| `Pvl` | 5 043 | four addresses, three items, count up to five |
| `ICalParser` | 1 195 742 | every input of up to six lines of nine kinds, one for each way through `icalparser_add_line` that leaves a different parser |
| `ICalComponent` | 434 530 | two calendars, two events, four zones (two of one TZID, one without a TZID), up to symmetry |
| `ICalFileSet` | 210 536 | two writers and a reader, a short and a long component, one failed write or crash anywhere: ComponentStore is implemented, and who waits for the lock gets it |
| `ICalDirSet` | 21 304 | four components of three months under any calls |
| `ICalRecur` | 3 273 | 164 cases of a rule and its start, of every frequency, across ends of months, years and a leap day |
| `ICalRecurRule` | 77 280 | every order of five out of ten clauses |
| `ICalTimezone` | 36 984 | two zones, one of which may have any of three VTIMEZONEs or be left without one; times around their changes |

The properties that deserve a word:

- `OneTimerPerFlag`: the code starts a timer only if the flag is down, and the
  timer takes it down whoever raised it. That these two stay in step across
  suspensions and repeated parses keeps an old timer from cutting short the
  message of a new exception.
- `RowsMatchDetails`, `SaveButtonMatchesDetails`: the copies of one fact agree whenever the user could
  act on them. Each is written by four or five handlers.
- `EditorOverRoot`: the editor is completed long after it was presented; the
  handler is right only because nothing can be pushed, closed or saved meanwhile.
- `SavedFilesParsed` and `ImplementsPromise` speak of the calendar, which
  outlives every crash.
- `Linked`: no element of the list leads to a freed one, and both directions
  agree; `ImplementsItemList` says that the items are those that were put in.
- `StackCoversLevel`: the parser counts levels and keeps a stack, and with too
  many ENDs the two differ; the END that leads back to level 0 relies on there
  being a component to return.
- `OneOwner`: `icalparser_clean` runs over a stack whose top was handed to a
  parent already; no component is listed twice, so none is freed twice.
- `NestingIsKept`, `PropertiesStay`: the tree is the one the lines say.
- `ArrayMatchesList` and `OneOwner` of ICalComponent: the array holds a second
  pointer to each VTIMEZONE, and freeing the array frees what it points to. That
  no component is freed twice, or under a list that still has it, rests on the
  order of three calls in a removal.
- `LoopRemovesAll`, `MergeLosesNothing`: a loop that removes the
  child its iterator is on does not skip any. The
  merge moves the children of one calendar to the other this way and frees the
  rest.
- `LookupFinds`: the binary search relies on a flag that additions must reset.
- `ImplementsStore`: locks, partial writes, truncation and crashes together are a
  file that is saved as a whole by one writer at a time, or a counted fault.
- `BackupIsWhole`: whatever a crash left of the file, the `.bak` is the file
  before, to the last block; it relies on the backup being made under the lock
  and before the first write.
- `CleanMeansSaved`: the mark is taken off between the last write and the
  truncation, and not at all when a write fails.
- `WaiterGetsLock`: only `close` gives the lock back; a path through a failed
  commit that left out the close would stop every other writer.
- `InItsMonth`: an addition of another month, a visit or a removal replaces the
  cluster under the others; the components must never be taken for another
  month's. The run has one set on the directory; `FiledByMonth` proves it for any
  number.
- `UnmarkedIsSaved`: `icalcluster_is_changed` can be relied on by one who asks
  whether a commit is needed. (The flag may be set for nothing: a commit clones
  the cluster and never clears it.)
- `VisitMissesNothing`: a visit over the clusters, with two iterators and a flag
  for the first component, returns all of them once.
- `NextIsNext`: the time given out is the least one of RecurrenceSet that is
  greater than the one before; so nothing is left out, doubled or out of order.
  `EndIsEnd` says that the iterator ends when the rule does, `SearchEnds` that
  the loops over years that find no day are left.
- `OrderDoesNotMatter`, `TextIsKept`: BYDAY is sorted by a WKST that may come
  after it, and in text it always comes before it; signed positions survive the
  coding into one number. `TextIsKept` does not say that the list is the same:
  the exchanges of the sort are not stable, and a rule with two positions of one
  weekday (the first and the last Friday) whose WKST came after them has them the
  other way round when it is read again. What holds, and is proved, is that no day
  is lost or doubled and that each place of the list has the weekday it had.
- `ConversionKeepsMoment`, `TableIsComplete`: the answer for a time does not
  depend on what the zones were asked before, and in the hour that is shown twice
  the daylight setting decides. Nothing is asked of a time in the hour that is
  skipped, nor of one so near the first change of its zone that it may be before
  it or after it (`Told`): no clock of the zone says what moment these are.

Runs that end in a violation, each a place where the code departs from what a
comment, a message or a document says (quoted in `PROJECT.json`):

| Run | The code |
|---|---|
| `DetailsAreShown` | within five seconds of an exception a good file is parsed and offered but its table is empty, and nothing reloads it (RVC 678) |
| `LockingWorks` | a writer takes the size of the file before it waits for the lock; one that saw an empty file starts with nothing and overwrites what the one before it saved (`icalfileset.c` 108) |

### Further configurations

The configurations below are not among the runs of `PROJECT.json`. Those called
`Claims` hold properties that a comment, a message or a document states and the
code departs from; `tlc -continue` shows the violation of each:

| Configuration | Module | Property | The code |
|---|---|---|---|
| `ICSReaderClaims` | MCICSReader | `DroppedWasEdited` | saving closes the file that was opened meanwhile (RVC 554) |
| | | `NeverCrashes` | a detail page that was left is still told of rotations (DVC 57) |
| | | `OfferedIsOpened` | a file that cannot be read leaves the file before on offer (RVC 164) |
| | | `RowsNeverRaise` | a tap on a row whose text is missing raises (RVC 915, DVC 74) |
| | | `SavedMeansSaved` | "Calendar entry saved!" without a look at the result (RVC 550) |
| | | `WarningIsRecreated` | a view loaded again has lost its warning (RVC 961) |
| `ICSParseClaims` | MCICSParse | `UtcIsHonoured` | a UTC time is read in the zone of the file (RVC 119) |
| | | `ZoneIsFreed` | the zone of each parse leaks (RVC 171) |
| | | `DetailsOfOneEvent` | the details mix several events (RVC 192) |
| | | `AllDayIsShown` | an all-day event ends in the error message (RVC 287) |
| `PvlClaims` | MCPvl | `CountIsLength` | `pvl_insert_ordered` counts twice (`pvl.c` 250) |
| | | `FindNextContinues` | `pvl_find_next` starts again at the head (`pvl.c` 471) |
| `ICalParserClaims` | MCICalParser | `UnknownIsMarked` | the error goes to a component that is lost (`icalparser.c` 745) |
| | | `ValuesOnly` | an unknown parameter leaves a property without a value (935) |
| | | `InputIsClosed` | an unclosed component is lost at the end of the input (658) |
| `ICalComponentClaims` | MCICalComponent | `ConflictsAreResolved` | a merge compares a VTIMEZONE with the wrong component and drops it although the rules differ (`icalcomponent.c` 2198) |
| `ICalDirSetClaims` | MCICalDirSet | `GaugeIsHonoured` | the first component of each further cluster is not put to the gauge (`icaldirset.c` 773) |
| `ICalRecurClaims` | MCICalRecur | those of the run | rules whose times are left out or run without an end: BYMONTH with DTSTART in its second month, BYDAY and BYMONTHDAY that meet on a first of the month, WEEKLY whose days lie on both sides of WKST, a sixth Monday; BYHOUR=17,9, and an hourly rule whose DTSTART is in the second of its hours, for which `PassMovesOn` fails |
| `ICalTimezoneClaims` | MCICalTimezone | `DuplicatesDoNotMatter` | a change that is listed and recurs as well is in the table twice; in the overlap the one before it is then itself (`icaltimezone.c` 531) |
| | | `ConversionKeepsMoment` | an RDATE that is a DATE is not moved to UTC; the end year is taken from a local time that may be in the next year |

`PvlMore` and `ICalParserMore` hold further properties of the same instances as
the runs, without a violation: `AllReached` and `KeepsOrder` (the list has no
leaks and no circles; an ordered insertion into a sorted list leaves it sorted),
`OneOwner` of the parser (no component in two places, so none freed twice) and
`NoFalseAlarm`. These four, and `LoopsAdvance`, `CursorOnChild` and `ZonesFirst`
of the component tree, are proved (section 4).

### Bounds

- Files: one for each way through `parseICS` plus a second complete one, whose
  time overlaps the first, so that a mix-up of two files is visible. The
  properties compare the file in one place with the file in another; two are
  enough to tell them apart, and three actors hold one (delegate, details,
  editor).
- `Copies = {1}`: a file is saved at most once at a time; another application
  may remove the entry, after which it can be saved again.
- `Foreign`: one entry of another application, inside the time of both files, so
  that a conflict comes and goes.
- VEVENTs: two, since the loop carries nothing from one turn to the next but the
  dictionary. Dates: absent, a DATE, a UTC time and a floating time on the same
  or another day, in two zones.
- Pvl: with four elements a removal can hit the first, the last, two different
  middle elements, and the only one. `MaxCount` bounds the count, which an
  ordered insertion moves away from the length.
- ICalParser: six lines are enough for three components inside each other and
  closed, for two ENDs too many and two components after them, and for an XROOT
  with two children, one of them a zone. Six of the fifteen kinds of lines are
  left out of the run (`Distinct` in MCICalParser): four that leave the tree and
  the parser as one that is in it, but for `state`, on which no branch depends, and
  two of the three lines with two things wrong, whose errors follow one another
  as in the third.
- ICalComponent: the shortest lists on which a removal in a loop can skip, rewind
  or stay behind have two children of one kind; a binary search needs three
  entries to go both ways; two zones of one TZID make the merge meet a conflict.
  A calendar's children have no children of their own: every operator concerns a
  parent and its children only. The run identifies states up to exchanging the
  calendars, the events, and the two zones of one TZID, whose rules decide
  nothing in the code; all its properties are safety properties.

- ICalFileSet: two writers and one reader are enough for a writer that waits, one
  that saves and one that reads meanwhile. A component of one block and one of
  two, so that a shorter content is written over a longer one and cut within a
  component. `MaxFaults = 1`: with two, a save that was cut short is followed by
  one that makes a backup of the torn file, or that has made none because `cp`
  failed, and is cut short as well, which breaks `BackupIsWhole`. `Faults` leaves
  out `"cp"`, which alone breaks nothing, and `"truncate"`, before which the mark is
  taken off already: it breaks `CleanMeansSaved`. `First` is not empty and
  `MayEmpty` is false, since an empty file is the case that `LockingWorks` shows.
- ICalDirSet: two components of one month and one of each of two others: a
  removal of the last and of one of two, a visit over three clusters. One set;
  with two, each overwrites the months of the other, as nothing is locked between
  reading and writing, and `UnmarkedIsSaved` speaks of one that is alone.
- ICalRecur: the rules with what they start at, each once with a COUNT of five and
  once with an UNTIL. The intervals are 1, 2, 3 and one longer than the unit
  above (45 seconds, 61 minutes, 25 hours, 13 months). `LastYear` is the year at
  which the code gives up; `MaxYears` ends a search for days that would go on
  for ever, and `SearchEnds` says that it is not reached.
- ICalRecurRule: FREQ and four of nine others, in every order: two WKST, two
  BYDAY, a malformed clause, so that each pair that may disturb the other comes
  in both orders with the third of its kind in between. The longer BYDAY has two
  positions of one weekday, a negative one among them, and is not in order.
- ICalTimezone: an hour is the unit, a day has four, a year twelve days, so that
  the overlap, the gap and New Year are a few units apart. `Extra = 1` and
  `MaxYear = 5` make the coverage grow several times and reach its end, in a
  process started in year 1 or 3. `Moments` are the hours around the changes in
  four years; `Near` stops a time that has wandered off them. `UsualIsRegular`
  in MCICalTimezone has TLC evaluate the hypotheses of the zones' theorems: the
  VTIMEZONEs of the run meet them, those of `ICalTimezoneClaims` do not.

### Fairness

`FlagIsCleared` needs strong fairness of `ClearExceptionFlag`, which `FairSpec` adds in the run `ICSReader`. The timer is
scheduled on the main run loop and fires when the loop runs at or after its
time; the loop stands still while the process is suspended, so weak fairness
would not do. `FlagIsCleared` is stated of executions in which the application
is awake again and again. No fairness is assumed of the user, of iOS or of other
applications.

`WaiterGetsLock` needs three kinds: weak fairness of the steps inside a commit
and a free (a call that was begun ends, unless the process dies), strong fairness
of the free of an opened set (a writer that never frees its set keeps the lock;
that is left to the caller), and strong fairness of `OpenLocked`, as the lock is
free again and again but not all the time: the kernel wakes every waiter of
`F_SETLKW` some day. Nothing is assumed of the reader, of faults or of crashes.

Deadlock is checked for ICSReader, Pvl, ICalComponent, ICalFileSet, ICalDirSet and
ICalTimezone. ICSParse, ICalParser, ICalRecur and ICalRecurRule are programs that
end, so their configurations turn the check off.

## 4. Proofs

Each theorem holds for every value of the constants: any files, contents and
zones, any number of lines, elements, processes, months and components.

| Module | Theorems |
|---|---|
| `ICSReaderProofs` | `TypeCorrect`, `OneTimer`, `ScreenIsConsistent` (with `CoverHidesNothing` and `ActiveFollowsDelegate`, which no run checks), `RowsAreOfTheFile`, `EditorIsOverRoot`, `OnlyParsedFilesAreSaved`, `PromiseIsKept` (the refinement of CalendarPromise); of ICSParse `TextIsOfDates`, `LastEventDecides`, `OnlyTheZoneStays`, `ParseEndsAsTold` |
| `PvlProofs` | `TypeCorrect`, `ListIsLinked`, `CountAndClear`, `NothingIsLost`, `ListIsImplemented` (the refinement of ItemList), `OrderIsKept` |
| `ICalParserProofs` | `TypesHold`, `LevelIsCovered`, `ParserEndsClear`, `ComponentsHaveOneOwner`, `ResultIsSpared`, `NestingHolds`, `PropertiesHold`, `NoAlarmIsFalse` |
| `ICalComponentProofs` | `TypesHold`, `ChildrenHaveOneOwner`, `ArrayIsOfTheList`, `IteratorStays`, `ZonesLead`, `LookupsFind`, `LoopsRemoveAll`, `MergesLoseNothing`, `LoopsGoForward` |
| `ICalFileSetProofs` | `TypesHold`, `WritersExcludeEachOther`, `OnlyTheHolderWrites`, `ParseOfImage`, `UnmarkedIsSaved`, `BackupIsKept`, `StoreIsImplemented` (the refinement of ComponentStore) |
| `ICalDirSetProofs` | `FiledByMonth`, `AloneUnmarkedIsSaved`, `NoVisitMisses` |
| `RulesAndZonesProofs` | of ICalRecurRule `DaysSorted`, `LastClauseCounts`, `TextKeepsRule`; of ICalTimezone `CoverageStays`, `TablesAreComplete`, `ConversionKeeps`; of ICalRecur `PassesMoveOn` |

Every safety property that a run checks is the subject of one of them, but for
`NextIsNext`, `EndIsEnd` and `SearchEnds` of ICalRecur.

### What they assume

The assumptions named with the constants: `Nil` is no file, the foreign entries
are finite and not ours, `Null` is no element and no component, elements and
months are finite, the data are integers, a writer is not a reader, the weekdays of a
rule's clauses are seven (`TextsAreRules`), times, offsets and years are whole
numbers, a year and a day are not empty. Beyond these
some theorems about stores, zones and recurrences name the circumstances in which they
hold:

- `NeverEmptied` (`UnmarkedIsSaved`, `StoreIsImplemented`): no set saves an empty
  list, and the file has something at the start. A writer that saw an empty file
  reads nothing after it was given the lock and overwrites what was saved
  meanwhile: the run `LockingWorks`. The run `ICalFileSet` has `MayEmpty = FALSE`
  for this reason.
- `CutsWork` (`UnmarkedIsSaved`): `ftruncate` does not fail. The mark is taken off
  before it is called (`icalfileset.c` 418, 421); what was behind a shorter content
  then stays in the file of a set without a mark.
- `SafeOnce` (`BackupIsKept`): saves are safe ones, and at most one thing goes
  wrong. The second fault may follow a backup of the file the first one tore.
- `Alone` (`AloneUnmarkedIsSaved`, `NoVisitMisses`): no other set is on the
  directory, since a directory store locks nothing between reading and writing.
- `AllPlain` (`TablesAreComplete`): the DTSTART of a part that has an RDATE or an
  RRULE is one of its RDATEs or recurrences, since `icaltimezone_expand_vtimezone`
  uses it only where there is neither; RDATEs that are DATEs occur only in parts
  that come from offset 0, since such a change is not moved to UTC; and no two
  changes of a VTIMEZONE are at one time, since the table would have both.
- `AllRegular` (`ConversionKeeps`): besides, no RRULE begins after the last year
  the code expands to, changes come one at a time and each from the offset the one
  before it left, and none is in a later year by the clock before it than by
  UTC or by the clock after it. Without the last, a table that ends with the year
  asked may lack a change of that year: the violation of `ConversionKeepsMoment` in
  `ICalTimezoneClaims`.
- `Advances` (`PassesMoveOn`): the rule is one of seconds, minutes, hours, days or
  months, it is in range (`InRange`: an interval that is not 0, values that are
  seconds, minutes, hours, months; a DTSTART on a day there is), the lists that are
  walked by an index ascend, and DTSTART has the first value of the list of the
  rule's frequency and of BYMONTH, since the indices begin at the first; a BYMONTHDAY
  that is walked has days counted from the beginning of the month. The code checks
  none of this: BYHOUR=17,9 takes the iterator back and an hourly rule with
  BYHOUR=7,9 and DTSTART at 9 stays where it is (`ICalRecurClaims`), as does a daily
  rule with an interval of 0. Nothing is asked of the count, of the end, of the
  interval's size and of the lists that only filter.

`Regular` speaks of a VTIMEZONE, never of what the code has done with it: every
table, lookup and sequence of calls is covered. Zones that have one change
forward and one back a year, months apart and not at New Year, are regular.

The runs give the constants values of this kind, and section 3 says what happens
with others.

### Induction

`Induction.tla` derives from the least-number principle what the other modules
need: induction over numbers and over sequences, stated of the *set* of those
for which the claim holds, as a claim cannot be handed to the provers as an
operator; that a recursive function along a sequence is determined by its first
value and its step (`PrefixRecursion`); and from that what the library's folds,
flattening, insertion and removal do to a sequence (`FoldRecursion`). A lemma about
a fold over an input always compares an input with the same input and one element
more. A loop of the code is a tail-recursive function of its variables (`Loop`): if a
measure of them goes down with every turn (`Descends`), then what every turn
keeps, and every way out turns into a result, holds of the loop's result
(`TailValues`).

### The arguments

**Application.** None of the properties is inductive alone: an
empty table follows from the missing file, the open file from the open editor,
the open editor from the Save button, the button from a parse that came to its
end. `IInv` is their conjunction with three facts no property states: a process
that does not exist owns nothing (`DeadIsFresh`), what is offered or in the
editor was parsed (`OfferedParsed`), and a view that was ever loaded listens for
`RefreshSent` (`Registered`, which makes `DidBecomeActive` refresh). It needs
the finiteness of the calendar too, for the number in the warning. `Refresh`,
the loading of the view and `AfterSave` are each a lemma, since several actions
contain them; there is one step per action. The refinement uses `IInv` to know
that the editor's file is not `Nil` and that a refresh offers the open file, the
one offered before, or nothing.

**`parseICS`.** `WhenMatchesDates` is inductive by itself, as the
lemma `ReadEventKeepsText` holds for whatever was in the dictionary before;
`TreeIsFreed` needs what the method owns at each point (`Owned`). `LastWith(key)`
is the greatest index with a text: a turn of the loop either adds an index
greater than all before or none. `EndsAsTold` is what entitles ICSReader to take
the whole parse as one operator: `DetailsAfter` of ICSFile is a recursive
function, and the dictionary of the loop is its value at the events read so far
(`Told`).

**List.** One lemma for each operator that changes links says
that `Linked` and `EndsMatch` survive it; `AdditionKeeps` and `RemovalKeeps` add
the counter and the length. `ClearFollowsHead` says that `pvl_clear` always
removes the head, which is why reading `next` before the removal is safe. These
invariants still allow a circle beside the list. `CInv` excludes it: there is a
sequence with every living element once, along which both pointers lead
(`Chain`). Each routine inserts into this sequence or removes from it, so every
element is reached, and the walk from the head yields the items in the order of
the sequence, which is the refinement of ItemList.

**Parser.** An END takes one off the level and one off the
stack, unless the stack is empty; then the level is at most 0, by
`StackCoversLevel`, and stays so. The END that leads to level 0 clears both.
Whatever the order of BEGINs and ENDs, the heap is *sound* (`OInv`): lists of
children and parent pointers agree, and the components on the stack, the one
closed last and the root are different ones without a parent. Two trees below
different tops are then disjoint, which is all that `ResultSurvives` needs. When
no END comes before its BEGIN, `NestInv` says more: the level is the depth of
the lines, the stack lists the components they leave open, and each component
has the children and values of the lines inside it. `DepthOf`, `OpenOf`,
`AroundOf` and the like are the operators of ICalParser for any sequence of lines;
the lemmas say how each changes with one more line of each kind.

**Component tree.** `Sane` is what the library promises of its heap: a
calendar's list and the parents of the children agree; its iterator is on a
child or past the end; the array has the VTIMEZONEs with a TZID, once each; and
while its flag is up the array is in order. Additions, removals, frees, sortings
and lookups each keep it, one lemma for each operator, and the calls of the
client are their compositions. `Running` is the loop's own invariant, for each of
the kinds of loops: what the iterator has passed contains nothing that the loop is to
remove, and in the second half of a merge every zone that is left has its
namesake in the other calendar. `SearchFinds` proves the binary search: while
the borders are apart, the TZID is between them if it is anywhere.

**File store.** `IInv` says for each writer that it has the lock
exactly when its set is open, whatever step its calls are at: opening takes the
lock and closing or dying gives it back, and no other step of any process
changes either side. That only a save changes the file follows, as every step
that writes is one of a writer in its save. `DInv` adds the content: the written
part of a set's components, as text, is how the file starts. `ParseOfImage`
says that the parser reads back what was written; with it, `AInv` (a set without a
mark has what the file has) and `BInv` (until the first fault the file is whole
between saves, and from the backup on the copy is the file before) are
inductive. In the refinement a save is one step of ComponentStore, the one
that cuts the file, and everything else a save does is a stutter; a crash inside
it is a counted fault.

**Directory store.** Every operation is a composition of
operators from a set to a set (`Load`, `NextCluster`, `NextComponent`); for each
there is a lemma that it takes a good set (typed, its iterators within their
lists, its components of the month of its cluster) to a good set, and a second
that it leaves the cluster as it is or takes over a file, unmarked. Each action
then is a use of these. `NoVisitMisses` needs what a visit has ahead (`Ahead`: the rest
of the cluster and the files after it in the listing) and behind (`Behind`: the
files before it and the cluster up to the iterator). What it has returned is
behind, so nothing comes twice; what it should return is ahead or was returned,
so nothing is left when it ends. That months are not mixed (`FiledByMonth`) is
why nothing ahead is also behind. A commit in the middle of the visit changes
only the file of the cluster, which is no longer read.

**Rules as text.** `SortedSorts` proves the sort by its exchanges: each leaves the
same days (`Permuted`), and where those of the i-th day have come to when they are
past the first m is `Inserting`: the days before i are in order, and none of the
first m comes later than the one at i. A rule is then one whose days are in order
whatever clause came last (`RuleInv`): a WKST sorts them by itself, a BYDAY by the
WKST known so far. `OrderInv` adds what each name has: the value of the last of
the clauses that were taken (`SaidLast`). For `TextKeepsRule`, `Reads` is the fold
over a text without the fold, so that a text is read part by part (`ReadsConcat`);
each part of `AsText` copies the values of the names it is written for
(`TextCopies`), a name that is left out has the value of a clear rule, and a
position survives its coding (`DayIsEncoded`). The days that were read again are a
rearrangement of those that were written, and two lists of the same days, both in
the order of the week, have the same weekday at each place (`SameWeekdays`: were
one earlier at i, its first i days would have to be among i - 1 of the other).

**Time zones.** `ZoneInv` says that a table that is kept is the expansion of the
zone's component up to the year it ends with. A conversion either leaves a zone
alone or gives it such a table with a later end (`TableForIs`), and a component that
is replaced takes the table with it; `CoverageStays` is in that. An insertion puts a
change after all that come no later (`PlaceIsThere`), so the table has what the
parts were expanded to, by its times (`ExpandedIs`). Of a plain VTIMEZONE, that is what
the component tells of (`HadIsTold`, `ToldIsHad`), which is `TablesAreComplete`.
`ConversionKeeps` goes on from there. The binary search stays in the table
(`NearbyInTable`), and the walk, from wherever it begins, ends at the last change
that has come (`StepIsLast`), so the search decides nothing but the time it takes.
Looking a time in UTC up gives the offset of the change that rules it
(`UtcIsTold`). A local time is shown by the change found or, in the hour that is
shown twice, by the one before it as well (`ShownAfter`), and the choice between
the two is the one with the time's setting of daylight, if one has it
(`LocalFits`). Last, a table need not be whole: one that ends with the year asked, or
with the last year, has every change that can have been passed (`PassedInYear`,
`TargetTells`, `SourceTells`).

**Recurrences.** `OnPath` says of an iterator that it stands, in each list that is
walked, at the place whose value its time has, and that the lists ascend. The
increments are proved from the date down: a step of the month goes to a later month,
in the list of BYMONTH if there is one (`IncMonthMoves`), a day at a time goes to a later
day or over the end of the month (`OneDayMoves`, `IncDayMoves`), and an hour,
a minute or a second carries what goes over into the next field (`IncHourMoves`, ...).
A step through a list goes to a greater value, or back to the first at its end
(`NextValueMoves`); then the next field must have moved, by the carry or by the next
level (`NextSecondMoves`, `NextMinuteMoves`, `NextHourMoves`). So the fields of
the new time agree with the old ones down to one that is greater, which is `Before`
and hence `Earlier`. What remains is that an iterator begins on the path, whichever way
`New` sets it up: defaults from DTSTART where there is no list, the first month
whose weekday is not past (`DefaultLists`, `FreshIsOnPath`, `BuiltIsOnPath`).

### Model-checked only, and why

- Liveness (`FlagIsCleared`, `WaiterGetsLock`): beyond the prover.
- ICalRecur (`NextIsNext`, `EndIsEnd`, `SearchEnds`): the times the iterator gives
  are compared with a definition that judges every time by itself. A proof would need
  the calendar arithmetic for every year (that the day of the year and the date are
  inverse, after leap years are counted by division; that the weekdays of a month
  are those of the days counted from a fixed one), and that `NextIsNext` holds at
  all depends on the rule: `ICalRecurClaims` has rules for which it does not, so
  the theorem would first need a definition of the rules for which the code is
  right. The run takes rules one by one instead. `SearchEnds` is about
  `MaxYears`, a bound of the model.
- `PassMovesOn` for WEEKLY and YEARLY rules: a week is a matter of the same
  arithmetic, and so are the days that a year's lists expand to.
- The two runs that end in a violation, and the configurations called `Claims`:
  there is nothing to prove.

## 5. What the models leave out

- The banner, the heights and texts of cells, the HTML of the pages.
- `showIntro` and `isIntro`: the flag is set and never read, and iOS never hands
  over a nil URL.
- The three observers the root view registers again on each load: a second
  `refresh` in one notification changes nothing, so they are taken as one.
- The contents of a file do not change while the application holds its URL.
- The editor: the user may change the draft; the model saves the entry as it was
  filled in, for the properties are about which file it came from. An event
  without dates gets the editor's own.
- Daylight saving: a zone has one offset.
- A freed detail page may still answer to a rotation (the memory has not been
  reused); that outcome is `DidRotate`, the other is `RotateFreed`.
- The root view is loaded at the first layout after the launch or when
  `refresh` touches it (AD 53-54), whichever is first.
- Whether EventKit raises when a predicate gets a nil date is a constant of
  ICSFile, true in the runs, which is what its documentation asks of callers.
- Running out of memory in `pvl.c` and the parser: the code dereferences the null
  pointer.
- In ICalComponent: clones, external iterators, the properties (only the kind, the
  TZID and the rules, which do not change while a component is in a calendar),
  TZIDs with a '/' in front (for which a merge makes no comparison, with the same
  result) and calendars that have a TZID themselves. Without one
  `icalcomponent_handle_conflicting_vtimezones` is never reached.
- In ICalParser: blank lines (nothing happens), a component called XROOT in the
  file, and how a content line is read and split.

- In ICalFileSet: gauges and fetching by UID (reads only), the table of open sets
  in `icalset.c`, sets of one process on one file (POSIX locks do not tell them
  apart), a reader that reads in the middle of a save, block by block: it sees
  the file of one moment, which may be torn. A commit moves the iterator of the
  set; nothing in the model uses it.
- In ICalDirSet: the serial number, which nothing reads, and UIDs, which are made
  up where they are missing. Behaviours of the code that are in the model and may
  surprise: what was added to a month is lost when another month is loaded
  before a commit; after the last component of a month is removed the next
  cluster is in memory, so the empty month is never written; a commit after a
  complete visit has no cluster to write; freeing a set does not write; an empty
  file of a month ends a visit early.
- In ICalRecur: BYWEEKNO together with BYMONTH, `icalrecur_expand_recurrence`,
  lists as long as their arrays. The iterator is modelled for rules that start at
  one of their own times, as the code counts on it. Behaviours that are in the
  model: the indices of the BY lists start at 0 whatever DTSTART is;
  BYYEARDAY=-1 is taken as December 30 and February 29 of a common year as March
  1; week numbers are not those of ISO 8601; several BYDAYs of a YEARLY rule
  come unsorted. The rules of the run are those for which the RFC and the code
  agree; `ICalRecurClaims` has rules for which they do not.
- In ICalRecurRule: a day with a sign and no number ("-SU"), which the code turns into a
  negative number, and lists as long as their arrays.
- In ICalTimezone: the array of built-in zones and the files they are read from,
  TZNAME, LOCATION and X-LIC-LOCATION, copies of zones (which share the
  component and the table with the original). RRULEs are yearly.
- The ring of temporary buffers (`icalmemory.c`): a caller that keeps a result
  for 2500 further ones is a matter of every caller, of which there are hundreds.
- `icalparser_get_line` and the splitting of a line: conversions of text;
  ICalParser starts from whole lines.
- Generated code (`icalderived*.c`, `ical.h`, the bindings) is more than half of
  the repository's lines and has no state; the vCalendar converter, MIME, the
  transport protocol and Berkeley DB are separate programs or not built. The part
  of the lines that the modules translate is small for that reason.

`PROJECT.json` lists the components that are not modelled, with the reason.

## 6. Plan

Done: the application (ICSReader with CalendarPromise, ICSParse), the list, the
parser, the tree, both stores, recurrences, rules as text and zones; proofs of
every safety property that the runs check of all but the recurrences.

Left, in this order:

1. `ICalFileSet` below `ICalDirSet`: two directory stores that read and write a
   month in steps, to show exactly which updates are lost.
2. `LineReader`: `icalparser_get_line` against a definition of unfolding, for
   every small text and buffer size.
3. `ICalComponent`: clones (which turn the order of the zones round), external
   iterators, and a TZID that changes while its VTIMEZONE is in a calendar.
4. `SpanList`: the free list is the complement of the busy spans, on Pvl's
   ordered insertion.
5. `ICalMemory`: the ring, and the growing buffer (text and its end always fit).

Proofs after that: the calendar arithmetic that the times of `ICalRecur` rest on,
and with it weeks and years, and the rules for which its iterator is right.
