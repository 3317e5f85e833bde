----------------------------- MODULE ICSReader -----------------------------
(***************************************************************************)
(* The application: ICS_ReaderAppDelegate, RootViewController and the two  *)
(* view controllers it pushes, driven by the callbacks of iOS.             *)
(*                                                                         *)
(* Everything runs on the main thread, so a callback is one step.  What    *)
(* interleaves is the order of the callbacks: launches with and without a  *)
(* file, switches to other applications and back, files opened meanwhile,  *)
(* the five second timer set after an exception, rotation, memory          *)
(* warnings, the user's taps, and the event editor that is completed long  *)
(* after it was filled in.                                                 *)
(*                                                                         *)
(* inviteDetails is represented by the file it was parsed from: the        *)
(* dictionary itself is Details(f) of module ICSFile.                      *)
(***************************************************************************)
EXTENDS ICSFile, FiniteSets

CONSTANTS
  Foreign,  \* calendar entries other applications may hold
  Copies    \* bound: how often one file can be saved is at most |Copies|

ASSUME ForeignIsFinite == IsFiniteSet(Foreign)
ASSUME ForeignIsNotOurs == \A e \in Foreign : e.file = Nil

VARIABLES
  proc,           \* the process, as iOS runs it
  crashed,        \* how the last process ended: "no", "raised", "freed"
  appURL,         \* ICS_ReaderAppDelegate.launchURL
  rootURL,        \* RootViewController.launchURL
  loaded,         \* is the root view in memory?
  observing,      \* has viewDidLoad registered for "RefreshSent"?
  orphaned,       \* is a freed detail page registered for rotations?
  overlay,        \* noICSView: behind the table, or in front with a text
  table,          \* the sections and contents of the last reloadData
  details,        \* inviteDetails
  saveButton,     \* is there a right bar button?
  warning,        \* conflicts named by warningLabel, 0 for an empty label
  exceptionFired, \* the flag of that name
  timers,         \* pending clearExceptionFlag calls
  top,            \* the view controller on top of the navigation stack
  modal,          \* file whose details the event editor was filled with
  alert,          \* is "Calendar entry saved!" on the screen?
  calendar        \* the entries of the event store

appVars == <<crashed, appURL>>
viewVars == <<loaded, observing, orphaned, overlay, table, warning>>
parseVars == <<details, saveButton, exceptionFired, timers>>
screenVars == <<top, modal, alert>>
vars == <<proc, appVars, rootURL, viewVars, parseVars, screenVars, calendar>>

FileOrNil == Files \cup {Nil}

\* An exception nobody caught, or a message to an object that is gone.
Ends == {"no", "raised", "freed"}

----------------------------------------------------------------------------
(* The event store.                                                        *)

Entry(f, copy) == [start |-> Details(f).start, end |-> Details(f).end,
                   file |-> f, copy |-> copy]
Entries == {Entry(f, c) : f \in Files, c \in Copies} \cup Foreign

\* The entries predicateForEventsWithStartDate:endDate:calendars: matches.
Matches(f) ==
  {e \in calendar : /\ Nil \notin {e.start, e.end}
                    /\ Nil \notin {Details(f).start, Details(f).end}
                    /\ e.start < Details(f).end
                    /\ Details(f).start < e.end}
Conflicts(f) == Cardinality(Matches(f))

----------------------------------------------------------------------------
(* Parts of handlers.                                                      *)

Awake  == proc \in {"active", "inactive"}
Usable == proc = "active" /\ modal = Nil /\ ~alert

\* reloadData asks numberOfSectionsInTableView and the cells.
Rows(url, fired, shown) ==
  [sections |-> IF url # Nil /\ ~fired THEN 4 ELSE 0, contents |-> shown]

\* The view as the nib makes it: an empty warningLabel.
LabelNow == IF loaded THEN warning ELSE 0

\* viewDidLoad, except for the help page it pushes when there is no file.
ViewDidLoad ==
  /\ loaded' = TRUE
  /\ observing' = TRUE
  /\ rootURL' = appURL
  /\ warning' = 0
  /\ overlay' = IF appURL = Nil THEN "no file" ELSE "behind"
  /\ table' = Rows(appURL, exceptionFired, details)

\* The four ways through parseICS.
RefreshNoFile(url) ==
  /\ url = Nil
  /\ overlay' = "no file"
  /\ top' = "help"
  /\ warning' = LabelNow
  /\ UNCHANGED parseVars

\* Mutant: the dictionary is published before the text is read.
RefreshUnreadPublishes(url) ==
  /\ url # Nil
  /\ Unread(url)
  /\ overlay' = "behind"
  /\ top' = "root"
  /\ warning' = LabelNow
  /\ details' = url
  /\ saveButton' = TRUE
  /\ UNCHANGED <<exceptionFired, timers>>

RefreshUnread(url) ==
  /\ url # Nil
  /\ Unread(url)
  /\ overlay' = "behind"
  /\ top' = "root"
  /\ warning' = LabelNow
  /\ UNCHANGED parseVars

\* The @catch block, apart from the timer.
CatchException ==
  /\ exceptionFired' = TRUE
  /\ overlay' = "problem"
  /\ top' = "root"
  /\ warning' = 0
  /\ saveButton' = FALSE
  /\ details' = Nil

\* Mutant: every exception starts a timer.
RefreshRaisesRestarts(url) ==
  url # Nil /\ Raises(url) /\ CatchException /\ timers' = timers + 1

\* Mutant: no exception starts a timer.
RefreshRaisesUntimed(url) ==
  url # Nil /\ Raises(url) /\ CatchException /\ timers' = timers

RefreshRaises(url) ==
  /\ url # Nil
  /\ Raises(url)
  /\ CatchException
  /\ timers' = IF exceptionFired THEN timers ELSE timers + 1

RefreshParsed(url) ==
  /\ url # Nil
  /\ Parsed(url)
  /\ overlay' = "behind"
  /\ top' = "root"
  /\ warning' = Conflicts(url)
  /\ saveButton' = TRUE
  /\ details' = url
  /\ UNCHANGED <<exceptionFired, timers>>

RefreshEnds(url) == \/ RefreshNoFile(url)
                    \/ RefreshUnread(url)
                    \/ RefreshRaises(url)
                    \/ RefreshParsed(url)

\* A detail page that is popped is freed, and never removed itself from the
\* notification center.
LeavePage == orphaned' = (orphaned \/ top = "detail")

\* refresh: back to the root, take over the delegate's file, parse it and
\* reload the table.  It loads the view when it is not in memory.
Refresh(url) ==
  /\ rootURL' = url
  /\ loaded' = TRUE
  /\ observing' = TRUE
  /\ LeavePage
  /\ RefreshEnds(url)
  /\ table' = Rows(url, exceptionFired', details')

\* A process that does not exist has no memory.
NoProcess ==
  /\ appURL' = Nil /\ rootURL' = Nil
  /\ loaded' = FALSE /\ observing' = FALSE /\ orphaned' = FALSE
  /\ overlay' = "behind" /\ warning' = 0
  /\ table' = Rows(Nil, FALSE, Nil)
  /\ details' = Nil /\ saveButton' = FALSE
  /\ exceptionFired' = FALSE /\ timers' = 0
  /\ top' = "root" /\ modal' = Nil /\ alert' = FALSE

Crash(how) ==
  /\ proc' = "dead"
  /\ crashed' = how
  /\ NoProcess
  /\ UNCHANGED calendar

----------------------------------------------------------------------------

Init ==
  /\ proc = "dead" /\ crashed = "no"
  /\ appURL = Nil /\ rootURL = Nil
  /\ loaded = FALSE /\ observing = FALSE /\ orphaned = FALSE
  /\ overlay = "behind" /\ warning = 0
  /\ table = Rows(Nil, FALSE, Nil)
  /\ details = Nil /\ saveButton = FALSE
  /\ exceptionFired = FALSE /\ timers = 0
  /\ top = "root" /\ modal = Nil /\ alert = FALSE
  /\ calendar \in SUBSET Foreign

(* Life cycle of the process.                                              *)

\* didFinishLaunchingWithOptions without a URL.
Launch ==
  /\ proc = "dead"
  /\ proc' = "inactive"
  /\ crashed' = "no"
  /\ UNCHANGED <<appURL, rootURL, viewVars, parseVars, screenVars, calendar>>

\* didFinishLaunchingWithOptions with a URL calls refresh itself.
LaunchWithFile(f) ==
  /\ proc = "dead"
  /\ proc' = "inactive"
  /\ crashed' = "no"
  /\ appURL' = f
  /\ Refresh(f)
  /\ UNCHANGED <<modal, alert, calendar>>

\* applicationDidBecomeActive posts "RefreshSent"; nobody hears it before
\* the first viewDidLoad.
DidBecomeActive ==
  /\ proc = "inactive"
  /\ proc' = "active"
  /\ IF observing THEN Refresh(appURL)
     ELSE UNCHANGED <<rootURL, viewVars, parseVars, top>>
  /\ UNCHANGED <<appVars, modal, alert, calendar>>

\* A call, a system alert, a tapped link or the home button.  The first
\* layout belongs to the launch: it comes before the process leaves the
\* foreground.
WillResignActive ==
  /\ proc = "active"
  /\ observing
  /\ proc' = "inactive"
  /\ UNCHANGED <<appVars, rootURL, viewVars, parseVars, screenVars, calendar>>

DidEnterBackground ==
  /\ proc = "inactive"
  /\ observing
  /\ proc' = "suspended"
  /\ UNCHANGED <<appVars, rootURL, viewVars, parseVars, screenVars, calendar>>

WillEnterForeground ==
  /\ proc = "suspended"
  /\ proc' = "inactive"
  /\ UNCHANGED <<appVars, rootURL, viewVars, parseVars, screenVars, calendar>>

\* Another application opens a file with this one: it is brought to the
\* foreground, handed the URL, and becomes active after that.
HandleOpenURL(f) ==
  /\ proc = "suspended"
  /\ proc' = "inactive"
  /\ appURL' = f
  /\ UNCHANGED <<crashed, rootURL, viewVars, parseVars, screenVars, calendar>>

\* iOS ends the process.
Kill ==
  /\ proc # "dead"
  /\ proc' = "dead"
  /\ NoProcess
  /\ UNCHANGED <<crashed, calendar>>

\* The root view comes on the screen, at the first layout of the window or
\* when the editor over it goes away, and is loaded.
LoadView ==
  /\ Awake
  /\ ~loaded
  /\ top = "root" /\ modal = Nil
  /\ ViewDidLoad
  /\ top' = IF appURL = Nil THEN "help" ELSE "root"
  /\ UNCHANGED <<proc, appVars, orphaned, parseVars, modal, alert, calendar>>

\* The root view is released while another controller covers it, pushed or
\* modal.
DidReceiveMemoryWarning ==
  /\ proc # "dead"
  /\ loaded
  /\ top # "root" \/ modal # Nil
  /\ loaded' = FALSE
  /\ overlay' = "behind" /\ warning' = 0
  /\ table' = Rows(Nil, FALSE, Nil)
  /\ UNCHANGED <<proc, appVars, rootURL, observing, orphaned, parseVars,
                 screenVars, calendar>>

\* Mutant: a timer that is not there fires.
ClearExceptionFlagUntimed ==
  /\ Awake
  /\ timers' = timers - 1
  /\ exceptionFired' = FALSE
  /\ UNCHANGED <<proc, appVars, rootURL, viewVars, details, saveButton,
                 screenVars, calendar>>

\* clearExceptionFlag; the run loop stands still while suspended.
ClearExceptionFlag ==
  /\ Awake
  /\ timers > 0
  /\ timers' = timers - 1
  /\ exceptionFired' = FALSE
  /\ UNCHANGED <<proc, appVars, rootURL, viewVars, details, saveButton,
                 screenVars, calendar>>

\* didRotate and willAnimateRotationToInterfaceOrientation.
DidRotate ==
  /\ proc = "active"
  /\ loaded
  /\ table' = Rows(rootURL, exceptionFired, details)
  /\ UNCHANGED <<proc, appVars, rootURL, loaded, observing, orphaned, overlay,
                 warning, parseVars, screenVars, calendar>>

\* The rotation is also posted to the detail pages that were freed.  What
\* is left of one may still look like an object (then it is DidRotate), or
\* the message to it ends the process.
RotateFreed ==
  /\ proc = "active"
  /\ orphaned
  /\ Crash("freed")

----------------------------------------------------------------------------
(* Navigation.                                                             *)

\* showHelp from the left bar button.
TapHelp ==
  /\ Usable
  /\ loaded
  /\ top = "root"
  /\ top' = "help"
  /\ UNCHANGED <<proc, appVars, rootURL, viewVars, parseVars, modal, alert,
                 calendar>>

\* Back to a root view in memory.
GoBack ==
  /\ Usable
  /\ loaded
  /\ top # "root"
  /\ top' = "root"
  /\ LeavePage
  /\ UNCHANGED <<proc, appVars, rootURL, loaded, observing, overlay, table,
                 warning, parseVars, modal, alert, calendar>>

\* Back to a root view that was released: it is loaded again, and without a
\* file pushes the help page from inside the pop; the pop of the page that
\* disappears (viewWillDisappear) may take it off again.
GoBackReloading ==
  /\ Usable
  /\ ~loaded
  /\ top # "root"
  /\ ViewDidLoad
  /\ LeavePage
  /\ top' \in IF appURL = Nil THEN {"root", "help"} ELSE {"root"}
  /\ UNCHANGED <<proc, appVars, parseVars, modal, alert, calendar>>

\* The key didSelectRowAtIndexPath appends to a string, or hands to the
\* detail page that appends it.
KeyOfRow(section) == CASE section = 0 -> "summary"
                       [] section = 3 -> "description"

RowIsNil(section) ==
  IF details = Nil THEN TRUE ELSE Details(details)[KeyOfRow(section)] = Nil

CanTapRow == Usable /\ loaded /\ top = "root" /\ overlay = "behind"
             /\ table.sections = 4

TapRow(section) ==
  /\ CanTapRow
  /\ ~RowIsNil(section)
  /\ top' = "detail"
  /\ UNCHANGED <<proc, appVars, rootURL, viewVars, parseVars, modal, alert,
                 calendar>>

\* Appending nil to a string raises, and nobody catches it.
TapNilRow(section) ==
  /\ CanTapRow
  /\ RowIsNil(section)
  /\ Crash("raised")

----------------------------------------------------------------------------
(* Saving.                                                                 *)

\* Mutant: the editor is filled in from the file of the delegate.
SaveEventOfDelegate ==
  /\ Usable
  /\ loaded
  /\ top = "root"
  /\ saveButton
  /\ modal' = appURL
  /\ UNCHANGED <<proc, appVars, rootURL, viewVars, parseVars, top, alert,
                 calendar>>

\* saveEvent and addToCalendar: the editor is filled in from the details.
SaveEvent ==
  /\ Usable
  /\ loaded
  /\ top = "root"
  /\ saveButton
  /\ modal' = details
  /\ UNCHANGED <<proc, appVars, rootURL, viewVars, parseVars, top, alert,
                 calendar>>

\* didCompleteWithAction: EKEventEditViewActionCanceled.
CancelEdit ==
  /\ proc = "active"
  /\ modal # Nil
  /\ modal' = Nil
  /\ UNCHANGED <<proc, appVars, rootURL, viewVars, parseVars, top, alert,
                 calendar>>

\* didCompleteWithAction: EKEventEditViewActionSaved, whatever saveEvent
\* reports in its error argument.  Bringing noICSView to the front loads a
\* view that was released under the editor, which pushes the help page.
CoverAfterSave ==
  /\ alert' = TRUE
  /\ warning' = 0
  /\ overlay' = "no file"
  /\ loaded' = TRUE
  /\ top' = IF loaded THEN top ELSE "help"
  /\ UNCHANGED <<proc, crashed, observing, orphaned, exceptionFired, timers>>

\* Mutant: the table is not reloaded.
AfterSaveNoReload ==
  /\ appURL' = Nil /\ rootURL' = Nil
  /\ details' = Nil
  /\ saveButton' = FALSE
  /\ modal' = Nil
  /\ CoverAfterSave
  /\ UNCHANGED table

\* Mutant: the Save button stays.
AfterSaveKeepsButton ==
  /\ appURL' = Nil /\ rootURL' = Nil
  /\ details' = Nil
  /\ table' = Rows(Nil, exceptionFired, Nil)
  /\ modal' = Nil
  /\ CoverAfterSave
  /\ UNCHANGED saveButton

\* Mutant: the editor stays.
AfterSaveKeepsEditor ==
  /\ appURL' = Nil /\ rootURL' = Nil
  /\ details' = Nil
  /\ table' = Rows(Nil, exceptionFired, Nil)
  /\ saveButton' = FALSE
  /\ CoverAfterSave
  /\ UNCHANGED modal

AfterSave ==
  /\ appURL' = Nil /\ rootURL' = Nil
  /\ details' = Nil
  /\ table' = Rows(Nil, exceptionFired, Nil)
  /\ saveButton' = FALSE
  /\ modal' = Nil
  /\ CoverAfterSave

SaveSucceeds(copy) ==
  /\ proc = "active"
  /\ modal # Nil
  /\ Entry(modal, copy) \notin calendar
  /\ calendar' = calendar \cup {Entry(modal, copy)}
  /\ AfterSave

SaveFails ==
  /\ proc = "active"
  /\ modal # Nil
  /\ AfterSave
  /\ UNCHANGED calendar

DismissAlert ==
  /\ proc = "active"
  /\ alert
  /\ alert' = FALSE
  /\ UNCHANGED <<proc, appVars, rootURL, viewVars, parseVars, top, modal,
                 calendar>>

\* Another application, or a synchronisation, changes the event store.
OtherAppAdds(e) ==
  /\ e \notin calendar
  /\ calendar' = calendar \cup {e}
  /\ UNCHANGED <<proc, appVars, rootURL, viewVars, parseVars, screenVars>>

OtherAppRemoves(e) ==
  /\ e \in calendar
  /\ calendar' = calendar \ {e}
  /\ UNCHANGED <<proc, appVars, rootURL, viewVars, parseVars, screenVars>>

----------------------------------------------------------------------------

LifeCycle ==
  \/ Launch
  \/ \E f \in Files : LaunchWithFile(f)
  \/ DidBecomeActive
  \/ WillResignActive
  \/ DidEnterBackground
  \/ WillEnterForeground
  \/ \E f \in Files : HandleOpenURL(f)
  \/ Kill
  \/ LoadView
  \/ DidReceiveMemoryWarning
  \/ ClearExceptionFlag
  \/ DidRotate
  \/ RotateFreed

User ==
  \/ TapHelp
  \/ GoBack
  \/ GoBackReloading
  \/ \E section \in {0, 3} : TapRow(section)
  \/ \E section \in {0, 3} : TapNilRow(section)
  \/ SaveEvent
  \/ CancelEdit
  \/ \E c \in Copies : SaveSucceeds(c)
  \/ SaveFails
  \/ DismissAlert

OtherApps ==
  \/ \E e \in Foreign : OtherAppAdds(e)
  \/ \E e \in calendar : OtherAppRemoves(e)

Next == LifeCycle \/ User \/ OtherApps

Spec == Init /\ [][Next]_vars

\* A timer that is due fires when the run loop next runs: strong fairness,
\* for the loop stops whenever the process is suspended.  Nothing else is
\* promised: the user and iOS need not do anything.
FairSpec == Spec /\ SF_vars(ClearExceptionFlag)

----------------------------------------------------------------------------
(* Properties.                                                             *)

\* Every variable has its type.
TypeOK ==
  /\ proc \in {"dead", "inactive", "active", "suspended"}
  /\ crashed \in Ends
  /\ appURL \in FileOrNil
  /\ rootURL \in FileOrNil
  /\ loaded \in BOOLEAN
  /\ observing \in BOOLEAN
  /\ orphaned \in BOOLEAN
  /\ overlay \in {"behind", "no file", "problem"}
  /\ table \in [sections : {0, 4}, contents : FileOrNil]
  /\ details \in FileOrNil
  /\ saveButton \in BOOLEAN
  /\ warning \in Nat
  /\ exceptionFired \in BOOLEAN
  /\ timers \in Nat
  /\ top \in {"root", "help", "detail"}
  /\ modal \in FileOrNil
  /\ alert \in BOOLEAN
  /\ calendar \in SUBSET Entries

\* While exceptionFired is set exactly one clearExceptionFlag is pending,
\* and none otherwise: however often a broken file is parsed again, the
\* flag is neither left set for good nor cleared by an older timer.
OneTimerPerFlag == timers = IF exceptionFired THEN 1 ELSE 0

\* The Save button is there exactly when there are details to save, across
\* all ends of parseICS, reloads of the view and completed edits.
SaveButtonMatchesDetails == saveButton <=> details # Nil

\* The rows on the screen, filled in at the last reloadData, are those of
\* the present inviteDetails, and belong to a file that is still open.
RowsMatchDetails ==
  table.sections = 4 => table.contents = details /\ rootURL # Nil

\* A message in front of the table never covers details that the Save
\* button would still save.
CoverHidesNothing == overlay # "behind" => details = Nil /\ ~saveButton

\* While the user works with a view in memory, the two copies of launchURL
\* agree; with a stale copy in the delegate the next "RefreshSent" would
\* offer a saved file again.
ActiveFollowsDelegate == proc = "active" /\ loaded => rootURL = appURL

\* Without an open file there is nothing to show and nothing to save.
NothingWithoutFile == appURL = Nil => details = Nil /\ table.sections = 0

\* The event editor always sits on the root controller, with a file open:
\* its completion handler, whenever it is called, changes the controller it
\* was presented from and never saves on top of an earlier alert.
EditorOverRoot ==
  modal # Nil => top = "root" /\ appURL # Nil /\ ~alert

\* Whatever entry of ours is in the calendar, its file was read to the end:
\* no path through exceptions, reloads and late completions of the editor
\* saves an event that parseICS gave up on.
SavedFilesParsed == \A e \in calendar : e.file # Nil => Parsed(e.file)

\* In an application that runs again and again the flag that keeps the
\* table empty does not stay set.
FlagIsCleared == []<>Awake => (exceptionFired ~> ~exceptionFired)

\* What the calendar sees of the application: the module CalendarPromise.
Promise == INSTANCE CalendarPromise WITH
             opened <- appURL,
             offer  <- IF saveButton THEN details ELSE Nil,
             draft  <- modal,
             cal    <- calendar
ImplementsPromise == Promise!Spec

=============================================================================
