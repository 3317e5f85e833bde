-------------------------- MODULE ICSReaderClaims --------------------------
(***************************************************************************)
(* What the documents, comments and messages of the repository say of the  *)
(* application.  Some of it holds only while every file that is opened can *)
(* be read to the end ("calm" runs); each of the others has a run that     *)
(* shows how the code departs from it.                                     *)
(***************************************************************************)
EXTENDS ICSReader

\* Help page: pressing the file parses it, shows the details and gives the
\* option of saving.  What is offered for saving is the file opened last.
OfferedIsOpened == proc = "active" /\ saveButton => details = appURL

\* Help page: the details of a file that was parsed are on the screen.
DetailsAreShown ==
  proc = "active" /\ loaded /\ details # Nil /\ ~exceptionFired =>
    table.sections = 4 /\ overlay = "behind"

\* Help page: the option of saving is given for every file that is opened.
\* A file is dropped by the delegate only when that file was saved.
DroppedWasEdited ==
  [][appURL # Nil /\ appURL' = Nil /\ proc' # "dead" => modal = appURL]_vars

\* README: the application can parse and render calendar files.  No tap on
\* the rows of a file that was parsed raises an exception nobody catches.
RowsNeverRaise == crashed # "raised"

\* The same sentence: nothing a user does with an open file ends the
\* application.
NeverCrashes == crashed = "no"

\* The alert says "Calendar entry saved!": it comes up only in a step that
\* put an entry into the calendar.
SavedMeansSaved == [][~alert /\ alert' => calendar' # calendar]_vars

\* viewDidUnload: what is released can be recreated in viewDidLoad or on
\* demand.  Claimed of the warning: a view that is loaded again while
\* details are offered warns of their conflicts.
WarningIsRecreated ==
  [][~loaded /\ loaded' /\ saveButton' => warning' = Conflicts(details')]_vars
=============================================================================
