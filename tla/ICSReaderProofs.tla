-------------------------- MODULE ICSReaderProofs --------------------------
(***************************************************************************)
(* The safety properties of ICSReader, for every set of files, of entries  *)
(* of other applications and of copies, and for every content of the       *)
(* files; and the refinement of CalendarPromise.                           *)
(*                                                                         *)
(* The properties lean on one another (an empty screen on the missing      *)
(* file, the open editor on the offered details, the offered details on a  *)
(* parse that came to its end), so they are proved together: IInv is their *)
(* conjunction with the few facts below that no single property states.    *)
(***************************************************************************)
EXTENDS ICSReader, ICSParse, Induction, FiniteSetTheorems, TLAPS

\* A process that is not there owns nothing.
DeadIsFresh ==
  proc = "dead" =>
    /\ details = Nil /\ modal = Nil /\ ~alert
    /\ ~loaded /\ ~exceptionFired

\* What is offered or in the editor came out of a parse that did not raise.
OfferedParsed == /\ details # Nil => Parsed(details)
                 /\ modal # Nil => Parsed(modal)

\* The root view registers for "RefreshSent" when it is loaded, and before
\* anything can be edited.
Registered == loaded \/ modal # Nil => observing

\* The properties of the screen, which Refresh and viewDidLoad set up.
ScreenInv ==
  /\ SaveButtonMatchesDetails
  /\ RowsMatchDetails
  /\ CoverHidesNothing
  /\ ActiveFollowsDelegate
  /\ NothingWithoutFile

IInv ==
  /\ TypeOK
  /\ IsFiniteSet(calendar)
  /\ OneTimerPerFlag
  /\ ScreenInv
  /\ EditorOverRoot
  /\ SavedFilesParsed
  /\ OfferedParsed
  /\ DeadIsFresh
  /\ Registered

----------------------------------------------------------------------------

\* What is counted for warningLabel is a number.
LEMMA ConflictsInNat ==
  ASSUME IsFiniteSet(calendar), NEW f
  PROVE  Conflicts(f) \in Nat
<1>1. Matches(f) \subseteq calendar
  BY DEF Matches
<1>2. IsFiniteSet(Matches(f))
  BY <1>1, FS_Subset
<1> QED
  BY <1>2, FS_CardinalityType DEF Conflicts

\* Every reloadData leaves a table of its type.
LEMMA RowsType ==
  ASSUME NEW url, NEW fired \in BOOLEAN, NEW f \in FileOrNil
  PROVE  /\ Rows(url, fired, f) \in [sections : {0, 4}, contents : FileOrNil]
         /\ Rows(url, fired, f).contents = f
         /\ Rows(url, fired, f).sections = 4 <=> url # Nil /\ ~fired
         /\ Rows(url, fired, f).sections = 0 <=> url = Nil \/ fired
BY DEF Rows, FileOrNil

\* A freed page stays registered, or there is none.
LEMMA LeavePageType ==
  ASSUME orphaned \in BOOLEAN, LeavePage
  PROVE  orphaned' \in BOOLEAN
<1>1. CASE orphaned \/ top = "detail"
  <2>1. orphaned'
    BY <1>1, Zenon DEF LeavePage
  <2>2. orphaned' = TRUE
    BY <2>1, Zenon DEF LeavePage
  <2> QED
    BY <2>2
<1>2. CASE ~(orphaned \/ top = "detail")
  <2>1. orphaned' = FALSE
    BY <1>2, Zenon DEF LeavePage
  <2> QED
    BY <2>1
<1> QED
  BY <1>1, <1>2

\* refresh with the delegate's file establishes the screen again, whatever
\* way parseICS takes, and touches neither the editor nor the calendar.
LEMMA RefreshKeeps ==
  ASSUME IInv, NEW url \in FileOrNil, Refresh(url),
         url = appURL', proc' \in {"inactive", "active"},
         crashed' \in Ends,
         appURL # Nil => url # Nil,
         UNCHANGED <<modal, alert, calendar>>
  PROVE  IInv'
<1>1. /\ TypeOK /\ IsFiniteSet(calendar) /\ OneTimerPerFlag
      /\ SaveButtonMatchesDetails /\ NothingWithoutFile /\ EditorOverRoot
      /\ SavedFilesParsed /\ OfferedParsed
  BY DEF IInv, ScreenInv
<1>2. LabelNow \in Nat /\ Conflicts(url) \in Nat
  BY <1>1, ConflictsInNat DEF LabelNow, TypeOK
<1>3. /\ exceptionFired' \in BOOLEAN
      /\ timers' \in Nat
      /\ OneTimerPerFlag'
  <2>1. CASE UNCHANGED <<exceptionFired, timers>>
    BY <1>1, <2>1 DEF TypeOK, OneTimerPerFlag
  <2>2. CASE RefreshRaises(url)
    <3>1. exceptionFired' = TRUE
      BY <2>2 DEF RefreshRaises, CatchException
    <3>2. timers' = 1
      BY <1>1, <2>2 DEF RefreshRaises, OneTimerPerFlag
    <3> QED
      BY <3>1, <3>2 DEF OneTimerPerFlag
  <2> QED
    BY <2>1, <2>2 DEF Refresh, RefreshEnds, RefreshNoFile, RefreshUnread,
                      RefreshParsed, parseVars
<1>4. /\ details' \in FileOrNil
      /\ saveButton' \in BOOLEAN
      /\ SaveButtonMatchesDetails'
      /\ details' # Nil => Parsed(details')
  <2>1. CASE UNCHANGED <<details, saveButton>>
    BY <1>1, <2>1 DEF TypeOK, SaveButtonMatchesDetails, OfferedParsed
  <2>2. CASE RefreshRaises(url)
    BY <2>2 DEF RefreshRaises, CatchException, SaveButtonMatchesDetails,
                FileOrNil
  <2>3. CASE RefreshParsed(url)
    BY <2>3 DEF RefreshParsed, SaveButtonMatchesDetails
  <2> QED
    BY <2>1, <2>2, <2>3 DEF Refresh, RefreshEnds, RefreshNoFile,
                            RefreshUnread, parseVars
<1>5. /\ warning' \in Nat
      /\ overlay' \in {"behind", "no file", "problem"}
      /\ top' \in {"root", "help"}
      /\ url # Nil => top' = "root"
  <2>1. CASE RefreshNoFile(url)
    BY <1>2, <2>1 DEF RefreshNoFile
  <2>2. CASE RefreshUnread(url)
    BY <1>2, <2>2 DEF RefreshUnread
  <2>3. CASE RefreshRaises(url)
    BY <2>3 DEF RefreshRaises, CatchException
  <2>4. CASE RefreshParsed(url)
    BY <1>2, <2>4 DEF RefreshParsed
  <2> QED
    BY <2>1, <2>2, <2>3, <2>4 DEF Refresh, RefreshEnds
<1>6. /\ url = Nil => details' = Nil
      /\ overlay' # "behind" => details' = Nil
  <2>1. url = Nil => details = Nil
    BY <1>1 DEF NothingWithoutFile
  <2> QED
    BY <2>1 DEF Refresh, RefreshEnds, RefreshNoFile, RefreshUnread,
                RefreshRaises, RefreshParsed, CatchException, parseVars
<1>7. /\ table' \in [sections : {0, 4}, contents : FileOrNil]
      /\ table'.contents = details'
      /\ table'.sections = 4 => url # Nil
      /\ table'.sections = 4 \/ table'.sections = 0
  <2> DEFINE n == IF url # Nil /\ ~exceptionFired' THEN 4 ELSE 0
  <2>1. table' = [sections |-> n, contents |-> details']
    BY DEF Refresh, Rows
  <2>2. n \in {0, 4} /\ (n = 4 => url # Nil)
    OBVIOUS
  <2> HIDE DEF n
  <2> QED
    BY <1>4, <2>1, <2>2
<1>8. /\ rootURL' = url
      /\ loaded' = TRUE
      /\ observing' = TRUE
  BY DEF Refresh
<1>9. TypeOK'
  <2>1. modal' \in FileOrNil /\ alert' \in BOOLEAN
        /\ calendar' \in SUBSET Entries
    BY <1>1 DEF TypeOK
  <2>2. orphaned' \in BOOLEAN
    BY <1>1, LeavePageType DEF TypeOK, Refresh
  <2> QED
    BY <1>3, <1>4, <1>5, <1>7, <1>8, <2>1, <2>2 DEF TypeOK
<1>10. ScreenInv'
  BY <1>4, <1>6, <1>7, <1>8
  DEF ScreenInv, RowsMatchDetails, CoverHidesNothing, ActiveFollowsDelegate,
      NothingWithoutFile, SaveButtonMatchesDetails
<1>11. EditorOverRoot' /\ SavedFilesParsed' /\ IsFiniteSet(calendar')
  BY <1>1, <1>5 DEF EditorOverRoot, SavedFilesParsed
<1>12. OfferedParsed' /\ DeadIsFresh' /\ Registered'
  BY <1>1, <1>4, <1>8 DEF OfferedParsed, DeadIsFresh, Registered
<1> QED
  BY <1>3, <1>9, <1>10, <1>11, <1>12 DEF IInv

\* After launch nothing is shown, offered or edited.
LEMMA InitInv == Init => IInv
<1> SUFFICES ASSUME Init PROVE IInv
  OBVIOUS
<1>1. IsFiniteSet(calendar)
  BY ForeignIsFinite, FS_Subset DEF Init
<1>2. /\ table.sections = 0 /\ table.sections # 4
      /\ table \in [sections : {0, 4}, contents : FileOrNil]
  BY DEF Init, Rows, FileOrNil
<1>3. TypeOK
  <2>1. calendar \in SUBSET Entries
    <3>1. Foreign \subseteq Entries
      BY DEF Entries
    <3> QED
      BY <3>1 DEF Init
  <2> QED
    BY <1>2, <2>1 DEF Init, TypeOK, FileOrNil, Ends
<1>4. ScreenInv
  <2>1. details = Nil /\ ~saveButton /\ overlay = "behind" /\ proc = "dead"
    BY DEF Init
  <2> QED
    BY <1>2, <2>1, Zenon
    DEF ScreenInv, SaveButtonMatchesDetails, RowsMatchDetails,
        CoverHidesNothing, ActiveFollowsDelegate, NothingWithoutFile
<1>5. SavedFilesParsed
  BY ForeignIsNotOurs DEF Init, SavedFilesParsed
<1>6. /\ EditorOverRoot /\ OfferedParsed /\ DeadIsFresh /\ Registered
      /\ OneTimerPerFlag
  BY DEF Init, EditorOverRoot, OfferedParsed, DeadIsFresh, Registered,
         OneTimerPerFlag
<1> QED
  BY <1>1, <1>3, <1>4, <1>5, <1>6 DEF IInv

\* A process that ends leaves the calendar and nothing else.
LEMMA NoProcessKeeps ==
  ASSUME IInv, NoProcess, proc' = "dead", crashed' \in Ends,
         UNCHANGED calendar
  PROVE  IInv'
<1>1. /\ table'.sections = 0 /\ table'.sections # 4
      /\ table' \in [sections : {0, 4}, contents : FileOrNil]
  BY DEF NoProcess, Rows, FileOrNil
<1>2. TypeOK'
  <2>1. calendar' \in SUBSET Entries
    BY DEF IInv, TypeOK
  <2> QED
    BY <1>1, <2>1 DEF NoProcess, TypeOK, FileOrNil
<1>3. ScreenInv'
  <2>1. details' = Nil /\ ~saveButton' /\ overlay' = "behind" /\ ~loaded'
    BY DEF NoProcess
  <2> QED
    BY <1>1, <2>1, Zenon
    DEF ScreenInv, SaveButtonMatchesDetails, RowsMatchDetails,
        CoverHidesNothing, ActiveFollowsDelegate, NothingWithoutFile
<1>4. SavedFilesParsed' /\ IsFiniteSet(calendar')
  BY DEF IInv, SavedFilesParsed
<1>5. /\ EditorOverRoot' /\ OfferedParsed' /\ DeadIsFresh' /\ Registered'
      /\ OneTimerPerFlag'
  BY DEF NoProcess, EditorOverRoot, OfferedParsed, DeadIsFresh, Registered,
         OneTimerPerFlag
<1> QED
  BY <1>2, <1>3, <1>4, <1>5 DEF IInv

\* A view that is loaded shows the delegate's file and the present details.
LEMMA LoadingKeeps ==
  ASSUME IInv, ViewDidLoad, ~loaded,
         proc \in {"inactive", "active"}, modal = Nil,
         top' \in {"root", "help"}, orphaned' \in BOOLEAN,
         UNCHANGED <<proc, crashed, appURL, details, saveButton,
                     exceptionFired, timers, modal, alert, calendar>>
  PROVE  IInv'
<1>1. /\ TypeOK /\ IsFiniteSet(calendar) /\ OneTimerPerFlag
      /\ SaveButtonMatchesDetails /\ NothingWithoutFile
      /\ SavedFilesParsed /\ OfferedParsed
  BY DEF IInv, ScreenInv
<1>2. /\ table' \in [sections : {0, 4}, contents : FileOrNil]
      /\ table'.contents = details
      /\ table'.sections = 4 => appURL # Nil
      /\ table'.sections = 4 \/ table'.sections = 0
  <2> DEFINE n == IF appURL # Nil /\ ~exceptionFired THEN 4 ELSE 0
  <2>1. table' = [sections |-> n, contents |-> details]
    BY DEF ViewDidLoad, Rows
  <2>2. n \in {0, 4} /\ (n = 4 => appURL # Nil)
    OBVIOUS
  <2> HIDE DEF n
  <2> QED
    BY <1>1, <2>1, <2>2 DEF TypeOK
<1>3. TypeOK'
  BY <1>1, <1>2 DEF TypeOK, ViewDidLoad
<1>4. ScreenInv'
  BY <1>1, <1>2
  DEF ViewDidLoad, ScreenInv, SaveButtonMatchesDetails, RowsMatchDetails,
      CoverHidesNothing, ActiveFollowsDelegate, NothingWithoutFile
<1>5. EditorOverRoot' /\ SavedFilesParsed' /\ IsFiniteSet(calendar')
  BY <1>1 DEF EditorOverRoot, SavedFilesParsed
<1>6. OfferedParsed' /\ DeadIsFresh' /\ Registered' /\ OneTimerPerFlag'
  BY <1>1 DEF ViewDidLoad, OfferedParsed, DeadIsFresh, Registered,
              OneTimerPerFlag
<1> QED
  BY <1>3, <1>4, <1>5, <1>6 DEF IInv

\* A completed edit, whether it wrote the entry of the editor or not, closes
\* the file.
LEMMA AfterSaveKeeps ==
  ASSUME IInv, AfterSave, proc = "active", modal # Nil,
         calendar' \in SUBSET Entries, IsFiniteSet(calendar'),
         \A e \in calendar' : e \in calendar \/ e.file = modal
  PROVE  IInv'
<1>1. /\ TypeOK /\ OneTimerPerFlag /\ SavedFilesParsed /\ OfferedParsed
      /\ EditorOverRoot
  BY DEF IInv
<1>2. /\ table'.sections = 0 /\ table'.sections # 4
      /\ table' \in [sections : {0, 4}, contents : FileOrNil]
  BY DEF AfterSave, Rows, FileOrNil
<1>3. TypeOK'
  BY <1>1, <1>2 DEF AfterSave, CoverAfterSave, TypeOK, FileOrNil
<1>4. ScreenInv'
  <2>1. details' = Nil /\ ~saveButton' /\ rootURL' = Nil /\ appURL' = Nil
    BY DEF AfterSave
  <2> QED
    BY <1>2, <2>1, Zenon
    DEF ScreenInv, SaveButtonMatchesDetails, RowsMatchDetails,
        CoverHidesNothing, ActiveFollowsDelegate, NothingWithoutFile
<1>5. EditorOverRoot' /\ OfferedParsed' /\ DeadIsFresh' /\ Registered'
  BY DEF IInv, AfterSave, CoverAfterSave, EditorOverRoot, OfferedParsed,
         DeadIsFresh, Registered
<1>6. SavedFilesParsed'
  BY <1>1 DEF SavedFilesParsed, OfferedParsed
<1>7. OneTimerPerFlag'
  BY <1>1 DEF AfterSave, CoverAfterSave, OneTimerPerFlag
<1> QED
  BY <1>3, <1>4, <1>5, <1>6, <1>7 DEF IInv

\* Rotation redraws the rows from what is there.
LEMMA DidRotateKeeps == IInv /\ DidRotate => IInv'
<1> SUFFICES ASSUME IInv, DidRotate PROVE IInv'
  OBVIOUS
<1>1. /\ TypeOK /\ SavedFilesParsed /\ ScreenInv /\ EditorOverRoot
      /\ OfferedParsed /\ DeadIsFresh /\ Registered /\ OneTimerPerFlag
      /\ IsFiniteSet(calendar)
  BY DEF IInv
<1>2. rootURL = appURL
  BY <1>1 DEF ScreenInv, ActiveFollowsDelegate, DidRotate
<1>3. /\ table' \in [sections : {0, 4}, contents : FileOrNil]
      /\ table'.contents = details
      /\ table'.sections = 4 => rootURL # Nil
      /\ rootURL = Nil => table'.sections = 0
  <2> DEFINE n == IF rootURL # Nil /\ ~exceptionFired THEN 4 ELSE 0
  <2>1. table' = [sections |-> n, contents |-> details]
    BY DEF DidRotate, Rows
  <2>2. n \in {0, 4} /\ (n = 4 => rootURL # Nil) /\ (rootURL = Nil => n = 0)
    OBVIOUS
  <2> HIDE DEF n
  <2> QED
    BY <1>1, <2>1, <2>2 DEF TypeOK
<1> USE DEF DidRotate, appVars, viewVars, parseVars, screenVars
<1>4. TypeOK'
  BY <1>1, <1>3 DEF TypeOK
<1>5. ScreenInv'
  BY <1>1, <1>2, <1>3
  DEF ScreenInv, SaveButtonMatchesDetails, RowsMatchDetails,
      CoverHidesNothing, ActiveFollowsDelegate, NothingWithoutFile
<1>6. SavedFilesParsed' /\ IsFiniteSet(calendar')
  BY <1>1 DEF SavedFilesParsed
<1>7. /\ EditorOverRoot' /\ OfferedParsed' /\ DeadIsFresh' /\ Registered'
      /\ OneTimerPerFlag'
  BY <1>1 DEF EditorOverRoot, OfferedParsed, DeadIsFresh, Registered,
              OneTimerPerFlag
<1> QED
  BY <1>4, <1>5, <1>6, <1>7 DEF IInv

\* A memory warning takes the rows away and keeps the details.
LEMMA MemoryWarningKeeps == IInv /\ DidReceiveMemoryWarning => IInv'
<1> SUFFICES ASSUME IInv, DidReceiveMemoryWarning PROVE IInv'
  OBVIOUS
<1>1. /\ TypeOK /\ SavedFilesParsed /\ ScreenInv /\ EditorOverRoot
      /\ OfferedParsed /\ DeadIsFresh /\ Registered /\ OneTimerPerFlag
      /\ IsFiniteSet(calendar)
  BY DEF IInv
<1> USE DEF DidReceiveMemoryWarning, appVars, parseVars, screenVars
<1>2. /\ table'.sections = 0 /\ table'.sections # 4
      /\ table' \in [sections : {0, 4}, contents : FileOrNil]
  BY DEF Rows, FileOrNil
<1>3. TypeOK'
  BY <1>1, <1>2 DEF TypeOK
<1>4. ScreenInv'
  BY <1>1, <1>2
  DEF ScreenInv, SaveButtonMatchesDetails, RowsMatchDetails,
      CoverHidesNothing, ActiveFollowsDelegate, NothingWithoutFile
<1>5. SavedFilesParsed' /\ IsFiniteSet(calendar')
  BY <1>1 DEF SavedFilesParsed
<1>6. /\ EditorOverRoot' /\ OfferedParsed' /\ DeadIsFresh' /\ Registered'
      /\ OneTimerPerFlag'
  BY <1>1 DEF EditorOverRoot, OfferedParsed, DeadIsFresh, Registered,
              OneTimerPerFlag
<1> QED
  BY <1>3, <1>4, <1>5, <1>6 DEF IInv

\* The timer goes off together with the flag.
LEMMA ClearExceptionFlagKeeps == IInv /\ ClearExceptionFlag => IInv'
<1> SUFFICES ASSUME IInv, ClearExceptionFlag PROVE IInv'
  OBVIOUS
<1>1. /\ TypeOK /\ SavedFilesParsed /\ ScreenInv /\ EditorOverRoot
      /\ OfferedParsed /\ DeadIsFresh /\ Registered /\ OneTimerPerFlag
      /\ IsFiniteSet(calendar)
  BY DEF IInv
<1> USE DEF appVars, viewVars, screenVars
<1>2. timers' = 0 /\ timers' \in Nat
  <2>1. timers = 1
    BY <1>1 DEF OneTimerPerFlag, ClearExceptionFlag
  <2> QED
    BY <2>1 DEF ClearExceptionFlag
<1>3. /\ ~exceptionFired' /\ exceptionFired' \in BOOLEAN
      /\ proc \in {"inactive", "active"}
      /\ UNCHANGED <<proc, appVars, rootURL, viewVars, details, saveButton,
                     screenVars, calendar>>
  BY DEF ClearExceptionFlag, Awake
<1>4. TypeOK'
  BY <1>1, <1>2, <1>3 DEF TypeOK
<1>5. OneTimerPerFlag'
  BY <1>2, <1>3, Zenon DEF OneTimerPerFlag
<1>6. ScreenInv'
  BY <1>1, <1>3
  DEF ScreenInv, SaveButtonMatchesDetails, RowsMatchDetails,
      CoverHidesNothing, ActiveFollowsDelegate, NothingWithoutFile
<1>7. SavedFilesParsed' /\ IsFiniteSet(calendar')
  BY <1>1, <1>3 DEF SavedFilesParsed
<1>8. EditorOverRoot' /\ OfferedParsed' /\ DeadIsFresh' /\ Registered'
  BY <1>1, <1>3 DEF EditorOverRoot, OfferedParsed, DeadIsFresh, Registered
<1> QED
  BY <1>4, <1>5, <1>6, <1>7, <1>8 DEF IInv

\* Steps that leave the root view and its data alone: life cycle, navigation
\* and the editor.
LEMMA StillScreenKeeps ==
  ASSUME IInv, orphaned' \in BOOLEAN,
         UNCHANGED <<rootURL, loaded, observing, overlay, table, warning,
                     parseVars, calendar>>,
         proc' \in {"inactive", "active", "suspended"}, crashed' \in Ends,
         appURL' \in FileOrNil, appURL # Nil => appURL' # Nil,
         top' \in {"root", "help", "detail"}, alert' \in BOOLEAN,
         modal' \in {modal, details, Nil}, EditorOverRoot',
         ActiveFollowsDelegate', modal' # Nil => observing
  PROVE  IInv'
<1>1. /\ TypeOK /\ SavedFilesParsed /\ ScreenInv
      /\ OfferedParsed /\ DeadIsFresh /\ Registered /\ OneTimerPerFlag
      /\ IsFiniteSet(calendar)
  BY DEF IInv
<1> USE DEF parseVars
<1>2. TypeOK'
  <2>1. /\ rootURL' \in FileOrNil
        /\ table' \in [sections : {0, 4}, contents : FileOrNil]
        /\ details' \in FileOrNil
        /\ calendar' \in SUBSET Entries
    BY <1>1 DEF TypeOK
  <2>2. /\ overlay' \in {"behind", "no file", "problem"}
        /\ warning' \in Nat /\ timers' \in Nat
    BY <1>1 DEF TypeOK
  <2>3. /\ loaded' \in BOOLEAN /\ observing' \in BOOLEAN
        /\ saveButton' \in BOOLEAN /\ exceptionFired' \in BOOLEAN
    BY <1>1, Zenon DEF TypeOK
  <2>4. modal' \in FileOrNil
    BY <1>1 DEF TypeOK, FileOrNil
  <2>5. proc' \in {"dead", "inactive", "active", "suspended"}
    OBVIOUS
  <2> QED
    BY <2>1, <2>2, <2>3, <2>4, <2>5, Zenon DEF TypeOK
<1>3. ScreenInv'
  BY <1>1
  DEF ScreenInv, SaveButtonMatchesDetails, RowsMatchDetails,
      CoverHidesNothing, NothingWithoutFile
<1>4. SavedFilesParsed' /\ IsFiniteSet(calendar')
  BY <1>1 DEF SavedFilesParsed
<1>5. OfferedParsed' /\ DeadIsFresh' /\ Registered' /\ OneTimerPerFlag'
  BY <1>1 DEF OfferedParsed, DeadIsFresh, Registered, OneTimerPerFlag
<1> QED
  BY <1>2, <1>3, <1>4, <1>5 DEF IInv

\* What other applications do to the calendar.
LEMMA OtherAppsKeeps == IInv /\ OtherApps => IInv'
<1> SUFFICES ASSUME IInv, OtherApps PROVE IInv'
  OBVIOUS
<1>1. /\ TypeOK /\ SavedFilesParsed /\ ScreenInv /\ EditorOverRoot
      /\ OfferedParsed /\ DeadIsFresh /\ Registered /\ OneTimerPerFlag
      /\ IsFiniteSet(calendar)
  BY DEF IInv
<1> USE DEF appVars, viewVars, parseVars, screenVars
<1>2. UNCHANGED <<proc, appVars, rootURL, viewVars, parseVars, screenVars>>
  BY DEF OtherApps, OtherAppAdds, OtherAppRemoves
<1>3. /\ IsFiniteSet(calendar') /\ calendar' \in SUBSET Entries
      /\ SavedFilesParsed'
  <2>1. Foreign \subseteq Entries
    BY DEF Entries
  <2>2. CASE \E e \in Foreign : OtherAppAdds(e)
    <3> PICK e \in Foreign : OtherAppAdds(e)
      BY <2>2
    <3>1. calendar' = calendar \cup {e} /\ e.file = Nil
      BY ForeignIsNotOurs DEF OtherAppAdds
    <3>2. IsFiniteSet(calendar')
      BY <1>1, <3>1, FS_AddElement
    <3> QED
      BY <1>1, <2>1, <3>1, <3>2 DEF TypeOK, SavedFilesParsed
  <2>3. CASE \E e \in calendar : OtherAppRemoves(e)
    <3>1. calendar' \subseteq calendar
      BY <2>3 DEF OtherAppRemoves
    <3>2. IsFiniteSet(calendar')
      BY <1>1, <3>1, FS_Subset
    <3> QED
      BY <1>1, <3>1, <3>2 DEF TypeOK, SavedFilesParsed
  <2> QED
    BY <2>2, <2>3 DEF OtherApps
<1>4. TypeOK'
  BY ZenonT(30), <1>1, <1>2, <1>3 DEF TypeOK
<1>5. ScreenInv'
  BY <1>1, <1>2
  DEF ScreenInv, SaveButtonMatchesDetails, RowsMatchDetails,
      CoverHidesNothing, ActiveFollowsDelegate, NothingWithoutFile
<1>6. /\ EditorOverRoot' /\ OfferedParsed' /\ DeadIsFresh' /\ Registered'
      /\ OneTimerPerFlag'
  BY <1>1, <1>2 DEF EditorOverRoot, OfferedParsed, DeadIsFresh, Registered,
                    OneTimerPerFlag
<1> QED
  BY <1>3, <1>4, <1>5, <1>6 DEF IInv

\* The actions of the life cycle.
LEMMA LifeCycleKeeps == IInv /\ LifeCycle => IInv'
<1> SUFFICES ASSUME IInv, LifeCycle PROVE IInv'
  OBVIOUS
<1>1. /\ TypeOK /\ ScreenInv /\ EditorOverRoot /\ DeadIsFresh /\ Registered
      /\ ActiveFollowsDelegate
  BY DEF IInv, ScreenInv
<1> USE DEF appVars, viewVars, screenVars, TypeOK, FileOrNil
<1>2. CASE Launch
  <2>1. EditorOverRoot' /\ ActiveFollowsDelegate'
    BY <1>1, <1>2 DEF Launch, DeadIsFresh, EditorOverRoot, viewVars,
                      ActiveFollowsDelegate
  <2>2. modal' # Nil => observing
    BY <1>1, <1>2 DEF Launch, Registered
  <2> QED
    BY <1>1, <1>2, <2>1, <2>2, StillScreenKeeps DEF Launch, Ends
<1>3. ASSUME NEW f \in Files, LaunchWithFile(f) PROVE IInv'
  <2>1. f # Nil
    BY NilIsNoFile
  <2>2. /\ Refresh(f) /\ f = appURL' /\ f \in FileOrNil
        /\ proc' \in {"inactive", "active"} /\ crashed' \in Ends
        /\ UNCHANGED <<modal, alert, calendar>>
    BY <1>3 DEF LaunchWithFile, Ends
  <2> QED
    BY <2>1, <2>2, RefreshKeeps
<1>4. CASE DidBecomeActive
  <2>1. CASE observing
    <3> PICK url \in FileOrNil : url = appURL
      BY <1>1
    <3>1. /\ Refresh(url) /\ url = appURL' /\ crashed' \in Ends
          /\ proc' \in {"inactive", "active"}
          /\ UNCHANGED <<modal, alert, calendar>>
      BY <1>1, <1>4, <2>1 DEF DidBecomeActive
    <3> QED
      BY <3>1, RefreshKeeps
  <2>2. CASE ~observing
    <3>1. EditorOverRoot' /\ ActiveFollowsDelegate'
      BY <1>1, <1>4, <2>2 DEF DidBecomeActive, EditorOverRoot, Registered,
                              ActiveFollowsDelegate, viewVars
    <3>2. modal' # Nil => observing
      BY <1>1, <1>4, <2>2 DEF DidBecomeActive, Registered
    <3> QED
      BY <1>1, <1>4, <2>2, <3>1, <3>2, StillScreenKeeps DEF DidBecomeActive
  <2> QED
    BY <2>1, <2>2
<1>5. CASE WillResignActive \/ DidEnterBackground \/ WillEnterForeground
  <2> USE DEF WillResignActive, DidEnterBackground, WillEnterForeground
  <2>1. EditorOverRoot' /\ ActiveFollowsDelegate'
    <3>1. proc' # "active" /\ UNCHANGED <<appURL, top, modal, alert>>
      BY <1>5
    <3> QED
      BY <1>1, <3>1, Zenon DEF EditorOverRoot, ActiveFollowsDelegate
  <2>2. modal' # Nil => observing
    BY <1>1, <1>5 DEF Registered
  <2> QED
    BY <1>1, <1>5, <2>1, <2>2, StillScreenKeeps
<1>6. ASSUME NEW f \in Files, HandleOpenURL(f) PROVE IInv'
  <2>1. f # Nil
    BY NilIsNoFile
  <2>2. EditorOverRoot' /\ ActiveFollowsDelegate'
    BY <1>1, <1>6, <2>1 DEF HandleOpenURL, EditorOverRoot,
                            ActiveFollowsDelegate
  <2>3. modal' # Nil => observing
    BY <1>1, <1>6 DEF HandleOpenURL, Registered
  <2> QED
    BY <1>1, <1>6, <2>1, <2>2, <2>3, StillScreenKeeps DEF HandleOpenURL
<1>7. CASE Kill
  BY <1>1, <1>7, NoProcessKeeps DEF Kill
<1>8. CASE LoadView
  BY <1>1, <1>8, LoadingKeeps DEF LoadView, Awake, parseVars
<1>9. CASE RotateFreed
  BY <1>1, <1>9, NoProcessKeeps DEF RotateFreed, Crash, Ends
<1> QED
  BY <1>2, <1>3, <1>4, <1>5, <1>6, <1>7, <1>8, <1>9, MemoryWarningKeeps,
     ClearExceptionFlagKeeps, DidRotateKeeps
  DEF LifeCycle

\* The actions of the user.
LEMMA UserKeeps == IInv /\ User => IInv'
<1> SUFFICES ASSUME IInv, User PROVE IInv'
  OBVIOUS
<1>1. /\ TypeOK /\ ScreenInv /\ EditorOverRoot /\ DeadIsFresh /\ Registered
      /\ ActiveFollowsDelegate /\ SaveButtonMatchesDetails
      /\ NothingWithoutFile /\ IsFiniteSet(calendar)
  BY DEF IInv, ScreenInv
<1> USE DEF appVars, viewVars, screenVars, TypeOK
<1>2. CASE TapHelp \/ GoBack \/ \E section \in {0, 3} : TapRow(section)
  <2>1. orphaned' \in BOOLEAN
    <3>1. LeavePage \/ UNCHANGED orphaned
      BY <1>2 DEF TapHelp, GoBack, TapRow
    <3> QED
      BY <1>1, <3>1, LeavePageType
  <2> USE DEF TapHelp, GoBack, TapRow, CanTapRow, Usable
  <2>2. EditorOverRoot' /\ ActiveFollowsDelegate' /\ modal' = Nil
    BY <1>1, <1>2 DEF EditorOverRoot, ActiveFollowsDelegate
  <2> QED
    BY <1>1, <1>2, <2>1, <2>2, StillScreenKeeps
<1>3. CASE GoBackReloading
  <2>1. top' \in {"root", "help"}
    BY <1>3 DEF GoBackReloading
  <2>2. orphaned' \in BOOLEAN
    BY <1>1, <1>3, LeavePageType DEF GoBackReloading
  <2> QED
    BY <1>1, <1>3, <2>1, <2>2, LoadingKeeps DEF GoBackReloading, Usable, parseVars
<1>4. CASE \E section \in {0, 3} : TapNilRow(section)
  BY <1>1, <1>4, NoProcessKeeps DEF TapNilRow, Crash, Ends
<1>5. CASE SaveEvent
  <2>1. details # Nil /\ appURL # Nil
    BY <1>1, <1>5 DEF SaveEvent, SaveButtonMatchesDetails, NothingWithoutFile
  <2>2. EditorOverRoot' /\ ActiveFollowsDelegate'
    BY <1>1, <1>5, <2>1 DEF SaveEvent, Usable, EditorOverRoot,
                            ActiveFollowsDelegate, viewVars
  <2>3. observing
    BY <1>1, <1>5 DEF SaveEvent, Registered
  <2> QED
    BY <1>1, <1>5, <2>2, <2>3, StillScreenKeeps DEF SaveEvent, Usable
<1>6. CASE CancelEdit \/ DismissAlert
  <2> USE DEF CancelEdit, DismissAlert
  <2>1. EditorOverRoot' /\ ActiveFollowsDelegate'
    <3>1. UNCHANGED <<proc, appURL, rootURL, loaded, top>>
      BY <1>6 DEF viewVars
    <3>2. modal' # Nil => modal' = modal
      BY <1>6
    <3>3. alert' => alert
      BY <1>6, Zenon
    <3>4. ActiveFollowsDelegate'
      BY <1>1, <3>1 DEF ActiveFollowsDelegate
    <3>5. EditorOverRoot'
      BY <1>1, <3>1, <3>2, <3>3 DEF EditorOverRoot
    <3> QED
      BY <3>4, <3>5
  <2>2. modal' # Nil => observing
    BY <1>1, <1>6 DEF Registered
  <2> QED
    BY <1>1, <1>6, <2>1, <2>2, StillScreenKeeps
<1>7. ASSUME NEW c \in Copies, SaveSucceeds(c) PROVE IInv'
  <2>1. calendar' = calendar \cup {Entry(modal, c)}
    BY <1>7 DEF SaveSucceeds
  <2>2. modal \in Files /\ proc = "active" /\ AfterSave
    BY <1>1, <1>7 DEF SaveSucceeds, FileOrNil
  <2>3. Entry(modal, c) \in Entries /\ Entry(modal, c).file = modal
    BY <2>2 DEF Entries, Entry
  <2>4. IsFiniteSet(calendar') /\ calendar' \in SUBSET Entries
    BY <1>1, <2>1, <2>3, FS_AddElement
  <2>5. \A e \in calendar' : e \in calendar \/ e.file = modal
    BY <2>1, <2>3
  <2>6. modal # Nil
    BY <1>7 DEF SaveSucceeds
  <2> QED
    BY <2>2, <2>4, <2>5, <2>6, AfterSaveKeeps
<1>8. CASE SaveFails
  BY <1>1, <1>8, AfterSaveKeeps DEF SaveFails
<1> QED
  BY <1>2, <1>3, <1>4, <1>5, <1>6, <1>7, <1>8 DEF User

\* IInv is an inductive invariant.
LEMMA NextKeeps == IInv /\ [Next]_vars => IInv'
<1> SUFFICES ASSUME IInv, [Next]_vars PROVE IInv'
  OBVIOUS
<1>1. CASE Next
  BY <1>1, LifeCycleKeeps, UserKeeps, OtherAppsKeeps DEF Next
<1>2. CASE UNCHANGED vars
  <2> USE DEF vars, appVars, viewVars, parseVars, screenVars
  <2>1. TypeOK' /\ IsFiniteSet(calendar)'
    BY ZenonT(30), <1>2 DEF IInv, TypeOK
  <2>2. ScreenInv'
    BY <1>2 DEF IInv, ScreenInv, SaveButtonMatchesDetails, RowsMatchDetails,
                CoverHidesNothing, ActiveFollowsDelegate, NothingWithoutFile
  <2>3. /\ OneTimerPerFlag' /\ EditorOverRoot' /\ SavedFilesParsed'
        /\ OfferedParsed' /\ DeadIsFresh' /\ Registered'
    BY <1>2 DEF IInv, OneTimerPerFlag, EditorOverRoot, SavedFilesParsed,
                OfferedParsed, DeadIsFresh, Registered
  <2> QED
    BY <2>1, <2>2, <2>3 DEF IInv
<1> QED
  BY <1>1, <1>2

----------------------------------------------------------------------------

\* The inductive invariant holds in every state the application can reach.
THEOREM Invariance == Spec => []IInv
BY InitInv, NextKeeps, PTL DEF Spec

\* Every variable keeps its type, whatever the files contain.
THEOREM TypeCorrect == Spec => []TypeOK
<1>1. IInv => TypeOK
  BY DEF IInv
<1> QED
  BY <1>1, Invariance, PTL

\* The flag of the last exception has one pending timer, no more, no less.
THEOREM OneTimer == Spec => []OneTimerPerFlag
<1>1. IInv => OneTimerPerFlag
  BY DEF IInv
<1> QED
  BY <1>1, Invariance, PTL

\* What is on the screen and what the Save button would save go together:
\* the button, the rows, the covering message and the two copies of the URL.
THEOREM ScreenIsConsistent ==
  Spec => [](/\ SaveButtonMatchesDetails
             /\ RowsMatchDetails
             /\ CoverHidesNothing
             /\ ActiveFollowsDelegate
             /\ NothingWithoutFile)
<1>1. IInv => ScreenInv
  BY DEF IInv
<1> QED
  BY <1>1, Invariance, PTL DEF ScreenInv

\* Rows of details are those of the file the Save button would save, and there
\* are none without a file (RootViewController.m:549).
THEOREM RowsAreOfTheFile == Spec => []RowsMatchDetails
<1>1. IInv => RowsMatchDetails
  BY DEF IInv, ScreenInv
<1> QED
  BY <1>1, Invariance, PTL

\* The event editor is never left over another page or without a file.
THEOREM EditorIsOverRoot == Spec => []EditorOverRoot
<1>1. IInv => EditorOverRoot
  BY DEF IInv
<1> QED
  BY <1>1, Invariance, PTL

\* No entry of a file that parseICS gave up on ever reaches the calendar.
THEOREM OnlyParsedFilesAreSaved == Spec => []SavedFilesParsed
<1>1. IInv => SavedFilesParsed
  BY DEF IInv
<1> QED
  BY <1>1, Invariance, PTL

----------------------------------------------------------------------------
(* The refinement of CalendarPromise.                                      *)

\* What can be saved, as ImplementsPromise maps it.
Offered == IF saveButton THEN details ELSE Nil

\* The steps of refresh are steps of Open, Parse, or show nothing.
LEMMA RefreshOffers ==
  ASSUME IInv, NEW url, Refresh(url)
  PROVE  Offered' \in {Offered, url, Nil}
<1>1. CASE RefreshNoFile(url) \/ RefreshUnread(url)
  <2>1. UNCHANGED <<details, saveButton>>
    BY <1>1 DEF RefreshNoFile, RefreshUnread, parseVars
  <2> QED
    BY <2>1 DEF Offered
<1>2. CASE RefreshRaises(url)
  <2>1. details' = Nil
    BY <1>2 DEF RefreshRaises, CatchException
  <2> QED
    BY <2>1 DEF Offered
<1>3. CASE RefreshParsed(url)
  BY <1>3 DEF RefreshParsed, Offered
<1> QED
  BY <1>1, <1>2, <1>3 DEF Refresh, RefreshEnds

\* Every step of the application is one the owner of the calendar was
\* promised, or one the promise does not see.
LEMMA StepIsPromised == IInv /\ [Next]_vars => [Promise!Next]_(Promise!vars)
<1> SUFFICES ASSUME IInv, [Next]_vars
             PROVE  \/ Promise!Next
                    \/ UNCHANGED <<appURL, Offered, modal, calendar>>
  BY DEF Promise!vars, Offered
<1> USE DEF appVars, viewVars, parseVars, screenVars, Offered
<1>1. /\ TypeOK /\ EditorOverRoot /\ DeadIsFresh
      /\ SaveButtonMatchesDetails /\ NothingWithoutFile
  BY DEF IInv, ScreenInv
<1>2. CASE UNCHANGED <<appURL, details, saveButton, modal, calendar>>
  BY <1>2
<1>3. ASSUME NEW f \in Files,
             appURL' = f, Offered' \in {Offered, f, Nil},
             UNCHANGED <<modal, calendar>>
      PROVE  Promise!Next
  <2>1. Promise!Open(f)
    BY <1>3 DEF Promise!Open
  <2> QED
    BY <2>1 DEF Promise!Next
<1>4. ASSUME NEW f \in Files, LaunchWithFile(f) PROVE Promise!Next
  <2>1. Offered' \in {Offered, f, Nil}
    BY <1>4, RefreshOffers DEF LaunchWithFile
  <2> QED
    BY <1>3, <1>4, <2>1 DEF LaunchWithFile
<1>5. ASSUME NEW f \in Files, HandleOpenURL(f) PROVE Promise!Next
  BY <1>3, <1>5 DEF HandleOpenURL
<1>6. CASE DidBecomeActive
  <2>1. CASE ~observing
    BY <1>2, <1>6, <2>1 DEF DidBecomeActive
  <2>2. CASE observing
    <3>1. Refresh(appURL) /\ UNCHANGED <<appURL, modal, calendar>>
      BY <1>6, <2>2 DEF DidBecomeActive
    <3>2. CASE appURL = Nil
      <4>1. UNCHANGED <<details, saveButton>>
        BY <3>1, <3>2 DEF Refresh, RefreshEnds, RefreshNoFile, RefreshUnread,
                          RefreshRaises, RefreshParsed
      <4> QED
        BY <1>2, <3>1, <4>1
    <3>3. CASE appURL # Nil
      <4> PICK url : url = appURL
        OBVIOUS
      <4>1. Offered' \in {Offered, url, Nil}
        BY <3>1, RefreshOffers
      <4>2. CASE Offered' = Offered
        BY <3>1, <4>2
      <4>3. CASE Offered' \in {url, Nil}
        <5>1. Promise!Parse
          BY <3>1, <3>3, <4>3 DEF Promise!Parse
        <5> QED
          BY <5>1 DEF Promise!Next
      <4> QED
        BY <4>1, <4>2, <4>3
    <3> QED
      BY <3>2, <3>3
  <2> QED
    BY <2>1, <2>2
<1>7. ASSUME NoProcess, UNCHANGED calendar PROVE Promise!Next
  <2>1. Offered' = Nil /\ appURL' = Nil /\ modal' = Nil
    BY <1>7 DEF NoProcess
  <2>2. Promise!Quit
    BY <1>7, <2>1 DEF Promise!Quit
  <2> QED
    BY <2>2 DEF Promise!Next
<1>8. CASE SaveEvent
  <2>1. /\ modal = Nil /\ Offered # Nil /\ modal' = Offered
        /\ UNCHANGED <<appURL, details, saveButton, calendar>>
    BY <1>1, <1>8 DEF SaveEvent, Usable, SaveButtonMatchesDetails
  <2>2. Promise!Edit
    BY <2>1 DEF Promise!Edit
  <2> QED
    BY <2>2 DEF Promise!Next
<1>9. CASE CancelEdit
  <2>1. Promise!Discard
    BY <1>9 DEF CancelEdit, Promise!Discard
  <2> QED
    BY <2>1 DEF Promise!Next
<1>10. ASSUME AfterSave PROVE Offered' = Nil /\ appURL' = Nil /\ modal' = Nil
  BY <1>10 DEF AfterSave
<1>11. ASSUME NEW c \in Copies, SaveSucceeds(c) PROVE Promise!Next
  <2>1. Promise!Confirm({Entry(modal, c)})
    BY <1>10, <1>11 DEF SaveSucceeds, Promise!Confirm
  <2> QED
    BY <2>1 DEF Promise!Next
<1>12. CASE SaveFails
  <2>1. Promise!Confirm({})
    BY <1>10, <1>12 DEF SaveFails, Promise!Confirm
  <2> QED
    BY <2>1 DEF Promise!Next
<1>13. CASE OtherApps
  <2>1. ASSUME NEW e \in Foreign, OtherAppAdds(e) PROVE Promise!Next
    BY <2>1 DEF OtherAppAdds, Promise!Next, Promise!Others
  <2>2. ASSUME NEW e \in calendar, OtherAppRemoves(e) PROVE Promise!Next
    BY <2>2 DEF OtherAppRemoves, Promise!Next, Promise!Others
  <2> QED
    BY <1>13, <2>1, <2>2 DEF OtherApps
<1>14. CASE LifeCycle
  <2>1. CASE \/ Launch \/ WillResignActive \/ DidEnterBackground
             \/ WillEnterForeground \/ LoadView \/ DidReceiveMemoryWarning
             \/ ClearExceptionFlag \/ DidRotate
    BY <1>2, <2>1
    DEF Launch, WillResignActive, DidEnterBackground, WillEnterForeground,
        LoadView, DidReceiveMemoryWarning, ClearExceptionFlag, DidRotate
  <2> QED
    BY <1>4, <1>5, <1>6, <1>7, <1>14, <2>1
    DEF LifeCycle, Kill, RotateFreed, Crash
<1>15. CASE User
  <2>1. CASE \/ TapHelp \/ GoBack \/ GoBackReloading \/ DismissAlert
             \/ \E section \in {0, 3} : TapRow(section)
    BY <1>2, <2>1 DEF TapHelp, GoBack, GoBackReloading, DismissAlert, TapRow
  <2> QED
    BY <1>7, <1>8, <1>9, <1>11, <1>12, <1>15, <2>1 DEF User, TapNilRow, Crash
<1> QED
  BY <1>2, <1>13, <1>14, <1>15 DEF Next, vars

\* Whatever happens to views, timers and the process, the calendar sees only
\* what module CalendarPromise promises of it.
THEOREM PromiseIsKept == Spec => ImplementsPromise
<1>1. Init => Promise!Init
  BY DEF Init, Promise!Init
<1>2. IInv /\ [Next]_vars => [Promise!Next]_(Promise!vars)
  BY StepIsPromised
<1> QED
  BY <1>1, <1>2, Invariance, PTL DEF Spec, ImplementsPromise, Promise!Spec

----------------------------------------------------------------------------
(***************************************************************************)
(* parseICS itself, one step at a time (ICSParse): what its dictionary     *)
(* holds and what the method leaves behind, for every file: any number of  *)
(* VEVENTs, any texts, dates, zones.  ICSReader takes the whole method as  *)
(* one step; ParseEndsAsTold says that it may.                             *)
(***************************************************************************)
(* The text under "When", and what the method owns.                        *)

\* Until the root component is freed, the method has it together with the
\* dictionary and the zone; the catch block is entered only from there.
Owned ==
  /\ pc = "text" => owned = {"dictionary"}
  /\ pc = "events" => owned = {"dictionary", "root", "zone"}
  /\ pc = "published" => shown = "this" /\ owned = {"dictionary", "zone"}
  /\ pc # "published" /\ shown = "this" => pc = "end" /\ owned = {"zone"}

ParseInv == WhenMatchesDates /\ Owned

\* Whatever was in the dictionary, a turn of the loop that sets the text sets
\* both dates, and the text is that of these dates.
LEMMA ReadEventKeepsText ==
  ASSUME NEW old, NEW event, NEW tzid,
         ReadEvent(old, event, tzid).when # Nil
  PROVE  LET read == ReadEvent(old, event, tzid)
         IN  /\ Nil \notin {read.start, read.end}
             /\ read.when = FormatWhen(read.start, read.end)
<1>1. CASE HasDates(event)
  BY <1>1 DEF ReadEvent, FormatWhen
<1>2. CASE ~HasDates(event)
  BY <1>2 DEF ReadEvent
<1> QED BY <1>1, <1>2

\* ParseInv is inductive.
LEMMA ParseStepKeeps ==
  ASSUME ParseInv, [ParseNext]_stepVars
  PROVE  ParseInv'
<1> USE DEF ParseInv
<1>1. CASE LoadText
  BY <1>1 DEF LoadText, WhenMatchesDates, Owned
<1>2. CASE ParseText
  BY <1>2 DEF ParseText, WhenMatchesDates, Owned
<1>3. CASE ReadNext
  <2>1. WhenMatchesDates'
    BY <1>3, ReadEventKeepsText DEF ReadNext, WhenMatchesDates
  <2>2. Owned'
    BY <1>3 DEF ReadNext, Owned
  <2> QED BY <2>1, <2>2
<1>4. CASE ReadRaises
  BY <1>4 DEF ReadRaises, Catch, WhenMatchesDates, Owned
<1>5. CASE Publish
  BY <1>5 DEF Publish, WhenMatchesDates, Owned
<1>6. CASE QueryCalendar
  BY <1>6 DEF QueryCalendar, Catch, WhenMatchesDates, Owned
<1>7. CASE UNCHANGED stepVars
  BY <1>7 DEF stepVars, WhenMatchesDates, Owned
<1> QED BY <1>1, <1>2, <1>3, <1>4, <1>5, <1>6, <1>7 DEF ParseNext


----------------------------------------------------------------------------
(* The last VEVENT that has a text.                                        *)

TextKeys == {"summary", "location", "description"}

\* LastEventWins with the type of the counter it is about.
LastsOK == turn \in Nat /\ LastEventWins

\* Each text of a VEVENT replaces the one before, if there is one.
LEMMA ReadEventReplaces ==
  ASSUME NEW old, NEW event, NEW tzid, NEW key \in TextKeys
  PROVE  ReadEvent(old, event, tzid)[key] = Replace(old[key], event[key])
BY DEF TextKeys, ReadEvent

\* The greatest element of a set of integers is the one Max chooses.
LEMMA MaxIsGreatest ==
  ASSUME NEW S, NEW m \in S, S \subseteq Int, \A x \in S : x <= m
  PROVE  Max(S) = m
<1>1. PICK x \in S : Max(S) = x /\ \A y \in S : x >= y
  BY DEF Max
<1> QED BY <1>1

\* A further VEVENT takes over every text it has and no other.
LEMMA ReadNextKeepsLasts ==
  ASSUME LastsOK, ReadNext
  PROVE  LastsOK'
<1>1. /\ turn' = turn + 1 /\ file' = file
      /\ dict' = ReadEvent(dict, Events[turn + 1], Zone)
  BY DEF ReadNext
<1>2. turn \in Nat
  BY DEF LastsOK
<1>3. ASSUME NEW key \in TextKeys PROVE dict'[key] = LastWith(key)'
  <2> DEFINE having(n) == {i \in 1..n : Events[i][key] # Nil}
  <2>1. dict'[key] = Replace(dict[key], Events[turn + 1][key])
    BY <1>1, ReadEventReplaces
  <2>2. LastWith(key)' = IF having(turn + 1) = {} THEN Nil
                         ELSE Events[Max(having(turn + 1))][key]
    BY <1>1 DEF LastWith, Events
  <2>3. CASE Events[turn + 1][key] = Nil
    <3>1. having(turn + 1) = having(turn)
      BY <1>2, <2>3
    <3>2. dict[key] = LastWith(key)
      BY DEF LastsOK, LastEventWins, TextKeys
    <3> QED BY <2>1, <2>2, <2>3, <3>1, <3>2 DEF Replace, LastWith
  <2>4. CASE Events[turn + 1][key] # Nil
    <3>1. /\ turn + 1 \in having(turn + 1)
          /\ having(turn + 1) \subseteq Int
          /\ \A i \in having(turn + 1) : i <= turn + 1
      BY <1>2, <2>4
    <3>2. Max(having(turn + 1)) = turn + 1
      BY <3>1, MaxIsGreatest
    <3>3. having(turn + 1) # {}
      BY <3>1
    <3> HIDE DEF having
    <3> QED BY <2>1, <2>2, <2>4, <3>2, <3>3 DEF Replace
  <2> QED BY <2>3, <2>4
<1> QED BY <1>1, <1>2, <1>3 DEF LastsOK, LastEventWins, TextKeys

----------------------------------------------------------------------------
(* The loop computes what ICSFile tells of the file.                       *)

\* The dictionaries of ICSFile exist, one for each turn: every one is what a
\* VEVENT makes of the one before.
LEMMA DetailsOneByOne ==
  ASSUME NEW f \in Files, NEW n \in Nat, n = Len(Content[f].events)
  PROVE  LET after == DetailsAfter(Content[f])
         IN  /\ after[0] = NoKeys
             /\ \A i \in 1..n :
                  after[i] = ReadEvent(after[i - 1], Content[f].events[i],
                                       FileZone(Content[f]))
<1> DEFINE Read(d, i) == ReadEvent(d, Content[f].events[i], FileZone(Content[f]))
           Is(g, m) == g = [i \in 0..m |-> IF i = 0 THEN NoKeys ELSE Read(g[i - 1], i)]
           S == {m \in Nat : \E g : Is(g, m)}
<1>1. 0 \in S
  <2> DEFINE g == [i \in 0..0 |-> NoKeys]
  <2>1. Is(g, 0)
    OBVIOUS
  <2> QED BY <2>1
<1>2. ASSUME NEW m \in Nat, m \in S PROVE m + 1 \in S
  <2>1. PICK g : Is(g, m)
    BY <1>2
  <2> DEFINE h == [i \in 0..m + 1 |-> IF i <= m THEN g[i] ELSE Read(g[m], i)]
  <2> HIDE DEF Read
  <2>2. \A i \in 0..m : h[i] = g[i]
    OBVIOUS
  <2>3. \A i \in 0..m : g[i] = IF i = 0 THEN NoKeys ELSE Read(g[i - 1], i)
    BY <2>1
  <2>4. \A i \in 0..m + 1 : h[i] = IF i = 0 THEN NoKeys ELSE Read(h[i - 1], i)
    <3> SUFFICES ASSUME NEW i \in 0..m + 1
                 PROVE h[i] = IF i = 0 THEN NoKeys ELSE Read(h[i - 1], i)
      OBVIOUS
    <3>1. CASE i = 0 BY <3>1, <2>2, <2>3
    <3>2. CASE i # 0 /\ i <= m
      <4>1. i - 1 \in 0..m /\ i \in 0..m BY <3>2
      <4> QED BY <3>2, <4>1, <2>2, <2>3
    <3>3. CASE i = m + 1
      <4>1. i - 1 = m /\ m \in 0..m BY <3>3
      <4>2. h[i] = Read(g[m], i) BY <3>3
      <4> QED BY <3>3, <4>1, <4>2, <2>2
    <3> QED BY <3>1, <3>2, <3>3
  <2>5. Is(h, m + 1)
    BY <2>4
  <2> HIDE DEF h, Is
  <2>6. \E gg : Is(gg, m + 1)
    BY <2>5
  <2> QED BY <2>6
<1> HIDE DEF S, Read
<1>3. n \in S
  BY <1>1, <1>2, InductionOnNat
<1>4. \E g : Is(g, n)
  BY <1>3 DEF S
<1>5. DetailsAfter(Content[f]) = CHOOSE g : Is(g, n)
  BY DEF DetailsAfter, Read
<1>6. Is(DetailsAfter(Content[f]), n)
  BY <1>4, <1>5
<1> QED BY <1>6 DEF Read

After == DetailsAfter(Content[file])

\* None of the first VEVENTs raises.
CalmUntil(n) == \A i \in 1..n : ~EventRaises(Events[i], Zone)

\* The inductive invariant: what is known of the file at each place, and that the
\* dictionary is the one of ICSFile for the turns made.
Told ==
  /\ file \in Files
  /\ turn \in 0..Len(Events)
  /\ pc \in {"start", "text", "events", "published", "end"}
  /\ pc \in {"start", "text", "events"} => shown = "before" /\ dict = After[turn]
  /\ pc \in {"start", "text"} => turn = 0
  /\ pc = "text" => Content[file].readable
  /\ pc = "events" => ~Unread(file) /\ CalmUntil(turn)
  /\ pc = "published" => /\ ~Unread(file) /\ CalmUntil(Len(Events))
                         /\ shown = "this" /\ dict = Details(file)
  /\ EndsAsTold

\* What EventsAreLists and DetailsOneByOne say of the file that is parsed.
LEMMA EventsOfFile ==
  ASSUME file \in Files
  PROVE  /\ Len(Events) \in Nat /\ DOMAIN Events = 1..Len(Events)
         /\ After[0] = NoKeys
         /\ \A i \in 1..Len(Events) :
              After[i] = ReadEvent(After[i - 1], Events[i], Zone)
<1>1. Len(Events) \in Nat /\ DOMAIN Events = 1..Len(Events)
  BY EventsAreLists DEF Events
<1> QED BY <1>1, DetailsOneByOne DEF After, Events, Zone

\* No step of the parser makes what it has told of the file wrong.
LEMMA StepTells ==
  ASSUME Told, [ParseNext]_stepVars
  PROVE  Told'
<1>1. /\ file' = file /\ file \in Files /\ turn \in 0..Len(Events)
      /\ Len(Events) \in Nat /\ DOMAIN Events = 1..Len(Events)
  BY EventsOfFile DEF Told, ParseNext, stepVars, LoadText, ParseText, ReadNext, ReadRaises,
     Catch, Publish, QueryCalendar
<1>2. CASE LoadText
  BY <1>1, <1>2 DEF LoadText, Told, EndsAsTold, Events, Zone, After, Unread,
     Raises, Parsed
<1>3. CASE ParseText
  BY <1>1, <1>3 DEF ParseText, Told, EndsAsTold, Events, Zone, After, Unread,
     Raises, Parsed, CalmUntil
<1>4. CASE ReadNext
  <2>1. turn + 1 \in 1..Len(Events) /\ turn' = turn + 1 /\ turn' \in 0..Len(Events)
    BY <1>1, <1>4 DEF ReadNext
  <2>2. dict' = After[turn + 1]
    <3>1. dict = After[turn] /\ (turn + 1) - 1 = turn
      BY <1>1, <1>4 DEF ReadNext, Told
    <3> QED BY <1>1, <1>4, <2>1, <3>1, EventsOfFile DEF ReadNext
  <2>3. CalmUntil(turn + 1)
    <3>1. CalmUntil(turn) /\ ~EventRaises(Events[turn + 1], Zone)
      BY <1>4 DEF ReadNext, Told
    <3> QED BY <1>1, <3>1 DEF CalmUntil
  <2> QED BY <1>1, <1>4, <2>1, <2>2, <2>3
          DEF ReadNext, Told, EndsAsTold, Events, Zone, After, CalmUntil
<1>5. CASE ReadRaises
  <2>1. Raises(file)
    <3>1. turn + 1 \in DOMAIN Events /\ EventRaises(Events[turn + 1], Zone)
      BY <1>1, <1>5 DEF ReadRaises
    <3>2. ~Unread(file)
      BY <1>5 DEF ReadRaises, Told
    <3> QED BY <3>1, <3>2 DEF Raises, Events, Zone
  <2> QED BY <1>1, <1>5, <2>1
          DEF ReadRaises, Catch, Told, EndsAsTold, Events, Raises, Parsed
<1>6. CASE Publish
  <2>1. turn = Len(Events) /\ dict = After[turn] /\ CalmUntil(turn) /\ ~Unread(file)
    BY <1>6 DEF Publish, Told
  <2> QED BY <1>1, <1>6, <2>1
          DEF Publish, Told, EndsAsTold, Events, Zone, After, CalmUntil, Details
<1>7. CASE QueryCalendar
  <2>1. /\ ~Unread(file) /\ shown = "this" /\ dict = Details(file)
        /\ CalmUntil(Len(Events))
    BY <1>7 DEF QueryCalendar, Told
  <2>2. Raises(file) <=> QueryRaises
    BY <1>1, <2>1 DEF Raises, QueryRaises, CalmUntil, Events, Zone
  <2> QED BY <1>1, <1>7, <2>1, <2>2
          DEF QueryCalendar, Catch, Told, EndsAsTold, Events, Parsed
<1>8. CASE UNCHANGED stepVars
  BY <1>8 DEF stepVars, Told, EndsAsTold, Events, Zone, After, CalmUntil
<1> QED BY <1>2, <1>3, <1>4, <1>5, <1>6, <1>7, <1>8 DEF ParseNext

----------------------------------------------------------------------------

\* What is shown under "When" is the text of the two dates that are saved,
\* also after VEVENTs that have one date, none, or dates that cannot be read
\* (RootViewController.m:275-314).
THEOREM TextIsOfDates == ParseSpec => []WhenMatchesDates
<1>1. ParseInit => ParseInv
  BY DEF ParseInit, ParseInv, WhenMatchesDates, Owned, NoKeys
<1>2. ParseInv /\ [ParseNext]_stepVars => ParseInv'
  BY ParseStepKeeps
<1>3. ParseInv => WhenMatchesDates
  BY DEF ParseInv
<1> QED BY <1>1, <1>2, <1>3, PTL DEF ParseSpec

\* Summary, location and description are each that of the last VEVENT that
\* has one (RootViewController.m:192).
THEOREM LastEventDecides == ParseSpec => []LastEventWins
<1>1. ParseInit => LastsOK
  <2> SUFFICES ASSUME ParseInit PROVE LastsOK
    OBVIOUS
  <2>1. turn = 0 /\ dict = NoKeys
    BY DEF ParseInit
  <2>2. ASSUME NEW key \in TextKeys PROVE dict[key] = Nil /\ LastWith(key) = Nil
    <3>1. 1..turn = {}
      BY <2>1
    <3> QED BY <2>1, <3>1 DEF NoKeys, LastWith, TextKeys
  <2> QED BY <2>1, <2>2 DEF LastsOK, LastEventWins, TextKeys
<1>2. ASSUME LastsOK, [ParseNext]_stepVars PROVE LastsOK'
  <2>1. CASE ReadNext
    BY <1>2, <2>1, ReadNextKeepsLasts
  <2>2. CASE UNCHANGED <<file, turn, dict>>
    BY <1>2, <2>2 DEF LastsOK, LastEventWins, LastWith, Events
  <2>3. \/ ReadNext
        \/ UNCHANGED <<file, turn, dict>>
    BY <1>2 DEF ParseNext, stepVars, LoadText, ParseText, ReadRaises, Publish,
                QueryCalendar, Catch
  <2> QED BY <2>1, <2>2, <2>3
<1>3. LastsOK => LastEventWins
  BY DEF LastsOK
<1> QED BY <1>1, <1>2, <1>3, PTL DEF ParseSpec

\* A file that is read to the end leaves the zone and nothing else allocated
\* (RootViewController.m:392).
THEOREM OnlyTheZoneStays == ParseSpec => []TreeIsFreed
<1>1. ParseInit => ParseInv
  BY DEF ParseInit, ParseInv, WhenMatchesDates, Owned, NoKeys
<1>2. ParseInv /\ [ParseNext]_stepVars => ParseInv'
  BY ParseStepKeeps
<1>3. ParseInv => TreeIsFreed
  BY DEF ParseInv, Owned, TreeIsFreed
<1> QED BY <1>1, <1>2, <1>3, PTL DEF ParseSpec

\* The method ends with the details of this file, with none, or with those of
\* the file before exactly as the operators of ICSFile, by which ICSReader takes
\* the whole of it as one step, tell (RootViewController.m:131).
THEOREM ParseEndsAsTold == ParseSpec => []EndsAsTold
<1>1. ParseInit => Told
  <2> SUFFICES ASSUME ParseInit PROVE Told
    OBVIOUS
  <2>1. file \in Files /\ turn = 0 /\ dict = NoKeys /\ pc = "start" /\ shown = "before"
    BY DEF ParseInit
  <2> QED BY <2>1, EventsOfFile DEF Told, EndsAsTold
<1>2. Told /\ [ParseNext]_stepVars => Told'
  BY StepTells
<1>3. Told => EndsAsTold
  BY DEF Told
<1> QED BY <1>1, <1>2, <1>3, PTL DEF ParseSpec
=============================================================================
