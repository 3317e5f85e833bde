-------------------------- MODULE CalendarPromise --------------------------
(***************************************************************************)
(* What the application promises the owner of the calendar, whatever       *)
(* happens to its views, its timers and its process:                       *)
(*                                                                         *)
(*   - only a file that is open is offered, and only what is offered goes  *)
(*     into the event editor;                                              *)
(*   - an entry is written only when the editor is confirmed, one entry,   *)
(*     of the file the editor was filled with;                             *)
(*   - confirming uses up the open file: it is not offered again before it *)
(*     is opened again;                                                    *)
(*   - the entries of others are left alone.                               *)
(***************************************************************************)
EXTENDS FiniteSets

CONSTANTS Nil, Files, Foreign, Copies, Entry(_, _)

VARIABLES
  opened,  \* the file opened last and not saved yet
  offer,   \* the file that can be saved
  draft,   \* the file the event editor was filled with
  cal      \* the calendar

vars == <<opened, offer, draft, cal>>

Init ==
  /\ opened = Nil /\ offer = Nil /\ draft = Nil
  /\ cal \in SUBSET Foreign

\* A file is opened; it may be parsed at once.
Open(f) ==
  /\ opened' = f
  /\ offer' \in {offer, f, Nil}
  /\ UNCHANGED <<draft, cal>>

\* The open file is parsed, or turns out to be broken.
Parse ==
  /\ opened # Nil
  /\ offer' \in {opened, Nil}
  /\ UNCHANGED <<opened, draft, cal>>

Edit ==
  /\ draft = Nil
  /\ offer # Nil
  /\ draft' = offer
  /\ UNCHANGED <<opened, offer, cal>>

Discard ==
  /\ draft # Nil
  /\ draft' = Nil
  /\ UNCHANGED <<opened, offer, cal>>

\* The event store may refuse the entry.
Confirm(written) ==
  /\ draft # Nil
  /\ cal' = cal \cup written
  /\ opened' = Nil /\ offer' = Nil /\ draft' = Nil

\* The process ends; the calendar outlives it.
Quit ==
  /\ opened' = Nil /\ offer' = Nil /\ draft' = Nil
  /\ UNCHANGED cal

Others(entries) ==
  /\ cal' = entries
  /\ UNCHANGED <<opened, offer, draft>>

Next ==
  \/ \E f \in Files : Open(f)
  \/ Parse
  \/ Edit
  \/ Discard
  \/ Confirm({})
  \/ \E c \in Copies : Confirm({Entry(draft, c)})
  \/ Quit
  \/ \E e \in Foreign : Others(cal \cup {e})
  \/ \E e \in cal : Others(cal \ {e})

Spec == Init /\ [][Next]_vars
=============================================================================
