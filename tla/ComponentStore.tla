---------------------------- MODULE ComponentStore ----------------------------
(***************************************************************************)
(* What a calendar file under a lock promises those who open it to write:  *)
(* one at a time, each starts from what the one before has left, a save    *)
(* stores exactly what the writer has, and nothing else changes the file   *)
(* but a save that is cut short.                                           *)
(***************************************************************************)
EXTENDS Naturals, Sequences

CONSTANTS
  Writers,    \* those who may open the file to write
  Components, \* what it can have
  Closed      \* the view of one who does not have it open

VARIABLES
  stored, \* the components in the file, in their order
  view,   \* what each writer has of them, changed or not
  faults  \* how many saves were cut short

vars == <<stored, view, faults>>

Contents == Seq(Components)
Has(w) == view[w] # Closed

Init == stored \in Contents /\ view = [w \in Writers |-> Closed] /\ faults = 0

Open(w) ==
  /\ \A v \in Writers : ~Has(v)
  /\ view' = [view EXCEPT ![w] = stored]
  /\ UNCHANGED <<stored, faults>>

Change(w) ==
  /\ Has(w)
  /\ view'[w] \in Contents /\ view' = [view EXCEPT ![w] = view'[w]]
  /\ UNCHANGED <<stored, faults>>

Save(w) == Has(w) /\ stored' = view[w] /\ UNCHANGED <<view, faults>>

Close(w) == Has(w) /\ view' = [view EXCEPT ![w] = Closed] /\ UNCHANGED <<stored, faults>>

\* A save that fails, or a crash, which closes the file too.
Fault(w) ==
  /\ Has(w)
  /\ faults' = faults + 1
  /\ stored' \in Contents
  /\ view' \in {view, [view EXCEPT ![w] = Closed]}

Next == \E w \in Writers : Open(w) \/ Change(w) \/ Save(w) \/ Close(w) \/ Fault(w)

Spec == Init /\ [][Next]_vars
=============================================================================
