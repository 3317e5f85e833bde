----------------------------- MODULE ItemList ------------------------------
(***************************************************************************)
(* What pvl.h promises: a list of items to which one item is added or from *)
(* which one is taken at a time, while all others stay and keep their      *)
(* order.                                                                  *)
(***************************************************************************)
EXTENDS Integers, Sequences, SequencesExt

CONSTANT Data

VARIABLE list

Init == list = <<>>

Insert(d) == \E i \in 1..Len(list) + 1 : list' = InsertAt(list, i, d)

Take == \E i \in 1..Len(list) : list' = RemoveAt(list, i)

Next == Take \/ \E d \in Data : Insert(d)

Spec == Init /\ [][Next]_list
=============================================================================
