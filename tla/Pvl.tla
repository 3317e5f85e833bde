-------------------------------- MODULE Pvl --------------------------------
(***************************************************************************)
(* The doubly linked list of libical (pvl.c), which holds the properties,  *)
(* parameters and children of every component, the stack of the parser and *)
(* the spans of a span list.                                               *)
(*                                                                         *)
(* One list and its elements on the heap.  An element is an address; next, *)
(* prior and data are the fields of the elements, alive tells which        *)
(* addresses malloc has handed out and free has not taken back, and a new  *)
(* element may get any other address, a freed one included.  Running out   *)
(* of memory is not modelled: the code dereferences the null pointer then. *)
(***************************************************************************)
EXTENDS Integers, FiniteSets, Sequences, SequencesExt

CONSTANTS
  Elem,  \* addresses an element can have; bound: the list holds |Elem| items
  Null,  \* the null pointer
  Data,  \* what the list holds, in the order of the comparison function
  MaxCount \* bound on count, which drifts away from the length

ASSUME NullIsNoElem == Null \notin Elem
ASSUME ElemIsFinite == IsFiniteSet(Elem)
ASSUME DataIsOrdered == Data \subseteq Int

VARIABLES
  alive, next, prior, data,  \* the heap
  head, tail, count, p,      \* struct pvl_list_t
  found,                     \* what the last find or find_next returned
  cursor                     \* e in pvl_clear, Null outside of it

heap == <<alive, next, prior, data>>
vars == <<heap, head, tail, count, p, found, cursor>>

Pointer == Elem \cup {Null}

\* The elements from a first one along a field, until the null pointer or
\* until there are more of them than addresses.
Trail(first, field) ==
  LET follow == [e \in Pointer |-> IF e = Null THEN Null ELSE field[e]]
      at[i \in 0..Cardinality(Elem)] ==
        IF i = 0 THEN first ELSE follow[at[i - 1]]
  IN  at

Walk(first, field) ==
  LET at == Trail(first, field)
  IN  [i \in 1..Cardinality({j \in DOMAIN at : at[j] # Null}) |-> at[i - 1]]

Forward  == Walk(head, next)
Backward == Walk(tail, prior)

Items == LET walk == Forward IN [i \in DOMAIN walk |-> data[walk[i]]]

----------------------------------------------------------------------------
(* Links.  Each operator is the body of a routine without its L->count.    *)

\* pvl_new_element, but for its links.
NewElement(e, d) ==
  /\ e \in Elem \ alive
  /\ alive' = alive \cup {e}
  /\ data' = [data EXCEPT ![e] = d]

\* Mutant: the new head does not lead on to the old one.
LinkFrontLosesRest(e, d) ==
  /\ NewElement(e, d)
  /\ next' = [next EXCEPT ![e] = Null]
  /\ prior' = [prior EXCEPT ![e] = Null]
  /\ head' = e
  /\ tail' = IF tail = Null THEN e ELSE tail

\* pvl_unshift.
LinkFront(e, d) ==
  /\ NewElement(e, d)
  /\ next' = [next EXCEPT ![e] = head]
  /\ prior' = [x \in Elem |-> IF x = e THEN Null
                              ELSE IF x = head THEN e ELSE prior[x]]
  /\ head' = e
  /\ tail' = IF tail = Null THEN e ELSE tail

\* pvl_push.
LinkBack(e, d) ==
  /\ NewElement(e, d)
  /\ prior' = [prior EXCEPT ![e] = tail]
  /\ next' = [x \in Elem |-> IF x = e THEN Null
                             ELSE IF x = tail THEN e ELSE next[x]]
  /\ head' = IF head = Null THEN e ELSE head
  /\ tail' = e

\* pvl_insert_after an element: its successor, if any, gets a new prior.
LinkAfter(at, e, d) ==
  /\ NewElement(e, d)
  /\ next' = [next EXCEPT ![e] = IF at = tail THEN Null ELSE next[at],
                          ![at] = e]
  /\ prior' = [x \in Elem |-> IF x = e THEN at
                              ELSE IF at # tail /\ x = next[at] THEN e
                              ELSE prior[x]]
  /\ tail' = IF at = tail THEN e ELSE tail
  /\ UNCHANGED head

\* Mutant: the element before still leads to the one after.
LinkBeforeSkipped(at, e, d) ==
  /\ NewElement(e, d)
  /\ prior' = [prior EXCEPT ![e] = IF at = head THEN Null ELSE prior[at],
                            ![at] = e]
  /\ next' = [next EXCEPT ![e] = at]
  /\ head' = IF at = head THEN e ELSE head
  /\ UNCHANGED tail

\* pvl_insert_before an element.
LinkBefore(at, e, d) ==
  /\ NewElement(e, d)
  /\ prior' = [prior EXCEPT ![e] = IF at = head THEN Null ELSE prior[at],
                            ![at] = e]
  /\ next' = [x \in Elem |-> IF x = e THEN at
                             ELSE IF at # head /\ x = prior[at] THEN e
                             ELSE next[x]]
  /\ head' = IF at = head THEN e ELSE head
  /\ UNCHANGED tail

\* pvl_remove: the fields of the element are cleared before it is freed.
Unlink(e) ==
  /\ alive' = alive \ {e}
  /\ data' = [data EXCEPT ![e] = Null]
  /\ next' = [x \in Elem |-> IF x = e THEN Null
                             ELSE IF e # head /\ x = prior[e] THEN next[e]
                             ELSE next[x]]
  /\ prior' = [x \in Elem |-> IF x = e THEN Null
                              ELSE IF (e = head \/ e # tail) /\ x = next[e]
                                     THEN IF e = head THEN Null ELSE prior[e]
                              ELSE prior[x]]
  /\ head' = IF e = head THEN next[e] ELSE head
  /\ tail' = IF e = head THEN IF next[e] = Null THEN Null ELSE tail
             ELSE IF e = tail THEN prior[e] ELSE tail

----------------------------------------------------------------------------
(* Routines.                                                               *)

Idle == cursor = Null

\* pvl_newlist.
Init ==
  /\ alive = {}
  /\ next = [e \in Elem |-> Null]
  /\ prior = [e \in Elem |-> Null]
  /\ data = [e \in Elem |-> Null]
  /\ head = Null /\ tail = Null /\ count = 0 /\ p = Null
  /\ found = Null
  /\ cursor = Null

\* Mutant: count is set before it is known how many.
AddsNone(n) ==
  /\ Idle
  /\ count + n <= MaxCount
  /\ count' = count + n - 1
  /\ UNCHANGED <<p, found, cursor>>

\* L->count++, once or twice.
Adds(n) ==
  /\ Idle
  /\ count + n <= MaxCount
  /\ count' = count + n
  /\ UNCHANGED <<p, found, cursor>>

Unshift(d) == Adds(1) /\ \E e \in Elem : LinkFront(e, d)

Push(d) == Adds(1) /\ \E e \in Elem : LinkBack(e, d)

InsertAfter(at, d) ==
  /\ Adds(1)
  /\ at \in alive
  /\ \E e \in Elem : LinkAfter(at, e, d)

InsertBefore(at, d) ==
  /\ Adds(1)
  /\ at \in alive
  /\ \E e \in Elem : LinkBefore(at, e, d)

\* Without a place the item is added to the front, and counted by
\* pvl_unshift once more.
InsertNowhere(d) == Adds(2) /\ \E e \in Elem : LinkFront(e, d)

\* The loops from the head that stop at the first element of a set.
IsFirst(at, elements) ==
  \E i \in DOMAIN Forward :
    Forward[i] = at /\ \A j \in 1..i - 1 : Forward[j] \notin elements

NotSmaller(d) == {e \in alive : data[e] >= d}

BelongsFirst(d) == IF head = Null THEN TRUE ELSE d <= data[head]

BelongsLast(d) == IF tail = Null THEN FALSE ELSE d >= data[tail]

\* The item is counted here and in the routine that links it.
InsertOrdered(d) ==
  /\ Adds(2)
  /\ \/ /\ BelongsFirst(d)
        /\ \E e \in Elem : LinkFront(e, d)
     \/ /\ ~BelongsFirst(d) /\ BelongsLast(d)
        /\ \E e \in Elem : LinkBack(e, d)
     \/ /\ ~BelongsFirst(d) /\ ~BelongsLast(d)
        /\ \E at \in NotSmaller(d) :
             /\ IsFirst(at, NotSmaller(d))
             /\ \E e \in Elem : LinkBefore(at, e, d)

RemoveElem(e) ==
  /\ Idle
  /\ e \in alive
  /\ Unlink(e)
  /\ count' = count - 1
  /\ UNCHANGED <<p, found, cursor>>

Shift == head # Null /\ RemoveElem(head)

Pop == tail # Null /\ RemoveElem(tail)

Matching(v) == {e \in alive : data[e] = v}

\* The loop of pvl_find and of pvl_find_next: both start at the head.
FindFirst(v) ==
  /\ Idle
  /\ \/ /\ Matching(v) = {}
        /\ found' = Null
        /\ UNCHANGED p
     \/ \E e \in Matching(v) :
          /\ IsFirst(e, Matching(v))
          /\ found' = e
          /\ p' = e
  /\ UNCHANGED <<heap, head, tail, count, cursor>>

Find(v) == FindFirst(v)

FindNext(v) == FindFirst(v)

\* pvl_clear removes one element after the other, reading the next pointer
\* before it frees the element.
ClearBegins ==
  /\ Idle
  /\ head # Null
  /\ cursor' = head
  /\ UNCHANGED <<heap, head, tail, count, p, found>>

ClearContinues ==
  /\ cursor # Null
  /\ cursor' = next[cursor]
  /\ Unlink(cursor)
  /\ count' = count - 1
  /\ UNCHANGED <<p, found>>

Next ==
  \/ \E d \in Data : \/ Unshift(d) \/ Push(d)
                     \/ InsertNowhere(d) \/ InsertOrdered(d)
                     \/ Find(d) \/ FindNext(d)
  \/ \E at \in alive, d \in Data : InsertAfter(at, d) \/ InsertBefore(at, d)
  \/ \E e \in alive : RemoveElem(e)
  \/ Shift \/ Pop
  \/ ClearBegins \/ ClearContinues

Spec == Init /\ [][Next]_vars

----------------------------------------------------------------------------
(* Properties.                                                             *)

\* Every variable has its type.
TypeOK ==
  /\ alive \subseteq Elem
  /\ next \in [Elem -> Pointer]
  /\ prior \in [Elem -> Pointer]
  /\ data \in [Elem -> Data \cup {Null}]
  /\ head \in Pointer /\ tail \in Pointer
  /\ count \in Int
  /\ p \in Pointer /\ found \in Pointer /\ cursor \in Pointer

\* No pointer of the list leads to a freed element, and next and prior are
\* inverse to each other, whatever was inserted and removed where.
Linked ==
  \A e \in alive :
    /\ next[e] # Null => next[e] \in alive /\ prior[next[e]] = e
    /\ prior[e] # Null => prior[e] \in alive /\ next[prior[e]] = e

\* The head is the one element without a prior, the tail the one without a
\* next, and an empty list has neither.
EndsMatch ==
  /\ head # Null => head \in alive
  /\ tail # Null => tail \in alive
  /\ \A e \in alive : (prior[e] = Null <=> e = head)
                      /\ (next[e] = Null <=> e = tail)
  /\ head = Null <=> tail = Null

\* Every element that is not freed is reached, from both ends and in
\* opposite orders: nothing leaks, and nothing runs in circles.
AllReached ==
  /\ ToSet(Forward) = alive /\ Len(Forward) = Cardinality(alive)
  /\ Backward = Reverse(Forward)

\* pvl_count never says that the list is shorter than it is.
CountNeverShort == count >= Cardinality(alive)

\* The cursor of pvl_clear is never left on an element that is gone.
ClearFollowsHead == cursor # Null => cursor = head

Sorted ==
  LET items == Items
  IN  \A i \in 1..Len(items) - 1 : items[i] <= items[i + 1]

\* pvl_insert_ordered leaves an ordered list ordered.
KeepsOrder ==
  [][(\E d \in Data : InsertOrdered(d)) /\ Sorted => Sorted']_vars

\* The items of the list are those of an ItemList.
List == INSTANCE ItemList WITH list <- Items
ImplementsItemList == List!Spec

----------------------------------------------------------------------------
(* What the comments of pvl.c say of it.                                   *)

\* "Returns the number of items in the list."
CountIsLength == count = Len(Forward)

PositionOf(e) == IF e \in alive THEN CHOOSE i \in DOMAIN Forward : Forward[i] = e
                 ELSE 0

\* "continues the search where the last find() or find_next() left off":
\* what it finds comes after what was found before.
FindNextContinues ==
  [][(\E v \in Data : FindNext(v)) /\ p \in alive /\ found' # Null
       => PositionOf(found') > PositionOf(p)]_vars
=============================================================================
