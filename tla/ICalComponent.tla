---------------------------- MODULE ICalComponent ----------------------------
(***************************************************************************)
(* The component tree of libical (icalcomponent.c): calendars and what     *)
(* they hold, the iterator inside each calendar, the array of time zones   *)
(* kept beside the list, and the three loops that remove children while    *)
(* they visit them: the two of UsingLibical 5.2.4 and the merging of two   *)
(* calendars.                                                              *)
(*                                                                         *)
(* The library runs in its caller's thread.  Between the calls of a loop   *)
(* nothing else happens; a call is one step, but each turn of the merge is *)
(* a step of its own, for its iterator is the subject.  Properties are     *)
(* constants of a component: its kind, the TZID it has (a VTIMEZONE) or    *)
(* refers to (any other), and the rules of a VTIMEZONE, which stand for    *)
(* its text without the TZID.  They do not change while it is in a         *)
(* calendar.  The list itself is the subject of Pvl; here it is a sequence.*)
(***************************************************************************)
EXTENDS Integers, FiniteSets, Sequences, SequencesExt

CONSTANTS
  Cals,   \* VCALENDARs
  Kids,   \* what goes into them; it has no children of its own here
  Nil,
  Kind,   \* of each kid: "VTIMEZONE" or another
  Tzid,   \* of each kid: a number, in the order of strcmp, or Nil
  Rules   \* of each VTIMEZONE

ASSUME CalsAndKids == Cals \cap Kids = {} /\ Nil \notin Cals \cup Kids
ASSUME TzidsAreOrdered == \A c \in Kids : Tzid[c] \in Nat \cup {Nil}

Comp == Cals \cup Kids
IsZone(c) == Kind[c] = "VTIMEZONE"
Titled(c) == IsZone(c) /\ Tzid[c] # Nil
Kinds == {Kind[c] : c \in Kids} \cup {"ANY"}
Of(kind, c) == kind = "ANY" \/ Kind[c] = kind

VARIABLES
  comp,  \* the components: parent, children, component_iterator, timezones
  job    \* the loop that is running and the local variables of its function

vars == <<comp, job>>

Gone == [alive |-> FALSE, parent |-> Nil, kids |-> <<>>, cursor |-> Nil,
         zones |-> <<>>, sorted |-> TRUE]
New  == [Gone EXCEPT !.alive = TRUE]

Idle == [op |-> "none"]

----------------------------------------------------------------------------
(* The iterator.  A position is the child it is on, or Nil past the end.   *)

FirstFrom(list, i, kind) ==
  LET found == {j \in i..Len(list) : Of(kind, list[j])}
  IN  IF found = {} THEN Nil ELSE list[Min(found)]

PositionOf(list, c) == CHOOSE i \in DOMAIN list : list[i] = c

Without(list, c) == RemoveAt(list, PositionOf(list, c))

First(h, p, kind) == FirstFrom(h[p].kids, 1, kind)

After(h, p, c, kind) ==
  IF c = Nil THEN Nil
  ELSE FirstFrom(h[p].kids, PositionOf(h[p].kids, c) + 1, kind)

Moved(h, p, c) == [h EXCEPT ![p].cursor = c]

----------------------------------------------------------------------------
(* Adding, removing, freeing: what each does to the heap.                  *)

\* Mutant: the array is taken to be sorted still.
AddComponentSorted(h, p, c) ==
  [h EXCEPT ![c].parent = p,
            ![p].kids  = IF IsZone(c) THEN <<c>> \o @ ELSE Append(@, c),
            ![p].zones = IF Titled(c) THEN Append(@, c) ELSE @]

\* icalcomponent_add_component: zones go first and are listed in the array.
AddComponent(h, p, c) ==
  [h EXCEPT ![c].parent = p,
            ![p].kids   = IF IsZone(c) THEN <<c>> \o @ ELSE Append(@, c),
            ![p].zones  = IF Titled(c) THEN Append(@, c) ELSE @,
            ![p].sorted = @ /\ ~IsZone(c)]

\* icalcomponent_free: nothing as long as there is a parent, else the
\* children, and the components of what the array lists besides them.
FreeComponent(h, c) ==
  IF h[c].parent # Nil THEN h
  ELSE LET listed == {z \in ToSet(h[c].zones) : h[z].parent = Nil}
           freed == {c} \cup ToSet(h[c].kids) \cup listed
       IN  [d \in Comp |-> IF d \in freed THEN Gone ELSE h[d]]

\* Mutant: the zone of a removed VTIMEZONE stays in the array.
DropZoneForgets(h, p, c) == h

\* icaltimezone_free and icalarray_remove_element_at, for a listed zone.
DropZone(h, p, c) ==
  IF c \in ToSet(h[p].zones)
    THEN [FreeComponent(h, c) EXCEPT ![p].zones = Without(@, c)]
    ELSE h

\* The end of icalcomponent_remove_component: an iterator on the child goes
\* on to the next one.
Unlist(h, p, c) ==
  [h EXCEPT ![p].cursor = IF @ = c THEN After(h, p, c, "ANY") ELSE @,
            ![p].kids = Without(@, c), ![c].parent = Nil]

\* Mutant: the zone is freed when the child has no parent any more.
RemoveComponentFirst(h, p, c) == DropZone(Unlist(h, p, c), p, c)

\* icalcomponent_remove_component of a child.
RemoveComponent(h, p, c) == Unlist(DropZone(h, p, c), p, c)

----------------------------------------------------------------------------
(* The array of zones.                                                     *)

Ordered(zones) ==
  \A i, j \in DOMAIN zones : i < j => Tzid[zones[i]] <= Tzid[zones[j]]

\* The heaps the sorting in icalcomponent_get_timezone may lead to: qsort
\* leaves equal elements in any order.
Sorted(h, p) ==
  IF h[p].sorted THEN {h}
  ELSE {[h EXCEPT ![p].zones = s, ![p].sorted = TRUE] :
          s \in {t \in SetToSeqs(ToSet(h[p].zones)) : Ordered(t)}}

\* The binary search of icalcomponent_get_timezone: what one turn of its loop
\* makes of the bounds, when it is not over; and where it is after each turn.
Probe(zones, id, at) ==
  LET middle == (at.lower + at.upper) \div 2
      z == zones[middle + 1]
  IN  IF at.lower >= at.upper THEN at
      ELSE IF Tzid[z] = id THEN [at EXCEPT !.upper = at.lower, !.zone = z]
      ELSE IF id < Tzid[z] THEN [at EXCEPT !.upper = middle]
      ELSE [at EXCEPT !.lower = middle + 1]

Probes(zones, id) ==
  LET turn[i \in 0..Len(zones)] ==
        IF i = 0 THEN [lower |-> 0, upper |-> Len(zones), zone |-> Nil]
                 ELSE Probe(zones, id, turn[i - 1])
  IN  turn

FindZone(zones, id) == Probes(zones, id)[Len(zones)].zone

----------------------------------------------------------------------------
(* Single calls of a client.  It adds only what has no parent, for all     *)
(* else is an ICAL_USAGE_ERROR; it frees what it likes.                    *)

Init == comp = [c \in Comp |-> Gone] /\ job = Idle

Call == job = Idle /\ UNCHANGED job

Create(c) == Call /\ ~comp[c].alive /\ comp' = [comp EXCEPT ![c] = New]

Add(p, c) ==
  /\ Call
  /\ comp[p].alive /\ comp[c].alive /\ comp[c].parent = Nil
  /\ comp' = AddComponent(comp, p, c)

RemoveKid(p, c) ==
  /\ Call
  /\ comp[c].parent = p
  /\ comp' = RemoveComponent(comp, p, c)

Free(c) == Call /\ comp[c].alive /\ comp' = FreeComponent(comp, c)

GetFirst(p, kind) ==
  Call /\ comp[p].alive /\ comp' = Moved(comp, p, First(comp, p, kind))

GetNext(p, kind) ==
  /\ Call
  /\ comp[p].alive
  /\ comp' = Moved(comp, p, After(comp, p, comp[p].cursor, kind))

GetTimezone(p) == Call /\ comp[p].alive /\ comp' \in Sorted(comp, p)

----------------------------------------------------------------------------
(* The loops of UsingLibical 5.2.4.                                        *)

\* for (c = get_first; c; c = next) { next = get_next; remove c; }
AheadBegins(p, kind) ==
  /\ job = Idle /\ comp[p].alive
  /\ job' = [op |-> "ahead", in |-> p, kind |-> kind,
             sub |-> First(comp, p, kind)]
  /\ comp' = Moved(comp, p, First(comp, p, kind))

AheadGoesOn ==
  /\ job.op = "ahead" /\ job.sub # Nil
  /\ LET next == After(comp, job.in, comp[job.in].cursor, job.kind)
     IN  /\ comp' = RemoveComponent(Moved(comp, job.in, next),
                                    job.in, job.sub)
         /\ job' = [job EXCEPT !.sub = next]

\* get_first; while (c = get_current) if of the kind, remove it; else
\* get_next.
CurrentBegins(p, kind) ==
  /\ job = Idle /\ comp[p].alive
  /\ job' = [op |-> "current", in |-> p, kind |-> kind]
  /\ comp' = Moved(comp, p, First(comp, p, kind))

\* Mutant: get_next is called after a removal too.
CurrentGoesOnTwice ==
  /\ job.op = "current" /\ comp[job.in].cursor # Nil
  /\ LET c == comp[job.in].cursor
         h == IF Of(job.kind, c) THEN RemoveComponent(comp, job.in, c)
                                 ELSE comp
     IN  comp' = Moved(h, job.in,
                       After(h, job.in, h[job.in].cursor, job.kind))
  /\ UNCHANGED job

CurrentGoesOn ==
  /\ job.op = "current" /\ comp[job.in].cursor # Nil
  /\ LET c == comp[job.in].cursor
     IN  comp' = IF Of(job.kind, c)
                   THEN RemoveComponent(comp, job.in, c)
                   ELSE Moved(comp, job.in, After(comp, job.in, c, job.kind))
  /\ UNCHANGED job

LoopOver == \/ job.op = "ahead" /\ job.sub = Nil
            \/ job.op = "current" /\ comp[job.in].cursor = Nil

LoopEnds == LoopOver /\ job' = Idle /\ UNCHANGED comp

----------------------------------------------------------------------------
(* icalcomponent_merge_component.                                          *)

MergeBegins(p, q) ==
  /\ job = Idle /\ comp[p].alive /\ comp[q].alive /\ p # q
  /\ job' = [op |-> "zones", into |-> p, in |-> q,
             sub |-> First(comp, q, "VTIMEZONE")]
  /\ comp' = Moved(comp, q, First(comp, q, "VTIMEZONE"))

\* The iterator of the emptied calendar is put ahead of the current child.
Ahead(kind) == After(comp, job.in, comp[job.in].cursor, kind)
SteppedAhead(kind) == Moved(comp, job.in, Ahead(kind))

Transfer(h, c) == AddComponent(RemoveComponent(h, job.in, c), job.into, c)

\* Mutant: the iterator is moved when the child has gone already.
MergeZoneLate ==
  /\ job.op = "zones" /\ job.sub # Nil
  /\ \E h \in Sorted(comp, job.into) :
       LET moves == /\ Tzid[job.sub] # Nil
                    /\ FindZone(h[job.into].zones, Tzid[job.sub]) = Nil
           done == IF moves THEN Transfer(h, job.sub) ELSE h
           next == After(done, job.in, done[job.in].cursor, "VTIMEZONE")
       IN  /\ comp' = Moved(done, job.in, next)
           /\ job' = [job EXCEPT !.sub = next]

\* icalcomponent_merge_vtimezone: a zone whose TZID is new moves over.  For
\* any other the comparison is made with the calendar instead of its zone,
\* finds no TZID there, and its answer -1 is read as "the same".
MergeZone ==
  /\ job.op = "zones" /\ job.sub # Nil
  /\ IF Tzid[job.sub] = Nil
       THEN comp' = SteppedAhead("VTIMEZONE")
       ELSE \E h \in Sorted(SteppedAhead("VTIMEZONE"), job.into) :
              comp' = IF FindZone(h[job.into].zones, Tzid[job.sub]) = Nil
                        THEN Transfer(h, job.sub) ELSE h
  /\ job' = [job EXCEPT !.sub = Ahead("VTIMEZONE")]

MergeTurns ==
  /\ job.op = "zones" /\ job.sub = Nil
  /\ comp' = Moved(comp, job.in, First(comp, job.in, "ANY"))
  /\ job' = [job EXCEPT !.op = "rest", !.sub = First(comp, job.in, "ANY")]

MergeRest ==
  /\ job.op = "rest" /\ job.sub # Nil
  /\ comp' = IF IsZone(job.sub) THEN SteppedAhead("ANY")
             ELSE Transfer(SteppedAhead("ANY"), job.sub)
  /\ job' = [job EXCEPT !.sub = Ahead("ANY")]

MergeEnds ==
  /\ job.op = "rest" /\ job.sub = Nil
  /\ comp' = FreeComponent(comp, job.in)
  /\ job' = Idle

----------------------------------------------------------------------------

GoesOn == \/ AheadGoesOn \/ CurrentGoesOn \/ LoopEnds
          \/ MergeZone \/ MergeTurns \/ MergeRest \/ MergeEnds

Next ==
  \/ \E c \in Comp : Create(c) \/ Free(c)
  \/ \E p \in Cals, c \in Kids : Add(p, c) \/ RemoveKid(p, c)
  \/ \E p \in Cals, kind \in Kinds :
       GetFirst(p, kind) \/ GetNext(p, kind)
         \/ AheadBegins(p, kind) \/ CurrentBegins(p, kind)
  \/ \E p \in Cals : GetTimezone(p)
  \/ \E p, q \in Cals : MergeBegins(p, q)
  \/ GoesOn

Spec == Init /\ [][Next]_vars

----------------------------------------------------------------------------
(* Properties.                                                             *)

TypeOK ==
  /\ comp \in [Comp -> [alive : BOOLEAN, parent : Cals \cup {Nil},
                        kids : Seq(Kids), cursor : Kids \cup {Nil},
                        zones : Seq(Kids), sorted : BOOLEAN]]
  /\ job.op \in {"none", "ahead", "current", "zones", "rest"}

\* Every component is listed by its parent and by no other, once, and what
\* is listed has not been freed, its parent neither: with the removal of a
\* VTIMEZONE, which frees its zone and through it, but for the parent that
\* is still set, the component, with every loop, and with a merge.
OneOwner ==
  /\ \A p \in Cals : IsInjective(comp[p].kids)
  /\ \A p \in Cals, c \in Kids :
       c \in ToSet(comp[p].kids) <=> comp[c].parent = p
  /\ \A c \in Kids :
       comp[c].parent # Nil => comp[c].alive /\ comp[comp[c].parent].alive

\* The iterator inside a calendar is on one of its children or past the
\* end, whatever is removed under it.
CursorOnChild ==
  \A p \in Cals : comp[p].cursor \in ToSet(comp[p].kids) \cup {Nil}

\* "VTIMEZONES should be first in the resulting VCALENDAR", also after
\* removals and merges.
ZonesFirst ==
  \A p \in Cals : LET kids == comp[p].kids
                  IN  \A i, j \in DOMAIN kids :
                        i < j /\ IsZone(kids[j]) => IsZone(kids[i])

\* The array beside the list has one entry for each VTIMEZONE child with a
\* TZID and no other: an entry too many is a component freed twice, one too
\* few a zone that no lookup finds.
ArrayMatchesList ==
  \A p \in Cals : /\ IsInjective(comp[p].zones)
                  /\ ToSet(comp[p].zones) =
                       {c \in ToSet(comp[p].kids) : Titled(c)}

\* A lookup, which trusts the flag timezones_sorted, finds a zone exactly
\* when a child has the TZID, and one of that name.
LookupFinds ==
  \A p \in Cals, id \in {Tzid[c] : c \in Kids} \ {Nil} :
    \A h \in Sorted(comp, p) :
      LET z == FindZone(h[p].zones, id)
      IN  IF \E c \in ToSet(comp[p].kids) : Titled(c) /\ Tzid[c] = id
            THEN z # Nil /\ Tzid[z] = id ELSE z = Nil

\* Both loops of the documentation remove all children of the kind.
LoopRemovesAll ==
  LoopOver => \A c \in ToSet(comp[job.in].kids) : ~Of(job.kind, c)

\* What a merge leaves behind, and frees, are VTIMEZONEs that nothing can
\* refer to or whose TZID the other calendar has.
MergeLosesNothing ==
  job.op = "rest" /\ job.sub = Nil =>
    \A c \in ToSet(comp[job.in].kids) :
      /\ IsZone(c)
      /\ Titled(c) => \E z \in ToSet(comp[job.into].kids) :
                        Titled(z) /\ Tzid[z] = Tzid[c]

\* Children from the iterator of the loop's calendar on.
Left(h, p) == IF h[p].cursor = Nil THEN 0
              ELSE Len(h[p].kids) - PositionOf(h[p].kids, h[p].cursor) + 1

\* Every turn of a loop leaves fewer children to visit, so none goes round
\* for ever or meets a child twice, although children are taken out in
\* front of the iterator, under it and behind it.
LoopsAdvance ==
  [][job # Idle /\ job'.op = job.op
       => Left(comp', job.in) < Left(comp, job.in)]_vars

\* A VTIMEZONE is left behind only if the calendar has the same one, for a
\* different one is renamed ("resolving any problems with conflicting
\* TZIDs").
ConflictsAreResolved ==
  job.op = "rest" /\ job.sub = Nil =>
    \A c \in ToSet(comp[job.in].kids) :
      Titled(c) => \E z \in ToSet(comp[job.into].kids) :
                     Titled(z) /\ Tzid[z] = Tzid[c] /\ Rules[z] = Rules[c]
=============================================================================
