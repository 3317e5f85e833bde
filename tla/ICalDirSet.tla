------------------------------ MODULE ICalDirSet ------------------------------
(***************************************************************************)
(* Sets that keep components in a directory with a file for each month     *)
(* (icaldirset.c, icalcluster.c).  A set has the components of one month   *)
(* in memory, its cluster, reads another when it adds or visits one of     *)
(* another month, and writes the cluster when it is told to commit.        *)
(*                                                                         *)
(* How a file is written is ICalFileSet; here reading and writing one is   *)
(* a step.  Components with the same UID are the same component.           *)
(***************************************************************************)
EXTENDS Integers, Sequences, SequencesExt, FiniteSets

CONSTANTS
  Sets,    \* icaldirsets on the same directory, each in a process
  Comps,   \* components that have a DTSTAMP or a DTSTART
  Months,  \* file names
  MonthOf, \* the month of a component's date
  Gauges,  \* the sets of components that pass a gauge
  Null     \* no cluster, no component, no file

ASSUME EachHasAMonth == MonthOf \in [Comps -> Months]
ASSUME MonthsAreFinite == IsFiniteSet(Months)
ASSUME NullIsNothing == Null \notin Months \cup Comps \cup Seq(Comps)
ASSUME GaugesPassComponents == Gauges \subseteq SUBSET Comps

VARIABLES
  files, \* what is in each file, Null when there is none
  set,   \* the sets: see Fresh
  tour   \* history: what a visit of all components has returned so far

vars == <<files, set, tour>>

Fresh == [
  key    |-> Null,  \* the month of the cluster
  comps  |-> <<>>,  \* its components
  marked |-> FALSE, \* its changed flag
  cursor |-> 0,     \* its internal iterator, 0 when null
  dir    |-> <<>>,  \* directory: the files there were
  at     |-> 0,     \* directory_iterator, 0 when null
  gauge  |-> Comps, \* what passes the gauge
  first  |-> FALSE] \* first_component

NoTour == [due |-> {}, seen |-> <<>>, gauge |-> {}, full |-> FALSE]

Names == {m \in Months : files[m] # Null}
OnDisk(m) == IF files[m] = Null THEN <<>> ELSE files[m]

----------------------------------------------------------------------------
(* Parts of the operations: from a set to the set after it.                *)

Without(s) == [s EXCEPT !.key = Null, !.comps = <<>>, !.marked = FALSE, !.cursor = 0]

\* icalfileset_produce_icalcluster, after the old cluster was freed.
Load(s, m) == [Without(s) EXCEPT !.key = m, !.comps = OnDisk(m)]

\* icalcluster_get_first_component and _get_next_component.
FirstOf(s) == [s EXCEPT !.cursor = IF s.comps = <<>> THEN 0 ELSE 1]
NextOf(s) ==
  [s EXCEPT !.cursor = IF @ = 0 \/ @ = Len(s.comps) THEN 0 ELSE @ + 1]

Current(s) == IF s.cursor = 0 THEN Null ELSE s.comps[s.cursor]

\* Mutant: the next file is not the one after this.
SkipCluster(s) ==
  LET next == IF s.at + 2 > Len(s.dir) THEN 0 ELSE s.at + 2 IN
  CASE s.at = 0 -> s
    [] s.at # 0 /\ next = 0 -> [Without(s) EXCEPT !.at = 0]
    [] OTHER -> [Load(s, s.dir[next]) EXCEPT !.at = next]

\* icaldirset_next_cluster.  Without a directory_iterator it fails.
NextCluster(s) ==
  LET next == IF s.at = Len(s.dir) THEN 0 ELSE s.at + 1 IN
  CASE s.at = 0 -> s
    [] s.at # 0 /\ next = 0 -> [Without(s) EXCEPT !.at = 0]
    [] OTHER -> [Load(s, s.dir[next]) EXCEPT !.at = next]

\* Where next_cluster found one, its first component; it is not put to the gauge.
FirstOfNext(s) ==
  LET n == NextCluster(s) IN IF s.at # 0 /\ n.key # Null THEN FirstOf(n) ELSE n

\* icaldirset_get_next_component.
NextComponent(s) ==
  LET from == IF s.first THEN FirstOf([s EXCEPT !.first = FALSE]) ELSE NextOf(s)
      here == {i \in DOMAIN s.comps :
                 from.cursor # 0 /\ i >= from.cursor /\ s.comps[i] \in s.gauge}
      none == [from EXCEPT !.cursor = 0]
  IN  IF s.key = Null THEN s
      ELSE IF here = {} THEN FirstOfNext(none)
      ELSE [from EXCEPT !.cursor = CHOOSE i \in here : \A j \in here : i <= j]

\* icaldirset_get_first_component, the directory read in this order.
FirstComponent(s, dir) ==
  LET read == [s EXCEPT !.dir = dir, !.at = IF dir = <<>> THEN 0 ELSE 1]
      load == IF s.key = dir[1] THEN read ELSE Load(read, dir[1])
  IN  IF dir = <<>> THEN read ELSE NextComponent([load EXCEPT !.first = TRUE])

----------------------------------------------------------------------------
Init ==
  /\ files \in [Months -> {Null}]
  /\ set = [d \in Sets |-> Fresh]
  /\ tour = [d \in Sets |-> NoTour]

\* A change that no tour of this set goes on after.
Becomes(d, s) ==
  /\ set' = [set EXCEPT ![d] = s]
  /\ tour' = [tour EXCEPT ![d] = NoTour]
  /\ UNCHANGED files

\* What is in a file or a cluster.  Assumed of the callers: nobody adds such a
\* component again; the code does not look for another of its UID.
Known ==
  (UNION {Range(OnDisk(m)) : m \in Months}) \cup (UNION {Range(set[d].comps) : d \in Sets})

\* Mutant: the cluster in memory is taken for that of any month.
AddAnywhere(d, c) ==
  LET s == set[d]
      load == IF s.key # Null THEN s ELSE Load(s, MonthOf[c])
  IN  /\ c \notin Known
      /\ Becomes(d, [load EXCEPT !.comps = Append(@, c), !.marked = TRUE])

\* icaldirset_add_component.  A cluster of another month is freed as it is.
Add(d, c) ==
  LET s == set[d]
      load == IF s.key = MonthOf[c] THEN s ELSE Load(s, MonthOf[c])
  IN  /\ c \notin Known
      /\ Becomes(d, [load EXCEPT !.comps = Append(@, c), !.marked = TRUE])

\* icalcomponent_remove_component moves the iterator off what it removes.
Cursor(s, i) ==
  CASE s.cursor = i -> IF i = Len(s.comps) THEN 0 ELSE i
    [] s.cursor > i -> s.cursor - 1
    [] s.cursor < i -> s.cursor

\* Mutant: a removal does not mark.
RemoveUnmarked(d, i) ==
  LET s == set[d]
      left == [s EXCEPT !.comps = RemoveAt(@, i), !.cursor = Cursor(s, i)]
  IN  Becomes(d, IF left.comps = <<>> THEN FirstOfNext(left) ELSE left)

\* icaldirset_remove_component of one in the cluster.  When it was the last,
\* the next cluster replaces the empty one.
RemoveOne(d, i) ==
  LET s == set[d]
      left == [s EXCEPT !.comps = RemoveAt(@, i), !.cursor = Cursor(s, i), !.marked = TRUE]
  IN  Becomes(d, IF left.comps = <<>> THEN FirstOfNext(left) ELSE left)

Mark(d) == set[d].key # Null /\ Becomes(d, [set[d] EXCEPT !.marked = TRUE])

Select(d, g) == Becomes(d, [set[d] EXCEPT !.gauge = g])

\* icaldirset_commit: an icalfileset takes a clone of the cluster and writes it;
\* the cluster stays marked.  Without a cluster there is no name to open.
Commit(d) ==
  /\ set[d].key # Null
  /\ files' = [files EXCEPT ![set[d].key] = set[d].comps]
  /\ UNCHANGED <<set, tour>>

\* icaldirset_fetch, a visit with a gauge of its own that ends at its first.
Fetch(d, c, dir) ==
  Becomes(d, [FirstComponent([set[d] EXCEPT !.gauge = {c}], dir)
              EXCEPT !.gauge = set[d].gauge])

\* icaldirset_free, and a set made anew.
FreeAndNew(d) == Becomes(d, Fresh)

\* The first component of a visit, null if there is no file, and what the
\* visit should return.
Start(d, dir) ==
  LET s == FirstComponent(set[d], dir)
      In(m) == IF m = set[d].key /\ m = dir[1] THEN Range(set[d].comps)
                                               ELSE Range(OnDisk(m))
  IN  /\ set' = [set EXCEPT ![d] = s]
      /\ tour' = [tour EXCEPT ![d] =
           [due |-> s.gauge \cap UNION {In(m) : m \in Range(dir)},
            seen |-> <<IF dir = <<>> THEN Null ELSE Current(s)>>,
            gauge |-> s.gauge,
            full |-> \A m \in Range(dir) : In(m) # {}]]
      /\ UNCHANGED files

\* icaldirset_get_current_component, which starts a visit when there is no cluster.
Look(d, dir) == set[d].key = Null /\ Start(d, dir)

Continue(d) ==
  LET s == NextComponent(set[d])
      seen == tour[d].seen
  IN  /\ set' = [set EXCEPT ![d] = s]
      /\ tour' = [tour EXCEPT ![d].seen =
                    IF seen = <<>> \/ Last(seen) = Null THEN @ ELSE Append(@, Current(s))]
      /\ UNCHANGED files

Next ==
  \E d \in Sets :
    \/ \E c \in Comps : Add(d, c)
    \/ \E i \in DOMAIN set[d].comps : RemoveOne(d, i)
    \/ Mark(d) \/ Commit(d) \/ FreeAndNew(d)
    \/ \E g \in Gauges : Select(d, g)
    \/ \E dir \in SetToSeqs(Names) : Start(d, dir) \/ Look(d, dir) \/ \E c \in Comps : Fetch(d, c, dir)
    \/ Continue(d)

Spec == Init /\ [][Next]_vars

----------------------------------------------------------------------------
(* Properties.                                                             *)

\* A component is in the file, and in the cluster, of its month, while its set
\* goes from cluster to cluster.  The run has one set; the theorem FiledByMonth
\* says it of any number that have the directory open.
InItsMonth ==
  /\ \A m \in Months : \A c \in Range(OnDisk(m)) : MonthOf[c] = m
  /\ \A d \in Sets : \A c \in Range(set[d].comps) : MonthOf[c] = set[d].key

\* A visit that nothing disturbs and that meets no empty file returns every
\* component it should, and none of them twice, before it returns null.
VisitMissesNothing ==
  \A d \in Sets :
    LET seen == tour[d].seen IN
    /\ \A i, j \in DOMAIN seen : seen[i] = seen[j] /\ seen[i] \in tour[d].due => i = j
    /\ tour[d].full /\ seen # <<>> /\ Last(seen) = Null => tour[d].due \subseteq Range(seen)

\* The cluster of the only set differs from its file only when it is marked:
\* icalcluster_is_changed never misses a change.
UnmarkedIsSaved ==
  \A d \in Sets : set[d].key # Null /\ ~set[d].marked => set[d].comps = OnDisk(set[d].key)

\* "If a gauge has been defined, these will skip over components that do not
\* pass the gauge" (icaldirset.h:77).
GaugeIsHonoured ==
  \A d \in Sets : Range(tour[d].seen) \subseteq tour[d].gauge \cup {Null}
=============================================================================
