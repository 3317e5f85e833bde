-------------------------- MODULE ICalDirSetProofs --------------------------
(***************************************************************************)
(* For any number of sets, months and components: a component is in the    *)
(* file of its month and in no other, whichever sets have the directory    *)
(* open; and a set that has the directory for itself differs from its      *)
(* files only while it is marked, and its visits return what they should.  *)
(*                                                                         *)
(* The first two need not know where the iterator of a cluster is, which   *)
(* is untyped there.                                                       *)
(***************************************************************************)
EXTENDS ICalDirSet, Induction, FiniteSetTheorems, SequenceTheorems, TLAPS

\* A set with anything as its iterator.
SetOK(s) ==
  /\ s \in [key : Months \cup {Null}, comps : Seq(Comps), marked : BOOLEAN,
            cursor : {s.cursor}, dir : Seq(Months), at : Nat,
            gauge : {s.gauge}, first : BOOLEAN]
  /\ s.at <= Len(s.dir)

\* Its components are of its month.
Filed(s) == \A c \in Range(s.comps) : MonthOf[c] = s.key

\* It differs from its file only when it is marked.
Saved(s) == s.key # Null /\ ~s.marked => s.comps = OnDisk(s.key)

\* Every file has components of its month.
FilesOK ==
  /\ files \in [Months -> Seq(Comps) \cup {Null}]
  /\ \A m \in Months : \A c \in Range(OnDisk(m)) : MonthOf[c] = m

\* Every set is one.
SetsOK == /\ DOMAIN set = Sets
          /\ \A d \in Sets : SetOK(set[d]) /\ Filed(set[d])

\* The inductive invariant of the months.
IInv == FilesOK /\ SetsOK

\* What every operation makes of a set.
Good(s) == SetOK(s) /\ Filed(s)

----------------------------------------------------------------------------
(* Sequences.                                                              *)

\* Removing leaves elements of the sequence.
LEMMA RemovalLeaves ==
  ASSUME NEW S, NEW q \in Seq(S), NEW i \in DOMAIN q
  PROVE  /\ RemoveAt(q, i) \in Seq(S)
         /\ Range(RemoveAt(q, i)) \subseteq Range(q)
<1>1. PICK n, r : n = Len(q) /\ r = RemoveAt(q, i)
  OBVIOUS
<1>2. n \in Nat /\ i \in 1..Len(q) /\ i \in 1..n /\ DOMAIN q = 1..n
  BY <1>1
<1>3. /\ r \in Seq(S) /\ Len(r) = n - 1
      /\ \A j \in 1..n - 1 : r[j] = IF j < i THEN q[j] ELSE q[j + 1]
  BY <1>1, <1>2, RemoveAtProperties
<1>4. DOMAIN r = 1..n - 1
  BY <1>3
<1>5. \A j \in 1..n - 1 : j \in 1..n /\ j + 1 \in 1..n
  BY <1>2
<1>6. Range(r) \subseteq Range(q)
  BY <1>2, <1>3, <1>4, <1>5 DEF Range
<1> QED BY <1>1, <1>3, <1>6

\* Appending adds one element.
LEMMA AppendAdds ==
  ASSUME NEW S, NEW q \in Seq(S), NEW e \in S
  PROVE  /\ Append(q, e) \in Seq(S)
         /\ Range(Append(q, e)) = Range(q) \cup {e}
<1>1. Append(q, e) \in Seq(S) /\ Len(Append(q, e)) = Len(q) + 1
  OBVIOUS
<1>2. \A j \in 1..Len(q) : Append(q, e)[j] = q[j]
  OBVIOUS
<1>3. Append(q, e)[Len(q) + 1] = e
  OBVIOUS
<1>4. DOMAIN q = 1..Len(q) /\ DOMAIN Append(q, e) = 1..(Len(q) + 1) /\ Len(q) \in Nat
  BY <1>1
<1>5. Range(Append(q, e)) \subseteq Range(q) \cup {e}
  BY <1>2, <1>3, <1>4 DEF Range
<1>6. Range(q) \cup {e} \subseteq Range(Append(q, e))
  <2>1. e \in Range(Append(q, e))
    BY <1>3, <1>4 DEF Range
  <2>2. ASSUME NEW j \in DOMAIN q PROVE q[j] \in Range(Append(q, e))
    <3>1. j \in DOMAIN Append(q, e) /\ Append(q, e)[j] = q[j]
      BY <1>2, <1>4
    <3> QED BY <3>1 DEF Range
  <2> QED BY <2>1, <2>2 DEF Range
<1> QED BY <1>1, <1>5, <1>6

\* A listing of the directory is a sequence of months.
LEMMA ListingOfMonths ==
  ASSUME NEW dir \in SetToSeqs(Names)
  PROVE  dir \in Seq(Months)
<1>1. Names \subseteq Months /\ IsFiniteSet(Names)
  BY MonthsAreFinite, FS_Subset DEF Names
<1>2. Cardinality(Names) \in Nat
  BY <1>1, FS_CardinalityType
<1>3. dir \in [1..Cardinality(Names) -> Names]
  BY DEF SetToSeqs
<1> QED BY <1>1, <1>2, <1>3

----------------------------------------------------------------------------
(* Parts of the operations.                                                *)

\* Moving the iterator, or marking, changes nothing that matters.
LEMMA CursorKeeps ==
  ASSUME NEW s, Good(s), NEW k
  PROVE  LET t == [s EXCEPT !.cursor = k]
         IN  Good(t) /\ (Saved(s) => Saved(t))
BY DEF Good, SetOK, Filed, Saved

\* Nor does it matter whether the next is the first.
LEMMA FirstKeeps ==
  ASSUME NEW s, Good(s), NEW b \in BOOLEAN
  PROVE  LET t == [s EXCEPT !.first = b]
         IN  Good(t) /\ (Saved(s) => Saved(t))
BY DEF Good, SetOK, Filed, Saved

\* The gauge is not looked at here.
LEMMA GaugeKeeps ==
  ASSUME NEW s, Good(s), NEW g
  PROVE  LET t == [s EXCEPT !.gauge = g]
         IN  Good(t) /\ (Saved(s) => Saved(t))
BY DEF Good, SetOK, Filed, Saved

\* To the first component of the cluster,
LEMMA FirstOfKeeps ==
  ASSUME NEW s, Good(s)
  PROVE  Good(FirstOf(s)) /\ (Saved(s) => Saved(FirstOf(s)))
BY CursorKeeps DEF FirstOf

\* or to the next.
LEMMA NextOfKeeps ==
  ASSUME NEW s, Good(s)
  PROVE  Good(NextOf(s)) /\ (Saved(s) => Saved(NextOf(s)))
BY CursorKeeps DEF NextOf

\* A set without a cluster.
LEMMA WithoutIsGood ==
  ASSUME NEW s, SetOK(s)
  PROVE  Good(Without(s)) /\ Saved(Without(s)) /\ Without(s).at = s.at /\ Without(s).dir = s.dir
<1>1. Range(<<>>) = {} /\ <<>> \in Seq(Comps)
  BY DEF Range
<1> QED BY <1>1 DEF Good, SetOK, Filed, Saved, Without

\* The cluster as its file has it.
LEMMA LoadIsGood ==
  ASSUME NEW s, SetOK(s), NEW m \in Months, FilesOK
  PROVE  /\ Good(Load(s, m)) /\ Saved(Load(s, m))
         /\ Load(s, m).at = s.at /\ Load(s, m).dir = s.dir /\ Load(s, m).key = m
<1>1. OnDisk(m) \in Seq(Comps)
  BY DEF FilesOK, OnDisk
<1>2. SetOK(Without(s)) /\ Without(s).at = s.at /\ Without(s).dir = s.dir
  BY WithoutIsGood DEF Good
<1> QED BY <1>1, <1>2 DEF Good, SetOK, Filed, Saved, Load, FilesOK

\* The iterator over the directory stays in it.
LEMMA AtKeeps ==
  ASSUME NEW s, Good(s), NEW n \in 0..Len(s.dir)
  PROVE  LET t == [s EXCEPT !.at = n]
         IN  Good(t) /\ (Saved(s) => Saved(t))
BY DEF Good, SetOK, Filed, Saved

\* The next cluster is of the month its name says.
LEMMA NextClusterIsGood ==
  ASSUME NEW s, Good(s), FilesOK
  PROVE  Good(NextCluster(s)) /\ (Saved(s) => Saved(NextCluster(s)))
<1>1. SetOK(s) /\ s.at \in Nat /\ s.dir \in Seq(Months) /\ s.at <= Len(s.dir)
  BY DEF Good, SetOK
<1>2. CASE s.at = 0
  BY <1>2 DEF NextCluster
<1>3. CASE s.at # 0 /\ s.at = Len(s.dir)
  <2>1. NextCluster(s) = [Without(s) EXCEPT !.at = 0]
    BY <1>3 DEF NextCluster
  <2>2. 0 \in 0..Len(Without(s).dir)
    BY <1>1, WithoutIsGood
  <2> QED BY <1>1, <2>1, <2>2, WithoutIsGood, AtKeeps
<1>4. CASE s.at # 0 /\ s.at # Len(s.dir)
  <2>1. s.at + 1 \in 1..Len(s.dir) /\ s.at + 1 # 0
    BY <1>1, <1>4
  <2>2. s.dir[s.at + 1] \in Months
    BY <1>1, <2>1
  <2>3. NextCluster(s) = [Load(s, s.dir[s.at + 1]) EXCEPT !.at = s.at + 1]
    BY <1>4, <2>1 DEF NextCluster
  <2>4. s.at + 1 \in 0..Len(Load(s, s.dir[s.at + 1]).dir)
    BY <1>1, <2>1, <2>2, LoadIsGood
  <2> QED BY <1>1, <2>2, <2>3, <2>4, LoadIsGood, AtKeeps
<1> QED BY <1>2, <1>3, <1>4

\* And with the iterator on its first component.
LEMMA FirstOfNextIsGood ==
  ASSUME NEW s, Good(s), FilesOK
  PROVE  Good(FirstOfNext(s)) /\ (Saved(s) => Saved(FirstOfNext(s)))
BY NextClusterIsGood, FirstOfKeeps DEF FirstOfNext

\* A visit goes on: the cluster of the set, or the next one.
LEMMA NextComponentIsGood ==
  ASSUME NEW s, Good(s), FilesOK
  PROVE  Good(NextComponent(s)) /\ (Saved(s) => Saved(NextComponent(s)))
<1> DEFINE from == IF s.first THEN FirstOf([s EXCEPT !.first = FALSE]) ELSE NextOf(s)
<1>1. Good(from) /\ (Saved(s) => Saved(from))
  BY FirstKeeps, FirstOfKeeps, NextOfKeeps
<1> DEFINE none == [from EXCEPT !.cursor = 0]
<1>2. Good(none) /\ (Saved(s) => Saved(none))
  BY <1>1, CursorKeeps
<1>3. Good(FirstOfNext(none)) /\ (Saved(s) => Saved(FirstOfNext(none)))
  BY <1>2, FirstOfNextIsGood
<1> HIDE DEF from
<1>4. \A k : LET t == [from EXCEPT !.cursor = k] IN Good(t) /\ (Saved(s) => Saved(t))
  BY <1>1, CursorKeeps
<1>5. NextComponent(s) \in {s, FirstOfNext(none)} \/ \E k : NextComponent(s) = [from EXCEPT !.cursor = k]
  BY DEF NextComponent, from
<1> QED BY <1>3, <1>4, <1>5

\* A visit begins with the first month that was listed.
LEMMA FirstComponentIsGood ==
  ASSUME NEW s, Good(s), FilesOK, NEW dir \in Seq(Months)
  PROVE  /\ Good(FirstComponent(s, dir))
         /\ Saved(s) => Saved(FirstComponent(s, dir))
<1> DEFINE n    == IF dir = <<>> THEN 0 ELSE 1
           read == [s EXCEPT !.dir = dir, !.at = n]
           load == IF s.key = dir[1] THEN read ELSE Load(read, dir[1])
<1>1. n \in Nat /\ n <= Len(dir)
  OBVIOUS
<1> HIDE DEF n
<1>2. Good(read) /\ (Saved(s) => Saved(read)) /\ read.key = s.key
  BY <1>1 DEF Good, SetOK, Filed, Saved
<1> HIDE DEF read
<1>3. CASE dir = <<>>
  <2>1. FirstComponent(s, dir) = read
    BY <1>3 DEF FirstComponent, read, n
  <2> QED BY <1>2, <2>1
<1>4. CASE dir # <<>>
  <2>1. dir[1] \in Months
    BY <1>4
  <2>2. Good(load) /\ (Saved(s) => Saved(load))
    BY <1>2, <2>1, LoadIsGood DEF Good
  <2> HIDE DEF load
  <2>3. /\ Good([load EXCEPT !.first = TRUE])
        /\ Saved(s) => Saved([load EXCEPT !.first = TRUE])
    BY <2>2, FirstKeeps
  <2>4. FirstComponent(s, dir) = NextComponent([load EXCEPT !.first = TRUE])
    BY <1>4 DEF FirstComponent, load, read, n
  <2> QED BY <2>3, <2>4, NextComponentIsGood
<1> QED BY <1>3, <1>4

\* What an addition leaves is good, and marked.
LEMMA AdditionIsGood ==
  ASSUME NEW s, Good(s), FilesOK, NEW c \in Comps
  PROVE  LET load == IF s.key = MonthOf[c] THEN s ELSE Load(s, MonthOf[c])
             t    == [load EXCEPT !.comps = Append(@, c), !.marked = TRUE]
         IN  Good(t) /\ Saved(t)
<1> DEFINE load == IF s.key = MonthOf[c] THEN s ELSE Load(s, MonthOf[c])
<1>1. MonthOf[c] \in Months
  BY EachHasAMonth
<1>2. Good(load) /\ load.key = MonthOf[c]
  BY <1>1, LoadIsGood DEF Good
<1> HIDE DEF load
<1>3. load.comps \in Seq(Comps)
  BY <1>2 DEF Good, SetOK
<1> DEFINE more == Append(load.comps, c)
<1>4. more \in Seq(Comps) /\ Range(more) = Range(load.comps) \cup {c}
  BY <1>3, AppendAdds
<1> HIDE DEF more
<1>5. LET t == [load EXCEPT !.comps = more, !.marked = TRUE] IN Good(t) /\ Saved(t)
  BY <1>2, <1>4 DEF Good, SetOK, Filed, Saved
<1> QED BY <1>5 DEF more, load

\* So is what a removal leaves.
LEMMA RemovalIsGood ==
  ASSUME NEW s, Good(s), NEW i \in DOMAIN s.comps, NEW k
  PROVE  LET t == [s EXCEPT !.comps = RemoveAt(@, i), !.cursor = k, !.marked = TRUE]
         IN  Good(t) /\ Saved(t)
<1>1. s.comps \in Seq(Comps)
  BY DEF Good, SetOK
<1> DEFINE less == RemoveAt(s.comps, i)
<1>2. less \in Seq(Comps) /\ Range(less) \subseteq Range(s.comps)
  BY <1>1, RemovalLeaves
<1> HIDE DEF less
<1>3. LET t == [s EXCEPT !.comps = less, !.cursor = k, !.marked = TRUE]
      IN  Good(t) /\ Saved(t)
  BY <1>2 DEF Good, SetOK, Filed, Saved
<1> QED BY <1>3 DEF less

\* A mark is never wrong.
LEMMA MarkIsGood ==
  ASSUME NEW s, Good(s)
  PROVE  LET t == [s EXCEPT !.marked = TRUE] IN Good(t) /\ Saved(t)
BY DEF Good, SetOK, Filed, Saved

\* A new set has nothing.
LEMMA FreshIsGood == Good(Fresh) /\ Saved(Fresh)
<1>1. Range(<<>>) = {} /\ <<>> \in Seq(Comps) /\ <<>> \in Seq(Months) /\ Len(<<>>) = 0
  BY DEF Range
<1> QED BY <1>1 DEF Good, SetOK, Filed, Saved, Fresh

----------------------------------------------------------------------------
(* Steps.                                                                  *)

\* No other set is on the directory.
Alone == \A d, e \in Sets : d = e

\* A step that makes one set a good one and leaves the files alone.
Replaces(d, t) ==
  /\ set' = [set EXCEPT ![d] = t]
  /\ UNCHANGED files
  /\ Good(t)
  /\ Saved(set[d]) => Saved(t)

\* Such a step keeps the invariant, and what is saved.
LEMMA ReplacingKeeps ==
  ASSUME IInv, NEW d \in Sets, NEW t, Replaces(d, t)
  PROVE  IInv' /\ (UnmarkedIsSaved => UnmarkedIsSaved')
<1>1. FilesOK'
  BY DEF IInv, FilesOK, Replaces, OnDisk
<1>2. DOMAIN set' = Sets /\ set'[d] = t /\ \A e \in Sets \ {d} : set'[e] = set[e]
  BY DEF IInv, SetsOK, Replaces
<1>3. \A e \in Sets : Good(set'[e])
  BY <1>2 DEF IInv, SetsOK, Replaces, Good
<1>4. SetsOK'
  BY <1>2, <1>3 DEF SetsOK, Good, SetOK, Filed
<1>5. ASSUME UnmarkedIsSaved PROVE UnmarkedIsSaved'
  <2>1. \A e \in Sets : Saved(set'[e])
    BY <1>2, <1>5 DEF UnmarkedIsSaved, Saved, Replaces
  <2> QED BY <2>1 DEF UnmarkedIsSaved, Saved, Replaces, OnDisk
<1> QED BY <1>1, <1>4, <1>5 DEF IInv

\* A commit writes the components of its month.
LEMMA CommitKeeps ==
  ASSUME IInv, NEW d \in Sets, Commit(d)
  PROVE  IInv' /\ (Alone => UnmarkedIsSaved')
<1> DEFINE s == set[d]
<1>1. Good(s) /\ s.key \in Months /\ s.comps \in Seq(Comps)
  BY DEF IInv, SetsOK, Good, SetOK, Commit
<1>2. /\ DOMAIN files' = Months /\ files'[s.key] = s.comps
      /\ \A m \in Months \ {s.key} : files'[m] = files[m]
      /\ files' \in [Months -> Seq(Comps) \cup {Null}]
  BY <1>1 DEF Commit, IInv, FilesOK
<1>3. s.comps # Null
  BY <1>1, NullIsNothing
<1>4. /\ OnDisk(s.key)' = s.comps
      /\ \A m \in Months \ {s.key} : OnDisk(m)' = OnDisk(m)
  BY <1>2, <1>3 DEF OnDisk, Commit
<1>5. FilesOK'
  <2>1. ASSUME NEW m \in Months, NEW c \in Range(OnDisk(m)') PROVE MonthOf[c] = m
    <3>1. CASE m = s.key
      BY <1>1, <1>2, <1>3, <2>1, <3>1 DEF Good, Filed, OnDisk
    <3>2. CASE m # s.key
      BY <1>2, <2>1, <3>2 DEF IInv, FilesOK, OnDisk
    <3> QED BY <3>1, <3>2
  <2> QED BY <1>2, <2>1 DEF FilesOK
<1>6. SetsOK'
  BY DEF Commit, IInv, SetsOK, SetOK, Filed
<1>7. ASSUME Alone PROVE UnmarkedIsSaved'
  BY <1>2, <1>3, <1>7 DEF UnmarkedIsSaved, Alone, OnDisk, Commit
<1> QED BY <1>5, <1>6, <1>7 DEF IInv

\* Every step does.
LEMMA StepKeeps ==
  ASSUME IInv, [Next]_vars
  PROVE  IInv' /\ (Alone /\ UnmarkedIsSaved => UnmarkedIsSaved')
<1>1. ASSUME NEW d \in Sets, NEW t, Replaces(d, t)
      PROVE  IInv' /\ (Alone /\ UnmarkedIsSaved => UnmarkedIsSaved')
  BY <1>1, ReplacingKeeps
<1>2. ASSUME NEW d \in Sets PROVE Good(set[d])
  BY <1>2 DEF IInv, SetsOK, Good
<1>3. FilesOK
  BY DEF IInv
<1>4. ASSUME NEW d \in Sets, NEW c \in Comps, Add(d, c)
      PROVE  \E t : Replaces(d, t)
  BY <1>2, <1>3, <1>4, AdditionIsGood DEF Add, Becomes, Replaces
<1>5. ASSUME NEW d \in Sets, NEW i \in DOMAIN set[d].comps, RemoveOne(d, i)
      PROVE  \E t : Replaces(d, t)
  <2> DEFINE left == [set[d] EXCEPT !.comps = RemoveAt(@, i),
                                    !.cursor = Cursor(set[d], i), !.marked = TRUE]
  <2>1. Good(left) /\ Saved(left)
    BY <1>2, RemovalIsGood
  <2>2. Good(FirstOfNext(left)) /\ Saved(FirstOfNext(left))
    BY <1>3, <2>1, FirstOfNextIsGood
  <2>3. Becomes(d, IF left.comps = <<>> THEN FirstOfNext(left) ELSE left)
    BY <1>5 DEF RemoveOne
  <2> HIDE DEF left
  <2> QED BY <2>1, <2>2, <2>3 DEF Becomes, Replaces
<1>6. ASSUME NEW d \in Sets, Mark(d) PROVE \E t : Replaces(d, t)
  BY <1>2, <1>6, MarkIsGood DEF Mark, Becomes, Replaces
<1>7. ASSUME NEW d \in Sets, FreeAndNew(d) PROVE \E t : Replaces(d, t)
  BY <1>7, FreshIsGood DEF FreeAndNew, Becomes, Replaces
<1>8. ASSUME NEW d \in Sets, NEW g \in Gauges, Select(d, g) PROVE \E t : Replaces(d, t)
  BY <1>2, <1>8, GaugeKeeps DEF Select, Becomes, Replaces
<1>9. ASSUME NEW d \in Sets, NEW dir \in SetToSeqs(Names), Start(d, dir)
      PROVE  \E t : Replaces(d, t)
  BY <1>2, <1>3, <1>9, ListingOfMonths, FirstComponentIsGood DEF Start, Replaces
<1>10. ASSUME NEW d \in Sets, NEW dir \in SetToSeqs(Names), NEW c \in Comps, Fetch(d, c, dir)
       PROVE  \E t : Replaces(d, t)
  <2> DEFINE s == [set[d] EXCEPT !.gauge = {c}]
             t == [FirstComponent(s, dir) EXCEPT !.gauge = set[d].gauge]
  <2>1. Good(s) /\ (Saved(set[d]) => Saved(s))
    BY <1>2, GaugeKeeps
  <2>2. Good(FirstComponent(s, dir)) /\ (Saved(s) => Saved(FirstComponent(s, dir)))
    BY <1>3, <2>1, ListingOfMonths, FirstComponentIsGood
  <2>3. Good(t) /\ (Saved(set[d]) => Saved(t))
    BY <2>1, <2>2, GaugeKeeps
  <2>4. Becomes(d, t)
    BY <1>10 DEF Fetch
  <2> HIDE DEF t
  <2> QED BY <2>3, <2>4 DEF Becomes, Replaces
<1>11. ASSUME NEW d \in Sets, Continue(d) PROVE \E t : Replaces(d, t)
  BY <1>2, <1>3, <1>11, NextComponentIsGood DEF Continue, Replaces
<1>12. CASE UNCHANGED vars
  BY <1>12 DEF vars, IInv, FilesOK, SetsOK, SetOK, Filed, OnDisk, UnmarkedIsSaved
<1>13. CASE Next
  <2>1. PICK d \in Sets : \/ \E c \in Comps : Add(d, c)
                          \/ \E i \in DOMAIN set[d].comps : RemoveOne(d, i)
                          \/ Mark(d) \/ Commit(d) \/ FreeAndNew(d)
                          \/ \E g \in Gauges : Select(d, g)
                          \/ \E dir \in SetToSeqs(Names) :
                               Start(d, dir) \/ \E c \in Comps : Fetch(d, c, dir)
                          \/ Continue(d)
    BY <1>13 DEF Next, Look
  <2>2. Commit(d) \/ \E t : Replaces(d, t)
    BY <2>1, <1>4, <1>5, <1>6, <1>7, <1>8, <1>9, <1>10, <1>11
  <2> QED BY <2>2, <1>1, CommitKeeps
<1> QED BY <1>12, <1>13

----------------------------------------------------------------------------

\* A component is in the file, and in the cluster, of its month, whichever
\* sets have the directory open (icaldirset.c:422, icaldirset.c:358).
THEOREM FiledByMonth == Spec => []InItsMonth
<1>1. Init => IInv
  <2>1. Init => FilesOK
    <3>1. Range(<<>>) = {}
      BY DEF Range
    <3> QED BY <3>1 DEF Init, FilesOK, OnDisk
  <2>2. Init => SetsOK
    BY FreshIsGood DEF Init, SetsOK, Good
  <2> QED BY <2>1, <2>2 DEF IInv
<1>2. IInv /\ [Next]_vars => IInv'
  BY StepKeeps
<1>3. IInv => InItsMonth
  BY DEF IInv, FilesOK, SetsOK, Filed, InItsMonth
<1> QED BY <1>1, <1>2, <1>3, PTL DEF Spec

\* A set that has the directory for itself differs from its files only while
\* it is marked (icaldirset.c:475, icaldirset.c:507).
THEOREM AloneUnmarkedIsSaved ==
  ASSUME Alone
  PROVE  Spec => []UnmarkedIsSaved
<1>1. Init => IInv /\ UnmarkedIsSaved
  <2>1. Init => FilesOK
    <3>1. Range(<<>>) = {}
      BY DEF Range
    <3> QED BY <3>1 DEF Init, FilesOK, OnDisk
  <2>2. Init => SetsOK
    BY FreshIsGood DEF Init, SetsOK, Good
  <2>3. Init => UnmarkedIsSaved
    BY DEF Init, UnmarkedIsSaved, Fresh
  <2> QED BY <2>1, <2>2, <2>3 DEF IInv
<1>2. IInv /\ UnmarkedIsSaved /\ [Next]_vars => IInv' /\ UnmarkedIsSaved'
  BY StepKeeps
<1> QED BY <1>1, <1>2, PTL DEF Spec

----------------------------------------------------------------------------
(* What a visit has behind it and ahead of it.                             *)

\* What a visit has still to find when it has had p components of the cluster.
Ahead(s, p, c) ==
  \/ \E i \in p + 1 .. Len(s.comps) : s.comps[i] = c
  \/ \E j \in s.at + 1 .. Len(s.dir) : c \in Range(OnDisk(s.dir[j]))

\* What it has passed.
Behind(s, p, c) ==
  \/ \E j \in 1 .. s.at - 1 : MonthOf[c] = s.dir[j]
  \/ \E i \in 1 .. p : s.comps[i] = c

\* A visit that goes on.
Pending(s, p, due, seen, full) ==
  /\ s.at \in 1 .. Len(s.dir) /\ s.key = s.dir[s.at] /\ p \in 0 .. Len(s.comps)
  /\ IsInjective(s.dir) /\ IsInjective(s.comps)
  /\ due \subseteq s.gauge /\ due \subseteq Comps
  /\ seen \in Seq(Comps) /\ IsInjective(seen)
  /\ \A c \in due : c \in Range(seen) \/ Ahead(s, p, c)
  /\ \A c \in Range(seen) : Behind(s, p, c)
  /\ full => \A j \in s.at + 1 .. Len(s.dir) : OnDisk(s.dir[j]) # <<>>

\* One that has returned null.
Over(due, seen, full) ==
  /\ seen # <<>> /\ Last(seen) = Null
  /\ \A i, j \in DOMAIN seen : seen[i] = seen[j] /\ seen[i] \in due => i = j
  /\ full => due \subseteq Range(seen)

\* A visit of a set: one with nothing to return, one that is over, or one that goes on.
Visiting(s, due, seen, full) ==
  \/ due = {}
  \/ Over(due, seen, full)
  \/ /\ Pending(s, s.cursor, due, seen, full)
     /\ s.cursor # 0 /\ ~s.first /\ seen # <<>>

\* The same cluster, directory and gauge.
Alike(u, s) ==
  /\ u.key = s.key /\ u.comps = s.comps /\ u.dir = s.dir /\ u.at = s.at /\ u.gauge = s.gauge

\* The set a visit goes on from.
From(s) == IF s.first THEN FirstOf([s EXCEPT !.first = FALSE]) ELSE NextOf(s)

\* It goes on behind the p components of the cluster that it has had.
LEMMA FromIs ==
  ASSUME NEW s, Good(s), NEW p \in 0 .. Len(s.comps), s.first => p = 0, ~s.first => p = s.cursor /\ p # 0
  PROVE  /\ Good(From(s)) /\ Alike(From(s), s) /\ From(s).first = FALSE
         /\ From(s).cursor = IF p = Len(s.comps) THEN 0 ELSE p + 1
<1>1. Good(From(s))
  BY FirstKeeps, FirstOfKeeps, NextOfKeeps DEF From
<1>2. s.comps \in Seq(Comps) /\ s.first \in BOOLEAN
  BY DEF Good, SetOK
<1>3. CASE s.first
  <2>1. PICK q : q = [s EXCEPT !.first = FALSE]
    OBVIOUS
  <2>2. q.first = FALSE /\ Alike(q, s) /\ Good(q)
    BY <2>1, FirstKeeps DEF Good, SetOK, Alike
  <2>3. From(s) = [q EXCEPT !.cursor = IF q.comps = <<>> THEN 0 ELSE 1]
    BY <1>3, <2>1 DEF From, FirstOf
  <2>4. Alike(From(s), s) /\ From(s).first = FALSE /\ From(s).cursor = IF q.comps = <<>> THEN 0 ELSE 1
    BY <2>2, <2>3 DEF Good, SetOK, Alike
  <2>5. p = 0 /\ q.comps = s.comps /\ (q.comps = <<>> <=> Len(s.comps) = 0)
    BY <1>2, <1>3, <2>2, EmptySeq DEF Alike
  <2> QED BY <1>1, <1>2, <2>4, <2>5
<1>4. CASE ~s.first
  <2>1. From(s) = [s EXCEPT !.cursor = IF s.cursor = 0 \/ s.cursor = Len(s.comps) THEN 0 ELSE s.cursor + 1]
    BY <1>4 DEF From, NextOf
  <2> QED BY <1>1, <1>2, <1>4, <2>1 DEF Good, SetOK, Alike
<1> QED BY <1>2, <1>3, <1>4

\* Where the components that pass the gauge are.
Here(s, from) == {i \in DOMAIN s.comps : from.cursor # 0 /\ i >= from.cursor /\ s.comps[i] \in s.gauge}

\* icaldirset_get_next_component, in these terms.
LEMMA NextIs ==
  ASSUME NEW s, s.key # Null, NEW from, from = From(s), NEW here, here = Here(s, from)
  PROVE  NextComponent(s) = IF here = {} THEN FirstOfNext([from EXCEPT !.cursor = 0])
                            ELSE [from EXCEPT !.cursor = CHOOSE i \in here : \A j \in here : i <= j]
BY DEF NextComponent, From, Here

\* What the next cluster is.
LEMMA NextClusterIs ==
  ASSUME NEW s, Good(s), FilesOK, s.at # 0, NEW u, u = FirstOfNext(s)
  PROVE  /\ s.at = Len(s.dir) => u.key = Null /\ u.cursor = 0 /\ u.comps = <<>>
         /\ s.at # Len(s.dir) => /\ u.at = s.at + 1 /\ u.dir = s.dir /\ u.key = s.dir[s.at + 1]
                                 /\ u.comps = OnDisk(s.dir[s.at + 1])
                                 /\ u.cursor = IF u.comps = <<>> THEN 0 ELSE 1
                                 /\ u.first = s.first
         /\ u.gauge = s.gauge
<1>1. SetOK(s) /\ s.at \in Nat /\ s.dir \in Seq(Months) /\ s.at <= Len(s.dir)
  BY DEF Good, SetOK
<1>2. PICK n : n = NextCluster(s)
  OBVIOUS
<1>3. CASE s.at = Len(s.dir)
  <2>1. n = [Without(s) EXCEPT !.at = 0]
    BY <1>2, <1>3 DEF NextCluster
  <2>2. n.key = Null /\ n.cursor = 0 /\ n.comps = <<>> /\ n.gauge = s.gauge
    BY <1>1, <2>1 DEF SetOK, Without
  <2>3. u = n
    BY <1>2, <2>2 DEF FirstOfNext
  <2> QED BY <1>3, <2>2, <2>3
<1>4. CASE s.at # Len(s.dir)
  <2>1. s.at + 1 \in 1..Len(s.dir) /\ s.at + 1 # 0
    BY <1>1, <1>4
  <2>2. PICK m : m = s.dir[s.at + 1] /\ m \in Months
    BY <1>1, <2>1
  <2>3. n = [Load(s, m) EXCEPT !.at = s.at + 1]
    BY <1>2, <1>4, <2>1, <2>2 DEF NextCluster
  <2>4. /\ n.at = s.at + 1 /\ n.dir = s.dir /\ n.key = m /\ n.comps = OnDisk(m)
        /\ n.gauge = s.gauge /\ n.first = s.first /\ n.cursor = 0
        /\ Good(n)
    <3>1. Good(n)
      BY <1>2, NextClusterIsGood
    <3> QED BY <1>1, <2>3, <3>1 DEF SetOK, Load, Without
  <2>5. n.key # Null
    BY <2>2, <2>4, NullIsNothing
  <2>6. u = [n EXCEPT !.cursor = IF n.comps = <<>> THEN 0 ELSE 1]
    BY <1>2, <2>5 DEF FirstOfNext, FirstOf
  <2> QED BY <1>4, <2>2, <2>4, <2>6 DEF Good, SetOK
<1> QED BY <1>3, <1>4

\* No file has a component twice.
FilesSingle == \A m \in Months : IsInjective(OnDisk(m))

\* A set and a visit, p components into the cluster.
Touring(s, p, due, seen, full) ==
  /\ Good(s) /\ FilesOK /\ FilesSingle
  /\ Pending(s, p, due, seen, full)
  /\ (s.first => p = 0) /\ (~s.first => p = s.cursor /\ p # 0)

\* The visit has found nothing more.
LEMMA NullEnds ==
  ASSUME NEW s, NEW p, NEW due, NEW seen, NEW full, Pending(s, p, due, seen, full),
         full => due \subseteq Range(seen)
  PROVE  Over(due, Append(seen, Null), full)
<1>1. PICK n : n = Len(seen)
  OBVIOUS
<1>2. seen \in Seq(Comps) /\ IsInjective(seen) /\ due \subseteq Comps
  BY DEF Pending
<1>3. PICK t : t = Append(seen, Null)
  OBVIOUS
<1>4. /\ n \in Nat /\ DOMAIN seen = 1..n /\ DOMAIN t = 1..n + 1 /\ Len(t) = n + 1
      /\ t[n + 1] = Null /\ \A i \in 1..n : t[i] = seen[i]
  <2>1. /\ Len(t) = Len(seen) + 1 /\ t[Len(seen) + 1] = Null
        /\ \A i \in 1..Len(seen) : t[i] = seen[i]
        /\ t \in Seq(Comps \cup {Null})
    <3>1. seen \in Seq(Comps \cup {Null})
      BY <1>2
    <3> QED BY <1>3, <3>1
  <2> QED BY <1>1, <1>2, <2>1
<1>5. Null \notin due
  BY <1>2, NullIsNothing
<1>6. \A i, j \in 1..n + 1 : t[i] = t[j] /\ t[i] \in due => i = j
  <2>1. ASSUME NEW i \in 1..n + 1, NEW j \in 1..n + 1, t[i] = t[j], t[i] \in due PROVE i = j
    <3>1. i # n + 1 /\ j # n + 1
      BY <1>4, <1>5, <2>1
    <3>2. i \in 1..n /\ j \in 1..n
      BY <1>4, <3>1
    <3> QED BY <1>2, <1>4, <2>1, <3>2 DEF IsInjective
  <2> QED BY <2>1
<1>7. Range(seen) \subseteq Range(t)
  <2>1. \A i \in 1..n : i \in 1..n + 1
    BY <1>4
  <2> QED BY <1>4, <2>1 DEF Range
<1>8. t # <<>> /\ Last(t) = Null
  BY <1>4 DEF Last
<1> QED BY <1>3, <1>4, <1>6, <1>7, <1>8 DEF Over

\* A component more is a new one, if it is not behind.
LEMMA OneMoreSeen ==
  ASSUME NEW seen \in Seq(Comps), IsInjective(seen), NEW c \in Comps, c \notin Range(seen)
  PROVE  /\ Append(seen, c) \in Seq(Comps) /\ IsInjective(Append(seen, c))
         /\ Range(Append(seen, c)) = Range(seen) \cup {c}
         /\ Append(seen, c) # <<>>
<1>1. PICK n, t : n = Len(seen) /\ t = Append(seen, c)
  OBVIOUS
<1>2. t \in Seq(Comps) /\ Range(t) = Range(seen) \cup {c}
  BY <1>1, AppendAdds
<1>3. /\ n \in Nat /\ DOMAIN seen = 1..n /\ DOMAIN t = 1..n + 1 /\ Len(t) = n + 1
      /\ t[n + 1] = c /\ \A i \in 1..n : t[i] = seen[i]
  BY <1>1
<1>4. \A i \in 1..n : t[i] # c
  BY <1>3 DEF Range
<1>5. ASSUME NEW i \in 1..n + 1, NEW j \in 1..n + 1, t[i] = t[j] PROVE i = j
  <2>1. (i \in 1..n \/ i = n + 1) /\ (j \in 1..n \/ j = n + 1)
    BY <1>3
  <2> QED BY <1>3, <1>4, <1>5, <2>1 DEF IsInjective
<1>6. IsInjective(t)
  BY <1>3, <1>5 DEF IsInjective
<1> QED BY <1>1, <1>2, <1>3, <1>6

\* The next component that passes the gauge in the same cluster.
LEMMA SameCluster ==
  ASSUME NEW s, NEW p, NEW due, NEW seen, NEW full, Touring(s, p, due, seen, full),
         NEW i, i \in p + 1 .. Len(s.comps),
         \A k \in p + 1 .. i - 1 : s.comps[k] \notin s.gauge,
         NEW u, Alike(u, s), u.cursor = i, u.first = FALSE
  PROVE  /\ Pending(u, i, due, Append(seen, s.comps[i]), full)
         /\ Append(seen, s.comps[i]) # <<>>
<1>1. PICK n, c : n = Len(s.comps) /\ c = s.comps[i]
  OBVIOUS
<1>2. /\ n \in Nat /\ s.comps \in Seq(Comps) /\ DOMAIN s.comps = 1..n
      /\ s.dir \in Seq(Months) /\ s.at \in Nat /\ s.key = s.dir[s.at] /\ s.at \in 1..Len(s.dir)
      /\ p \in 0..n /\ i \in 1..n /\ i \in p + 1..n /\ c \in Comps
  <2>1. s.comps \in Seq(Comps) /\ s.dir \in Seq(Months) /\ s.at \in Nat
    BY DEF Touring, Good, SetOK
  <2>2. n \in Nat /\ DOMAIN s.comps = 1..n
    BY <1>1, <2>1
  <2>3. p \in 0..n /\ s.key = s.dir[s.at] /\ s.at \in 1..Len(s.dir)
    BY <1>1 DEF Touring, Pending
  <2>4. i \in 1..n /\ i \in p + 1..n
    BY <1>1, <2>2, <2>3
  <2> QED BY <1>1, <2>1, <2>2, <2>3, <2>4
<1>3. /\ IsInjective(s.dir) /\ IsInjective(s.comps)
      /\ seen \in Seq(Comps) /\ IsInjective(seen)
      /\ \A x \in due : x \in Range(seen) \/ Ahead(s, p, x)
      /\ \A x \in Range(seen) : Behind(s, p, x)
      /\ due \subseteq s.gauge
  BY DEF Touring, Pending
<1>4. MonthOf[c] = s.key
  BY <1>1, <1>2 DEF Touring, Good, Filed, Range
<1>5. c \notin Range(seen)
  <2> SUFFICES ASSUME c \in Range(seen) PROVE FALSE
    OBVIOUS
  <2>1. Behind(s, p, c)
    BY <1>3
  <2>2. CASE \E j \in 1..s.at - 1 : MonthOf[c] = s.dir[j]
    <3>1. PICK j \in 1..s.at - 1 : s.dir[j] = s.dir[s.at]
      BY <1>2, <1>4, <2>2
    <3>2. j # s.at /\ j \in DOMAIN s.dir /\ s.at \in DOMAIN s.dir
      BY <1>2
    <3> QED BY <1>3, <3>1, <3>2 DEF IsInjective
  <2>3. CASE \E k \in 1..p : s.comps[k] = c
    <3>1. PICK k \in 1..p : s.comps[k] = s.comps[i]
      BY <1>1, <2>3
    <3>2. k # i /\ k \in 1..n
      BY <1>2
    <3> QED BY <1>2, <1>3, <3>1, <3>2 DEF IsInjective
  <2> QED BY <2>1, <2>2, <2>3 DEF Behind
<1>6. PICK t : t = Append(seen, c)
  OBVIOUS
<1>7. t \in Seq(Comps) /\ IsInjective(t) /\ Range(t) = Range(seen) \cup {c} /\ t # <<>>
  BY <1>2, <1>3, <1>5, <1>6, OneMoreSeen
<1>8. ASSUME NEW x \in due PROVE x \in Range(t) \/ Ahead(u, i, x)
  <2>1. CASE x \in Range(seen)
    BY <1>7, <2>1
  <2>2. CASE \E k \in p + 1..n : s.comps[k] = x
    <3>1. PICK k \in p + 1..n : s.comps[k] = x
      BY <2>2
    <3>2. x \in s.gauge
      BY <1>3
    <3>3. k \notin p + 1..i - 1
      BY <3>1, <3>2
    <3>4. k = i \/ k \in i + 1..n
      BY <1>2, <3>3
    <3> QED BY <1>1, <1>7, <3>1, <3>4 DEF Ahead, Alike
  <2>3. CASE \E j \in s.at + 1..Len(s.dir) : x \in Range(OnDisk(s.dir[j]))
    BY <2>3 DEF Ahead, Alike
  <2> QED BY <1>1, <1>3, <2>1, <2>2, <2>3 DEF Ahead
<1>9. ASSUME NEW x \in Range(t) PROVE Behind(u, i, x)
  <2>1. CASE x = c
    <3>1. i \in 1..i
      BY <1>2
    <3> QED BY <1>1, <2>1, <3>1 DEF Behind, Alike
  <2>2. CASE x \in Range(seen)
    <3>1. \A k \in 1..p : k \in 1..i
      BY <1>2
    <3> QED BY <1>3, <2>2, <3>1 DEF Behind, Alike
  <2> QED BY <1>7, <2>1, <2>2
<1>10. Pending(u, i, due, t, full)
  <2>1. i \in 0..Len(u.comps)
    BY <1>1, <1>2 DEF Alike
  <2>2. /\ u.at \in 1..Len(u.dir) /\ u.key = u.dir[u.at] /\ IsInjective(u.dir) /\ IsInjective(u.comps)
        /\ due \subseteq u.gauge /\ due \subseteq Comps
        /\ full => \A j \in u.at + 1..Len(u.dir) : OnDisk(u.dir[j]) # <<>>
    BY DEF Touring, Pending, Alike
  <2> QED BY <1>7, <1>8, <1>9, <2>1, <2>2 DEF Pending
<1> QED BY <1>1, <1>6, <1>7, <1>10

\* The cluster has nothing more that the gauge lets pass.
Spent(s, p, due, seen, full) ==
  /\ Touring(s, p, due, seen, full)
  /\ \A k \in p + 1 .. Len(s.comps) : s.comps[k] \notin s.gauge

\* What is still due is in later clusters.
LEMMA SpentIs ==
  ASSUME NEW s, NEW p, NEW due, NEW seen, NEW full, Spent(s, p, due, seen, full), NEW x \in due
  PROVE  x \in Range(seen) \/ \E j \in s.at + 1 .. Len(s.dir) : x \in Range(OnDisk(s.dir[j]))
<1>1. x \in s.gauge /\ (x \in Range(seen) \/ Ahead(s, p, x))
  BY DEF Spent, Touring, Pending
<1> QED BY <1>1 DEF Spent, Ahead

\* What was passed is of the clusters up to this one.
LEMMA SeenIsOfThese ==
  ASSUME NEW s, NEW p, NEW due, NEW seen, NEW full, Touring(s, p, due, seen, full), NEW x \in Range(seen)
  PROVE  \E j \in 1 .. s.at : MonthOf[x] = s.dir[j]
<1>1. /\ s.comps \in Seq(Comps) /\ s.at \in 1..Len(s.dir) /\ s.key = s.dir[s.at]
      /\ p \in 0..Len(s.comps) /\ Behind(s, p, x)
      /\ \A c \in Range(s.comps) : MonthOf[c] = s.key
  BY DEF Touring, Pending, Good, SetOK, Filed
<1>2. CASE \E j \in 1..s.at - 1 : MonthOf[x] = s.dir[j]
  <2>1. \A j \in 1..s.at - 1 : j \in 1..s.at
    BY <1>1
  <2> QED BY <1>2, <2>1
<1>3. CASE \E i \in 1..p : s.comps[i] = x
  <2>1. PICK i \in 1..p : s.comps[i] = x
    BY <1>3
  <2>2. i \in DOMAIN s.comps
    BY <1>1
  <2>3. MonthOf[x] = s.dir[s.at]
    BY <1>1, <2>1, <2>2 DEF Range
  <2>4. s.at \in 1..s.at
    BY <1>1
  <2> QED BY <2>3, <2>4
<1> QED BY <1>1, <1>2, <1>3 DEF Behind

\* The next cluster and its first component.
LEMMA LaterCluster ==
  ASSUME NEW s, NEW p, NEW due, NEW seen, NEW full, Spent(s, p, due, seen, full),
         s.at # Len(s.dir),
         NEW u, Good(u), u.at = s.at + 1, u.dir = s.dir, u.key = s.dir[s.at + 1],
         u.comps = OnDisk(s.dir[s.at + 1]), u.gauge = s.gauge, u.comps # <<>>
  PROVE  /\ Pending(u, 1, due, Append(seen, u.comps[1]), full)
         /\ Append(seen, u.comps[1]) # <<>>
<1>1. PICK a, m : a = s.at + 1 /\ m = s.dir[s.at + 1]
  OBVIOUS
<1>2. /\ s.at \in 1..Len(s.dir) /\ IsInjective(s.dir)
      /\ due \subseteq s.gauge /\ due \subseteq Comps
      /\ seen \in Seq(Comps) /\ IsInjective(seen)
      /\ full => \A j \in s.at + 1 .. Len(s.dir) : OnDisk(s.dir[j]) # <<>>
      /\ s.dir \in Seq(Months)
  BY DEF Spent, Touring, Pending, Good, SetOK
<1>3. a \in 1..Len(s.dir) /\ m \in Months /\ Len(s.dir) \in Nat /\ s.at \in Nat
  BY <1>1, <1>2
<1>4. /\ u.comps \in Seq(Comps) /\ Len(u.comps) \in Nat /\ 1 \in DOMAIN u.comps /\ 1 \in 1..Len(u.comps)
      /\ DOMAIN u.comps = 1..Len(u.comps)
  <2>1. u.comps \in Seq(Comps)
    BY DEF Good, SetOK
  <2>2. Len(u.comps) # 0
    BY <2>1
  <2> QED BY <2>1, <2>2
<1>5. IsInjective(u.comps)
  BY <1>1, <1>3 DEF Spent, Touring, FilesSingle
<1>6. PICK c : c = u.comps[1]
  OBVIOUS
<1>7. c \in Comps /\ MonthOf[c] = m
  BY <1>1, <1>4, <1>6 DEF Good, Filed, Range
<1>8. \A x \in Range(seen) : \E j \in 1..s.at : MonthOf[x] = s.dir[j]
  BY SeenIsOfThese DEF Spent
<1>9. c \notin Range(seen)
  <2> SUFFICES ASSUME c \in Range(seen) PROVE FALSE
    OBVIOUS
  <2>1. PICK j \in 1..s.at : s.dir[a] = s.dir[j]
    BY <1>1, <1>7, <1>8
  <2>2. j # a /\ j \in DOMAIN s.dir /\ a \in DOMAIN s.dir
    BY <1>1, <1>2, <1>3
  <2> QED BY <1>2, <2>1, <2>2 DEF IsInjective
<1>10. PICK t : t = Append(seen, c)
  OBVIOUS
<1>11. t \in Seq(Comps) /\ IsInjective(t) /\ Range(t) = Range(seen) \cup {c} /\ t # <<>>
  BY <1>2, <1>7, <1>9, <1>10, OneMoreSeen
<1>12. ASSUME NEW x \in due PROVE x \in Range(t) \/ Ahead(u, 1, x)
  <2>1. x \in Range(seen) \/ \E j \in s.at + 1..Len(s.dir) : x \in Range(OnDisk(s.dir[j]))
    BY SpentIs
  <2>2. CASE x \in Range(seen)
    BY <1>11, <2>2
  <2>3. CASE \E j \in s.at + 1..Len(s.dir) : x \in Range(OnDisk(s.dir[j]))
    <3>1. PICK j \in s.at + 1..Len(s.dir) : x \in Range(OnDisk(s.dir[j]))
      BY <2>3
    <3>2. j = a \/ j \in a + 1..Len(s.dir)
      BY <1>1, <1>3
    <3>3. CASE j = a
      <4>1. x \in Range(u.comps)
        BY <1>1, <3>1, <3>3
      <4>2. PICK i \in 1..Len(u.comps) : u.comps[i] = x
        BY <1>4, <4>1 DEF Range
      <4>3. i = 1 \/ i \in 1 + 1..Len(u.comps)
        BY <1>4
      <4> QED BY <1>6, <1>11, <4>2, <4>3 DEF Ahead
    <3>4. CASE j \in a + 1..Len(s.dir)
      <4>1. j \in u.at + 1..Len(u.dir) /\ x \in Range(OnDisk(u.dir[j]))
        BY <1>1, <3>1, <3>4
      <4> QED BY <4>1 DEF Ahead
    <3> QED BY <3>2, <3>3, <3>4
  <2> QED BY <2>1, <2>2, <2>3
<1>13. ASSUME NEW x \in Range(t) PROVE Behind(u, 1, x)
  <2>1. CASE x = c
    <3>1. 1 \in 1..1
      OBVIOUS
    <3> QED BY <1>6, <2>1, <3>1 DEF Behind
  <2>2. CASE x \in Range(seen)
    <3>1. PICK j \in 1..s.at : MonthOf[x] = s.dir[j]
      BY <1>8, <2>2
    <3>2. j \in 1..u.at - 1 /\ MonthOf[x] = u.dir[j]
      BY <1>3, <3>1
    <3> QED BY <3>2 DEF Behind
  <2> QED BY <1>11, <2>1, <2>2
<1>14. Pending(u, 1, due, t, full)
  <2>1. u.at \in 1..Len(u.dir) /\ u.key = u.dir[u.at] /\ 1 \in 0..Len(u.comps)
    BY <1>1, <1>3, <1>4
  <2>2. full => \A j \in u.at + 1..Len(u.dir) : OnDisk(u.dir[j]) # <<>>
    <3>1. \A j \in u.at + 1..Len(u.dir) : j \in s.at + 1..Len(s.dir)
      BY <1>3
    <3> QED BY <1>2, <3>1
  <2>3. due \subseteq u.gauge /\ IsInjective(u.dir)
    BY <1>2
  <2> QED BY <1>2, <1>5, <1>11, <1>12, <1>13, <2>1, <2>2, <2>3 DEF Pending
<1> QED BY <1>6, <1>10, <1>11, <1>14

\* icaldirset_get_next_component keeps a visit going, or ends it rightly.
LEMMA VisitGoesOn ==
  ASSUME NEW s, NEW p, NEW due, NEW seen, NEW full, Touring(s, p, due, seen, full),
         NEW u, u = NextComponent(s), NEW t, t = Append(seen, Current(u))
  PROVE  (Over(due, t, full) \/ (/\ Pending(u, u.cursor, due, t, full)
                                 /\ u.cursor # 0 /\ ~u.first /\ t # <<>>))
         /\ u.gauge = s.gauge
<1>1. PICK n, from : n = Len(s.comps) /\ from = From(s)
  OBVIOUS
<1>2. /\ n \in Nat /\ s.comps \in Seq(Comps) /\ DOMAIN s.comps = 1..n
      /\ p \in 0..n /\ s.at \in 1..Len(s.dir) /\ s.dir \in Seq(Months) /\ s.key = s.dir[s.at]
      /\ Good(s) /\ FilesOK
  <2>1. /\ s.comps \in Seq(Comps) /\ p \in 0..Len(s.comps)
        /\ s.at \in 1..Len(s.dir) /\ s.dir \in Seq(Months) /\ s.key = s.dir[s.at]
        /\ Good(s) /\ FilesOK
    BY DEF Touring, Pending, Good, SetOK
  <2> QED BY <1>1, <2>1
<1>3. s.key # Null
  <2>1. s.key \in Months
    BY <1>2
  <2> QED BY <2>1, NullIsNothing
<1>4. /\ Good(from) /\ Alike(from, s) /\ from.first = FALSE
      /\ from.cursor = IF p = n THEN 0 ELSE p + 1
  <2>1. (s.first => p = 0) /\ (~s.first => p = s.cursor /\ p # 0)
    BY DEF Touring
  <2> QED BY <1>1, <1>2, <2>1, FromIs
<1>5. PICK here : here = Here(s, from)
  OBVIOUS
<1>6. u = IF here = {} THEN FirstOfNext([from EXCEPT !.cursor = 0])
          ELSE [from EXCEPT !.cursor = CHOOSE i \in here : \A j \in here : i <= j]
  BY <1>1, <1>3, <1>5, NextIs
<1>7. \A i : i \in here <=> i \in p + 1..n /\ s.comps[i] \in s.gauge
  BY <1>2, <1>4, <1>5 DEF Here
<1>8. CASE here # {}
  <2>1. here \in SUBSET Nat
    BY <1>2, <1>7
  <2>2. \E i \in here : \A j \in here : i <= j
    BY <1>8, <2>1, LeastNumber
  <2>3. PICK i : i \in here /\ (\A j \in here : i <= j) /\ u = [from EXCEPT !.cursor = i]
    BY <1>6, <1>8, <2>2
  <2>4. i \in p + 1..n /\ i \in 1..n /\ i # 0
    BY <1>2, <1>7, <2>3
  <2>5. \A k \in p + 1..i - 1 : s.comps[k] \notin s.gauge
    <3>1. ASSUME NEW k \in p + 1..i - 1 PROVE k \in p + 1..n /\ ~(i <= k)
      BY <1>2, <2>4
    <3> QED BY <1>7, <2>3, <3>1
  <2>6. u.cursor = i /\ u.first = FALSE /\ Alike(u, s)
    BY <1>4, <2>3 DEF Alike, Good, SetOK
  <2>7. Pending(u, i, due, Append(seen, s.comps[i]), full) /\ Append(seen, s.comps[i]) # <<>>
    <3>1. i \in p + 1..Len(s.comps)
      BY <1>1, <2>4
    <3> QED BY <2>5, <2>6, <3>1, SameCluster
  <2>8. Current(u) = s.comps[i]
    BY <2>4, <2>6 DEF Current, Alike
  <2> QED BY <2>4, <2>6, <2>7, <2>8 DEF Alike
<1>9. CASE here = {}
  <2>1. PICK none : none = [from EXCEPT !.cursor = 0]
    OBVIOUS
  <2>2. Good(none) /\ Alike(none, s) /\ none.first = FALSE
    <3>1. Good(none)
      BY <1>4, <2>1, CursorKeeps
    <3> QED BY <1>4, <2>1, <3>1 DEF Alike, Good, SetOK
  <2>3. u = FirstOfNext(none) /\ none.at # 0
    BY <1>2, <1>6, <1>9, <2>1, <2>2 DEF Alike
  <2>4. /\ none.at = Len(none.dir) => u.key = Null /\ u.cursor = 0 /\ u.comps = <<>>
        /\ none.at # Len(none.dir) => /\ u.at = none.at + 1 /\ u.dir = none.dir
                                      /\ u.key = none.dir[none.at + 1]
                                      /\ u.comps = OnDisk(none.dir[none.at + 1])
                                      /\ u.cursor = IF u.comps = <<>> THEN 0 ELSE 1
                                      /\ u.first = none.first
        /\ u.gauge = none.gauge
    BY <1>2, <2>2, <2>3, NextClusterIs
  <2>5. Spent(s, p, due, seen, full)
    BY <1>1, <1>7, <1>9 DEF Spent
  <2>6. u.gauge = s.gauge
    BY <2>2, <2>4 DEF Alike
  <2>7. CASE s.at = Len(s.dir)
    <3>1. u.cursor = 0
      BY <2>2, <2>4, <2>7 DEF Alike
    <3>2. due \subseteq Range(seen)
      <4>1. s.at + 1..Len(s.dir) = {}
        BY <1>2, <2>7
      <4> QED BY <2>5, <4>1, SpentIs
    <3>3. Pending(s, p, due, seen, full)
      BY DEF Touring
    <3>4. Over(due, Append(seen, Null), full)
      BY <3>2, <3>3, NullEnds
    <3> QED BY <2>6, <3>1, <3>4 DEF Current
  <2>8. CASE s.at # Len(s.dir)
    <3>1. /\ u.at = s.at + 1 /\ u.dir = s.dir /\ u.key = s.dir[s.at + 1]
          /\ u.comps = OnDisk(s.dir[s.at + 1])
          /\ u.cursor = IF u.comps = <<>> THEN 0 ELSE 1
          /\ u.first = FALSE
      BY <2>2, <2>4, <2>8 DEF Alike
    <3>2. CASE u.comps = <<>>
      <4>1. s.at + 1 \in s.at + 1..Len(s.dir)
        BY <1>2, <2>8
      <4>2. ~full
        BY <3>1, <3>2, <4>1 DEF Touring, Pending
      <4>3. Pending(s, p, due, seen, full)
        BY DEF Touring
      <4>4. Over(due, Append(seen, Null), full)
        BY <4>2, <4>3, NullEnds
      <4> QED BY <2>6, <3>1, <3>2, <4>4 DEF Current
    <3>3. CASE u.comps # <<>>
      <4>1. Good(u)
        BY <1>2, <2>2, <2>3, FirstOfNextIsGood
      <4>2. Pending(u, 1, due, Append(seen, u.comps[1]), full) /\ Append(seen, u.comps[1]) # <<>>
        BY <2>5, <2>6, <2>8, <3>1, <3>3, <4>1, LaterCluster
      <4>3. u.cursor = 1 /\ Current(u) = u.comps[1]
        BY <3>1, <3>3 DEF Current
      <4> QED BY <2>6, <3>1, <4>2, <4>3
    <3> QED BY <3>2, <3>3
  <2> QED BY <2>7, <2>8
<1> QED BY <1>8, <1>9

----------------------------------------------------------------------------
(* The files and the clusters have no component twice; how a visit starts. *)

\* Nothing is twice in the files or in the cluster of s.
OnceIn(s) == Good(s) /\ FilesOK /\ FilesSingle /\ IsInjective(s.comps)

\* An empty cluster has nothing twice.
LEMMA EmptyIsSingle == IsInjective(<<>>)
BY DEF IsInjective

\* Nor has the next cluster, which is a file or empty,
LEMMA NextClusterIsSingle ==
  ASSUME NEW s, OnceIn(s)
  PROVE  IsInjective(NextCluster(s).comps)
<1>1. SetOK(s) /\ s.at \in Nat /\ s.dir \in Seq(Months) /\ s.at <= Len(s.dir)
  BY DEF OnceIn, Good, SetOK
<1>2. CASE s.at = 0
  BY <1>2 DEF NextCluster, OnceIn
<1>3. CASE s.at # 0 /\ s.at = Len(s.dir)
  <2>1. NextCluster(s) = [Without(s) EXCEPT !.at = 0]
    BY <1>3 DEF NextCluster
  <2>2. NextCluster(s).comps = <<>>
    BY <1>1, <2>1 DEF SetOK, Without
  <2> QED BY <2>2, EmptyIsSingle
<1>4. CASE s.at # 0 /\ s.at # Len(s.dir)
  <2>1. s.at + 1 \in 1..Len(s.dir) /\ s.at + 1 # 0
    BY <1>1, <1>4
  <2>2. PICK m : m = s.dir[s.at + 1] /\ m \in Months
    BY <1>1, <2>1
  <2>3. NextCluster(s) = [Load(s, m) EXCEPT !.at = s.at + 1]
    BY <1>4, <2>1, <2>2 DEF NextCluster
  <2>4. NextCluster(s).comps = OnDisk(m)
    BY <1>1, <2>3 DEF SetOK, Load, Without
  <2> QED BY <2>2, <2>4 DEF OnceIn, FilesSingle
<1> QED BY <1>2, <1>3, <1>4

\* with the iterator on its first component,
LEMMA FirstOfNextIsSingle ==
  ASSUME NEW s, OnceIn(s)
  PROVE  IsInjective(FirstOfNext(s).comps)
<1>1. PICK n : n = NextCluster(s)
  OBVIOUS
<1>2. Good(n) /\ IsInjective(n.comps)
  BY <1>1, NextClusterIsSingle, NextClusterIsGood DEF OnceIn
<1>3. FirstOfNext(s).comps = n.comps
  BY <1>1, <1>2 DEF FirstOfNext, FirstOf, Good, SetOK
<1> QED BY <1>2, <1>3

\* or what the set has when its visit goes on,
LEMMA NextComponentIsSingle ==
  ASSUME NEW s, OnceIn(s)
  PROVE  IsInjective(NextComponent(s).comps)
<1>1. PICK from : from = From(s)
  OBVIOUS
<1>2. Good(from) /\ from.comps = s.comps
  <2>1. Good(from)
    BY <1>1, FirstKeeps, FirstOfKeeps, NextOfKeeps DEF From, OnceIn
  <2> QED BY <1>1, <2>1 DEF From, FirstOf, NextOf, OnceIn, Good, SetOK
<1>3. ASSUME NEW k PROVE OnceIn([from EXCEPT !.cursor = k])
  <2>1. PICK q : q = [from EXCEPT !.cursor = k]
    OBVIOUS
  <2>2. Good(q) /\ q.comps = s.comps
    <3>1. Good(q)
      BY <1>2, <2>1, CursorKeeps
    <3> QED BY <1>2, <2>1, <3>1 DEF Good, SetOK
  <2> QED BY <2>1, <2>2 DEF OnceIn
<1>4. CASE s.key = Null
  BY <1>4 DEF NextComponent, OnceIn
<1>5. CASE s.key # Null
  <2>1. PICK here : here = Here(s, from)
    OBVIOUS
  <2>2. NextComponent(s) = IF here = {} THEN FirstOfNext([from EXCEPT !.cursor = 0])
                           ELSE [from EXCEPT !.cursor = CHOOSE i \in here : \A j \in here : i <= j]
    BY <1>1, <1>5, <2>1, NextIs
  <2>3. PICK k : k = CHOOSE i \in here : \A j \in here : i <= j
    OBVIOUS
  <2>4. OnceIn([from EXCEPT !.cursor = 0]) /\ OnceIn([from EXCEPT !.cursor = k])
    BY <1>3
  <2>5. IsInjective(FirstOfNext([from EXCEPT !.cursor = 0]).comps)
    BY <2>4, FirstOfNextIsSingle
  <2>6. IsInjective([from EXCEPT !.cursor = k].comps)
    BY <2>4 DEF OnceIn
  <2> QED BY <2>2, <2>3, <2>5, <2>6
<1> QED BY <1>4, <1>5

\* What a file has, or the cluster in memory in its place, when a visit starts.
InFile(s, dir, m) == IF m = s.key /\ m = dir[1] THEN Range(s.comps) ELSE Range(OnDisk(m))

\* The set from which a visit takes its first component.
Begins(s, dir) ==
  LET read == [s EXCEPT !.dir = dir, !.at = 1]
      load == IF s.key = dir[1] THEN read ELSE Load(read, dir[1])
  IN  [load EXCEPT !.first = TRUE]

\* A set that is at the first component of a directory.
Begun(b, s, dir) ==
  /\ OnceIn(b) /\ b.at = 1 /\ b.dir = dir /\ b.key = dir[1] /\ b.first = TRUE
  /\ b.gauge = s.gauge /\ Range(b.comps) = InFile(s, dir, dir[1])

\* What a visit takes its first component from.
LEMMA BeginsIs ==
  ASSUME NEW s, OnceIn(s), NEW dir \in Seq(Months), dir # <<>>
  PROVE  Begun(Begins(s, dir), s, dir)
<1> DEFINE b == Begins(s, dir)
<1>1. PICK m : m = dir[1] /\ m \in Months
  OBVIOUS
<1>2. Good(s) /\ FilesOK /\ FilesSingle /\ SetOK(s)
  BY DEF OnceIn, Good
<1>3. PICK read : read = [s EXCEPT !.dir = dir, !.at = 1]
  OBVIOUS
<1>4. 1 \in Nat /\ 1 <= Len(dir)
  OBVIOUS
<1>5. /\ Good(read) /\ read.comps = s.comps /\ read.key = s.key
      /\ read.at = 1 /\ read.dir = dir /\ read.gauge = s.gauge
  BY <1>2, <1>3, <1>4 DEF Good, SetOK, Filed
<1>6. PICK load : load = IF s.key = m THEN read ELSE Load(read, m)
  OBVIOUS
<1>7. /\ Good(load) /\ load.key = m /\ load.at = 1 /\ load.dir = dir /\ load.gauge = s.gauge
      /\ load.comps = IF s.key = m THEN s.comps ELSE OnDisk(m)
  <2>1. CASE s.key = m
    BY <1>5, <1>6, <2>1
  <2>2. CASE s.key # m
    <3>1. Good(load) /\ load.at = 1 /\ load.dir = dir /\ load.key = m
      BY <1>1, <1>2, <1>5, <1>6, <2>2, LoadIsGood DEF Good
    <3>2. load.gauge = s.gauge /\ load.comps = OnDisk(m)
      BY <1>5, <1>6, <2>2 DEF Load, Without, Good, SetOK
    <3> QED BY <2>2, <3>1, <3>2
  <2> QED BY <2>1, <2>2
<1>8. b = [load EXCEPT !.first = TRUE]
  BY <1>1, <1>3, <1>6 DEF Begins
<1> HIDE DEF b
<1>9. /\ Good(b) /\ b.at = 1 /\ b.dir = dir /\ b.key = m /\ b.first = TRUE /\ b.gauge = s.gauge
      /\ b.comps = load.comps
  <2>1. Good(b)
    BY <1>7, <1>8, FirstKeeps
  <2> QED BY <1>7, <1>8, <2>1 DEF Good, SetOK
<1>10. IsInjective(b.comps)
  BY <1>1, <1>2, <1>7, <1>9 DEF OnceIn, FilesSingle
<1>11. Range(b.comps) = InFile(s, dir, m)
  BY <1>1, <1>7, <1>9 DEF InFile
<1>12. Begun(b, s, dir)
  BY <1>1, <1>2, <1>9, <1>10, <1>11 DEF OnceIn, Begun
<1> QED BY ONLY <1>12 DEF b

\* or when a visit starts.
LEMMA FirstComponentIsSingle ==
  ASSUME NEW s, OnceIn(s), NEW dir \in Seq(Months)
  PROVE  /\ IsInjective(FirstComponent(s, dir).comps)
         /\ dir # <<>> => FirstComponent(s, dir) = NextComponent(Begins(s, dir))
<1>1. CASE dir = <<>>
  <2>1. FirstComponent(s, dir) = [s EXCEPT !.dir = dir, !.at = 0]
    BY <1>1 DEF FirstComponent
  <2>2. FirstComponent(s, dir).comps = s.comps
    BY <2>1 DEF OnceIn, Good, SetOK
  <2> QED BY <1>1, <2>2 DEF OnceIn
<1>2. CASE dir # <<>>
  <2>1. FirstComponent(s, dir) = NextComponent(Begins(s, dir))
    BY <1>2 DEF FirstComponent, Begins
  <2>2. PICK b : b = Begins(s, dir)
    OBVIOUS
  <2>3. OnceIn(b)
    BY <1>2, <2>2, BeginsIs DEF Begun
  <2>4. IsInjective(NextComponent(b).comps)
    BY <2>3, NextComponentIsSingle
  <2> QED BY <2>1, <2>2, <2>4
<1> QED BY <1>1, <1>2

\* What a visit should return, which is nothing that is not in a file it meets.
Due(s, dir, due, full) ==
  /\ \A x : x \in due <=> x \in s.gauge /\ \E m \in Range(dir) : x \in InFile(s, dir, m)
  /\ full => \A m \in Range(dir) : InFile(s, dir, m) # {}

\* A visit starts rightly.
LEMMA VisitStarts ==
  ASSUME NEW s, OnceIn(s), NEW dir \in Seq(Months), IsInjective(dir),
         NEW due, NEW full, Due(s, dir, due, full), NEW u, u = FirstComponent(s, dir)
  PROVE  Visiting(u, due, <<Current(u)>>, full) /\ u.gauge = s.gauge
<1>1. CASE dir = <<>>
  <2>1. Range(dir) = {}
    BY <1>1 DEF Range
  <2>2. due = {}
    BY <2>1 DEF Due
  <2>3. u = [s EXCEPT !.dir = dir, !.at = 0]
    BY <1>1 DEF FirstComponent
  <2>4. u.gauge = s.gauge
    BY <2>3 DEF OnceIn, Good, SetOK
  <2> QED BY <2>2, <2>4 DEF Visiting
<1>2. CASE dir # <<>>
  <2>1. PICK n : n = Len(dir)
    OBVIOUS
  <2>b. PICK b : b = Begins(s, dir)
    OBVIOUS
  <2>2. /\ OnceIn(b) /\ b.at = 1 /\ b.dir = dir /\ b.key = dir[1] /\ b.first = TRUE
        /\ b.gauge = s.gauge /\ Range(b.comps) = InFile(s, dir, dir[1])
    <3>1. Begun(b, s, dir)
      BY <1>2, <2>b, BeginsIs
    <3> QED BY ONLY <3>1 DEF Begun
  <2>3. u = NextComponent(b)
    BY <1>2, <2>b, FirstComponentIsSingle
  <2>4. n \in Nat /\ n # 0 /\ DOMAIN dir = 1..n /\ 1 \in 1..n
    BY <1>2, <2>1
  <2>5. \A j \in 2..n : InFile(s, dir, dir[j]) = Range(OnDisk(dir[j]))
    <3>1. ASSUME NEW j \in 2..n PROVE dir[j] # dir[1]
      BY <2>4 DEF IsInjective
    <3> QED BY <3>1 DEF InFile
  <2>6. \A m \in Range(dir) : m = dir[1] \/ \E j \in 2..n : m = dir[j]
    <3>1. \A j \in 1..n : j = 1 \/ j \in 2..n
      BY <2>4
    <3> QED BY <2>4, <3>1 DEF Range
  <2>7. b.comps \in Seq(Comps) /\ Len(b.comps) \in Nat /\ DOMAIN b.comps = 1..Len(b.comps)
    BY <2>2 DEF OnceIn, Good, SetOK
  <2>8. ASSUME NEW x \in due
        PROVE  /\ x \in s.gauge /\ x \in Comps
               /\ Ahead(b, 0, x)
    <3>1. x \in s.gauge /\ \E m \in Range(dir) : x \in InFile(s, dir, m)
      BY DEF Due
    <3>2. CASE x \in InFile(s, dir, dir[1])
      <4>1. PICK i \in 1..Len(b.comps) : b.comps[i] = x
        BY <2>2, <2>7, <3>2 DEF Range
      <4>2. i \in 0 + 1..Len(b.comps) /\ x \in Comps
        BY <2>7, <4>1
      <4> QED BY <3>1, <4>1, <4>2 DEF Ahead
    <3>3. CASE \E j \in 2..n : x \in Range(OnDisk(dir[j]))
      <4>1. PICK j \in 2..n : x \in Range(OnDisk(dir[j]))
        BY <3>3
      <4>2. j \in b.at + 1..Len(b.dir) /\ x \in Range(OnDisk(b.dir[j]))
        BY <2>1, <2>2, <4>1
      <4>3. x \in Comps
        <5>1. dir[j] \in Months
          BY <2>4
        <5>2. OnDisk(dir[j]) \in Seq(Comps)
          BY <2>2, <5>1 DEF OnceIn, FilesOK, OnDisk
        <5> QED BY <4>1, <5>2 DEF Range
      <4> QED BY <3>1, <4>2, <4>3 DEF Ahead
    <3> QED BY <2>5, <2>6, <3>1, <3>2, <3>3
  <2>9. ASSUME full, NEW j \in 2..n PROVE OnDisk(dir[j]) # <<>>
    <3>1. dir[j] \in Range(dir)
      BY <2>4 DEF Range
    <3>2. Range(OnDisk(dir[j])) # {}
      BY <2>5, <2>9, <3>1 DEF Due
    <3> QED BY <3>2 DEF Range
  <2>10. PICK e : e = <<>>
    OBVIOUS
  <2>11. e \in Seq(Comps) /\ IsInjective(e) /\ Range(e) = {} /\ Append(e, Current(u)) = <<Current(u)>>
    <3>1. Range(e) = {}
      BY <2>10 DEF Range
    <3> QED BY <2>10, <3>1, EmptyIsSingle
  <2>12. Pending(b, 0, due, e, full)
    <3>1. b.at \in 1..Len(b.dir) /\ b.key = b.dir[b.at] /\ 0 \in 0..Len(b.comps)
      BY <2>1, <2>2, <2>4, <2>7
    <3>2. full => \A j \in b.at + 1..Len(b.dir) : OnDisk(b.dir[j]) # <<>>
      BY <2>1, <2>2, <2>9
    <3>3. IsInjective(b.dir) /\ IsInjective(b.comps)
      BY <2>2 DEF OnceIn
    <3>4. due \subseteq b.gauge /\ due \subseteq Comps
      BY <2>2, <2>8
    <3> QED BY <2>8, <2>11, <3>1, <3>2, <3>3, <3>4 DEF Pending
  <2>13. Touring(b, 0, due, e, full)
    BY <2>2, <2>12 DEF Touring, OnceIn
  <2>14. PICK t : t = Append(e, Current(u))
    OBVIOUS
  <2>15. (Over(due, t, full) \/ (/\ Pending(u, u.cursor, due, t, full)
                                 /\ u.cursor # 0 /\ ~u.first /\ t # <<>>))
         /\ u.gauge = b.gauge
    BY <2>3, <2>13, <2>14, VisitGoesOn
  <2> QED BY <2>2, <2>11, <2>14, <2>15 DEF Visiting
<1> QED BY <1>1, <1>2

----------------------------------------------------------------------------
(* Visits and steps.                                                       *)

\* What is known of a visit; its gauge is not looked at.
IsTour(t) == t \in [due : {t.due}, seen : {t.seen}, gauge : {t.gauge}, full : {t.full}]

\* A set and what is known of its visit.
Toured(s, t) == IsTour(t) /\ Visiting(s, t.due, t.seen, t.full)

\* Nothing is in a file or a cluster twice, and all visits go right.
Visits ==
  /\ FilesSingle
  /\ \A d \in Sets : IsInjective(set[d].comps)
  /\ DOMAIN tour = Sets
  /\ \A d \in Sets : Toured(set[d], tour[d])

\* The inductive invariant.
VInv == IInv /\ Visits

\* A visit does not depend on what is in the file of its cluster.
LEMMA PendingStays ==
  ASSUME NEW s, s.dir \in Seq(Months), NEW p, NEW due, NEW seen, NEW full,
         Pending(s, p, due, seen, full),
         \A m \in Months \ {s.key} : OnDisk(m)' = OnDisk(m)
  PROVE  Pending(s, p, due, seen, full)'
<1>1. s.at \in 1..Len(s.dir) /\ s.key = s.dir[s.at] /\ IsInjective(s.dir)
  BY DEF Pending
<1>2. ASSUME NEW j \in s.at + 1..Len(s.dir) PROVE OnDisk(s.dir[j])' = OnDisk(s.dir[j])
  <2>1. j \in 1..Len(s.dir) /\ j # s.at /\ DOMAIN s.dir = 1..Len(s.dir)
    BY <1>1
  <2>2. s.dir[j] \in Months /\ s.dir[j] # s.key
    BY <1>1, <2>1 DEF IsInjective
  <2> QED BY <2>2
<1>3. \A c : Ahead(s, p, c) => Ahead(s, p, c)'
  BY <1>2 DEF Ahead
<1>4. \A c : Behind(s, p, c) => Behind(s, p, c)'
  BY DEF Behind
<1>5. (full => \A j \in s.at + 1..Len(s.dir) : OnDisk(s.dir[j]) # <<>>)'
  BY <1>2 DEF Pending
<1> QED BY <1>3, <1>4, <1>5 DEF Pending

\* Nor does one that is over.
LEMMA TouredStays ==
  ASSUME NEW s, Good(s), NEW t, Toured(s, t),
         \A m \in Months \ {s.key} : OnDisk(m)' = OnDisk(m)
  PROVE  Toured(s, t)'
<1>1. s.dir \in Seq(Months)
  BY DEF Good, SetOK
<1>2. IsTour(t)'
  BY DEF Toured, IsTour
<1>3. CASE t.due = {}
  BY <1>2, <1>3 DEF Toured, Visiting
<1>4. CASE Over(t.due, t.seen, t.full)
  <2>1. Over(t.due, t.seen, t.full)'
    BY <1>4 DEF Over
  <2> QED BY <1>2, <2>1 DEF Toured, Visiting
<1>5. CASE /\ Pending(s, s.cursor, t.due, t.seen, t.full)
           /\ s.cursor # 0 /\ ~s.first /\ t.seen # <<>>
  <2>1. Pending(s, s.cursor, t.due, t.seen, t.full)'
    BY <1>1, <1>5, PendingStays
  <2> QED BY <1>2, <1>5, <2>1 DEF Toured, Visiting
<1> QED BY <1>3, <1>4, <1>5 DEF Toured, Visiting

\* A step of one set that leaves the files alone.
Moves(d, s, t) ==
  /\ set' = [set EXCEPT ![d] = s]
  /\ tour' = [tour EXCEPT ![d] = t]
  /\ UNCHANGED files
  /\ Good(s) /\ IsInjective(s.comps) /\ Toured(s, t)

\* Such a step keeps all visits right.
LEMMA MovingKeeps ==
  ASSUME VInv, NEW d \in Sets, NEW s, NEW t, Moves(d, s, t)
  PROVE  Visits'
<1>1. /\ DOMAIN set = Sets /\ DOMAIN tour = Sets
      /\ \A e \in Sets : Good(set[e]) /\ IsInjective(set[e].comps) /\ Toured(set[e], tour[e])
  BY DEF VInv, IInv, SetsOK, Visits, Good
<1>2. /\ DOMAIN tour' = Sets /\ set'[d] = s /\ tour'[d] = t
      /\ \A e \in Sets \ {d} : set'[e] = set[e] /\ tour'[e] = tour[e]
  BY <1>1 DEF Moves
<1>3. \A m : OnDisk(m)' = OnDisk(m)
  BY DEF Moves, OnDisk
<1>4. FilesSingle'
  BY <1>3 DEF FilesSingle, VInv, Visits
<1>5. \A x, y : Good(x) /\ Toured(x, y) => Toured(x, y)'
  BY <1>3, TouredStays
<1>6. ASSUME NEW e \in Sets PROVE IsInjective(set'[e].comps) /\ (Toured(set[e], tour[e]))'
  <2>1. PICK x, y : x = set'[e] /\ y = tour'[e]
    OBVIOUS
  <2>2. Good(x) /\ IsInjective(x.comps) /\ Toured(x, y)
    BY <1>1, <1>2, <2>1 DEF Moves
  <2>3. Toured(x, y)'
    BY <1>5, <2>2
  <2>4. (Toured(set[e], tour[e]))'
    BY <2>1, <2>3
  <2> QED BY <2>1, <2>2, <2>4
<1> QED BY <1>2, <1>4, <1>6 DEF Visits

\* A change ends the visit.
LEMMA NoTourIsToured ==
  ASSUME NEW s
  PROVE  Toured(s, NoTour)
BY DEF Toured, IsTour, NoTour, Visiting

\* What ends it is a step of this kind.
LEMMA BecomingMoves ==
  ASSUME NEW d \in Sets, NEW s, Becomes(d, s), Good(s), IsInjective(s.comps)
  PROVE  \E t : Moves(d, s, t)
<1>1. Toured(s, NoTour)
  BY NoTourIsToured
<1>2. PICK t : t = NoTour
  OBVIOUS
<1>3. Moves(d, s, t)
  BY <1>1, <1>2 DEF Moves, Becomes
<1> QED BY <1>3

\* An addition is one: the component is new to the cluster.
LEMMA AddMoves ==
  ASSUME VInv, NEW d \in Sets, NEW c \in Comps, Add(d, c)
  PROVE  \E s, t : Moves(d, s, t)
<1>1. PICK o : o = set[d]
  OBVIOUS
<1>2. Good(o) /\ IsInjective(o.comps) /\ FilesOK /\ FilesSingle
  BY <1>1 DEF VInv, IInv, SetsOK, Visits, Good
<1>3. PICK m : m = MonthOf[c] /\ m \in Months
  BY EachHasAMonth
<1>4. PICK load : load = IF o.key = m THEN o ELSE Load(o, m)
  OBVIOUS
<1>5. /\ Good(load) /\ load.comps = (IF o.key = m THEN o.comps ELSE OnDisk(m))
  <2>1. CASE o.key = m
    BY <1>2, <1>4, <2>1
  <2>2. CASE o.key # m
    <3>1. Good(load)
      BY <1>2, <1>3, <1>4, <2>2, LoadIsGood DEF Good
    <3>2. load.comps = OnDisk(m)
      BY <1>2, <1>4, <2>2 DEF Load, Without, Good, SetOK
    <3> QED BY <2>2, <3>1, <3>2
  <2> QED BY <2>1, <2>2
<1>6. load.comps \in Seq(Comps) /\ IsInjective(load.comps)
  BY <1>2, <1>3, <1>5 DEF FilesSingle, Good, SetOK
<1>7. c \notin Range(load.comps)
  <2>1. c \notin Known
    BY DEF Add
  <2>2. Range(OnDisk(m)) \subseteq Known /\ Range(o.comps) \subseteq Known
    BY <1>1, <1>3 DEF Known
  <2> QED BY ONLY <1>5, <2>1, <2>2
<1>8. PICK q : q = Append(load.comps, c)
  OBVIOUS
<1>9. IsInjective(q)
  BY <1>6, <1>7, <1>8, OneMoreSeen
<1>10. PICK s : s = [load EXCEPT !.comps = q, !.marked = TRUE]
  OBVIOUS
<1>11. Good(s)
  BY <1>2, <1>3, <1>4, <1>8, <1>10, AdditionIsGood
<1>12. s.comps = q
  BY <1>5, <1>10 DEF Good, SetOK
<1>13. Becomes(d, s)
  BY <1>1, <1>3, <1>4, <1>8, <1>10 DEF Add
<1> QED BY <1>9, <1>11, <1>12, <1>13, BecomingMoves

\* Removing leaves no two alike.
LEMMA RemovalIsSingle ==
  ASSUME NEW S, NEW q \in Seq(S), IsInjective(q), NEW k \in DOMAIN q
  PROVE  IsInjective(RemoveAt(q, k))
<1>1. PICK n : n = Len(q)
  OBVIOUS
<1>2. n \in Nat /\ k \in 1..Len(q) /\ k \in 1..n /\ DOMAIN q = 1..n
  BY <1>1
<1>3. PICK r : r = RemoveAt(q, k)
  OBVIOUS
<1>4. /\ r \in Seq(S) /\ Len(r) = n - 1
      /\ \A i \in 1..n - 1 : r[i] = IF i < k THEN q[i] ELSE q[i + 1]
  BY <1>1, <1>2, <1>3, RemoveAtProperties
<1>5. DOMAIN r = 1..n - 1
  BY <1>4
<1>6. ASSUME NEW i \in 1..n - 1, NEW j \in 1..n - 1, r[i] = r[j] PROVE i = j
  <2>1. PICK x, y : x = (IF i < k THEN i ELSE i + 1) /\ y = (IF j < k THEN j ELSE j + 1)
    OBVIOUS
  <2>2. x \in 1..n /\ y \in 1..n /\ (x = y => i = j)
    BY <1>2, <2>1
  <2>3. r[i] = q[x] /\ r[j] = q[y]
    BY <1>4, <2>1
  <2> QED BY <1>2, <1>6, <2>2, <2>3 DEF IsInjective
<1>7. IsInjective(r)
  BY <1>5, <1>6 DEF IsInjective
<1> QED BY <1>3, <1>7

\* A removal is one.
LEMMA RemoveMoves ==
  ASSUME VInv, NEW d \in Sets, NEW i \in DOMAIN set[d].comps, RemoveOne(d, i)
  PROVE  \E s, t : Moves(d, s, t)
<1>1. PICK o : o = set[d]
  OBVIOUS
<1>2. Good(o) /\ IsInjective(o.comps) /\ FilesOK /\ FilesSingle /\ i \in DOMAIN o.comps
  BY <1>1 DEF VInv, IInv, SetsOK, Visits, Good
<1>3. PICK q, k : q = RemoveAt(o.comps, i) /\ k = Cursor(o, i)
  OBVIOUS
<1>4. IsInjective(q)
  <2>1. o.comps \in Seq(Comps)
    BY <1>2 DEF Good, SetOK
  <2> QED BY <1>2, <1>3, <2>1, RemovalIsSingle
<1>5. PICK left : left = [o EXCEPT !.comps = q, !.cursor = k, !.marked = TRUE]
  OBVIOUS
<1>6. Good(left)
  BY <1>2, <1>3, <1>5, RemovalIsGood
<1>7. left.comps = q
  BY <1>2, <1>5 DEF Good, SetOK
<1>8. OnceIn(left)
  BY <1>2, <1>4, <1>6, <1>7 DEF OnceIn
<1>9. Good(FirstOfNext(left)) /\ IsInjective(FirstOfNext(left).comps)
  BY <1>2, <1>6, <1>8, FirstOfNextIsGood, FirstOfNextIsSingle
<1>10. PICK s : s = IF left.comps = <<>> THEN FirstOfNext(left) ELSE left
  OBVIOUS
<1>11. Good(s) /\ IsInjective(s.comps)
  BY <1>4, <1>6, <1>7, <1>9, <1>10
<1>12. Becomes(d, s)
  BY <1>1, <1>3, <1>5, <1>10 DEF RemoveOne
<1> QED BY <1>11, <1>12, BecomingMoves

\* A listing has every file once.
LEMMA ListingIsSingle ==
  ASSUME NEW dir \in SetToSeqs(Names)
  PROVE  dir \in Seq(Months) /\ IsInjective(dir)
<1>1. dir \in Seq(Months)
  BY ListingOfMonths
<1>2. IsInjective(dir)
  BY DEF SetToSeqs, IsInjective
<1> QED BY <1>1, <1>2

\* The start of a visit is one.
LEMMA StartMoves ==
  ASSUME VInv, NEW d \in Sets, NEW dir \in SetToSeqs(Names), Start(d, dir)
  PROVE  \E s, t : Moves(d, s, t)
<1>1. PICK o : o = set[d]
  OBVIOUS
<1>2. OnceIn(o) /\ Good(o) /\ FilesOK
  BY <1>1 DEF VInv, IInv, SetsOK, Visits, Good, OnceIn
<1>3. dir \in Seq(Months) /\ IsInjective(dir)
  BY ListingIsSingle
<1>4. PICK s : s = FirstComponent(o, dir)
  OBVIOUS
<1>5. Good(s) /\ IsInjective(s.comps)
  BY <1>2, <1>3, <1>4, FirstComponentIsGood, FirstComponentIsSingle
<1>6. PICK due, full : /\ due = s.gauge \cap UNION {InFile(o, dir, m) : m \in Range(dir)}
                       /\ full = \A m \in Range(dir) : InFile(o, dir, m) # {}
  OBVIOUS
<1>7. s.gauge = o.gauge
  <2>1. PICK x, y : /\ x = o.gauge \cap UNION {InFile(o, dir, m) : m \in Range(dir)}
                    /\ y = \A m \in Range(dir) : InFile(o, dir, m) # {}
    OBVIOUS
  <2>2. Due(o, dir, x, y)
    BY <2>1 DEF Due
  <2> QED BY <1>2, <1>3, <1>4, <2>2, VisitStarts
<1>8. Due(o, dir, due, full)
  BY <1>6, <1>7 DEF Due
<1>9. Visiting(s, due, <<Current(s)>>, full)
  BY <1>2, <1>3, <1>4, <1>8, VisitStarts
<1>14. PICK seen : seen = <<IF dir = <<>> THEN Null ELSE Current(s)>>
  OBVIOUS
<1>15. Visiting(s, due, seen, full)
  <2>1. CASE dir = <<>>
    <3>1. Range(dir) = {}
      BY <2>1 DEF Range
    <3>2. due = {}
      BY <1>8, <3>1 DEF Due
    <3> QED BY <3>2 DEF Visiting
  <2>2. CASE dir # <<>>
    BY <1>9, <1>14, <2>2
  <2> QED BY <2>1, <2>2
<1>10. PICK t : t = [due |-> due, seen |-> seen, gauge |-> s.gauge, full |-> full]
  OBVIOUS
<1>11. Toured(s, t)
  BY <1>10, <1>15 DEF Toured, IsTour
<1>12. /\ set' = [set EXCEPT ![d] = s]
       /\ tour' = [tour EXCEPT ![d] = t]
       /\ UNCHANGED files
  BY <1>1, <1>4, <1>6, <1>10, <1>14 DEF Start, InFile
<1>13. Moves(d, s, t)
  BY <1>5, <1>11, <1>12 DEF Moves
<1> QED BY <1>13

\* A fetch is one: its visit is not gone on with.
LEMMA FetchMoves ==
  ASSUME VInv, NEW d \in Sets, NEW dir \in SetToSeqs(Names), NEW c \in Comps, Fetch(d, c, dir)
  PROVE  \E s, t : Moves(d, s, t)
<1>1. PICK o, g : o = [set[d] EXCEPT !.gauge = {c}] /\ g = set[d].gauge
  OBVIOUS
<1>2. Good(set[d]) /\ IsInjective(set[d].comps) /\ FilesOK /\ FilesSingle
  BY DEF VInv, IInv, SetsOK, Visits, Good
<1>3. Good(o) /\ o.comps = set[d].comps
  <2>1. Good(o)
    BY <1>1, <1>2, GaugeKeeps
  <2> QED BY <1>1, <1>2, <2>1 DEF Good, SetOK
<1>4. OnceIn(o)
  BY <1>2, <1>3 DEF OnceIn
<1>5. dir \in Seq(Months)
  BY ListingIsSingle
<1>6. PICK f : f = FirstComponent(o, dir)
  OBVIOUS
<1>7. Good(f) /\ IsInjective(f.comps)
  BY <1>2, <1>3, <1>4, <1>5, <1>6, FirstComponentIsGood, FirstComponentIsSingle
<1>8. PICK s : s = [f EXCEPT !.gauge = g]
  OBVIOUS
<1>9. Good(s) /\ s.comps = f.comps
  <2>1. Good(s)
    BY <1>7, <1>8, GaugeKeeps
  <2> QED BY <1>7, <1>8, <2>1 DEF Good, SetOK
<1>10. Becomes(d, s)
  BY <1>1, <1>6, <1>8 DEF Fetch
<1> QED BY <1>7, <1>9, <1>10, BecomingMoves

\* A visit goes on with what it has not had, or is over.
LEMMA ContinueMoves ==
  ASSUME VInv, NEW d \in Sets, Continue(d)
  PROVE  \E s, t : Moves(d, s, t)
<1>1. PICK o, h : o = set[d] /\ h = tour[d]
  OBVIOUS
<1>2. OnceIn(o) /\ Good(o) /\ FilesOK /\ FilesSingle /\ Toured(o, h)
  BY <1>1 DEF VInv, IInv, SetsOK, Visits, Good, OnceIn
<1>3. PICK s : s = NextComponent(o)
  OBVIOUS
<1>4. Good(s) /\ IsInjective(s.comps)
  BY <1>2, <1>3, NextComponentIsGood, NextComponentIsSingle
<1>5. PICK e : e = IF h.seen = <<>> \/ Last(h.seen) = Null THEN h.seen ELSE Append(h.seen, Current(s))
  OBVIOUS
<1>6. PICK t : t = [h EXCEPT !.seen = e]
  OBVIOUS
<1>7. IsTour(t) /\ t.due = h.due /\ t.full = h.full /\ t.seen = e
  BY <1>2, <1>6 DEF Toured, IsTour
<1>8. Visiting(s, h.due, e, h.full)
  <2>1. CASE h.due = {}
    BY <2>1 DEF Visiting
  <2>2. CASE Over(h.due, h.seen, h.full)
    <3>1. e = h.seen
      BY <1>5, <2>2 DEF Over
    <3> QED BY <2>2, <3>1 DEF Visiting
  <2>3. CASE /\ Pending(o, o.cursor, h.due, h.seen, h.full)
             /\ o.cursor # 0 /\ ~o.first /\ h.seen # <<>>
    <3>1. h.seen \in Seq(Comps) /\ h.seen # <<>>
      BY <2>3 DEF Pending
    <3>2. Last(h.seen) \in Comps
      BY <3>1 DEF Last
    <3>3. e = Append(h.seen, Current(s))
      BY <1>5, <3>1, <3>2, NullIsNothing
    <3>4. Touring(o, o.cursor, h.due, h.seen, h.full)
      BY <1>2, <2>3 DEF Touring
    <3>5. Over(h.due, e, h.full) \/ (/\ Pending(s, s.cursor, h.due, e, h.full)
                                     /\ s.cursor # 0 /\ ~s.first /\ e # <<>>)
      <4>1. PICK p, due, seen, full : p = o.cursor /\ due = h.due /\ seen = h.seen /\ full = h.full
        OBVIOUS
      <4>2. Touring(o, p, due, seen, full)
        BY ONLY <3>4, <4>1
      <4>3. e = Append(seen, Current(s))
        BY ONLY <3>3, <4>1
      <4>4. Over(due, e, full) \/ (/\ Pending(s, s.cursor, due, e, full)
                                    /\ s.cursor # 0 /\ ~s.first /\ e # <<>>)
        BY <1>3, <4>2, <4>3, VisitGoesOn
      <4> QED BY ONLY <4>1, <4>4
    <3> QED BY <3>5 DEF Visiting
  <2> QED BY <1>2, <2>1, <2>2, <2>3 DEF Toured, Visiting
<1>9. Toured(s, t)
  BY <1>7, <1>8 DEF Toured
<1>10. /\ set' = [set EXCEPT ![d] = s]
       /\ tour' = [tour EXCEPT ![d] = t]
       /\ UNCHANGED files
  BY <1>1, <1>3, <1>5, <1>6 DEF Continue
<1>11. Moves(d, s, t)
  BY <1>4, <1>9, <1>10 DEF Moves
<1> QED BY <1>11

\* A commit changes the file of the cluster, which a visit has passed.
LEMMA CommitVisits ==
  ASSUME VInv, Alone, NEW d \in Sets, Commit(d)
  PROVE  Visits'
<1>1. PICK s, t : s = set[d] /\ t = tour[d]
  OBVIOUS
<1>2. /\ Good(s) /\ IsInjective(s.comps) /\ Toured(s, t) /\ FilesSingle
      /\ s.key \in Months /\ s.comps \in Seq(Comps) /\ DOMAIN files = Months
  BY <1>1 DEF VInv, IInv, FilesOK, SetsOK, Visits, Good, SetOK, Commit
<1>3. /\ files'[s.key] = s.comps
      /\ \A m \in Months \ {s.key} : files'[m] = files[m]
      /\ set' = set /\ tour' = tour
  BY <1>1, <1>2 DEF Commit
<1>4. s.comps # Null
  BY <1>2, NullIsNothing
<1>5. /\ OnDisk(s.key)' = s.comps
      /\ \A m \in Months \ {s.key} : OnDisk(m)' = OnDisk(m)
  <2>1. (IF files'[s.key] = Null THEN <<>> ELSE files'[s.key]) = s.comps
    BY <1>3, <1>4
  <2>2. OnDisk(s.key)' = IF files'[s.key] = Null THEN <<>> ELSE files'[s.key]
    BY DEF OnDisk
  <2>3. \A m \in Months \ {s.key} : OnDisk(m)' = OnDisk(m)
    BY <1>3 DEF OnDisk
  <2> QED BY <2>1, <2>2, <2>3
<1>6. FilesSingle'
  <2>1. ASSUME NEW m \in Months PROVE IsInjective(OnDisk(m)')
    BY <1>2, <1>5 DEF FilesSingle
  <2> QED BY <2>1 DEF FilesSingle
<1>7. Toured(s, t)'
  BY <1>2, <1>5, TouredStays
<1>8. \A e \in Sets : e = d
  BY DEF Alone
<1>9. (Toured(set[d], tour[d]))'
  BY <1>1, <1>3, <1>7
<1>10. DOMAIN tour' = Sets /\ IsInjective(set'[d].comps)
  BY <1>1, <1>2, <1>3 DEF VInv, Visits
<1> QED BY <1>6, <1>8, <1>9, <1>10 DEF Visits

\* Every step keeps the invariant.
LEMMA VisitsStepKeeps ==
  ASSUME VInv, Alone, [Next]_vars
  PROVE  VInv'
<1>1. IInv'
  BY StepKeeps DEF VInv
<1>2. \A d \in Sets : Good(set[d]) /\ IsInjective(set[d].comps)
  BY DEF VInv, IInv, SetsOK, Visits, Good
<1>3. CASE UNCHANGED vars
  <2>1. set' = set /\ tour' = tour /\ \A m : OnDisk(m)' = OnDisk(m)
    BY <1>3 DEF vars, OnDisk
  <2>2. FilesSingle'
    BY <2>1 DEF FilesSingle, VInv, Visits
  <2>3. \A x, y : Good(x) /\ Toured(x, y) => Toured(x, y)'
    BY <2>1, TouredStays
  <2>4. ASSUME NEW d \in Sets PROVE (Toured(set[d], tour[d]))'
    <3>1. PICK x, y : x = set[d] /\ y = tour[d]
      OBVIOUS
    <3>2. Toured(x, y)'
      BY <1>2, <2>3, <3>1 DEF VInv, Visits
    <3> QED BY <2>1, <3>1, <3>2
  <2>5. Visits'
    BY <2>1, <2>2, <2>4 DEF VInv, Visits
  <2> QED BY <1>1, <2>5 DEF VInv
<1>4. CASE Next
  <2>1. PICK d \in Sets : \/ \E c \in Comps : Add(d, c)
                          \/ \E i \in DOMAIN set[d].comps : RemoveOne(d, i)
                          \/ Mark(d) \/ Commit(d) \/ FreeAndNew(d)
                          \/ \E g \in Gauges : Select(d, g)
                          \/ \E dir \in SetToSeqs(Names) :
                               Start(d, dir) \/ \E c \in Comps : Fetch(d, c, dir)
                          \/ Continue(d)
    BY <1>4 DEF Next, Look
  <2>2. ASSUME \E c \in Comps : Add(d, c) PROVE \E s, t : Moves(d, s, t)
    BY <2>2, AddMoves
  <2>3. ASSUME \E i \in DOMAIN set[d].comps : RemoveOne(d, i) PROVE \E s, t : Moves(d, s, t)
    BY <2>3, RemoveMoves
  <2>4. ASSUME Mark(d) PROVE \E s, t : Moves(d, s, t)
    <3>1. PICK s : s = [set[d] EXCEPT !.marked = TRUE]
      OBVIOUS
    <3>2. Good(s)
      BY <1>2, <3>1, MarkIsGood
    <3>3. s.comps = set[d].comps
      BY <1>2, <3>1 DEF Good, SetOK
    <3> QED BY <1>2, <2>4, <3>1, <3>2, <3>3, BecomingMoves DEF Mark
  <2>5. ASSUME FreeAndNew(d) PROVE \E s, t : Moves(d, s, t)
    <3>1. IsInjective(Fresh.comps)
      BY EmptyIsSingle DEF Fresh
    <3>2. PICK s : s = Fresh
      OBVIOUS
    <3>3. Good(s) /\ IsInjective(s.comps) /\ Becomes(d, s)
      BY <2>5, <3>1, <3>2, FreshIsGood DEF FreeAndNew
    <3> QED BY <3>3, BecomingMoves
  <2>6. ASSUME \E g \in Gauges : Select(d, g) PROVE \E s, t : Moves(d, s, t)
    <3>1. PICK g \in Gauges : Select(d, g)
      BY <2>6
    <3>2. PICK s : s = [set[d] EXCEPT !.gauge = g]
      OBVIOUS
    <3>3. Good(s)
      BY <1>2, <3>2, GaugeKeeps
    <3>4. s.comps = set[d].comps
      BY <1>2, <3>2 DEF Good, SetOK
    <3> QED BY <1>2, <3>1, <3>2, <3>3, <3>4, BecomingMoves DEF Select
  <2>7. ASSUME \E dir \in SetToSeqs(Names) : Start(d, dir) \/ \E c \in Comps : Fetch(d, c, dir)
        PROVE  \E s, t : Moves(d, s, t)
    BY <2>7, StartMoves, FetchMoves
  <2>8. ASSUME Continue(d) PROVE \E s, t : Moves(d, s, t)
    BY <2>8, ContinueMoves
  <2>9. Commit(d) \/ \E s, t : Moves(d, s, t)
    BY <2>1, <2>2, <2>3, <2>4, <2>5, <2>6, <2>7, <2>8
  <2>10. Visits'
    BY <2>9, CommitVisits, MovingKeeps
  <2> QED BY <1>1, <2>10 DEF VInv
<1> QED BY <1>3, <1>4

\* The invariant is more than the property.
LEMMA NoneIsMissed ==
  ASSUME VInv
  PROVE  VisitMissesNothing
<1> SUFFICES ASSUME NEW d \in Sets
    PROVE  LET seen == tour[d].seen IN
           /\ \A i, j \in DOMAIN seen : seen[i] = seen[j] /\ seen[i] \in tour[d].due => i = j
           /\ tour[d].full /\ seen # <<>> /\ Last(seen) = Null => tour[d].due \subseteq Range(seen)
  BY DEF VisitMissesNothing
<1>1. PICK s, t : s = set[d] /\ t = tour[d]
  OBVIOUS
<1>2. Visiting(s, t.due, t.seen, t.full)
  BY <1>1 DEF VInv, Visits, Toured
<1>3. CASE t.due = {}
  BY <1>1, <1>3
<1>4. CASE Over(t.due, t.seen, t.full)
  BY <1>1, <1>4 DEF Over
<1>5. CASE Pending(s, s.cursor, t.due, t.seen, t.full) /\ t.seen # <<>>
  <2>1. t.seen \in Seq(Comps) /\ IsInjective(t.seen)
    BY <1>5 DEF Pending
  <2>2. Last(t.seen) \in Comps
    BY <1>5, <2>1 DEF Last
  <2>3. Last(t.seen) # Null
    BY <2>2, NullIsNothing
  <2> QED BY <1>1, <2>1, <2>3 DEF IsInjective
<1> QED BY <1>2, <1>3, <1>4, <1>5 DEF Visiting

\* A visit of a set that has the directory for itself returns no component
\* twice, and has returned each that passes the gauge when it returns null,
\* unless a file was empty (icaldirset.c:655, icaldirset.c:692).
THEOREM NoVisitMisses ==
  ASSUME Alone
  PROVE  Spec => []VisitMissesNothing
<1>1. Init => VInv
  <2> SUFFICES ASSUME Init PROVE VInv
    OBVIOUS
  <2>1. IInv
    <3>1. Range(<<>>) = {}
      BY DEF Range
    <3>2. FilesOK
      BY <3>1 DEF Init, FilesOK, OnDisk
    <3>3. SetsOK
      BY FreshIsGood DEF Init, SetsOK, Good
    <3> QED BY <3>2, <3>3 DEF IInv
  <2>2. FilesSingle
    BY EmptyIsSingle DEF Init, FilesSingle, OnDisk
  <2>3. \A d \in Sets : IsInjective(set[d].comps)
    BY EmptyIsSingle DEF Init, Fresh
  <2>4. DOMAIN tour = Sets /\ \A d \in Sets : Toured(set[d], tour[d])
    BY NoTourIsToured DEF Init
  <2> QED BY <2>1, <2>2, <2>3, <2>4 DEF VInv, Visits
<1>2. VInv /\ [Next]_vars => VInv'
  BY VisitsStepKeeps
<1>3. VInv => VisitMissesNothing
  BY NoneIsMissed
<1> QED BY <1>1, <1>2, <1>3, PTL DEF Spec
=============================================================================
