------------------------ MODULE ICalComponentProofs ------------------------
(***************************************************************************)
(* What holds of the component tree for any number of calendars and        *)
(* children, of any kinds and with any TZIDs.  The invariant (TreeInv) has *)
(* two parts:                                                              *)
(*   Sane     each calendar's list, iterator, array of zones and flag are  *)
(*            in order, and children know their parent: every change that  *)
(*            the library makes keeps it (the lemmas ...IsSane);           *)
(*   Running  what the loop that runs has passed: nothing it is to remove, *)
(*            and, in a merge, only zones that the other calendar has.     *)
(* That a merge leaves no zone that is needed rests on the lookup it       *)
(* makes, a binary search (SearchFinds).                                   *)
(***************************************************************************)
EXTENDS ICalComponent, Induction, FiniteSetTheorems

(* Lists without repetition.                                               *)

\* Where an element is in a list; Nil is behind the end.
Place(s, c) == IF c = Nil THEN Len(s) + 1 ELSE PositionOf(s, c)

\* A list of kids, none twice.
IsList(s) == s \in Seq(Kids) /\ IsInjective(s)

\* What a list is: its places and its elements.
LEMMA ListProperties ==
  ASSUME NEW s, IsList(s)
  PROVE  /\ Len(s) \in Nat /\ DOMAIN s = 1..Len(s)
         /\ \A i \in 1..Len(s) : s[i] \in Kids /\ s[i] # Nil /\ s[i] \in ToSet(s)
         /\ \A c \in ToSet(s) : c \in Kids /\ \E i \in 1..Len(s) : c = s[i]
         /\ \A i, j \in 1..Len(s) : s[i] = s[j] => i = j
<1>1. s \in Seq(Kids)
  BY DEF IsList
<1>2. Len(s) \in Nat /\ DOMAIN s = 1..Len(s)
  BY <1>1, LenProperties
<1>3. \A i \in 1..Len(s) : s[i] \in Kids
  BY <1>1, ElementOfSeq
<1> QED BY <1>2, <1>3, CalsAndKids DEF IsList, IsInjective, ToSet

\* An element is in one place.
LEMMA PlaceOfElement ==
  ASSUME NEW s, IsList(s), NEW i \in 1..Len(s)
  PROVE  Place(s, s[i]) = i
BY ListProperties DEF Place, PositionOf

\* An iterator is on a child or behind the last.
LEMMA PlaceTyped ==
  ASSUME NEW s, IsList(s), NEW c \in ToSet(s) \cup {Nil}
  PROVE  /\ Place(s, c) \in 1..Len(s) + 1
         /\ c = Nil <=> Place(s, c) = Len(s) + 1
         /\ c # Nil => c \in ToSet(s) /\ PositionOf(s, c) = Place(s, c) /\ s[Place(s, c)] = c
<1>0. Len(s) \in Nat
  BY ListProperties
<1>1. CASE c = Nil
  BY <1>0, <1>1 DEF Place
<1>2. CASE c # Nil
  <2>1. PICK i \in 1..Len(s) : c = s[i]
    BY <1>2, ListProperties
  <2>2. Place(s, c) = i
    BY <2>1, PlaceOfElement
  <2> QED BY <1>0, <1>2, <2>1, <2>2 DEF Place
<1> QED BY <1>1, <1>2

\* The list of one element less, and where the others are in it.
LEMMA WithoutOne ==
  ASSUME NEW s, IsList(s), NEW c \in ToSet(s)
  PROVE  /\ Len(Without(s, c)) = Len(s) - 1
         /\ \A i \in 1..Len(s) - 1 :
              Without(s, c)[i] = IF i < Place(s, c) THEN s[i] ELSE s[i + 1]
         /\ IsList(Without(s, c))
         /\ ToSet(Without(s, c)) = ToSet(s) \ {c}
<1>1. PICK n, k, w : n = Len(s) /\ k = PositionOf(s, c) /\ w = Without(s, c)
  OBVIOUS
<1>2. c # Nil /\ c \in ToSet(s) \cup {Nil}
  BY ListProperties
<1>3. n \in Nat /\ k = Place(s, c) /\ k \in 1..n /\ s[k] = c
  BY <1>1, <1>2, PlaceTyped, ListProperties
<1>4. \A i \in 1..n : s[i] \in Kids
  BY <1>1, ListProperties
<1>5. PICK a, b : a = SubSeq(s, 1, k - 1) /\ b = SubSeq(s, k + 1, n)
  OBVIOUS
<1>6. /\ a \in Seq(Kids) /\ Len(a) = k - 1
      /\ \A i \in 1..k - 1 : a[i] = s[i]
  <2>1. 1 \in Int /\ k - 1 \in Int /\ \A i \in 1..k - 1 : s[i] \in Kids
    BY <1>3, <1>4
  <2>2. /\ a \in Seq(Kids) /\ Len(a) = IF 1 <= k - 1 THEN (k - 1) - 1 + 1 ELSE 0
        /\ \A i \in 1..(k - 1) - 1 + 1 : a[i] = s[1 + i - 1]
    BY <1>5, <2>1, SubSeqProperties
  <2> QED BY <1>3, <2>2
<1>7. /\ b \in Seq(Kids) /\ Len(b) = n - k
      /\ \A i \in 1..n - k : b[i] = s[k + i]
  <2>1. k + 1 \in Int /\ n \in Int /\ \A i \in k + 1..n : s[i] \in Kids
    BY <1>3, <1>4
  <2>2. /\ b \in Seq(Kids) /\ Len(b) = IF k + 1 <= n THEN n - (k + 1) + 1 ELSE 0
        /\ \A i \in 1..n - (k + 1) + 1 : b[i] = s[(k + 1) + i - 1]
    BY <1>5, <2>1, SubSeqProperties
  <2> QED BY <1>3, <2>2
<1>8. w = a \o b
  BY <1>1, <1>5 DEF Without, RemoveAt
<1>9. /\ w \in Seq(Kids) /\ Len(w) = n - 1
      /\ \A i \in 1..n - 1 : w[i] = IF i < k THEN s[i] ELSE s[i + 1]
  <2>1. /\ w \in Seq(Kids) /\ Len(w) = Len(a) + Len(b)
        /\ \A i \in 1..Len(a) + Len(b) : w[i] = IF i <= Len(a) THEN a[i] ELSE b[i - Len(a)]
    BY <1>6, <1>7, <1>8, ConcatProperties
  <2>2. ASSUME NEW i \in 1..n - 1 PROVE w[i] = IF i < k THEN s[i] ELSE s[i + 1]
    <3>1. CASE i < k
      BY SMTT(30), <1>3, <1>6, <1>7, <2>1, <3>1
    <3>2. CASE ~(i < k)
      <4>1. PICK j : j = i - (k - 1)
        OBVIOUS
      <4>2. j \in 1..n - k /\ k + j = i + 1
        BY <1>3, <3>2, <4>1
      <4>3. w[i] = b[j]
        <5>1. i \in 1..Len(a) + Len(b) /\ ~(i <= Len(a)) /\ i - Len(a) = j
          BY <1>3, <1>6, <1>7, <3>2, <4>1
        <5> QED BY <2>1, <5>1
      <4>4. b[j] = s[k + j]
        BY <1>7, <4>2
      <4> QED BY <3>2, <4>2, <4>3, <4>4
    <3> QED BY <3>1, <3>2
  <2> QED BY <1>3, <1>6, <1>7, <2>1, <2>2
<1>10. DOMAIN w = 1..n - 1
  BY <1>9, LenProperties
<1>11. \A i, j \in 1..n : s[i] = s[j] => i = j
  BY <1>1, ListProperties
<1>12. IsInjective(w)
  <2>1. ASSUME NEW i \in 1..n - 1, NEW j \in 1..n - 1, w[i] = w[j] PROVE i = j
    <3>1. i \in 1..n /\ i + 1 \in 1..n /\ j \in 1..n /\ j + 1 \in 1..n
      BY <1>3
    <3>2. CASE i < k /\ j < k
      BY <1>9, <1>11, <2>1, <3>1, <3>2
    <3>3. CASE i < k /\ ~(j < k)
      <4>1. i = j + 1
        BY <1>9, <1>11, <2>1, <3>1, <3>3
      <4> QED BY <1>3, <3>3, <4>1
    <3>4. CASE ~(i < k) /\ j < k
      <4>1. i + 1 = j
        BY <1>9, <1>11, <2>1, <3>1, <3>4
      <4> QED BY <1>3, <3>4, <4>1
    <3>5. CASE ~(i < k) /\ ~(j < k)
      <4>1. i + 1 = j + 1
        BY <1>9, <1>11, <2>1, <3>1, <3>5
      <4> QED BY <4>1
    <3> QED BY <3>2, <3>3, <3>4, <3>5
  <2> QED BY <1>10, <2>1 DEF IsInjective
<1>13. ToSet(w) = ToSet(s) \ {c}
  <2>1. ASSUME NEW d \in ToSet(w) PROVE d \in ToSet(s) \ {c}
    <3>1. PICK i \in 1..n - 1 : d = w[i]
      BY <1>10, <2>1 DEF ToSet
    <3>2. PICK j \in 1..n : d = s[j] /\ j # k
      <4>1. CASE i < k
        <5>1. i \in 1..n
          BY <1>3
        <5> QED BY <1>3, <1>9, <3>1, <4>1, <5>1
      <4>2. CASE ~(i < k)
        <5>1. i + 1 \in 1..n /\ i + 1 # k
          BY <1>3, <4>2
        <5> QED BY <1>9, <3>1, <4>2, <5>1
      <4> QED BY <4>1, <4>2
    <3> QED BY <1>1, <1>3, <1>11, <3>2, ListProperties
  <2>2. ASSUME NEW d \in ToSet(s), d # c PROVE d \in ToSet(w)
    <3>1. PICK j \in 1..n : d = s[j]
      BY <1>1, ListProperties
    <3>2. j # k
      BY <1>3, <2>2, <3>1
    <3>3. PICK i \in 1..n - 1 : d = w[i]
      <4>1. CASE j < k
        <5>1. j \in 1..n - 1
          BY <1>3, <4>1
        <5> QED BY <1>9, <3>1, <4>1, <5>1
      <4>2. CASE ~(j < k)
        <5>1. j - 1 \in 1..n - 1 /\ ~(j - 1 < k) /\ (j - 1) + 1 = j
          BY <1>3, <3>2, <4>2
        <5> QED BY <1>9, <3>1, <5>1
      <4> QED BY <4>1, <4>2
    <3> QED BY <1>10, <3>3 DEF ToSet
  <2> QED BY <2>1, <2>2
<1> QED BY <1>1, <1>3, <1>9, <1>12, <1>13 DEF IsList

\* The list of one element more, at its end or at its head.
LEMMA WithLast ==
  ASSUME NEW s, IsList(s), NEW c \in Kids \ ToSet(s)
  PROVE  /\ IsList(Append(s, c)) /\ ToSet(Append(s, c)) = ToSet(s) \cup {c}
         /\ Len(Append(s, c)) = Len(s) + 1
         /\ \A i \in 1..Len(s) : Append(s, c)[i] = s[i]
         /\ Append(s, c)[Len(s) + 1] = c
<1>1. PICK n, w : n = Len(s) /\ w = Append(s, c)
  OBVIOUS
<1>2. /\ n \in Nat /\ DOMAIN s = 1..n /\ s \in Seq(Kids)
      /\ \A i, j \in 1..n : s[i] = s[j] => i = j
      /\ \A i \in 1..n : s[i] # c
  BY <1>1, ListProperties DEF IsList
<1>3. /\ w \in Seq(Kids) /\ Len(w) = n + 1
      /\ \A i \in 1..n : w[i] = s[i]
      /\ w[n + 1] = c
  BY <1>1, <1>2, AppendProperties
<1>4. DOMAIN w = 1..n + 1
  BY <1>3, LenProperties
<1>5. IsInjective(w)
  <2>1. \A i \in 1..n + 1 : i \in 1..n \/ i = n + 1
    BY <1>2
  <2> QED BY <1>2, <1>3, <1>4, <2>1 DEF IsInjective
<1>6. ToSet(w) = ToSet(s) \cup {c}
  <2>1. \A i \in 1..n + 1 : i \in 1..n \/ i = n + 1
    BY <1>2
  <2>2. n + 1 \in 1..n + 1 /\ \A i \in 1..n : i \in 1..n + 1
    BY <1>2
  <2> QED BY <1>2, <1>3, <1>4, <2>1, <2>2 DEF ToSet
<1> QED BY <1>1, <1>3, <1>5, <1>6 DEF IsList

\* And at its head.
LEMMA WithFirst ==
  ASSUME NEW s, IsList(s), NEW c \in Kids \ ToSet(s)
  PROVE  /\ IsList(<<c>> \o s) /\ ToSet(<<c>> \o s) = ToSet(s) \cup {c}
         /\ Len(<<c>> \o s) = Len(s) + 1
         /\ (<<c>> \o s)[1] = c
         /\ \A i \in 2..Len(s) + 1 : (<<c>> \o s)[i] = s[i - 1]
<1>1. PICK n, w, u : n = Len(s) /\ u = <<c>> /\ w = u \o s
  OBVIOUS
<1>2. /\ n \in Nat /\ DOMAIN s = 1..n /\ s \in Seq(Kids)
      /\ \A i, j \in 1..n : s[i] = s[j] => i = j
      /\ \A i \in 1..n : s[i] # c
  BY <1>1, ListProperties DEF IsList
<1>3. u \in Seq(Kids) /\ Len(u) = 1 /\ u[1] = c
  BY <1>1
<1>4. /\ w \in Seq(Kids) /\ Len(w) = n + 1
      /\ w[1] = c
      /\ \A i \in 2..n + 1 : w[i] = s[i - 1]
  <2>1. /\ w \in Seq(Kids) /\ Len(w) = 1 + n
        /\ \A i \in 1..1 + n : w[i] = IF i <= 1 THEN u[i] ELSE s[i - 1]
    BY <1>1, <1>2, <1>3, ConcatProperties
  <2>2. 1 \in 1..1 + n /\ \A i \in 2..n + 1 : i \in 1..1 + n /\ ~(i <= 1)
    BY <1>2
  <2> QED BY <1>2, <1>3, <2>1, <2>2
<1>5. DOMAIN w = 1..n + 1
  BY <1>4, LenProperties
<1>6. \A i \in 1..n + 1 : i = 1 \/ (i \in 2..n + 1 /\ i - 1 \in 1..n)
  BY <1>2
<1>7. IsInjective(w)
  <2>1. ASSUME NEW i \in 1..n + 1, NEW j \in 1..n + 1, w[i] = w[j] PROVE i = j
    <3>1. CASE i = 1 \/ j = 1
      BY <1>2, <1>4, <1>6, <2>1, <3>1
    <3>2. CASE i # 1 /\ j # 1
      <4>1. i - 1 = j - 1
        BY <1>2, <1>4, <1>6, <2>1, <3>2
      <4> QED BY <1>2, <4>1
    <3> QED BY <3>1, <3>2
  <2> QED BY <1>5, <2>1 DEF IsInjective
<1>8. ToSet(w) = ToSet(s) \cup {c}
  <2>1. ASSUME NEW d \in ToSet(w) PROVE d \in ToSet(s) \cup {c}
    BY <1>2, <1>4, <1>5, <1>6, <2>1 DEF ToSet
  <2>2. ASSUME NEW d \in ToSet(s) PROVE d \in ToSet(w)
    <3>1. PICK i \in 1..n : d = s[i]
      BY <1>2, <2>2 DEF ToSet
    <3>2. i + 1 \in 2..n + 1 /\ i + 1 \in 1..n + 1 /\ (i + 1) - 1 = i
      BY <1>2
    <3> QED BY <1>4, <1>5, <3>1, <3>2 DEF ToSet
  <2>3. c \in ToSet(w)
    <3>1. 1 \in 1..n + 1
      BY <1>2
    <3> QED BY <1>4, <1>5, <3>1 DEF ToSet
  <2> QED BY <2>1, <2>2, <2>3
<1> QED BY <1>1, <1>4, <1>7, <1>8 DEF IsList

\* What an iterator finds from a place on: the next of the kind, and none of
\* the kind is between.
LEMMA FoundFrom ==
  ASSUME NEW s, IsList(s), NEW i \in 1..Len(s) + 1, NEW kind
  PROVE  /\ FirstFrom(s, i, kind) \in ToSet(s) \cup {Nil}
         /\ Place(s, FirstFrom(s, i, kind)) \in i..Len(s) + 1
         /\ FirstFrom(s, i, kind) # Nil => Of(kind, FirstFrom(s, i, kind))
         /\ \A j \in i..Place(s, FirstFrom(s, i, kind)) - 1 : ~Of(kind, s[j])
<1>1. PICK n, c : n = Len(s) /\ c = FirstFrom(s, i, kind)
  OBVIOUS
<1>2. n \in Nat
  BY <1>1, ListProperties
<1>3. PICK found : found = {j \in i..n : Of(kind, s[j])}
  OBVIOUS
<1>4. CASE found = {}
  <2>1. c = Nil
    BY <1>1, <1>3, <1>4 DEF FirstFrom
  <2> QED BY <1>1, <1>2, <1>3, <1>4, <2>1 DEF Place
<1>5. CASE found # {}
  <2>1. c = s[Min(found)]
    BY <1>1, <1>3, <1>5 DEF FirstFrom
  <2>2. \E x \in found : \A y \in found : x <= y
    <3>1. found \in SUBSET Nat
      BY <1>2, <1>3
    <3> QED BY <1>5, <3>1, LeastNumber
  <2>3. PICK m : m = Min(found) /\ m \in found /\ \A y \in found : m <= y
    BY <2>2 DEF Min
  <2>4. m \in i..n /\ m \in 1..n /\ c = s[m] /\ Of(kind, c)
    BY <1>1, <1>2, <1>3, <2>1, <2>3
  <2>5. Place(s, c) = m /\ c \in ToSet(s)
    BY <1>1, <2>4, PlaceOfElement, ListProperties
  <2>6. \A j \in i..m - 1 : ~Of(kind, s[j])
    BY <1>2, <1>3, <2>3, <2>4
  <2> QED BY <1>1, <1>2, <2>4, <2>5, <2>6
<1> QED BY <1>4, <1>5

Node == [alive : BOOLEAN, parent : Cals \cup {Nil}, kids : Seq(Kids),
         cursor : Kids \cup {Nil}, zones : Seq(Kids), sorted : BOOLEAN]

ZonesAhead(s) == \A i, j \in 1..Len(s) : i < j /\ IsZone(s[j]) => IsZone(s[i])

\* A calendar of the heap h: its list, the iterator inside it, its array.
Calendar(h, p) ==
  /\ IsList(h[p].kids) /\ IsList(h[p].zones)
  /\ \A c \in Kids : c \in ToSet(h[p].kids) <=> h[c].parent = p
  /\ h[p].cursor \in ToSet(h[p].kids) \cup {Nil}
  /\ ZonesAhead(h[p].kids)
  /\ ToSet(h[p].zones) = {c \in ToSet(h[p].kids) : Titled(c)}
  /\ h[p].sorted => Ordered(h[p].zones)
  /\ h[p].parent = Nil

Leaf(h, c) ==
  /\ h[c].kids = <<>> /\ h[c].zones = <<>>
  /\ h[c].parent # Nil => h[c].alive /\ h[h[c].parent].alive

Sane(h) == /\ h \in [Comp -> Node]
           /\ \A p \in Cals : Calendar(h, p)
           /\ \A c \in Kids : Leaf(h, c)

\* What is asked of a change to one calendar.
LEMMA OneCalendar ==
  ASSUME NEW h, NEW g, Sane(h), NEW p \in Cals,
         g \in [Comp -> Node],
         \A q \in Cals \ {p} : g[q] = h[q],
         \A c \in Kids : \/ g[c].parent = h[c].parent
                         \/ {g[c].parent, h[c].parent} \subseteq {p, Nil},
         Calendar(g, p), \A c \in Kids : Leaf(g, c)
  PROVE  Sane(g)
<1>1. ASSUME NEW q \in Cals \ {p} PROVE Calendar(g, q)
  <2>1. Calendar(h, q) /\ g[q] = h[q] /\ q # Nil
    BY CalsAndKids DEF Sane
  <2>2. \A c \in Kids : g[c].parent = q <=> h[c].parent = q
    BY <2>1
  <2> QED BY <2>1, <2>2 DEF Calendar
<1> QED BY <1>1 DEF Sane

\* The elements that are left are in the order they were in.
LEMMA WithoutKeepsOrder ==
  ASSUME NEW s, IsList(s), NEW c \in ToSet(s)
  PROVE  \A i, j \in 1..Len(s) - 1 : i < j =>
           \E i2, j2 \in 1..Len(s) :
             i2 < j2 /\ Without(s, c)[i] = s[i2] /\ Without(s, c)[j] = s[j2]
<1> SUFFICES ASSUME NEW i \in 1..Len(s) - 1, NEW j \in 1..Len(s) - 1, i < j
             PROVE  \E i2, j2 \in 1..Len(s) :
                      i2 < j2 /\ Without(s, c)[i] = s[i2] /\ Without(s, c)[j] = s[j2]
  OBVIOUS
<1>1. PICK n, k, w : n = Len(s) /\ k = Place(s, c) /\ w = Without(s, c)
  OBVIOUS
<1>2. n \in Nat /\ k \in Int
  BY <1>1, ListProperties, PlaceTyped
<1>3. \A m \in 1..n - 1 : w[m] = IF m < k THEN s[m] ELSE s[m + 1]
  BY <1>1, WithoutOne
<1>4. i \in 1..n /\ i + 1 \in 1..n /\ j \in 1..n /\ j + 1 \in 1..n
  BY <1>1, <1>2
<1>5. CASE j < k
  <2>1. w[i] = s[i] /\ w[j] = s[j]
    BY <1>1, <1>2, <1>3, <1>5
  <2> QED BY <1>1, <1>4, <2>1
<1>6. CASE ~(j < k) /\ i < k
  <2>1. w[i] = s[i] /\ w[j] = s[j + 1] /\ i < j + 1
    BY <1>1, <1>2, <1>3, <1>6
  <2> QED BY <1>1, <1>4, <2>1
<1>7. CASE ~(i < k)
  <2>1. ~(j < k) /\ i + 1 < j + 1
    BY <1>2, <1>4, <1>7
  <2>2. w[i] = s[i + 1] /\ w[j] = s[j + 1]
    BY <1>1, <1>3, <1>7, <2>1
  <2> QED BY <1>1, <1>4, <2>1, <2>2
<1> QED BY <1>5, <1>6, <1>7

\* So zones that lead still do,
LEMMA ZonesAheadWithout ==
  ASSUME NEW s, IsList(s), NEW c \in ToSet(s), ZonesAhead(s)
  PROVE  ZonesAhead(Without(s, c))
<1>1. Len(Without(s, c)) = Len(s) - 1
  BY WithoutOne
<1>k. \A i, j \in 1..Len(s) - 1 : i < j =>
        \E i2, j2 \in 1..Len(s) :
          i2 < j2 /\ Without(s, c)[i] = s[i2] /\ Without(s, c)[j] = s[j2]
  BY WithoutKeepsOrder
<1>2. ASSUME NEW i \in 1..Len(s) - 1, NEW j \in 1..Len(s) - 1, i < j,
             IsZone(Without(s, c)[j])
      PROVE  IsZone(Without(s, c)[i])
  <2>1. PICK i2, j2 \in 1..Len(s) :
          i2 < j2 /\ Without(s, c)[i] = s[i2] /\ Without(s, c)[j] = s[j2]
    BY <1>2, <1>k
  <2> QED BY <1>2, <2>1 DEF ZonesAhead
<1> QED BY <1>1, <1>2 DEF ZonesAhead

\* and an array that is sorted still is.
LEMMA OrderedWithout ==
  ASSUME NEW s, IsList(s), NEW c \in ToSet(s), Ordered(s)
  PROVE  Ordered(Without(s, c))
<1>1. DOMAIN s = 1..Len(s) /\ DOMAIN Without(s, c) = 1..Len(s) - 1
  <2>1. IsList(Without(s, c)) /\ Len(Without(s, c)) = Len(s) - 1
    BY WithoutOne
  <2> QED BY <2>1, ListProperties
<1>k. \A i, j \in 1..Len(s) - 1 : i < j =>
        \E i2, j2 \in 1..Len(s) :
          i2 < j2 /\ Without(s, c)[i] = s[i2] /\ Without(s, c)[j] = s[j2]
  BY WithoutKeepsOrder
<1>2. ASSUME NEW i \in 1..Len(s) - 1, NEW j \in 1..Len(s) - 1, i < j
      PROVE  Tzid[Without(s, c)[i]] <= Tzid[Without(s, c)[j]]
  <2>1. PICK i2, j2 \in 1..Len(s) :
          i2 < j2 /\ Without(s, c)[i] = s[i2] /\ Without(s, c)[j] = s[j2]
    BY <1>2, <1>k
  <2> QED BY <1>1, <2>1 DEF Ordered
<1> QED BY <1>1, <1>2 DEF Ordered

\* A zone at the head, another child at the end (icalcomponent.c:552).
LEMMA ZonesAheadMore ==
  ASSUME NEW s, IsList(s), NEW c \in Kids \ ToSet(s), ZonesAhead(s)
  PROVE  ZonesAhead(IF IsZone(c) THEN <<c>> \o s ELSE Append(s, c))
<1>1. PICK n, v, w : n = Len(s) /\ v = <<c>> \o s /\ w = Append(s, c)
  OBVIOUS
<1>2. n \in Nat
  BY <1>1, ListProperties
<1>3. Len(v) = n + 1 /\ v[1] = c /\ \A i \in 2..n + 1 : v[i] = s[i - 1]
  BY <1>1, WithFirst
<1>4. Len(w) = n + 1 /\ w[n + 1] = c /\ \A i \in 1..n : w[i] = s[i]
  BY <1>1, WithLast
<1>5. \A i, j \in 1..n : i < j /\ IsZone(s[j]) => IsZone(s[i])
  BY <1>1 DEF ZonesAhead
<1>6. CASE IsZone(c)
  <2>1. ASSUME NEW i \in 1..n + 1, NEW j \in 1..n + 1, i < j, IsZone(v[j]) PROVE IsZone(v[i])
    <3>1. CASE i = 1
      BY <1>3, <1>6, <3>1
    <3>2. CASE i # 1
      <4>1. i - 1 \in 1..n /\ j - 1 \in 1..n /\ i - 1 < j - 1
        BY <1>2, <2>1, <3>2
      <4>2. v[i] = s[i - 1] /\ v[j] = s[j - 1]
        BY <1>2, <1>3, <2>1, <3>2
      <4> QED BY <1>5, <2>1, <4>1, <4>2
    <3> QED BY <3>1, <3>2
  <2> QED BY <1>1, <1>3, <1>6, <2>1 DEF ZonesAhead
<1>7. CASE ~IsZone(c)
  <2>1. ASSUME NEW i \in 1..n + 1, NEW j \in 1..n + 1, i < j, IsZone(w[j]) PROVE IsZone(w[i])
    <3>1. j # n + 1
      BY <1>4, <1>7, <2>1
    <3>2. i \in 1..n /\ j \in 1..n
      BY <1>2, <2>1, <3>1
    <3> QED BY <1>4, <1>5, <2>1, <3>2
  <2> QED BY <1>1, <1>4, <1>7, <2>1 DEF ZonesAhead
<1> QED BY <1>6, <1>7

----------------------------------------------------------------------------
(* What the calls do to a heap that is in order.                           *)

\* A calendar is not a kid and neither is Nil.
LEMMA Members ==
  /\ Cals \subseteq Comp /\ Kids \subseteq Comp
  /\ \A p \in Cals, c \in Kids : p # c
  /\ \A p \in Cals : p # Nil
  /\ \A c \in Kids : c # Nil
BY CalsAndKids DEF Comp

\* The list of a component that is new, or gone.
LEMMA EmptyList ==
  IsList(<<>>) /\ ToSet(<<>>) = {} /\ ZonesAhead(<<>>) /\ Ordered(<<>>)
BY EmptySeq DEF IsList, IsInjective, ToSet, ZonesAhead, Ordered

\* What is true of a calendar in a heap that is in order.
LEMMA CalendarTyped ==
  ASSUME NEW h, Sane(h), NEW p \in Cals
  PROVE  /\ h[p] \in Node /\ IsList(h[p].kids) /\ IsList(h[p].zones)
         /\ h[p].cursor \in ToSet(h[p].kids) \cup {Nil}
         /\ \A c \in Kids : c \in ToSet(h[p].kids) <=> h[c].parent = p
         /\ ToSet(h[p].zones) = {c \in ToSet(h[p].kids) : Titled(c)}
BY Members DEF Sane, Calendar

\* The iterator is put on a child or past the end.
LEMMA MovedIsSane ==
  ASSUME NEW h, Sane(h), NEW p \in Cals, NEW c \in ToSet(h[p].kids) \cup {Nil}
  PROVE  /\ Sane(Moved(h, p, c))
         /\ Moved(h, p, c)[p] = [h[p] EXCEPT !.cursor = c]
         /\ \A q \in Comp \ {p} : Moved(h, p, c)[q] = h[q]
<1>1. PICK g : g = Moved(h, p, c)
  OBVIOUS
<1>2. h \in [Comp -> Node] /\ p \in Comp /\ h[p] \in Node /\ c \in Kids \cup {Nil}
  BY Members, CalendarTyped, ListProperties DEF Sane
<1>3. /\ g \in [Comp -> Node] /\ g[p] = [h[p] EXCEPT !.cursor = c]
      /\ \A q \in Comp \ {p} : g[q] = h[q]
  BY <1>1, <1>2 DEF Moved, Node
<1>4. /\ g[p].kids = h[p].kids /\ g[p].zones = h[p].zones /\ g[p].cursor = c
      /\ g[p].sorted = h[p].sorted /\ g[p].parent = h[p].parent /\ g[p].alive = h[p].alive
  BY <1>2, <1>3 DEF Node
<1>5. \A d \in Kids : g[d] = h[d]
  BY <1>3, Members
<1>6. Calendar(g, p)
  BY <1>4, <1>5 DEF Sane, Calendar
<1>7. ASSUME NEW d \in Kids PROVE Leaf(g, d)
  <2>1. Leaf(h, d) /\ h[d].parent \in Cals \cup {Nil}
    BY <1>2, Members DEF Sane, Node
  <2>2. \A q \in Cals : g[q].alive = h[q].alive
    BY <1>3, <1>4, Members
  <2> QED BY <1>5, <2>1, <2>2 DEF Leaf
<1> QED BY <1>1, <1>3, <1>5, <1>6, <1>7, OneCalendar, Members

\* A component without a parent gets one.
LEMMA AddIsSane ==
  ASSUME NEW h, Sane(h), NEW p \in Cals, NEW c \in Kids,
         h[p].alive, h[c].alive, h[c].parent = Nil
  PROVE  /\ Sane(AddComponent(h, p, c))
         /\ ToSet(AddComponent(h, p, c)[p].kids) = ToSet(h[p].kids) \cup {c}
         /\ AddComponent(h, p, c)[p].cursor = h[p].cursor
         /\ \A q \in Cals \ {p} : AddComponent(h, p, c)[q] = h[q]
         /\ \A d \in Comp : AddComponent(h, p, c)[d].alive = h[d].alive
<1>1. PICK g : g = AddComponent(h, p, c)
  OBVIOUS
<1>b. PICK b : b = (h[p].sorted /\ ~IsZone(c))
  OBVIOUS
<1>2. PICK kids, zones, s, z :
        /\ kids = h[p].kids /\ zones = h[p].zones
        /\ s = IF IsZone(c) THEN <<c>> \o kids ELSE Append(kids, c)
        /\ z = IF Titled(c) THEN Append(zones, c) ELSE zones
  OBVIOUS
<1>3. /\ h \in [Comp -> Node] /\ p \in Comp /\ c \in Comp /\ p # c
      /\ h[p] \in Node /\ h[c] \in Node /\ Calendar(h, p) /\ Leaf(h, c)
  BY Members DEF Sane
<1>4. /\ c \notin ToSet(kids) /\ c \notin ToSet(zones) /\ IsList(kids) /\ IsList(zones)
  BY <1>2, <1>3, Members DEF Calendar
<1>5. IsList(s) /\ ToSet(s) = ToSet(kids) \cup {c} /\ ZonesAhead(s)
  BY <1>2, <1>3, <1>4, WithFirst, WithLast, ZonesAheadMore DEF Calendar
<1>6. /\ IsList(z) /\ ToSet(z) = IF Titled(c) THEN ToSet(zones) \cup {c} ELSE ToSet(zones)
  BY <1>2, <1>4, WithLast
<1>7. /\ g \in [Comp -> Node]
      /\ g[c] = [h[c] EXCEPT !.parent = p]
      /\ g[p] = [h[p] EXCEPT !.kids = s, !.zones = z, !.sorted = b]
      /\ \A q \in Comp \ {p, c} : g[q] = h[q]
  <2>1. s \in Seq(Kids) /\ z \in Seq(Kids)
    BY <1>5, <1>6 DEF IsList
  <2>2. b \in BOOLEAN
    BY <1>b
  <2>3. g = [h EXCEPT ![c] = [h[c] EXCEPT !.parent = p],
                      ![p] = [h[p] EXCEPT !.kids = s, !.zones = z,
                                          !.sorted = b]]
    BY <1>1, <1>2, <1>3, <1>b DEF AddComponent
  <2>4. [h[c] EXCEPT !.parent = p] \in Node
    BY <1>3 DEF Node
  <2>5. [h[p] EXCEPT !.kids = s, !.zones = z, !.sorted = b] \in Node
    BY <1>3, <2>1, <2>2 DEF Node
  <2> QED BY <1>3, <2>3, <2>4, <2>5
<1>8. /\ g[p].kids = s /\ g[p].zones = z /\ g[p].cursor = h[p].cursor
      /\ g[p].parent = h[p].parent /\ g[p].alive = h[p].alive
      /\ g[c].parent = p /\ g[c].alive = h[c].alive
      /\ g[c].kids = h[c].kids /\ g[c].zones = h[c].zones
  <2>1. /\ g[c].parent = p /\ g[c].alive = h[c].alive
        /\ g[c].kids = h[c].kids /\ g[c].zones = h[c].zones
    <3>1. \A v \in Node : LET u == [v EXCEPT !.parent = p]
                         IN  /\ u.parent = p /\ u.alive = v.alive
                             /\ u.kids = v.kids /\ u.zones = v.zones
      BY DEF Node
    <3> QED BY ZenonT(30), <1>3, <1>7, <3>1
  <2>2. /\ g[p].kids = s /\ g[p].zones = z /\ g[p].cursor = h[p].cursor
        /\ g[p].parent = h[p].parent /\ g[p].alive = h[p].alive
    BY <1>3, <1>7 DEF Node
  <2> QED BY <2>1, <2>2
<1>s. g[p].sorted => h[p].sorted /\ ~IsZone(c)
  <2>1. g[p].sorted = b
    BY <1>3, <1>7 DEF Node
  <2> QED BY <1>b, <2>1
<1>9. Calendar(g, p)
  <2>1. \A d \in Kids : d \in ToSet(s) <=> g[d].parent = p
    <3>1. \A d \in Kids \ {c} : g[d] = h[d]
      BY <1>7, Members
    <3>2. \A d \in Kids : d \in ToSet(kids) <=> h[d].parent = p
      BY <1>2, <1>3 DEF Calendar
    <3> QED BY <1>5, <1>8, <3>1, <3>2
  <2>2. ToSet(z) = {d \in ToSet(s) : Titled(d)}
    BY <1>2, <1>3, <1>5, <1>6 DEF Calendar
  <2>3. g[p].sorted => Ordered(z)
    <3>1. g[p].sorted => z = zones /\ h[p].sorted
      BY <1>2, <1>s DEF Titled
    <3> QED BY <1>2, <1>3, <3>1 DEF Calendar
  <2> QED BY <1>2, <1>3, <1>5, <1>6, <1>8, <2>1, <2>2, <2>3 DEF Calendar
<1>10. \A d \in Comp : g[d].alive = h[d].alive
  BY <1>7, <1>8
<1>11. ASSUME NEW d \in Kids PROVE Leaf(g, d)
  <2>1. Leaf(h, d) /\ h[d].parent \in Cals \cup {Nil} /\ d \in Comp
    BY <1>3, Members DEF Sane, Node
  <2>2. CASE d = c
    BY <1>3, <1>8, <1>10, <2>2 DEF Leaf
  <2>3. CASE d # c
    <3>1. g[d] = h[d]
      BY <1>7, <2>1, <2>3, Members
    <3>2. h[d].parent # Nil => g[h[d].parent].alive = h[h[d].parent].alive
      BY <1>10, <2>1, Members
    <3> QED BY <2>1, <3>1, <3>2 DEF Leaf
  <2> QED BY <2>2, <2>3
<1>12. /\ \A q \in Cals \ {p} : g[q] = h[q]
       /\ \A d \in Kids : \/ g[d].parent = h[d].parent
                          \/ {g[d].parent, h[d].parent} \subseteq {p, Nil}
  BY <1>3, <1>7, <1>8, Members
<1>13. Sane(g)
  BY <1>7, <1>9, <1>11, <1>12, OneCalendar
<1> QED BY <1>1, <1>2, <1>5, <1>8, <1>10, <1>12, <1>13

\* A child is taken out of the list, of the array if it is there, and from
\* under the iterator.
LEMMA RemoveIsSane ==
  ASSUME NEW h, Sane(h), NEW p \in Cals, NEW c \in ToSet(h[p].kids)
  PROVE  /\ Sane(RemoveComponent(h, p, c))
         /\ RemoveComponent(h, p, c)[p].kids = Without(h[p].kids, c)
         /\ RemoveComponent(h, p, c)[p].cursor =
              IF h[p].cursor = c THEN After(h, p, c, "ANY") ELSE h[p].cursor
         /\ RemoveComponent(h, p, c)[c].parent = Nil
         /\ \A q \in Cals \ {p} : RemoveComponent(h, p, c)[q] = h[q]
         /\ \A d \in Comp : RemoveComponent(h, p, c)[d].alive = h[d].alive
<1>1. PICK g, f : g = RemoveComponent(h, p, c) /\ f = DropZone(h, p, c)
  OBVIOUS
<1>2. PICK kids, zones, s, z, a :
        /\ kids = h[p].kids /\ zones = h[p].zones
        /\ s = Without(kids, c)
        /\ z = IF c \in ToSet(zones) THEN Without(zones, c) ELSE zones
        /\ a = IF h[p].cursor = c THEN After(h, p, c, "ANY") ELSE h[p].cursor
  OBVIOUS
<1>3. /\ h \in [Comp -> Node] /\ p \in Comp /\ h[p] \in Node /\ Calendar(h, p)
      /\ IsList(kids) /\ IsList(zones)
  BY <1>2, Members DEF Sane, Calendar
<1>4. c \in Kids /\ c \in Comp /\ p # c /\ h[c] \in Node /\ Leaf(h, c) /\ h[c].parent = p
  BY <1>2, <1>3, ListProperties, Members DEF Calendar, Sane
<1>5. IsList(s) /\ ToSet(s) = ToSet(kids) \ {c} /\ ZonesAhead(s)
  BY <1>2, <1>3, WithoutOne, ZonesAheadWithout DEF Calendar
<1>6. /\ IsList(z) /\ ToSet(z) = ToSet(zones) \ {c}
      /\ Ordered(zones) => Ordered(z)
  BY <1>2, <1>3, WithoutOne, OrderedWithout
<1>7. a \in ToSet(s) \cup {Nil}
  <2>1. CASE h[p].cursor # c
    BY <1>2, <1>3, <1>5, <2>1 DEF Calendar
  <2>2. CASE h[p].cursor = c
    <3>1. PICK k : k = Place(kids, c)
      OBVIOUS
    <3>2. k \in 1..Len(kids) /\ PositionOf(kids, c) = k /\ Len(kids) \in Nat
      BY <1>2, <1>3, <1>4, <3>1, PlaceTyped, ListProperties, Members
    <3>3. a = FirstFrom(kids, k + 1, "ANY")
      BY <1>2, <1>4, <2>2, <3>2, Members DEF After
    <3>4. k + 1 \in 1..Len(kids) + 1
      BY <3>2
    <3>5. a \in ToSet(kids) \cup {Nil} /\ Place(kids, a) \in k + 1..Len(kids) + 1
      BY <1>3, <3>3, <3>4, FoundFrom
    <3>6. a # c
      BY <3>1, <3>2, <3>5
    <3> QED BY <1>5, <3>5, <3>6
  <2> QED BY <2>1, <2>2
<1>8. f = [h EXCEPT ![p] = [h[p] EXCEPT !.zones = z]]
  <2>1. FreeComponent(h, c) = h
    BY <1>4, Members DEF FreeComponent
  <2>2. CASE c \in ToSet(zones)
    BY <1>1, <1>2, <1>3, <2>1, <2>2 DEF DropZone
  <2>3. CASE c \notin ToSet(zones)
    <3>1. f = h
      BY <1>1, <1>2, <2>3 DEF DropZone
    <3> QED BY <1>2, <1>3, <2>3, <3>1 DEF Node
  <2> QED BY <2>2, <2>3
<1>9. /\ f \in [Comp -> Node] /\ f[c] = h[c] /\ f[p].kids = kids /\ f[p].cursor = h[p].cursor
      /\ f[p] = [h[p] EXCEPT !.zones = z]
  BY <1>2, <1>3, <1>4, <1>6, <1>8 DEF IsList, Node
<1>10. After(f, p, c, "ANY") = After(h, p, c, "ANY")
  BY <1>2, <1>9 DEF After
<1>11. /\ g \in [Comp -> Node]
       /\ g[c] = [h[c] EXCEPT !.parent = Nil]
       /\ g[p] = [h[p] EXCEPT !.zones = z, !.cursor = a, !.kids = s]
       /\ \A q \in Comp \ {p, c} : g[q] = h[q]
  <2>1. s \in Seq(Kids) /\ z \in Seq(Kids) /\ a \in Kids \cup {Nil}
    BY <1>5, <1>6, <1>7, ListProperties DEF IsList
  <2>2. g = [f EXCEPT ![p] = [f[p] EXCEPT !.cursor = a, !.kids = s],
                      ![c] = [f[c] EXCEPT !.parent = Nil]]
    BY ZenonT(30), <1>1, <1>2, <1>4, <1>9, <1>10 DEF RemoveComponent, Unlist
  <2>3. [f[c] EXCEPT !.parent = Nil] \in Node
    BY <1>4, <1>9 DEF Node
  <2>4. [f[p] EXCEPT !.cursor = a, !.kids = s] \in Node
    BY <1>3, <1>9, <2>1 DEF Node
  <2>5. [f[p] EXCEPT !.cursor = a, !.kids = s] =
          [h[p] EXCEPT !.zones = z, !.cursor = a, !.kids = s]
    BY <1>9
  <2> QED BY <1>3, <1>4, <1>8, <1>9, <2>2, <2>3, <2>4, <2>5
<1>12. /\ g[p].kids = s /\ g[p].zones = z /\ g[p].cursor = a
       /\ g[p].sorted = h[p].sorted
       /\ g[p].parent = h[p].parent /\ g[p].alive = h[p].alive
       /\ g[c].parent = Nil /\ g[c].alive = h[c].alive
       /\ g[c].kids = h[c].kids /\ g[c].zones = h[c].zones
  BY <1>3, <1>4, <1>11 DEF Node
<1>13. Calendar(g, p)
  <2>1. \A d \in Kids : d \in ToSet(s) <=> g[d].parent = p
    <3>1. \A d \in Kids \ {c} : g[d] = h[d]
      BY <1>11, Members
    <3>2. \A d \in Kids : d \in ToSet(kids) <=> h[d].parent = p
      BY <1>2, <1>3 DEF Calendar
    <3> QED BY <1>5, <1>12, <3>1, <3>2, Members
  <2>2. ToSet(z) = {d \in ToSet(s) : Titled(d)}
    BY <1>2, <1>3, <1>5, <1>6 DEF Calendar
  <2>3. g[p].sorted => Ordered(z)
    BY <1>2, <1>3, <1>6, <1>12 DEF Calendar
  <2> QED BY <1>2, <1>3, <1>5, <1>6, <1>7, <1>12, <2>1, <2>2, <2>3 DEF Calendar
<1>14. \A d \in Comp : g[d].alive = h[d].alive
  BY <1>11, <1>12
<1>15. ASSUME NEW d \in Kids PROVE Leaf(g, d)
  <2>1. Leaf(h, d) /\ h[d].parent \in Cals \cup {Nil} /\ d \in Comp
    BY <1>3, Members DEF Sane, Node
  <2>2. CASE d = c
    BY <1>4, <1>12, <2>2 DEF Leaf
  <2>3. CASE d # c
    <3>1. g[d] = h[d]
      BY <1>11, <2>1, <2>3, Members
    <3>2. h[d].parent # Nil => g[h[d].parent].alive = h[h[d].parent].alive
      BY <1>14, <2>1, Members
    <3> QED BY <2>1, <3>1, <3>2 DEF Leaf
  <2> QED BY <2>2, <2>3
<1>16. /\ \A q \in Cals \ {p} : g[q] = h[q]
       /\ \A d \in Kids : \/ g[d].parent = h[d].parent
                          \/ {g[d].parent, h[d].parent} \subseteq {p, Nil}
  BY <1>4, <1>11, <1>12, Members
<1>17. Sane(g)
  BY <1>11, <1>13, <1>15, <1>16, OneCalendar
<1> QED BY <1>1, <1>2, <1>12, <1>14, <1>16, <1>17

\* A component that is not there is made: nobody lists it.
LEMMA CreateIsSane ==
  ASSUME NEW h, Sane(h), NEW c \in Comp, ~h[c].alive
  PROVE  Sane([h EXCEPT ![c] = New])
<1>1. PICK g : g = [h EXCEPT ![c] = New]
  OBVIOUS
<1>2. h \in [Comp -> Node] /\ New \in Node
  BY EmptySeq DEF Sane, New, Gone, Node
<1>3. /\ New.alive /\ New.parent = Nil /\ New.kids = <<>> /\ New.zones = <<>>
      /\ New.cursor = Nil
  BY DEF New, Gone
<1>4. g \in [Comp -> Node] /\ g[c] = New /\ \A d \in Comp \ {c} : g[d] = h[d]
  BY <1>1, <1>2
<1>5. h[c].parent = Nil /\ \A d \in Kids : h[d].parent # c
  <2>1. CASE c \in Cals
    BY <2>1, Members DEF Sane, Calendar, Leaf
  <2>2. CASE c \in Kids
    BY <1>2, <2>2, Members DEF Sane, Node, Leaf
  <2> QED BY <2>1, <2>2 DEF Comp
<1>6. \A d \in Kids : g[d].parent = h[d].parent
  BY <1>3, <1>4, <1>5, Members
<1>7. ASSUME NEW q \in Cals PROVE Calendar(g, q)
  <2>1. CASE q = c
    BY <1>3, <1>4, <1>5, <1>6, <2>1, EmptyList DEF Calendar
  <2>2. CASE q # c
    <3>1. g[q] = h[q] /\ Calendar(h, q)
      BY <1>4, <2>2, Members DEF Sane
    <3> QED BY <1>6, <3>1 DEF Calendar
  <2> QED BY <2>1, <2>2
<1>8. ASSUME NEW d \in Kids PROVE Leaf(g, d)
  <2>1. Leaf(h, d) /\ h[d].parent \in Cals \cup {Nil} /\ h[d].parent # c
    BY <1>2, <1>5, Members DEF Sane, Node
  <2>2. CASE d = c
    BY <1>3, <1>4, <2>2 DEF Leaf
  <2>3. CASE d # c
    <3>1. g[d] = h[d] /\ (h[d].parent # Nil => g[h[d].parent] = h[h[d].parent])
      BY <1>4, <2>1, <2>3, Members
    <3> QED BY <2>1, <3>1 DEF Leaf
  <2> QED BY <2>2, <2>3
<1> QED BY <1>1, <1>4, <1>7, <1>8 DEF Sane

\* A component without a parent is freed, with its children: the array lists no
\* zone besides them.
LEMMA FreeIsSane ==
  ASSUME NEW h, Sane(h), NEW c \in Comp
  PROVE  Sane(FreeComponent(h, c))
<1>1. PICK g, freed :
        /\ g = FreeComponent(h, c)
        /\ freed = {c} \cup ToSet(h[c].kids)
  OBVIOUS
<1>2. h \in [Comp -> Node] /\ Gone \in Node
  BY EmptySeq DEF Sane, Gone, Node
<1>3. /\ ~Gone.alive /\ Gone.parent = Nil /\ Gone.kids = <<>> /\ Gone.zones = <<>>
      /\ Gone.cursor = Nil
  BY DEF Gone
<1>4. CASE h[c].parent # Nil
  BY <1>4 DEF FreeComponent
<1>5. CASE h[c].parent = Nil
  <2>1. {z \in ToSet(h[c].zones) : h[z].parent = Nil} = {}
    <3>1. CASE c \in Cals
      <4>1. \A z \in ToSet(h[c].zones) : z \in Kids /\ z \in ToSet(h[c].kids)
        BY <3>1, CalendarTyped, ListProperties
      <4>2. \A z \in ToSet(h[c].zones) : h[z].parent = c
        BY <3>1, <4>1, CalendarTyped
      <4> QED BY <3>1, <4>2, Members
    <3>2. CASE c \in Kids
      BY <3>2, EmptyList DEF Sane, Leaf
    <3> QED BY <3>1, <3>2 DEF Comp
  <2>2. g = [d \in Comp |-> IF d \in freed THEN Gone ELSE h[d]]
    BY <1>1, <1>5, <2>1 DEF FreeComponent
  <2>3. g \in [Comp -> Node] /\ \A d \in Comp : g[d] = IF d \in freed THEN Gone ELSE h[d]
    BY <1>2, <2>2
  <2>4. /\ \A q \in Cals \ {c} : q \notin freed
        /\ \A d \in Kids : h[d].parent = c => d \in freed
        /\ \A d \in Kids : d \in freed => h[d].parent \in {c, Nil}
    <3>1. CASE c \in Cals
      BY <1>1, <3>1, CalendarTyped, Members, ListProperties
    <3>2. CASE c \in Kids
      <4>1. ToSet(h[c].kids) = {}
        BY <3>2, EmptyList DEF Sane, Leaf
      <4>2. freed = {c} /\ c \notin Cals
        BY <1>1, <3>2, <4>1, Members
      <4>3. \A d \in Kids : h[d].parent # c
        BY <1>2, <4>2, Members DEF Node, Comp
      <4> QED BY <1>5, <4>2, <4>3
    <3> QED BY <3>1, <3>2 DEF Comp
  <2>5. ASSUME NEW q \in Cals, q # c PROVE Calendar(g, q)
    <3>1. g[q] = h[q] /\ Calendar(h, q) /\ q # Nil
      BY <2>3, <2>4, <2>5, Members DEF Sane
    <3>2. \A d \in Kids : g[d].parent = q <=> h[d].parent = q
      BY <1>3, <2>3, <2>4, <2>5, <3>1, Members
    <3> QED BY <3>1, <3>2 DEF Calendar
  <2>6. c \in Cals => Calendar(g, c)
    <3> SUFFICES ASSUME c \in Cals PROVE Calendar(g, c)
      OBVIOUS
    <3>1. g[c] = Gone /\ \A d \in Kids : g[d].parent # c
      BY <1>1, <1>3, <2>3, <2>4, Members
    <3> QED BY <1>3, <3>1, EmptyList DEF Calendar
  <2>7. ASSUME NEW d \in Kids PROVE Leaf(g, d)
    <3>1. Leaf(h, d) /\ h[d].parent \in Cals \cup {Nil} /\ d \in Comp
      BY <1>2, Members DEF Sane, Node
    <3>2. CASE d \in freed
      BY <1>3, <2>3, <3>1, <3>2 DEF Leaf
    <3>3. CASE d \notin freed
      <4>1. g[d] = h[d] /\ h[d].parent # c
        BY <2>3, <2>4, <3>1, <3>3
      <4>2. h[d].parent # Nil => g[h[d].parent] = h[h[d].parent]
        BY <2>3, <2>4, <3>1, <4>1, Members
      <4> QED BY <3>1, <4>1, <4>2 DEF Leaf
    <3> QED BY <3>2, <3>3
  <2> QED BY <1>1, <2>3, <2>5, <2>6, <2>7 DEF Sane
<1> QED BY <1>4, <1>5

\* An arrangement of the elements of a list has each of them once.
LEMMA ArrangementIsList ==
  ASSUME NEW s, IsList(s), NEW t \in SetToSeqs(ToSet(s))
  PROVE  IsList(t) /\ ToSet(t) = ToSet(s) /\ Len(t) = Len(s)
<1>1. PICK n, S : n = Len(s) /\ S = ToSet(s)
  OBVIOUS
<1>2. /\ n \in Nat /\ s \in [1..n -> S] /\ s \in Surjection(1..n, S)
      /\ s \in Injection(1..n, S) /\ S \subseteq Kids
  <2>1. s \in [1..n -> Kids] /\ n \in Nat
    BY <1>1, LenProperties DEF IsList
  <2>2. \A i \in 1..n : s[i] \in S
    BY <1>1, ListProperties
  <2>3. s \in [1..n -> S]
    BY <2>1, <2>2
  <2>4. \A c \in S : c \in Kids /\ \E i \in 1..n : s[i] = c
    BY <1>1, ListProperties
  <2> QED BY <2>1, <2>3, <2>4 DEF IsList, Injection, Surjection
<1>3. IsFiniteSet(S) /\ Cardinality(S) = n
  <2>1. IsFiniteSet(1..n) /\ Cardinality(1..n) = n
    BY <1>2, FS_Interval
  <2> QED BY <1>2, <2>1, FS_Surjection
<1>4. /\ t \in [1..n -> S]
      /\ \A i, j \in 1..n : i # j => t[i] # t[j]
  BY <1>1, <1>3 DEF SetToSeqs
<1>5. t \in Surjection(1..n, S) /\ IsInjective(t)
  <2>1. t \in Injection(1..n, S) /\ IsInjective(t)
    BY <1>4 DEF Injection, IsInjective
  <2>2. Cardinality(1..n) = Cardinality(S)
    BY <1>2, <1>3, FS_Interval
  <2> QED BY <1>3, <2>1, <2>2, FS_Injection
<1>6. t \in Seq(Kids) /\ Len(t) = n
  BY <1>2, <1>4
<1>7. ToSet(t) = S
  BY <1>4, <1>5 DEF ToSet, Surjection
<1> QED BY <1>1, <1>5, <1>6, <1>7 DEF IsList

\* A lookup sorts the array (icalcomponent.c:2405), and changes nothing else.
LEMMA SortedIsSane ==
  ASSUME NEW h, Sane(h), NEW p \in Cals, NEW g \in Sorted(h, p)
  PROVE  /\ Sane(g)
         /\ g[p].kids = h[p].kids /\ g[p].cursor = h[p].cursor
         /\ ToSet(g[p].zones) = ToSet(h[p].zones) /\ Ordered(g[p].zones)
         /\ \A q \in Comp \ {p} : g[q] = h[q]
         /\ \A q \in Comp : g[q].alive = h[q].alive /\ g[q].parent = h[q].parent
<1>1. h \in [Comp -> Node] /\ p \in Comp /\ h[p] \in Node /\ Calendar(h, p)
  BY Members DEF Sane
<1>2. CASE h[p].sorted
  BY <1>1, <1>2 DEF Sorted, Calendar
<1>3. CASE ~h[p].sorted
  <2>1. PICK s \in SetToSeqs(ToSet(h[p].zones)) :
          Ordered(s) /\ g = [h EXCEPT ![p].zones = s, ![p].sorted = TRUE]
    BY <1>3 DEF Sorted
  <2>2. IsList(s) /\ ToSet(s) = ToSet(h[p].zones)
    BY <1>1, <2>1, ArrangementIsList DEF Calendar
  <2>3. s \in Seq(Kids)
    BY <2>2 DEF IsList
  <2>4. \A v \in Node : /\ [v EXCEPT !.zones = s] \in Node
                        /\ [v EXCEPT !.sorted = TRUE] \in Node
    BY <2>3 DEF Node
  <2>5. PICK v : v = [h[p] EXCEPT !.zones = s]
    OBVIOUS
  <2>6. PICK u : u = [v EXCEPT !.sorted = TRUE]
    OBVIOUS
  <2>7. g = [h EXCEPT ![p] = u]
    BY <1>1, <2>1, <2>5, <2>6
  <2>8. v \in Node /\ u \in Node
    BY <1>1, <2>4, <2>5, <2>6
  <2>9. /\ u.kids = h[p].kids /\ u.cursor = h[p].cursor /\ u.zones = s
        /\ u.parent = h[p].parent /\ u.alive = h[p].alive
    BY <1>1, <2>5, <2>6, <2>8 DEF Node
  <2>10. g \in [Comp -> Node] /\ g[p] = u /\ \A q \in Comp \ {p} : g[q] = h[q]
    BY <1>1, <2>7, <2>8
  <2>11. \A q \in Comp : g[q].alive = h[q].alive /\ g[q].parent = h[q].parent
    BY <2>9, <2>10
  <2>12. Calendar(g, p)
    <3>1. \A d \in Kids : g[d] = h[d]
      BY <2>10, Members
    <3> QED BY <1>1, <2>1, <2>2, <2>9, <2>10, <3>1 DEF Calendar
  <2>13. ASSUME NEW d \in Kids PROVE Leaf(g, d)
    <3>1. Leaf(h, d) /\ h[d].parent \in Cals \cup {Nil} /\ g[d] = h[d]
      BY <1>1, <2>10, Members DEF Sane, Node
    <3>2. h[d].parent # Nil => g[h[d].parent].alive = h[h[d].parent].alive
      BY <2>11, <3>1, Members
    <3> QED BY <3>1, <3>2 DEF Leaf
  <2>14. Sane(g)
    BY <2>10, <2>11, <2>12, <2>13, OneCalendar, Members
  <2> QED BY <2>1, <2>2, <2>9, <2>10, <2>11, <2>14
<1> QED BY <1>2, <1>3

----------------------------------------------------------------------------
(* The binary search.                                                      *)

\* Where the search in n zones can be.
Ats(n) == [lower : 0..n, upper : 0..n, zone : Kids \cup {Nil}]

\* The search in the first turns, as its recursive definition says.
Searching(turn, zones, id) ==
  /\ \A i \in 0..Len(zones) : turn[i] \in Ats(Len(zones))
  /\ turn[0] = [lower |-> 0, upper |-> Len(zones), zone |-> Nil]
  /\ \A i \in 1..Len(zones) : turn[i] = Probe(zones, id, turn[i - 1])

\* The middle of two bounds is below the upper one.
LEMMA MiddleIsBetween ==
  ASSUME NEW l \in Nat, NEW u \in Nat, l < u
  PROVE  /\ (l + u) \div 2 \in Nat
         /\ l <= (l + u) \div 2 /\ (l + u) \div 2 < u
OBVIOUS

\* The bounds stay in the array.
LEMMA ProbeTyped ==
  ASSUME NEW zones, IsList(zones), NEW id, NEW at \in Ats(Len(zones))
  PROVE  Probe(zones, id, at) \in Ats(Len(zones))
<1>1. PICK n, l, u, m : /\ n = Len(zones) /\ l = at.lower /\ u = at.upper
                        /\ m = (l + u) \div 2
  OBVIOUS
<1>2. n \in Nat /\ l \in 0..n /\ u \in 0..n /\ at.zone \in Kids \cup {Nil}
  BY <1>1, ListProperties DEF Ats
<1>3. CASE l >= u
  BY <1>1, <1>3 DEF Probe
<1>4. CASE l < u
  <2>1. m \in 0..n /\ m + 1 \in 1..n /\ m + 1 \in 0..n
    <3>1. m \in Nat /\ l <= m /\ m < u
      BY <1>1, <1>2, <1>4, MiddleIsBetween
    <3> QED BY <1>2, <3>1
  <2>2. zones[m + 1] \in Kids
    BY <1>1, <2>1, ListProperties
  <2>3. /\ \A x \in 0..n : [at EXCEPT !.upper = x] \in Ats(n)
        /\ \A x \in 0..n : [at EXCEPT !.lower = x] \in Ats(n)
    BY <1>1 DEF Ats
  <2>4. \A v \in Ats(n), z \in Kids : [v EXCEPT !.zone = z] \in Ats(n)
    BY DEF Ats
  <2>5. [at EXCEPT !.upper = l, !.zone = zones[m + 1]] \in Ats(n)
    BY <1>2, <2>2, <2>3, <2>4
  <2> QED BY <1>1, <1>2, <1>4, <2>1, <2>3, <2>5 DEF Probe
<1> QED BY <1>2, <1>3, <1>4

\* The recursive definition of Probes has a solution, and that is what it says.
LEMMA ProbesDef ==
  ASSUME NEW zones, IsList(zones), NEW id
  PROVE  Searching(Probes(zones, id), zones, id)
<1>1. PICK n \in Nat : n = Len(zones)
  BY ListProperties
<1>0. PICK at0 : at0 = [lower |-> 0, upper |-> n, zone |-> Nil]
  OBVIOUS
<1>2. PICK V : V = Ats(n)
  OBVIOUS
<1>3. PICK T : T = [i \in 1..n |-> [v \in V |-> Probe(zones, id, v)]]
  OBVIOUS
<1>4. T \in Steps(V, n)
  BY <1>1, <1>2, <1>3, ProbeTyped DEF Steps
<1>5. at0 \in V
  BY <1>0, <1>2 DEF Ats
<1>6. PICK g : Follows(g, V, at0, n, T)
  BY <1>4, <1>5, PrefixRecursion
<1>7. PICK h : h = [i \in 0..n |-> g[i]]
  OBVIOUS
<1> DEFINE Is(f) == f = [i \in 0..n |-> IF i = 0 THEN at0 ELSE Probe(zones, id, f[i - 1])]
<1>8. \E f : Is(f)
  <2>1. ASSUME NEW i \in 1..n PROVE h[i] = Probe(zones, id, h[i - 1])
    <3>1. g[i] = T[i][g[i - 1]] /\ g[i - 1] \in V
      BY <1>6 DEF Follows
    <3> QED BY <1>3, <1>7, <3>1
  <2>2. h[0] = at0
    BY <1>6, <1>7 DEF Follows
  <2>3. \A i \in 0..n : h[i] = IF i = 0 THEN at0 ELSE Probe(zones, id, h[i - 1])
    BY <2>1, <2>2
  <2>4. Is(h)
    BY <1>7, <2>3
  <2> HIDE DEF Is
  <2> QED BY <2>4
<1>9. PICK f : f = Probes(zones, id) /\ Is(f)
  BY <1>0, <1>1, <1>8 DEF Probes
<1>10. /\ f[0] = at0
       /\ \A i \in 1..n : f[i] = Probe(zones, id, f[i - 1])
  <2>1. \A i \in 0..n : f[i] = IF i = 0 THEN at0 ELSE Probe(zones, id, f[i - 1])
    BY <1>9, Zenon
  <2>2. f[0] = at0
    <3>1. 0 \in 0..n
      OBVIOUS
    <3> QED BY <2>1, <3>1, Zenon
  <2>3. ASSUME NEW i \in 1..n PROVE f[i] = Probe(zones, id, f[i - 1])
    <3>1. i \in 0..n /\ i # 0
      OBVIOUS
    <3> QED BY <2>1, <3>1, Zenon
  <2> QED BY <2>2, <2>3
<1> DEFINE S == {m \in Nat : m <= n => f[m] \in V}
<1>11. 0 \in S
  BY <1>5, <1>10
<1>12. ASSUME NEW m \in Nat, m \in S PROVE m + 1 \in S
  <2> SUFFICES ASSUME m + 1 <= n PROVE f[m + 1] \in V
    OBVIOUS
  <2>1. f[m] \in V /\ m + 1 \in 1..n /\ (m + 1) - 1 = m
    BY <1>12
  <2> QED BY <1>1, <1>2, <1>10, <2>1, ProbeTyped
<1> HIDE DEF S, Is
<1>13. Nat \subseteq S
  BY <1>11, <1>12, InductionOnNat
<1>14. \A i \in 0..n : f[i] \in V
  BY <1>13 DEF S
<1> QED BY <1>0, <1>1, <1>2, <1>9, <1>10, <1>14 DEF Searching

\* The zones below and above the bounds are others; what was found is there.
Narrowed(zones, id, at) ==
  /\ at.zone # Nil => /\ at.zone \in ToSet(zones) /\ Tzid[at.zone] = id
                      /\ at.lower >= at.upper
  /\ at.zone = Nil => /\ \A j \in 1..at.lower : Tzid[zones[j]] < id
                      /\ \A j \in at.upper + 1..Len(zones) : Tzid[zones[j]] > id

\* One turn: the bounds come closer.
LEMMA ProbeNarrows ==
  ASSUME NEW zones, IsList(zones), Ordered(zones), NEW id \in Nat,
         \A i \in 1..Len(zones) : Tzid[zones[i]] \in Nat,
         NEW at \in Ats(Len(zones)), Narrowed(zones, id, at)
  PROVE  LET next == Probe(zones, id, at)
         IN  /\ Narrowed(zones, id, next)
             /\ \/ next.lower >= next.upper
                \/ next.upper - next.lower < at.upper - at.lower
<1>1. PICK n, l, u, m, z :
        /\ n = Len(zones) /\ l = at.lower /\ u = at.upper
        /\ m = (l + u) \div 2 /\ z = zones[m + 1]
  OBVIOUS
<1>2. n \in Nat /\ l \in 0..n /\ u \in 0..n /\ at.zone \in Kids \cup {Nil}
  BY <1>1, ListProperties DEF Ats
<1>3. PICK next : next = Probe(zones, id, at)
  OBVIOUS
<1>4. CASE l >= u
  <2>1. next = at
    BY <1>1, <1>3, <1>4 DEF Probe
  <2> QED BY <1>1, <1>3, <1>4, <2>1
<1>5. CASE l < u
  <2>1. m \in Nat /\ l <= m /\ m < u /\ m + 1 \in 1..n
    <3>1. m \in Nat /\ l <= m /\ m < u
      BY <1>1, <1>2, <1>5, MiddleIsBetween
    <3> QED BY <1>2, <3>1
  <2>2. at.zone = Nil
    BY <1>1, <1>2, <1>5 DEF Narrowed
  <2>3. z \in Kids /\ z # Nil /\ z \in ToSet(zones) /\ Tzid[z] \in Nat
    BY <1>1, <2>1, ListProperties
  <2>4. /\ \A j \in 1..n : Tzid[zones[j]] \in Nat
        /\ \A j \in 1..l : Tzid[zones[j]] < id
        /\ \A j \in u + 1..n : Tzid[zones[j]] > id
        /\ \A i, j \in 1..n : i < j => Tzid[zones[i]] <= Tzid[zones[j]]
    BY <1>1, <2>2, ListProperties DEF Narrowed, Ordered
  <2>5. CASE Tzid[z] = id
    <3>1. next.zone = z /\ next.upper = l /\ next.lower = l
      <4>1. next = [at EXCEPT !.upper = l, !.zone = z]
        BY <1>1, <1>3, <1>5, <2>5, <1>2 DEF Probe
      <4> QED BY <1>1, <4>1 DEF Ats
    <3> QED BY <1>2, <1>3, <2>3, <2>5, <3>1 DEF Narrowed
  <2>6. CASE Tzid[z] # id /\ id < Tzid[z]
    <3>1. next.zone = Nil /\ next.upper = m /\ next.lower = l
      <4>1. next = [at EXCEPT !.upper = m]
        BY <1>1, <1>3, <1>5, <2>6, <1>2 DEF Probe
      <4> QED BY <1>1, <2>2, <4>1 DEF Ats
    <3>2. \A j \in m + 1..n : Tzid[zones[j]] > id
      <4>1. \A j \in m + 1..n : j \in 1..n /\ (j = m + 1 \/ m + 1 < j)
        BY <1>2, <2>1
      <4> QED BY <1>1, <2>1, <2>3, <2>4, <2>6, <4>1
    <3> QED BY <1>1, <1>2, <1>3, <2>1, <2>4, <3>1, <3>2 DEF Narrowed
  <2>7. CASE Tzid[z] # id /\ ~(id < Tzid[z])
    <3>1. next.zone = Nil /\ next.upper = u /\ next.lower = m + 1
      <4>1. next = [at EXCEPT !.lower = m + 1]
        BY <1>1, <1>3, <1>5, <2>7, <1>2 DEF Probe
      <4> QED BY <1>1, <2>2, <4>1 DEF Ats
    <3>2. \A j \in 1..m + 1 : Tzid[zones[j]] < id
      <4>1. \A j \in 1..m + 1 : j \in 1..n /\ (j = m + 1 \/ j < m + 1)
        BY <1>2, <2>1
      <4> QED BY <1>1, <2>1, <2>3, <2>4, <2>7, <4>1
    <3> QED BY <1>1, <1>2, <1>3, <2>1, <2>4, <3>1, <3>2 DEF Narrowed
  <2> QED BY <2>5, <2>6, <2>7
<1> QED BY <1>2, <1>4, <1>5

\* In a sorted array the search finds a zone of the TZID exactly when there is
\* one (icalcomponent.c:2410).
THEOREM SearchFinds ==
  ASSUME NEW zones, IsList(zones), Ordered(zones), NEW id \in Nat,
         \A i \in 1..Len(zones) : Tzid[zones[i]] \in Nat
  PROVE  IF \E z \in ToSet(zones) : Tzid[z] = id
           THEN /\ FindZone(zones, id) \in ToSet(zones)
                /\ Tzid[FindZone(zones, id)] = id
           ELSE FindZone(zones, id) = Nil
<1>1. PICK n, f : n = Len(zones) /\ f = Probes(zones, id)
  OBVIOUS
<1>2. n \in Nat /\ Searching(f, zones, id)
  BY <1>1, ListProperties, ProbesDef
<1> DEFINE S == {m \in Nat : m <= n => /\ Narrowed(zones, id, f[m])
                                       /\ \/ f[m].lower >= f[m].upper
                                          \/ f[m].upper - f[m].lower <= n - m}
<1>3. 0 \in S
  BY <1>1, <1>2 DEF Searching, Narrowed
<1>4. ASSUME NEW m \in Nat, m \in S PROVE m + 1 \in S
  <2> SUFFICES ASSUME m + 1 <= n
               PROVE  /\ Narrowed(zones, id, f[m + 1])
                      /\ \/ f[m + 1].lower >= f[m + 1].upper
                         \/ f[m + 1].upper - f[m + 1].lower <= n - (m + 1)
    OBVIOUS
  <2>1. /\ Narrowed(zones, id, f[m])
        /\ \/ f[m].lower >= f[m].upper
           \/ f[m].upper - f[m].lower <= n - m
    BY <1>2, <1>4
  <2>2. /\ f[m] \in Ats(Len(zones)) /\ f[m + 1] \in Ats(Len(zones))
        /\ f[m + 1] = Probe(zones, id, f[m])
    <3>1. m \in 0..n /\ m + 1 \in 0..n /\ m + 1 \in 1..n /\ (m + 1) - 1 = m
      BY <1>2
    <3> QED BY <1>1, <1>2, <3>1 DEF Searching
  <2>3. /\ Narrowed(zones, id, f[m + 1])
        /\ \/ f[m + 1].lower >= f[m + 1].upper
           \/ f[m + 1].upper - f[m + 1].lower < f[m].upper - f[m].lower
    BY <2>1, <2>2, ProbeNarrows
  <2>4. /\ f[m].lower \in Nat /\ f[m].upper \in Nat
        /\ f[m + 1].lower \in Nat /\ f[m + 1].upper \in Nat
    BY <1>1, <1>2, <2>2 DEF Ats
  <2>5. CASE f[m].lower >= f[m].upper
    <3>1. f[m + 1].lower >= f[m + 1].upper
      <4>1. f[m + 1] = f[m]
        BY <2>2, <2>5 DEF Probe
      <4> QED BY <2>5, <4>1
    <3> QED BY <2>3, <3>1
  <2>6. CASE f[m].upper - f[m].lower <= n - m
    BY <1>2, <2>3, <2>4, <2>6
  <2> QED BY <2>1, <2>5, <2>6
<1> HIDE DEF S
<1>5. n \in S
  BY <1>2, <1>3, <1>4, InductionOnNat
<1>6. /\ Narrowed(zones, id, f[n]) /\ f[n] \in Ats(n)
      /\ f[n].lower >= f[n].upper
  <2>1. f[n] \in Ats(n)
    BY <1>1, <1>2 DEF Searching
  <2>2. /\ Narrowed(zones, id, f[n])
        /\ \/ f[n].lower >= f[n].upper
           \/ f[n].upper - f[n].lower <= n - n
    BY <1>2, <1>5 DEF S
  <2>3. f[n].lower \in Nat /\ f[n].upper \in Nat
    BY <1>2, <2>1 DEF Ats
  <2> QED BY <1>2, <2>1, <2>2, <2>3
<1>7. PICK at : at = f[n] /\ FindZone(zones, id) = at.zone
  BY <1>1 DEF FindZone
<1>8. CASE at.zone # Nil
  BY <1>6, <1>7, <1>8 DEF Narrowed
<1>9. CASE at.zone = Nil
  <2>1. ASSUME NEW z \in ToSet(zones) PROVE Tzid[z] # id
    <3>1. PICK j \in 1..n : z = zones[j]
      BY <1>1, ListProperties
    <3>2. j \in 1..at.lower \/ j \in at.upper + 1..n
      BY <1>2, <1>6, <1>7 DEF Ats
    <3>3. Tzid[z] < id \/ Tzid[z] > id
      BY <1>1, <1>6, <1>7, <1>9, <3>1, <3>2 DEF Narrowed
    <3>4. Tzid[z] \in Nat
      BY <1>1, <3>1
    <3> QED BY <3>3, <3>4
  <2> QED BY <1>7, <1>9, <2>1
<1> QED BY <1>8, <1>9

----------------------------------------------------------------------------
(* The loops.                                                              *)

\* What an iterator on c has left behind.
Passed(s, c) == {s[i] : i \in 1..Place(s, c) - 1}

HasZone(h, p, id) == \E z \in ToSet(h[p].kids) : Titled(z) /\ Tzid[z] = id

\* The variables of the functions.
AheadJob == [op : {"ahead"}, in : Cals, kind : Kinds, sub : Kids \cup {Nil}]
CurrentJob == [op : {"current"}, in : Cals, kind : Kinds]
MergeJob == [op : {"zones", "rest"}, into : Cals, in : Cals, sub : Kids \cup {Nil}]

\* Both removing loops: what has been passed stays, for it is of another kind.
RunningAhead(h, j) ==
  /\ j \in AheadJob /\ h[j.in].alive
  /\ j.sub = h[j.in].cursor
  /\ j.sub # Nil => Of(j.kind, j.sub)
  /\ \A d \in Passed(h[j.in].kids, j.sub) : ~Of(j.kind, d)

RunningCurrent(h, j) ==
  /\ j \in CurrentJob /\ h[j.in].alive
  /\ \A d \in Passed(h[j.in].kids, h[j.in].cursor) : ~Of(j.kind, d)

\* The merge: what has been passed has its like in the other calendar; later
\* on, all zones have, and only zones are passed.
RunningMerge(h, j) ==
  /\ j \in MergeJob /\ h[j.in].alive /\ h[j.into].alive
  /\ j.in # j.into
  /\ j.sub = h[j.in].cursor

RunningZones(h, j) ==
  /\ RunningMerge(h, j) /\ j.op = "zones"
  /\ j.sub # Nil => IsZone(j.sub)
  /\ \A d \in Passed(h[j.in].kids, j.sub) :
       Titled(d) => HasZone(h, j.into, Tzid[d])

RunningRest(h, j) ==
  /\ RunningMerge(h, j) /\ j.op = "rest"
  /\ \A d \in Passed(h[j.in].kids, j.sub) : IsZone(d)
  /\ \A d \in ToSet(h[j.in].kids) : Titled(d) => HasZone(h, j.into, Tzid[d])

Running(h, j) == \/ j = Idle
                 \/ RunningAhead(h, j) \/ RunningCurrent(h, j)
                 \/ RunningZones(h, j) \/ RunningRest(h, j)

TreeInv == Sane(comp) /\ Running(comp, job)
----------------------------------------------------------------------------
(* What is passed.                                                         *)

\* It is children; past the end, it is all of them.
LEMMA PassedIsKnown ==
  ASSUME NEW s, IsList(s), NEW c \in ToSet(s) \cup {Nil}
  PROVE  /\ Passed(s, c) \subseteq ToSet(s)
         /\ Passed(s, Nil) = ToSet(s)
<1>1. PICK n, k : n = Len(s) /\ k = Place(s, c)
  OBVIOUS
<1>2. /\ n \in Nat /\ k \in 1..n + 1 /\ Place(s, Nil) = n + 1
      /\ \A i \in 1..n : s[i] \in ToSet(s)
      /\ \A d \in ToSet(s) : \E i \in 1..n : d = s[i]
  BY <1>1, ListProperties, PlaceTyped DEF Place
<1>3. \A i \in 1..k - 1 : i \in 1..n
  BY <1>2
<1>4. \A i \in 1..(n + 1) - 1 : i \in 1..n
  BY <1>2
<1>5. \A i \in 1..n : i \in 1..(n + 1) - 1
  BY <1>2
<1>6. Passed(s, c) \subseteq ToSet(s)
  BY <1>1, <1>2, <1>3 DEF Passed
<1>7. Passed(s, Nil) = ToSet(s)
  BY <1>1, <1>2, <1>4, <1>5 DEF Passed
<1> QED BY <1>6, <1>7

\* get_first: what is passed is not of the kind.
LEMMA PassedFirst ==
  ASSUME NEW s, IsList(s), NEW kind
  PROVE  LET next == FirstFrom(s, 1, kind)
         IN  /\ next \in ToSet(s) \cup {Nil}
             /\ next # Nil => Of(kind, next)
             /\ \A d \in Passed(s, next) : ~Of(kind, d)
<1>1. 1 \in 1..Len(s) + 1
  BY ListProperties
<1> QED BY <1>1, FoundFrom DEF Passed

\* get_next: the child the iterator was on is passed, and some that are not of
\* the kind.
LEMMA PassedNext ==
  ASSUME NEW s, IsList(s), NEW c \in ToSet(s), NEW kind
  PROVE  LET next == FirstFrom(s, PositionOf(s, c) + 1, kind)
         IN  /\ next \in ToSet(s) \cup {Nil} /\ next # c
             /\ next # Nil => Of(kind, next)
             /\ Place(s, c) < Place(s, next)
             /\ \A d \in Passed(s, next) : d \in Passed(s, c) \/ d = c \/ ~Of(kind, d)
<1>1. PICK n, k, next, m : /\ n = Len(s) /\ k = Place(s, c)
                           /\ next = FirstFrom(s, PositionOf(s, c) + 1, kind)
                           /\ m = Place(s, next)
  OBVIOUS
<1>2. c # Nil /\ n \in Nat /\ k \in 1..n /\ PositionOf(s, c) = k /\ s[k] = c
  BY <1>1, ListProperties, PlaceTyped
<1>3. k + 1 \in 1..n + 1
  BY <1>2
<1>4. /\ next \in ToSet(s) \cup {Nil} /\ m \in k + 1..n + 1
      /\ next # Nil => Of(kind, next)
      /\ \A j \in k + 1..m - 1 : ~Of(kind, s[j])
  BY <1>1, <1>2, <1>3, FoundFrom
<1>5. next # c
  BY <1>1, <1>2, <1>4
<1>6. ASSUME NEW d \in Passed(s, next) PROVE d \in Passed(s, c) \/ d = c \/ ~Of(kind, d)
  <2>1. PICK i \in 1..m - 1 : d = s[i]
    BY <1>1 DEF Passed
  <2>2. i \in 1..k - 1 \/ i = k \/ i \in k + 1..m - 1
    BY <1>2, <1>4
  <2>3. i \in 1..k - 1 => d \in Passed(s, c)
    BY <1>1, <2>1 DEF Passed
  <2> QED BY <1>2, <1>4, <2>1, <2>2, <2>3
<1> QED BY <1>1, <1>2, <1>4, <1>5, <1>6

\* A removal elsewhere moves the iterator by one place, or not; what was
\* removed is not passed.
LEMMA PassedWithout ==
  ASSUME NEW s, IsList(s), NEW c \in ToSet(s), NEW x \in ToSet(s) \cup {Nil}, x # c
  PROVE  /\ x \in ToSet(Without(s, c)) \cup {Nil}
         /\ Place(Without(s, c), x) = IF Place(s, c) < Place(s, x)
                                      THEN Place(s, x) - 1 ELSE Place(s, x)
         /\ Passed(Without(s, c), x) \subseteq Passed(s, x) \ {c}
<1>1. PICK n, k, m, t : /\ n = Len(s) /\ k = Place(s, c) /\ m = Place(s, x)
                        /\ t = Without(s, c)
  OBVIOUS
<1>2. /\ n \in Nat /\ k \in 1..n /\ m \in 1..n + 1 /\ s[k] = c
      /\ x = Nil <=> m = n + 1
      /\ x # Nil => s[m] = x
  BY <1>1, ListProperties, PlaceTyped
<1>3. m # k
  BY <1>2
<1>4. /\ IsList(t) /\ Len(t) = n - 1 /\ ToSet(t) = ToSet(s) \ {c}
      /\ \A i \in 1..n - 1 : t[i] = IF i < k THEN s[i] ELSE s[i + 1]
  BY <1>1, WithoutOne
<1>5. PICK r : r = IF k < m THEN m - 1 ELSE m
  OBVIOUS
<1>6. r \in 1..n /\ (x = Nil <=> r = n)
  BY <1>2, <1>3, <1>5
<1>7. Place(t, x) = r
  <2>1. CASE x = Nil
    BY <1>2, <1>4, <1>6, <2>1 DEF Place
  <2>2. CASE x # Nil
    <3>1. r \in 1..n - 1
      BY <1>2, <1>6, <2>2
    <3>2. t[r] = s[m]
      BY <1>2, <1>3, <1>4, <1>5, <3>1
    <3>3. Place(t, t[r]) = r
      BY <1>4, <3>1, PlaceOfElement
    <3> QED BY <1>2, <2>2, <3>2, <3>3
  <2> QED BY <2>1, <2>2
<1>8. ASSUME NEW d \in Passed(t, x) PROVE d \in Passed(s, x) \ {c}
  <2>1. PICK i \in 1..r - 1 : d = t[i]
    BY <1>7, <1>8 DEF Passed
  <2>2. i \in 1..n - 1
    BY <1>2, <1>6
  <2>3. PICK j : j = IF i < k THEN i ELSE i + 1
    OBVIOUS
  <2>4. j \in 1..n /\ j # k /\ j \in 1..m - 1
    BY <1>2, <1>3, <1>5, <1>6, <2>2, <2>3
  <2>5. d = s[j]
    BY <1>4, <2>1, <2>2, <2>3
  <2>6. s[j] # s[k]
    BY <1>1, <1>2, <2>4, ListProperties
  <2> QED BY <1>1, <1>2, <2>4, <2>5, <2>6 DEF Passed
<1>9. x \in ToSet(t) \cup {Nil}
  BY <1>4
<1> QED BY <1>1, <1>5, <1>7, <1>8, <1>9

\* A component changes its calendar.
LEMMA TransferIsSane ==
  ASSUME NEW h, Sane(h), NEW p \in Cals, NEW q \in Cals, p # q, h[q].alive,
         NEW c \in ToSet(h[p].kids)
  PROVE  LET g == AddComponent(RemoveComponent(h, p, c), q, c)
         IN  /\ Sane(g)
             /\ g[p].kids = Without(h[p].kids, c)
             /\ g[p].cursor = IF h[p].cursor = c THEN After(h, p, c, "ANY")
                                                 ELSE h[p].cursor
             /\ ToSet(g[q].kids) = ToSet(h[q].kids) \cup {c}
             /\ \A d \in Comp : g[d].alive = h[d].alive
<1>1. PICK f, g : f = RemoveComponent(h, p, c) /\ g = AddComponent(f, q, c)
  OBVIOUS
<1>2. c \in Kids /\ h[c].parent = p /\ Leaf(h, c) /\ p # Nil
  BY CalendarTyped, ListProperties, Members DEF Sane
<1>3. h[c].alive
  BY <1>2 DEF Leaf
<1>4. /\ Sane(f) /\ f[c].parent = Nil /\ f[p].kids = Without(h[p].kids, c)
      /\ f[p].cursor = IF h[p].cursor = c THEN After(h, p, c, "ANY") ELSE h[p].cursor
      /\ \A r \in Cals \ {p} : f[r] = h[r]
      /\ \A d \in Comp : f[d].alive = h[d].alive
  BY <1>1, RemoveIsSane
<1>5. f[q].alive /\ f[c].alive /\ f[q] = h[q]
  BY <1>2, <1>3, <1>4, Members
<1>6. /\ Sane(g) /\ ToSet(g[q].kids) = ToSet(f[q].kids) \cup {c}
      /\ \A r \in Cals \ {q} : g[r] = f[r]
      /\ \A d \in Comp : g[d].alive = f[d].alive
  BY SMTT(30), <1>1, <1>2, <1>4, <1>5, AddIsSane
<1>7. g[p] = f[p]
  BY <1>6
<1> QED BY <1>1, <1>4, <1>5, <1>6, <1>7

----------------------------------------------------------------------------
(* The steps.                                                              *)

\* The list of a calendar, its iterator, and how many are left to visit.
LEMMA ListOfCalendar ==
  ASSUME NEW h, Sane(h), NEW p \in Cals
  PROVE  /\ IsList(h[p].kids) /\ p \in Comp /\ p # Nil
         /\ h[p].cursor \in ToSet(h[p].kids) \cup {Nil}
         /\ Left(h, p) = Len(h[p].kids) + 1 - Place(h[p].kids, h[p].cursor)
         /\ \A c \in ToSet(h[p].kids) : c \in Kids /\ c # Nil
<1>1. /\ IsList(h[p].kids) /\ p \in Comp /\ p # Nil
      /\ h[p].cursor \in ToSet(h[p].kids) \cup {Nil}
      /\ \A c \in ToSet(h[p].kids) : c \in Kids /\ c # Nil
  BY CalendarTyped, Members, ListProperties
<1>2. PICK s, x : s = h[p].kids /\ x = h[p].cursor
  OBVIOUS
<1>3. Len(s) \in Nat /\ Place(s, x) \in 1..Len(s) + 1
  BY <1>1, <1>2, ListProperties, PlaceTyped
<1>4. x = Nil => Place(s, x) = Len(s) + 1
  BY DEF Place
<1>5. x # Nil => Place(s, x) = PositionOf(s, x)
  BY DEF Place
<1>6. Left(h, p) = Len(s) + 1 - Place(s, x)
  BY <1>2, <1>3, <1>4, <1>5 DEF Left
<1> QED BY <1>1, <1>2, <1>6

\* The iterator is moved in the list of the loop.
LEMMA MovedInList ==
  ASSUME NEW h, Sane(h), NEW p \in Cals, NEW c \in ToSet(h[p].kids) \cup {Nil}
  PROVE  /\ Sane(Moved(h, p, c))
         /\ Moved(h, p, c)[p].kids = h[p].kids /\ Moved(h, p, c)[p].cursor = c
         /\ \A q \in Comp : /\ Moved(h, p, c)[q].kids = h[q].kids
                            /\ Moved(h, p, c)[q].alive = h[q].alive
                            /\ Moved(h, p, c)[q].parent = h[q].parent
<1>1. /\ Sane(Moved(h, p, c)) /\ Moved(h, p, c)[p] = [h[p] EXCEPT !.cursor = c]
      /\ \A q \in Comp \ {p} : Moved(h, p, c)[q] = h[q]
  BY MovedIsSane
<1>2. h[p] \in Node
  BY CalendarTyped
<1>3. PICK g : g = Moved(h, p, c)
  OBVIOUS
<1>4. /\ g[p].kids = h[p].kids /\ g[p].cursor = c
      /\ g[p].alive = h[p].alive /\ g[p].parent = h[p].parent
  BY <1>1, <1>2, <1>3 DEF Node
<1> QED BY <1>1, <1>3, <1>4

\* get_first and get_next, in a heap that is in order.
LEMMA FirstInList ==
  ASSUME NEW h, Sane(h), NEW p \in Cals, NEW kind
  PROVE  /\ First(h, p, kind) \in ToSet(h[p].kids) \cup {Nil}
         /\ First(h, p, kind) # Nil => Of(kind, First(h, p, kind))
         /\ \A d \in Passed(h[p].kids, First(h, p, kind)) : ~Of(kind, d)
BY ListOfCalendar, PassedFirst DEF First

\* The same for get_next.
LEMMA AfterInList ==
  ASSUME NEW h, Sane(h), NEW p \in Cals, NEW kind, NEW c \in ToSet(h[p].kids)
  PROVE  /\ After(h, p, c, kind) \in ToSet(h[p].kids) \cup {Nil}
         /\ After(h, p, c, kind) # c
         /\ After(h, p, c, kind) # Nil => Of(kind, After(h, p, c, kind))
         /\ Place(h[p].kids, c) < Place(h[p].kids, After(h, p, c, kind))
         /\ \A d \in Passed(h[p].kids, After(h, p, c, kind)) :
              d \in Passed(h[p].kids, c) \/ d = c \/ ~Of(kind, d)
<1>1. c # Nil /\ IsList(h[p].kids)
  BY ListOfCalendar
<1> QED BY <1>1, PassedNext DEF After

\* The removing loops begin: nothing is passed that they are to remove.
LEMMA Beginning ==
  ASSUME NEW p \in Cals, NEW kind \in Kinds, TreeInv,
         AheadBegins(p, kind) \/ CurrentBegins(p, kind)
  PROVE  TreeInv'
<1>1. PICK f, g : f = First(comp, p, kind) /\ g = Moved(comp, p, f)
  OBVIOUS
<1>2. Sane(comp) /\ comp' = g /\ comp[p].alive
  BY <1>1 DEF TreeInv, AheadBegins, CurrentBegins
<1>3. /\ f \in ToSet(comp[p].kids) \cup {Nil} /\ f \in Kids \cup {Nil}
      /\ f # Nil => Of(kind, f)
      /\ \A d \in Passed(comp[p].kids, f) : ~Of(kind, d)
  BY <1>1, <1>2, FirstInList, ListOfCalendar
<1>4. /\ Sane(g) /\ g[p].kids = comp[p].kids /\ g[p].cursor = f /\ g[p].alive
  BY <1>1, <1>2, <1>3, MovedInList, Members
<1>5. CASE AheadBegins(p, kind)
  <2>1. PICK j : j = [op |-> "ahead", in |-> p, kind |-> kind, sub |-> f]
    OBVIOUS
  <2>2. job' = j
    BY <1>1, <1>5, <2>1 DEF AheadBegins
  <2>3. j \in AheadJob /\ j.in = p /\ j.kind = kind /\ j.sub = f
    BY <1>3, <2>1 DEF AheadJob
  <2>4. RunningAhead(g, j)
    BY <1>3, <1>4, <2>3 DEF RunningAhead
  <2> QED BY <1>2, <1>4, <2>2, <2>4 DEF TreeInv, Running
<1>6. CASE CurrentBegins(p, kind)
  <2>1. PICK j : j = [op |-> "current", in |-> p, kind |-> kind]
    OBVIOUS
  <2>2. job' = j
    BY <1>1, <1>6, <2>1 DEF CurrentBegins
  <2>3. j \in CurrentJob /\ j.in = p /\ j.kind = kind
    BY <2>1 DEF CurrentJob
  <2>4. RunningCurrent(g, j)
    BY <1>3, <1>4, <2>3 DEF RunningCurrent
  <2> QED BY <1>2, <1>4, <2>2, <2>4 DEF TreeInv, Running
<1> QED BY <1>5, <1>6

\* Which loop runs is told by its name.
LEMMA WhichLoop ==
  ASSUME NEW h, NEW j, Running(h, j)
  PROVE  /\ j.op = "ahead" => RunningAhead(h, j)
         /\ j.op = "current" => RunningCurrent(h, j)
         /\ j.op = "zones" => RunningZones(h, j)
         /\ j.op = "rest" => RunningRest(h, j)
         /\ j.op = "none" => j = Idle
         /\ j.op \in {"none", "ahead", "current", "zones", "rest"}
<1>1. /\ j = Idle => j.op = "none"
      /\ RunningAhead(h, j) => j.op = "ahead"
      /\ RunningCurrent(h, j) => j.op = "current"
      /\ RunningZones(h, j) => j.op = "zones"
      /\ RunningRest(h, j) => j.op = "rest"
  BY DEF Idle, RunningAhead, RunningCurrent, RunningZones, RunningRest, AheadJob, CurrentJob
<1> QED BY <1>1 DEF Running

\* The loop that goes ahead first (UsingLibical 5.2.4).
LEMMA AheadStep ==
  ASSUME TreeInv, AheadGoesOn
  PROVE  TreeInv' /\ Left(comp', job.in) < Left(comp, job.in)
<1>1. Sane(comp) /\ RunningAhead(comp, job)
  BY WhichLoop DEF TreeInv, AheadGoesOn
<1>2. PICK p, c, s, kind : /\ p = job.in /\ c = job.sub /\ s = comp[p].kids
                           /\ kind = job.kind
  OBVIOUS
<1>3. /\ p \in Cals /\ kind \in Kinds /\ comp[p].alive /\ comp[p].cursor = c /\ c # Nil
      /\ \A d \in Passed(s, c) : ~Of(kind, d)
  BY <1>1, <1>2 DEF RunningAhead, AheadJob, AheadGoesOn
<1>4. IsList(s) /\ c \in ToSet(s) /\ p \in Comp
  BY <1>1, <1>2, <1>3, ListOfCalendar
<1>5. PICK x, f, g : /\ x = After(comp, p, c, kind)
                     /\ f = Moved(comp, p, x) /\ g = RemoveComponent(f, p, c)
  OBVIOUS
<1>6. comp' = g /\ job' = [job EXCEPT !.sub = x]
  BY <1>2, <1>3, <1>5 DEF AheadGoesOn
<1>7. /\ x \in ToSet(s) \cup {Nil} /\ x # c /\ x \in Kids \cup {Nil}
      /\ x # Nil => Of(kind, x)
      /\ Place(s, c) < Place(s, x)
      /\ \A d \in Passed(s, x) : d \in Passed(s, c) \/ d = c \/ ~Of(kind, d)
  BY <1>1, <1>2, <1>3, <1>4, <1>5, AfterInList, ListOfCalendar
<1>8. Sane(f) /\ f[p].kids = s /\ f[p].cursor = x /\ f[p].alive
  BY <1>1, <1>2, <1>3, <1>4, <1>5, <1>7, MovedInList
<1>9. /\ Sane(g) /\ g[p].kids = Without(s, c) /\ g[p].cursor = x /\ g[p].alive
  BY <1>3, <1>4, <1>5, <1>7, <1>8, RemoveIsSane
<1>10. \A d \in Passed(Without(s, c), x) : ~Of(kind, d)
  BY <1>3, <1>4, <1>7, PassedWithout
<1>11. PICK j : j = [job EXCEPT !.sub = x]
  OBVIOUS
<1>12. j \in AheadJob /\ j.in = p /\ j.kind = kind /\ j.sub = x
  BY <1>1, <1>2, <1>7, <1>11 DEF RunningAhead, AheadJob
<1>13. RunningAhead(g, j)
  BY <1>7, <1>9, <1>10, <1>12 DEF RunningAhead
<1>14. TreeInv'
  BY <1>6, <1>9, <1>11, <1>13 DEF TreeInv, Running
<1>15. Left(g, p) < Left(comp, p)
  <2>1. /\ Left(g, p) = Len(Without(s, c)) + 1 - Place(Without(s, c), x)
        /\ Left(comp, p) = Len(s) + 1 - Place(s, c)
    BY <1>1, <1>2, <1>3, <1>9, ListOfCalendar
  <2>2. /\ Len(Without(s, c)) = Len(s) - 1
        /\ Place(Without(s, c), x) = Place(s, x) - 1
    BY <1>4, <1>7, WithoutOne, PassedWithout
  <2>3. Len(s) \in Nat /\ Place(s, c) \in Int /\ Place(s, x) \in Int
    BY <1>4, <1>7, ListProperties, PlaceTyped
  <2> QED BY <1>7, <2>1, <2>2, <2>3
<1> QED BY <1>2, <1>6, <1>14, <1>15

\* The loop that asks for the current child (UsingLibical 5.2.4).
LEMMA CurrentStep ==
  ASSUME TreeInv, CurrentGoesOn
  PROVE  TreeInv' /\ Left(comp', job.in) < Left(comp, job.in)
<1>1. Sane(comp) /\ RunningCurrent(comp, job)
  BY WhichLoop DEF TreeInv, CurrentGoesOn
<1>2. PICK p, c, s, kind : /\ p = job.in /\ c = comp[p].cursor /\ s = comp[p].kids
                           /\ kind = job.kind
  OBVIOUS
<1>3. /\ p \in Cals /\ kind \in Kinds /\ comp[p].alive /\ c # Nil
      /\ \A d \in Passed(s, c) : ~Of(kind, d)
  BY <1>1, <1>2 DEF RunningCurrent, CurrentJob, CurrentGoesOn
<1>4. IsList(s) /\ c \in ToSet(s) /\ p \in Comp
  BY <1>1, <1>2, <1>3, ListOfCalendar
<1>5. Len(s) \in Nat /\ Place(s, c) \in Int /\ Left(comp, p) = Len(s) + 1 - Place(s, c)
  BY <1>1, <1>2, <1>3, <1>4, ListProperties, PlaceTyped, ListOfCalendar
<1>6. CASE Of(kind, c)
  <2>1. PICK x, g : x = After(comp, p, c, "ANY") /\ g = RemoveComponent(comp, p, c)
    OBVIOUS
  <2>2. comp' = g /\ job' = job
    BY <1>2, <1>6, <2>1 DEF CurrentGoesOn
  <2>3. /\ x \in ToSet(s) \cup {Nil} /\ x # c
        /\ Place(s, c) < Place(s, x)
        /\ \A d \in Passed(s, x) : d \in Passed(s, c) \/ d = c
    <3>1. \A d \in Comp : Of("ANY", d)
      BY DEF Of
    <3>2. /\ x \in ToSet(s) \cup {Nil} /\ x # c
          /\ Place(s, c) < Place(s, x)
          /\ \A d \in Passed(s, x) : d \in Passed(s, c) \/ d = c \/ ~Of("ANY", d)
      BY <1>1, <1>2, <1>3, <1>4, <2>1, AfterInList
    <3> QED BY <3>2 DEF Of
  <2>4. /\ Sane(g) /\ g[p].kids = Without(s, c) /\ g[p].cursor = x /\ g[p].alive
    BY <1>1, <1>2, <1>3, <1>4, <2>1, RemoveIsSane
  <2>5. \A d \in Passed(Without(s, c), x) : ~Of(kind, d)
    BY <1>3, <1>4, <2>3, PassedWithout
  <2>6. RunningCurrent(g, job)
    BY <1>1, <1>2, <2>4, <2>5 DEF RunningCurrent
  <2>7. Left(g, p) < Left(comp, p)
    <3>1. Left(g, p) = Len(Without(s, c)) + 1 - Place(Without(s, c), x)
      BY <1>3, <2>4, ListOfCalendar
    <3>2. /\ Len(Without(s, c)) = Len(s) - 1
          /\ Place(Without(s, c), x) = Place(s, x) - 1
      BY <1>4, <2>3, WithoutOne, PassedWithout
    <3>3. Place(s, x) \in Int
      BY <1>4, <2>3, PlaceTyped
    <3> QED BY <1>5, <2>3, <3>1, <3>2, <3>3
  <2> QED BY <1>2, <2>2, <2>4, <2>6, <2>7 DEF TreeInv, Running
<1>7. CASE ~Of(kind, c)
  <2>1. PICK x, g : x = After(comp, p, c, kind) /\ g = Moved(comp, p, x)
    OBVIOUS
  <2>2. comp' = g /\ job' = job
    BY <1>2, <1>7, <2>1 DEF CurrentGoesOn
  <2>3. /\ x \in ToSet(s) \cup {Nil}
        /\ Place(s, c) < Place(s, x)
        /\ \A d \in Passed(s, x) : d \in Passed(s, c) \/ d = c \/ ~Of(kind, d)
    BY <1>1, <1>2, <1>3, <1>4, <2>1, AfterInList
  <2>4. Sane(g) /\ g[p].kids = s /\ g[p].cursor = x /\ g[p].alive
    BY <1>1, <1>2, <1>3, <1>4, <2>1, <2>3, MovedInList
  <2>5. RunningCurrent(g, job)
    BY <1>1, <1>2, <1>3, <1>7, <2>3, <2>4 DEF RunningCurrent
  <2>6. Left(g, p) < Left(comp, p)
    <3>1. Left(g, p) = Len(s) + 1 - Place(s, x)
      BY <1>3, <2>4, ListOfCalendar
    <3>2. Place(s, x) \in Int
      BY <1>4, <2>3, PlaceTyped
    <3> QED BY <1>5, <2>3, <3>1, <3>2
  <2> QED BY <1>2, <2>2, <2>4, <2>5, <2>6 DEF TreeInv, Running
<1> QED BY <1>6, <1>7

\* A loop is over.
LEMMA EndStep ==
  ASSUME TreeInv, LoopEnds
  PROVE  TreeInv' /\ job' = Idle
BY DEF TreeInv, LoopEnds, Running

\* A merge begins (icalcomponent.c:2094).
LEMMA MergeBeginning ==
  ASSUME NEW p \in Cals, NEW q \in Cals, TreeInv, MergeBegins(p, q)
  PROVE  TreeInv'
<1>1. PICK f, g : f = First(comp, q, "VTIMEZONE") /\ g = Moved(comp, q, f)
  OBVIOUS
<1>2. Sane(comp) /\ comp' = g /\ comp[p].alive /\ comp[q].alive /\ p # q
  BY <1>1 DEF TreeInv, MergeBegins
<1>3. /\ f \in ToSet(comp[q].kids) \cup {Nil} /\ f \in Kids \cup {Nil}
      /\ f # Nil => Of("VTIMEZONE", f)
      /\ \A d \in Passed(comp[q].kids, f) : ~Of("VTIMEZONE", d)
  BY <1>1, <1>2, FirstInList, ListOfCalendar
<1>4. /\ Sane(g) /\ g[q].kids = comp[q].kids /\ g[q].cursor = f
      /\ g[q].alive /\ g[p].alive
  BY <1>1, <1>2, <1>3, MovedInList, Members
<1>5. PICK j : j = [op |-> "zones", into |-> p, in |-> q, sub |-> f]
  OBVIOUS
<1>6. job' = j
  BY <1>1, <1>5 DEF MergeBegins
<1>7. j \in MergeJob /\ j.in = q /\ j.into = p /\ j.sub = f /\ j.op = "zones"
  BY <1>3, <1>5 DEF MergeJob
<1>8. /\ f # Nil => IsZone(f)
      /\ \A d \in Passed(comp[q].kids, f) : ~Titled(d)
  BY <1>3 DEF Of, IsZone, Titled
<1>9. RunningZones(g, j)
  BY <1>2, <1>4, <1>7, <1>8 DEF RunningZones, RunningMerge
<1> QED BY <1>2, <1>4, <1>6, <1>9 DEF TreeInv, Running

\* From the zones to all that is left (icalcomponent.c:2134).
LEMMA TurnStep ==
  ASSUME TreeInv, MergeTurns
  PROVE  TreeInv'
<1>1. Sane(comp) /\ RunningZones(comp, job)
  BY WhichLoop DEF TreeInv, MergeTurns
<1>2. PICK p, q, s : p = job.into /\ q = job.in /\ s = comp[q].kids
  OBVIOUS
<1>3. /\ p \in Cals /\ q \in Cals /\ p # q /\ comp[p].alive /\ comp[q].alive
      /\ job \in MergeJob /\ job.sub = Nil
      /\ \A d \in Passed(s, Nil) : Titled(d) => HasZone(comp, p, Tzid[d])
  BY <1>1, <1>2 DEF RunningZones, RunningMerge, MergeJob, MergeTurns
<1>4. IsList(s) /\ Passed(s, Nil) = ToSet(s) /\ p \in Comp /\ q \in Comp
  BY <1>1, <1>2, <1>3, ListOfCalendar, PassedIsKnown
<1>5. PICK f, g : f = First(comp, q, "ANY") /\ g = Moved(comp, q, f)
  OBVIOUS
<1>6. comp' = g /\ job' = [job EXCEPT !.op = "rest", !.sub = f]
  BY <1>2, <1>5 DEF MergeTurns
<1>7. /\ f \in ToSet(s) \cup {Nil} /\ f \in Kids \cup {Nil}
      /\ \A d \in Passed(s, f) : ~Of("ANY", d)
  BY <1>1, <1>2, <1>3, <1>5, FirstInList, ListOfCalendar
<1>8. /\ Sane(g) /\ g[q].kids = s /\ g[q].cursor = f /\ g[q].alive
      /\ g[p].alive /\ g[p].kids = comp[p].kids
  BY <1>1, <1>2, <1>3, <1>4, <1>5, <1>7, MovedInList
<1>9. PICK j : j = [job EXCEPT !.op = "rest", !.sub = f]
  OBVIOUS
<1>10. j \in MergeJob /\ j.in = q /\ j.into = p /\ j.sub = f /\ j.op = "rest"
  BY <1>2, <1>3, <1>7, <1>9 DEF MergeJob
<1>11. \A d \in Passed(s, f) : IsZone(d)
  BY <1>7 DEF Of
<1>12. \A d \in ToSet(s) : Titled(d) => HasZone(g, p, Tzid[d])
  BY <1>3, <1>4, <1>8 DEF HasZone
<1>13. RunningRest(g, j)
  BY <1>2, <1>3, <1>8, <1>10, <1>11, <1>12 DEF RunningRest, RunningMerge
<1> QED BY <1>6, <1>8, <1>9, <1>13 DEF TreeInv, Running

\* The emptied calendar is freed (icalcomponent.c:2148).
LEMMA MergeEndStep ==
  ASSUME TreeInv, MergeEnds
  PROVE  TreeInv' /\ job' = Idle
<1>1. Sane(comp) /\ RunningRest(comp, job)
  BY WhichLoop DEF TreeInv, MergeEnds
<1>2. job.in \in Comp
  BY <1>1, Members DEF RunningRest, RunningMerge, MergeJob
<1> QED BY <1>1, <1>2, FreeIsSane DEF TreeInv, MergeEnds, Running

\* Of two heaps with the same list in p, both iterators are as far.
LEMMA LeftOfLists ==
  ASSUME NEW h, Sane(h), NEW p \in Cals, NEW g, Sane(g),
         NEW c \in ToSet(h[p].kids), h[p].cursor = c,
         g[p].cursor # c, g[p].cursor \in ToSet(h[p].kids) \cup {Nil},
         g[p].kids \in {h[p].kids, Without(h[p].kids, c)},
         Place(h[p].kids, c) < Place(h[p].kids, g[p].cursor)
  PROVE  Left(g, p) < Left(h, p)
<1>1. PICK s, x : s = h[p].kids /\ x = g[p].cursor
  OBVIOUS
<1>2. /\ IsList(s) /\ Len(s) \in Nat /\ Place(s, c) \in Int /\ Place(s, x) \in Int
      /\ Left(h, p) = Len(s) + 1 - Place(s, c)
      /\ Left(g, p) = Len(g[p].kids) + 1 - Place(g[p].kids, x)
  BY <1>1, ListOfCalendar, ListProperties, PlaceTyped
<1>3. CASE g[p].kids = s
  BY <1>1, <1>2, <1>3
<1>4. CASE g[p].kids = Without(s, c)
  <2>1. /\ Len(Without(s, c)) = Len(s) - 1
        /\ Place(Without(s, c), x) = Place(s, x) - 1
    BY <1>1, <1>2, WithoutOne, PassedWithout
  <2> QED BY <1>1, <1>2, <1>4, <2>1
<1> QED BY <1>1, <1>3, <1>4

\* A child that is no zone moves over; a zone is passed.
LEMMA RestStep ==
  ASSUME TreeInv, MergeRest
  PROVE  TreeInv' /\ Left(comp', job.in) < Left(comp, job.in)
<1>1. Sane(comp) /\ RunningRest(comp, job)
  BY WhichLoop DEF TreeInv, MergeRest
<1>2. PICK p, q, s, c : p = job.into /\ q = job.in /\ s = comp[q].kids /\ c = job.sub
  OBVIOUS
<1>3. /\ p \in Cals /\ q \in Cals /\ p # q /\ comp[p].alive /\ comp[q].alive
      /\ job \in MergeJob /\ job.op = "rest" /\ c # Nil /\ comp[q].cursor = c
      /\ \A d \in Passed(s, c) : IsZone(d)
      /\ \A d \in ToSet(s) : Titled(d) => HasZone(comp, p, Tzid[d])
  BY <1>1, <1>2 DEF RunningRest, RunningMerge, MergeJob, MergeRest
<1>4. IsList(s) /\ c \in ToSet(s) /\ p \in Comp /\ q \in Comp
  BY <1>1, <1>2, <1>3, ListOfCalendar
<1>5. PICK x, f, g : /\ x = After(comp, q, c, "ANY") /\ f = Moved(comp, q, x)
                     /\ g = IF IsZone(c) THEN f ELSE Transfer(f, c)
  OBVIOUS
<1>6. comp' = g /\ job' = [job EXCEPT !.sub = x]
  BY <1>2, <1>3, <1>5 DEF MergeRest, SteppedAhead, Ahead
<1>7. /\ x \in ToSet(s) \cup {Nil} /\ x # c /\ x \in Kids \cup {Nil}
      /\ Place(s, c) < Place(s, x)
      /\ \A d \in Passed(s, x) : d \in Passed(s, c) \/ d = c
  <2>1. /\ x \in ToSet(s) \cup {Nil} /\ x # c /\ x \in Kids \cup {Nil}
        /\ Place(s, c) < Place(s, x)
        /\ \A d \in Passed(s, x) : d \in Passed(s, c) \/ d = c \/ ~Of("ANY", d)
    BY <1>1, <1>2, <1>3, <1>4, <1>5, AfterInList, ListOfCalendar
  <2> QED BY <2>1 DEF Of
<1>8. /\ Sane(f) /\ f[q].kids = s /\ f[q].cursor = x /\ f[q].alive
      /\ f[p].alive /\ f[p].kids = comp[p].kids
  BY <1>1, <1>2, <1>3, <1>4, <1>5, <1>7, MovedInList
<1>9. PICK j : j = [job EXCEPT !.sub = x]
  OBVIOUS
<1>10. j \in MergeJob /\ j.in = q /\ j.into = p /\ j.sub = x /\ j.op = "rest"
  BY <1>2, <1>3, <1>7, <1>9 DEF MergeJob
<1>11. CASE IsZone(c)
  <2>1. g = f
    BY <1>5, <1>11
  <2>2. \A d \in Passed(s, x) : IsZone(d)
    BY <1>3, <1>7, <1>11
  <2>3. \A d \in ToSet(s) : Titled(d) => HasZone(f, p, Tzid[d])
    BY <1>3, <1>8 DEF HasZone
  <2>4. RunningRest(f, j)
    BY <1>3, <1>8, <1>10, <2>2, <2>3 DEF RunningRest, RunningMerge
  <2>5. Left(f, q) < Left(comp, q)
    BY <1>1, <1>2, <1>3, <1>4, <1>7, <1>8, LeftOfLists
  <2> QED BY <1>2, <1>6, <1>8, <1>9, <2>1, <2>4, <2>5 DEF TreeInv, Running
<1>12. CASE ~IsZone(c)
  <2>1. g = AddComponent(RemoveComponent(f, q, c), p, c)
    BY <1>2, <1>5, <1>12 DEF Transfer
  <2>2. /\ Sane(g) /\ g[q].kids = Without(s, c) /\ g[q].cursor = x
        /\ ToSet(g[p].kids) = ToSet(comp[p].kids) \cup {c}
        /\ \A d \in Comp : g[d].alive = f[d].alive
    <3>1. c \in ToSet(f[q].kids) /\ q # p /\ f[q].cursor # c
      BY <1>3, <1>4, <1>7, <1>8
    <3>2. /\ Sane(g)
          /\ g[q].kids = Without(f[q].kids, c)
          /\ g[q].cursor = IF f[q].cursor = c THEN After(f, q, c, "ANY")
                                              ELSE f[q].cursor
          /\ ToSet(g[p].kids) = ToSet(f[p].kids) \cup {c}
          /\ \A d \in Comp : g[d].alive = f[d].alive
      BY <1>3, <1>8, <2>1, <3>1, TransferIsSane
    <3> QED BY <1>8, <3>1, <3>2
  <2>3. g[p].alive /\ g[q].alive
    BY <1>4, <1>8, <2>2
  <2>4. \A d \in Passed(Without(s, c), x) : IsZone(d)
    BY <1>3, <1>4, <1>7, PassedWithout
  <2>5. \A d \in ToSet(Without(s, c)) : Titled(d) => HasZone(g, p, Tzid[d])
    <3>1. ToSet(Without(s, c)) \subseteq ToSet(s)
      BY <1>4, WithoutOne
    <3> QED BY <1>3, <2>2, <3>1 DEF HasZone
  <2>6. RunningRest(g, j)
    BY <1>3, <1>10, <2>2, <2>3, <2>4, <2>5 DEF RunningRest, RunningMerge
  <2>7. Left(g, q) < Left(comp, q)
    BY <1>1, <1>2, <1>3, <1>4, <1>7, <2>2, LeftOfLists
  <2> QED BY <1>2, <1>6, <1>9, <2>2, <2>6, <2>7 DEF TreeInv, Running
<1> QED BY <1>11, <1>12

\* A zone moves over or has its like there, as the lookup says: it may sort the
\* array of the other calendar before (icalcomponent.c:2152).
LEMMA ZoneStep ==
  ASSUME TreeInv, MergeZone
  PROVE  TreeInv' /\ Left(comp', job.in) < Left(comp, job.in)
<1>1. Sane(comp) /\ RunningZones(comp, job)
  BY WhichLoop DEF TreeInv, MergeZone
<1>2. PICK p, q, s, c : p = job.into /\ q = job.in /\ s = comp[q].kids /\ c = job.sub
  OBVIOUS
<1>3. /\ p \in Cals /\ q \in Cals /\ p # q /\ comp[p].alive /\ comp[q].alive
      /\ job \in MergeJob /\ job.op = "zones" /\ c # Nil /\ comp[q].cursor = c
      /\ IsZone(c)
      /\ \A d \in Passed(s, c) : Titled(d) => HasZone(comp, p, Tzid[d])
  BY <1>1, <1>2 DEF RunningZones, RunningMerge, MergeJob, MergeZone
<1>4. IsList(s) /\ c \in ToSet(s) /\ c \in Kids /\ p \in Comp /\ q \in Comp
  BY <1>1, <1>2, <1>3, ListOfCalendar
<1>5. PICK x, f : /\ x = After(comp, q, c, "VTIMEZONE") /\ f = Moved(comp, q, x)
  OBVIOUS
<1>6. /\ IF Tzid[c] = Nil THEN comp' = f
         ELSE \E h \in Sorted(f, p) :
                comp' = IF FindZone(h[p].zones, Tzid[c]) = Nil
                          THEN Transfer(h, c) ELSE h
      /\ job' = [job EXCEPT !.sub = x]
  BY <1>2, <1>3, <1>5 DEF MergeZone, SteppedAhead, Ahead
<1>7. /\ x \in ToSet(s) \cup {Nil} /\ x # c /\ x \in Kids \cup {Nil}
      /\ x # Nil => IsZone(x)
      /\ Place(s, c) < Place(s, x)
      /\ \A d \in Passed(s, x) : d \in Passed(s, c) \/ d = c \/ ~Titled(d)
  <2>1. /\ x \in ToSet(s) \cup {Nil} /\ x # c /\ x \in Kids \cup {Nil}
        /\ x # Nil => Of("VTIMEZONE", x)
        /\ Place(s, c) < Place(s, x)
        /\ \A d \in Passed(s, x) : d \in Passed(s, c) \/ d = c \/ ~Of("VTIMEZONE", d)
    BY <1>1, <1>2, <1>3, <1>4, <1>5, AfterInList, ListOfCalendar
  <2> QED BY <2>1 DEF Of, IsZone, Titled
<1>8. /\ Sane(f) /\ f[q].kids = s /\ f[q].cursor = x /\ f[q].alive
      /\ f[p].alive /\ f[p].kids = comp[p].kids
  BY <1>1, <1>2, <1>3, <1>4, <1>5, <1>7, MovedInList
<1>9. PICK j : j = [job EXCEPT !.sub = x]
  OBVIOUS
<1>10. j \in MergeJob /\ j.in = q /\ j.into = p /\ j.sub = x /\ j.op = "zones"
  BY <1>2, <1>3, <1>7, <1>9 DEF MergeJob
\* What has been passed is known to the other calendar: it is asked of the child
\* the turn is about only.
<1>11. ASSUME NEW g, Sane(g), g[q].kids \in {s, Without(s, c)}, g[q].cursor = x,
              g[q].alive, g[p].alive, ToSet(comp[p].kids) \subseteq ToSet(g[p].kids),
              \/ ~Titled(c) \/ HasZone(g, p, Tzid[c]), comp' = g
       PROVE  TreeInv' /\ Left(comp', q) < Left(comp, q)
  <2>1. \A d \in Passed(g[q].kids, x) : d \in Passed(s, x)
    BY <1>4, <1>7, <1>11, PassedWithout
  <2>2. \A d \in Passed(g[q].kids, x) : Titled(d) => HasZone(g, p, Tzid[d])
    BY <1>3, <1>7, <1>11, <2>1 DEF HasZone
  <2>3. RunningZones(g, j)
    BY <1>3, <1>7, <1>10, <1>11, <2>2 DEF RunningZones, RunningMerge
  <2>4. Left(g, q) < Left(comp, q)
    BY <1>1, <1>2, <1>3, <1>4, <1>7, <1>11, LeftOfLists
  <2> QED BY <1>6, <1>9, <1>11, <2>3, <2>4 DEF TreeInv, Running
<1>12. CASE Tzid[c] = Nil
  <2>1. ~Titled(c)
    BY <1>12 DEF Titled
  <2> QED BY <1>2, <1>3, <1>6, <1>8, <1>11, <1>12, <2>1
<1>13. CASE Tzid[c] # Nil
  <2>1. Titled(c) /\ Tzid[c] \in Nat
    BY <1>3, <1>4, <1>13, TzidsAreOrdered DEF Titled
  <2>2. PICK h \in Sorted(f, p) : comp' = IF FindZone(h[p].zones, Tzid[c]) = Nil
                                            THEN Transfer(h, c) ELSE h
    BY <1>6, <1>13
  <2>3. /\ Sane(h) /\ h[p].kids = comp[p].kids /\ Ordered(h[p].zones)
        /\ h[q].kids = s /\ h[q].cursor = x /\ h[q].alive /\ h[p].alive
    <3>1. /\ Sane(h) /\ h[p].kids = f[p].kids /\ Ordered(h[p].zones)
          /\ \A r \in Comp \ {p} : h[r] = f[r]
          /\ \A r \in Comp : h[r].alive = f[r].alive
      BY <1>3, <1>8, <2>2, SortedIsSane
    <3>2. h[q] = f[q]
      BY <1>3, <1>4, <3>1
    <3> QED BY <1>4, <1>8, <3>1, <3>2
  <2>4. CASE FindZone(h[p].zones, Tzid[c]) = Nil
    <3>1. comp' = AddComponent(RemoveComponent(h, q, c), p, c)
      BY <1>2, <2>2, <2>4 DEF Transfer
    <3>2. PICK g : g = comp'
      OBVIOUS
    <3>3. c \in ToSet(h[q].kids) /\ q # p /\ h[q].cursor # c
      BY <1>3, <1>4, <1>7, <2>3
    <3>4. /\ Sane(g)
          /\ g[q].kids = Without(h[q].kids, c)
          /\ g[q].cursor = IF h[q].cursor = c THEN After(h, q, c, "ANY")
                                              ELSE h[q].cursor
          /\ ToSet(g[p].kids) = ToSet(h[p].kids) \cup {c}
          /\ \A d \in Comp : g[d].alive = h[d].alive
      BY <1>3, <2>3, <3>1, <3>2, <3>3, TransferIsSane
    <3>5. g[p].alive /\ g[q].alive
      BY <1>4, <2>3, <3>4
    <3>6. HasZone(g, p, Tzid[c])
      BY <2>1, <3>4 DEF HasZone
    <3>7. /\ g[q].kids \in {s, Without(s, c)} /\ g[q].cursor = x
          /\ ToSet(comp[p].kids) \subseteq ToSet(g[p].kids)
      BY <2>3, <3>3, <3>4
    <3>8. TreeInv' /\ Left(comp', q) < Left(comp, q)
      BY <1>11, <3>2, <3>4, <3>5, <3>6, <3>7
    <3> QED BY <1>2, <3>8
  <2>5. CASE FindZone(h[p].zones, Tzid[c]) # Nil
    <3>1. comp' = h
      BY <2>2, <2>5
    <3>2. PICK zones : zones = h[p].zones
      OBVIOUS
    <3>3. /\ IsList(zones) /\ ToSet(zones) = {d \in ToSet(h[p].kids) : Titled(d)}
      BY <1>3, <2>3, <3>2, CalendarTyped
    <3>4. \A i \in 1..Len(zones) : Tzid[zones[i]] \in Nat
      <4>1. \A i \in 1..Len(zones) : zones[i] \in Kids /\ zones[i] \in ToSet(zones)
        BY <3>3, ListProperties
      <4> QED BY <3>3, <4>1, TzidsAreOrdered DEF Titled
    <3>5. \E z \in ToSet(zones) : Tzid[z] = Tzid[c]
      BY <2>1, <2>3, <2>5, <3>2, <3>3, <3>4, SearchFinds
    <3>6. HasZone(h, p, Tzid[c])
      BY <3>3, <3>5 DEF HasZone
    <3>7. TreeInv' /\ Left(comp', q) < Left(comp, q)
      BY <1>11, <2>3, <3>1, <3>6
    <3> QED BY <1>2, <3>7
  <2> QED BY <2>4, <2>5
<1> QED BY <1>12, <1>13

\* Nothing is there in the beginning.
LEMMA TreeInit ==
  ASSUME Init
  PROVE  TreeInv
<1>1. PICK h : h = [c \in Comp |-> Gone]
  OBVIOUS
<1>2. Gone \in Node /\ h \in [Comp -> Node]
  <2>1. <<>> \in Seq(Kids)
    BY EmptyList DEF IsList
  <2> QED BY <1>1, <2>1 DEF Gone, Node
<1>3. \A c \in Comp : /\ h[c].kids = <<>> /\ h[c].zones = <<>> /\ h[c].parent = Nil
                      /\ h[c].cursor = Nil
  BY <1>1 DEF Gone
<1>4. \A p \in Cals : Calendar(h, p)
  <2>1. \A c \in Kids : h[c].parent = Nil
    BY <1>3, Members
  <2> QED BY <1>3, <2>1, EmptyList, Members DEF Calendar
<1>5. \A c \in Kids : Leaf(h, c)
  BY <1>3, Members DEF Leaf
<1>6. comp = h /\ job = Idle
  BY <1>1 DEF Init
<1> QED BY <1>2, <1>4, <1>5, <1>6 DEF TreeInv, Sane, Running

\* The loops' turns.
LEMMA TurnsAreSafe ==
  ASSUME TreeInv, GoesOn
  PROVE  TreeInv'
BY AheadStep, CurrentStep, EndStep, ZoneStep, TurnStep, RestStep, MergeEndStep
   DEF GoesOn

\* A single call is made when no loop runs.
LEMMA CallsAreSafe ==
  ASSUME TreeInv, Call, Sane(comp')
  PROVE  TreeInv'
BY DEF TreeInv, Call, Running

\* Every step leaves the tree in order.
LEMMA TreeStep ==
  ASSUME TreeInv, [Next]_vars
  PROVE  TreeInv'
<1>0. Sane(comp)
  BY DEF TreeInv
<1>1. ASSUME NEW c \in Comp, Create(c) PROVE TreeInv'
  <2>1. Call /\ ~comp[c].alive /\ comp' = [comp EXCEPT ![c] = New]
    BY <1>1 DEF Create
  <2> QED BY <1>0, <2>1, CreateIsSane, CallsAreSafe
<1>2. ASSUME NEW c \in Comp, Free(c) PROVE TreeInv'
  BY <1>0, <1>2, FreeIsSane, CallsAreSafe DEF Free
<1>3. ASSUME NEW p \in Cals, NEW c \in Kids, Add(p, c) PROVE TreeInv'
  BY <1>0, <1>3, AddIsSane, CallsAreSafe DEF Add
<1>4. ASSUME NEW p \in Cals, NEW c \in Kids, RemoveKid(p, c) PROVE TreeInv'
  <2>1. Call /\ comp[c].parent = p /\ comp' = RemoveComponent(comp, p, c)
    BY <1>4 DEF RemoveKid
  <2>2. c \in ToSet(comp[p].kids)
    BY <1>0, <2>1, CalendarTyped
  <2> QED BY <1>0, <2>1, <2>2, RemoveIsSane, CallsAreSafe
<1>5. ASSUME NEW p \in Cals, NEW kind \in Kinds, GetFirst(p, kind) PROVE TreeInv'
  <2>1. Call /\ comp' = Moved(comp, p, First(comp, p, kind))
    BY <1>5 DEF GetFirst
  <2> QED BY <1>0, <2>1, FirstInList, MovedInList, CallsAreSafe
<1>6. ASSUME NEW p \in Cals, NEW kind \in Kinds, GetNext(p, kind) PROVE TreeInv'
  <2>1. PICK x : x = After(comp, p, comp[p].cursor, kind)
    OBVIOUS
  <2>2. Call /\ comp' = Moved(comp, p, x)
    BY <1>6, <2>1 DEF GetNext
  <2>3. x \in ToSet(comp[p].kids) \cup {Nil}
    <3>1. comp[p].cursor = Nil \/ comp[p].cursor \in ToSet(comp[p].kids)
      BY <1>0, ListOfCalendar
    <3>2. comp[p].cursor = Nil => x = Nil
      BY <2>1 DEF After
    <3> QED BY <1>0, <2>1, <3>1, <3>2, AfterInList
  <2> QED BY <1>0, <2>2, <2>3, MovedInList, CallsAreSafe
<1>7. ASSUME NEW p \in Cals, GetTimezone(p) PROVE TreeInv'
  BY <1>0, <1>7, SortedIsSane, CallsAreSafe DEF GetTimezone
<1>8. ASSUME UNCHANGED vars PROVE TreeInv'
  BY <1>8 DEF TreeInv, vars
<1> QED BY <1>1, <1>2, <1>3, <1>4, <1>5, <1>6, <1>7, <1>8, Beginning, MergeBeginning,
           TurnsAreSafe DEF Next

\* The invariant: after every call, and between the turns of a loop, each calendar
\* has its list, iterator and array in order and the loop has passed what it may
\* (icalcomponent.c:541, :574, :656, :678).
THEOREM TreeIsInOrder == Spec => []TreeInv
<1>1. Init => TreeInv
  BY TreeInit
<1>2. TreeInv /\ [Next]_vars => TreeInv'
  BY TreeStep
<1> QED BY <1>1, <1>2, PTL DEF Spec

\* The fields have their types (icalcomponent.c:50).
THEOREM TypesHold == Spec => []TypeOK
<1>1. TreeInv => TypeOK
  <2> SUFFICES ASSUME TreeInv PROVE TypeOK
    OBVIOUS
  <2>1. comp \in [Comp -> Node]
    BY DEF TreeInv, Sane
  <2>2. job.op \in {"none", "ahead", "current", "zones", "rest"}
    BY WhichLoop DEF TreeInv
  <2> QED BY <2>1, <2>2 DEF TypeOK, Node
<1> QED BY <1>1, TreeIsInOrder, PTL

\* Every component is in the list of its parent and in no other, once, and what is
\* in a list has not been freed (icalcomponent.c:541, :574, :233).
THEOREM ChildrenHaveOneOwner == Spec => []OneOwner
<1>1. TreeInv => OneOwner
  <2> SUFFICES ASSUME TreeInv PROVE OneOwner
    OBVIOUS
  <2>1. Sane(comp)
    BY DEF TreeInv
  <2>2. \A p \in Cals : IsInjective(comp[p].kids)
    BY <2>1 DEF Sane, Calendar, IsList
  <2>3. \A p \in Cals, c \in Kids : c \in ToSet(comp[p].kids) <=> comp[c].parent = p
    BY <2>1 DEF Sane, Calendar
  <2>4. \A c \in Kids :
          comp[c].parent # Nil => comp[c].alive /\ comp[comp[c].parent].alive
    BY <2>1 DEF Sane, Leaf
  <2> QED BY <2>2, <2>3, <2>4 DEF OneOwner
<1> QED BY <1>1, TreeIsInOrder, PTL

\* The array of zones has one entry for each VTIMEZONE with a TZID in the list
\* beside it, whatever is removed or merged (icalcomponent.c:565, :581).
THEOREM ArrayIsOfTheList == Spec => []ArrayMatchesList
<1>1. TreeInv => ArrayMatchesList
  BY DEF TreeInv, Sane, Calendar, IsList, ArrayMatchesList
<1> QED BY <1>1, TreeIsInOrder, PTL

\* The iterator of a calendar is on a child of it or past the end: one that was on
\* what is removed went on (icalcomponent.c:606).
THEOREM IteratorStays == Spec => []CursorOnChild
<1>1. TreeInv => CursorOnChild
  BY DEF TreeInv, Sane, Calendar, CursorOnChild
<1> QED BY <1>1, TreeIsInOrder, PTL

\* VTIMEZONEs come before all other children (icalcomponent.c:556).
THEOREM ZonesLead == Spec => []ZonesFirst
<1>1. TreeInv => ZonesFirst
  <2> SUFFICES ASSUME TreeInv, NEW p \in Cals
               PROVE  LET kids == comp[p].kids
                      IN  \A i, j \in DOMAIN kids :
                            i < j /\ IsZone(kids[j]) => IsZone(kids[i])
    BY DEF ZonesFirst
  <2>1. Calendar(comp, p)
    BY DEF TreeInv, Sane
  <2>2. IsList(comp[p].kids) /\ ZonesAhead(comp[p].kids)
    BY <2>1 DEF Calendar
  <2> QED BY <2>2, ListProperties DEF ZonesAhead
<1> QED BY <1>1, TreeIsInOrder, PTL

\* A lookup finds a zone exactly when there is one of that TZID, for the flag says
\* when the array is to be sorted first (icalcomponent.c:2395).
THEOREM LookupsFind == Spec => []LookupFinds
<1>1. TreeInv => LookupFinds
  <2> SUFFICES ASSUME TreeInv, NEW p \in Cals,
                      NEW id \in {Tzid[c] : c \in Kids} \ {Nil},
                      NEW h \in Sorted(comp, p)
               PROVE  LET z == FindZone(h[p].zones, id)
                      IN  IF \E c \in ToSet(comp[p].kids) : Titled(c) /\ Tzid[c] = id
                            THEN z # Nil /\ Tzid[z] = id ELSE z = Nil
    BY DEF LookupFinds
  <2>1. Sane(comp)
    BY DEF TreeInv
  <2>2. PICK zones : zones = h[p].zones
    OBVIOUS
  <2>3. /\ IsList(zones) /\ Ordered(zones)
        /\ ToSet(zones) = {d \in ToSet(comp[p].kids) : Titled(d)}
    <3>1. /\ Sane(h) /\ h[p].kids = comp[p].kids /\ Ordered(h[p].zones)
      BY <2>1, SortedIsSane
    <3> QED BY <2>2, <3>1, CalendarTyped
  <2>4. id \in Nat
    BY TzidsAreOrdered
  <2>5. \A i \in 1..Len(zones) : Tzid[zones[i]] \in Nat
    <3>1. \A i \in 1..Len(zones) : zones[i] \in Kids /\ zones[i] \in ToSet(zones)
      BY <2>3, ListProperties
    <3> QED BY <2>3, <3>1, TzidsAreOrdered DEF Titled
  <2>6. IF \E z \in ToSet(zones) : Tzid[z] = id
          THEN /\ FindZone(zones, id) \in ToSet(zones)
               /\ Tzid[FindZone(zones, id)] = id
          ELSE FindZone(zones, id) = Nil
    BY <2>3, <2>4, <2>5, SearchFinds
  <2>7. (\E z \in ToSet(zones) : Tzid[z] = id)
          <=> \E c \in ToSet(comp[p].kids) : Titled(c) /\ Tzid[c] = id
    BY <2>3
  <2>8. \A z \in ToSet(zones) : z # Nil
    BY <2>3, ListProperties
  <2> QED BY <2>2, <2>6, <2>7, <2>8
<1> QED BY <1>1, TreeIsInOrder, PTL

\* At the end of either loop of the documentation no child of the kind is left,
\* although children are removed under the iterator (UsingLibical.txt, 5.2.4).
THEOREM LoopsRemoveAll == Spec => []LoopRemovesAll
<1>1. TreeInv => LoopRemovesAll
  <2> SUFFICES ASSUME TreeInv, LoopOver
               PROVE  \A c \in ToSet(comp[job.in].kids) : ~Of(job.kind, c)
    BY DEF LoopRemovesAll
  <2>1. Sane(comp) /\ Running(comp, job)
    BY DEF TreeInv
  <2>2. CASE job.op = "ahead" /\ job.sub = Nil
    <3>1. RunningAhead(comp, job)
      BY <2>1, <2>2, WhichLoop
    <3>2. job.in \in Cals
      BY <3>1 DEF RunningAhead, AheadJob
    <3>3. Passed(comp[job.in].kids, Nil) = ToSet(comp[job.in].kids)
      BY <2>1, <3>2, ListOfCalendar, PassedIsKnown
    <3> QED BY <2>2, <3>1, <3>3 DEF RunningAhead
  <2>3. CASE job.op = "current" /\ comp[job.in].cursor = Nil
    <3>1. RunningCurrent(comp, job)
      BY <2>1, <2>3, WhichLoop
    <3>2. job.in \in Cals
      BY <3>1 DEF RunningCurrent, CurrentJob
    <3>3. Passed(comp[job.in].kids, Nil) = ToSet(comp[job.in].kids)
      BY <2>1, <3>2, ListOfCalendar, PassedIsKnown
    <3> QED BY <2>3, <3>1, <3>3 DEF RunningCurrent
  <2> QED BY <2>2, <2>3 DEF LoopOver
<1> QED BY <1>1, TreeIsInOrder, PTL

\* What a merge frees with the emptied calendar are VTIMEZONEs, without a TZID or
\* with one that the other calendar has (icalcomponent.c:2094).
THEOREM MergesLoseNothing == Spec => []MergeLosesNothing
<1>1. TreeInv => MergeLosesNothing
  <2> SUFFICES ASSUME TreeInv, job.op = "rest", job.sub = Nil,
                      NEW c \in ToSet(comp[job.in].kids)
               PROVE  /\ IsZone(c)
                      /\ Titled(c) => \E z \in ToSet(comp[job.into].kids) :
                                        Titled(z) /\ Tzid[z] = Tzid[c]
    BY DEF MergeLosesNothing
  <2>1. Sane(comp) /\ RunningRest(comp, job)
    BY WhichLoop DEF TreeInv
  <2>2. job.in \in Cals
    BY <2>1 DEF RunningRest, RunningMerge, MergeJob
  <2>3. Passed(comp[job.in].kids, Nil) = ToSet(comp[job.in].kids)
    BY <2>1, <2>2, ListOfCalendar, PassedIsKnown
  <2> QED BY <2>1, <2>3 DEF RunningRest, HasZone
<1> QED BY <1>1, TreeIsInOrder, PTL

\* Every turn of a loop leaves fewer children to visit: no loop goes round for ever
\* (icalcomponent.c:656, :678, :606).
THEOREM LoopsGoForward == Spec => LoopsAdvance
<1>1. ASSUME TreeInv, [Next]_vars, job # Idle, job'.op = job.op
      PROVE  Left(comp', job.in) < Left(comp, job.in) \/ UNCHANGED vars
  <2>1. Running(comp, job)
    BY <1>1 DEF TreeInv
  <2>2. job.op # "none" /\ Idle.op = "none"
    BY <1>1, <2>1, WhichLoop DEF Idle
  <2>3. GoesOn \/ UNCHANGED vars
    BY <1>1 DEF Next, Create, Free, Add, RemoveKid, GetFirst, GetNext, AheadBegins,
                CurrentBegins, GetTimezone, MergeBegins, Call
  <2>4. ~LoopEnds /\ ~MergeEnds
    BY <1>1, <2>2 DEF LoopEnds, MergeEnds
  <2>5. ~MergeTurns
    <3>1. MergeTurns => job.op = "zones" /\ job'.op = "rest"
      <4>1. SUFFICES ASSUME MergeTurns PROVE job'.op = "rest" /\ job.op = "zones"
        OBVIOUS
      <4>2. job \in MergeJob
        BY <2>1, <4>1, WhichLoop DEF MergeTurns, RunningZones, RunningMerge
      <4> QED BY <4>1, <4>2 DEF MergeTurns, MergeJob
    <3> QED BY <1>1, <3>1
  <2> QED BY <1>1, <2>3, <2>4, <2>5, AheadStep, CurrentStep, ZoneStep, RestStep DEF GoesOn
<1>2. TreeInv /\ [Next]_vars
        => [job # Idle /\ job'.op = job.op
              => Left(comp', job.in) < Left(comp, job.in)]_vars
  BY <1>1
<1> QED BY <1>2, TreeIsInOrder, PTL DEF Spec, LoopsAdvance
=============================================================================
