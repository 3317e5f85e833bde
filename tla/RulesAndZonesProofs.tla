------------------------- MODULE RulesAndZonesProofs -------------------------
(***************************************************************************)
(* The texts of recurrence rules: the sort of a rule's days, and what its  *)
(* text makes of it.  The time zones: that the table a zone keeps is its   *)
(* component's, that the search finds the last change in it, and that a    *)
(* time that is converted stays the same moment.  And the iterator of a    *)
(* rule: that every pass of its loop takes it to a later time.             *)
(***************************************************************************)
EXTENDS ICalRecurRule, ICalTimezone, ICalRecur, Induction, FiniteSetTheorems, FunctionTheorems

----------------------------------------------------------------------------
(* The sort.                                                               *)

\* Lists of n days, each as its number.
Lists(n) == [1..n -> Int]

\* A list in which two days were exchanged is as long.
LEMMA ExchangeType ==
  ASSUME NEW n \in Nat, NEW i \in 1..n, NEW j \in 1..n, NEW wkst, NEW l \in Lists(n)
  PROVE  Exchange(l, j, i, wkst) \in Lists(n)
BY DEF Exchange, Lists

\* Insert is the exchanges with the days before, one after the other.
LEMMA InsertSteps ==
  ASSUME NEW n \in Nat, NEW i \in 1..n, NEW wkst, NEW list \in Lists(n)
  PROVE  \E h : /\ h[0] = list
                /\ \A j \in 1..i - 1 : h[j] = Exchange(h[j - 1], j, i, wkst)
                /\ Insert(list, i, wkst) = h[i - 1]
<1>0. PICK V : V = Lists(n)
  OBVIOUS
<1>1. PICK m \in Nat : m = i - 1
  OBVIOUS
<1>2. PICK T : T = [j \in 1..m |-> [v \in V |-> Exchange(v, j, i, wkst)]]
  OBVIOUS
<1>3. T \in Steps(V, m)
  <2>1. ASSUME NEW j \in 1..m, NEW v \in V PROVE Exchange(v, j, i, wkst) \in V
    <3>1. j \in 1..n
      BY <1>1
    <3> QED BY <1>0, <3>1, ExchangeType
  <2> QED BY <1>2, <2>1 DEF Steps
<1> DEFINE seq == [j \in 1..i - 1 |-> j]
           Is(f) == f = [S \in SUBSET DOMAIN seq |->
                           IF S = {} THEN list
                           ELSE Exchange(f[S \ {Max(S)}], seq[Max(S)], i, wkst)]
           fold == CHOOSE f : Is(f)
<1>4. DOMAIN seq = 1..m
  BY <1>1
<1>5. Insert(list, i, wkst) = fold[1..m]
  <2>1. Insert(list, i, wkst) = fold[DOMAIN seq]
    BY DEF Insert, FoldLeft, MapThenFoldSet
  <2> QED BY <1>4, <2>1
<1>6. \E f : Is(f)
  <2>1. PICK g : FoldsOver(g, V, list, m, T)
    BY <1>0, <1>3, FoldRecursion
  <2> DEFINE f == [S \in SUBSET DOMAIN seq |-> g[S]]
  <2>2. ASSUME NEW S \in SUBSET (1..m)
        PROVE  g[S] = IF S = {} THEN list
                      ELSE Exchange(f[S \ {Max(S)}], seq[Max(S)], i, wkst)
    <3>1. CASE S = {}
      BY <2>1, <3>1 DEF FoldsOver
    <3>2. CASE S # {}
      <4>1. PICK x : x = Max(S)
        OBVIOUS
      <4>2. x \in 1..m
        BY <1>1, <3>2, <4>1, MaxProperties
      <4>3. S \ {x} \in SUBSET (1..m) /\ S \ {x} \in SUBSET DOMAIN seq
        BY <1>4
      <4>4. g[S \ {x}] \in V /\ g[S] = T[x][g[S \ {x}]]
        BY <2>1, <3>2, <4>1, <4>3 DEF FoldsOver
      <4>5. g[S] = Exchange(g[S \ {x}], x, i, wkst)
        BY <1>2, <4>2, <4>4
      <4>6. f[S \ {x}] = g[S \ {x}] /\ seq[x] = x
        BY <1>1, <4>2, <4>3
      <4> QED BY <3>2, <4>1, <4>5, <4>6
    <3> QED BY <3>1, <3>2
  <2>3. Is(f)
    BY <1>4, <2>2
  <2> QED BY <2>3
<1>7. Is(fold)
  <2> HIDE DEF Is
  <2> QED BY <1>6
<1> HIDE DEF fold
<1>8. fold[1..0] = list
  <2>1. 1..0 = {} /\ {} \in SUBSET DOMAIN seq
    OBVIOUS
  <2> QED BY <1>7, <2>1
<1>9. ASSUME NEW j \in 1..m PROVE fold[1..j] = Exchange(fold[1..j - 1], j, i, wkst)
  <2>1. 1..j \in SUBSET DOMAIN seq /\ 1..j # {} /\ j \in Nat \ {0} /\ seq[j] = j
    BY <1>1, <1>4
  <2>2. Max(1..j) = j /\ (1..j) \ {j} = 1..j - 1
    BY <2>1, MaxOfInterval
  <2> QED BY <1>7, <2>1, <2>2
<1> DEFINE h == [j \in 0..m |-> fold[1..j]]
<1>10. /\ h[0] = list
       /\ \A j \in 1..m : h[j] = Exchange(h[j - 1], j, i, wkst)
       /\ h[m] = fold[1..m]
  BY <1>8, <1>9
<1> HIDE DEF h
<1> QED BY <1>1, <1>5, <1>10

\* So is one into which a day was inserted.
LEMMA InsertType ==
  ASSUME NEW n \in Nat, NEW i \in 1..n, NEW wkst, NEW list \in Lists(n)
  PROVE  Insert(list, i, wkst) \in Lists(n)
<1>1. PICK h : /\ h[0] = list
               /\ \A j \in 1..i - 1 : h[j] = Exchange(h[j - 1], j, i, wkst)
               /\ Insert(list, i, wkst) = h[i - 1]
  BY InsertSteps
<1> DEFINE N == {m \in Nat : m <= i - 1 => h[m] \in Lists(n)}
<1>2. 0 \in N
  BY <1>1
<1>3. ASSUME NEW m \in Nat, m \in N PROVE m + 1 \in N
  <2> SUFFICES ASSUME m + 1 <= i - 1 PROVE h[m + 1] \in Lists(n)
    OBVIOUS
  <2>1. m + 1 \in 1..i - 1 /\ m + 1 \in 1..n /\ (m + 1) - 1 = m
    OBVIOUS
  <2>2. h[m + 1] = Exchange(h[m], m + 1, i, wkst)
    BY <1>1, <2>1
  <2>3. h[m] \in Lists(n)
    BY <1>3
  <2> QED BY <2>1, <2>2, <2>3, ExchangeType
<1> HIDE DEF N
<1>4. i - 1 \in N
  <2>1. i - 1 \in Nat
    OBVIOUS
  <2> QED BY <1>2, <1>3, <2>1, InductionOnNat
<1> QED BY <1>1, <1>4 DEF N

\* The order the exchanges keep, up to an index.
WeekOrder(l, wkst, m) ==
  \A a, b \in 1..m : a < b => FromStart(l[a], wkst) <= FromStart(l[b], wkst)

\* The same days in some order.
Permuted(a, b, n) ==
  /\ a \in Lists(n) /\ b \in Lists(n)
  /\ \E p \in Bijection(1..n, 1..n) : \A k \in 1..n : a[k] = b[p[k]]

\* A list is a rearrangement of itself,
LEMMA PermutedReflexive ==
  ASSUME NEW n \in Nat, NEW a \in Lists(n)
  PROVE  Permuted(a, a, n)
<1> DEFINE p == [k \in 1..n |-> k]
<1>1. p \in Bijection(1..n, 1..n)
  BY DEF Bijection, Injection, Surjection, IsInjective
<1> QED BY <1>1 DEF Permuted

\* of what it is rearranged to again,
LEMMA PermutedTransitive ==
  ASSUME NEW n \in Nat, NEW a, NEW b, NEW c, Permuted(a, b, n), Permuted(b, c, n)
  PROVE  Permuted(a, c, n)
<1>1. PICK p \in Bijection(1..n, 1..n) : \A k \in 1..n : a[k] = b[p[k]]
  BY DEF Permuted
<1>2. PICK q \in Bijection(1..n, 1..n) : \A k \in 1..n : b[k] = c[q[k]]
  BY DEF Permuted
<1> DEFINE r == [k \in 1..n |-> q[p[k]]]
<1>3. r \in Bijection(1..n, 1..n)
  BY <1>1, <1>2, Fun_BijTransitive
<1>4. \A k \in 1..n : a[k] = c[r[k]]
  BY <1>1, <1>2 DEF Bijection, Injection
<1> HIDE DEF r
<1> QED BY <1>3, <1>4 DEF Permuted

\* and of what it was rearranged from.
LEMMA PermutedSymmetric ==
  ASSUME NEW n \in Nat, NEW a, NEW b, Permuted(a, b, n)
  PROVE  Permuted(b, a, n)
<1>1. PICK p \in Bijection(1..n, 1..n) : \A k \in 1..n : a[k] = b[p[k]]
  BY DEF Permuted
<1>2. /\ p \in [1..n -> 1..n]
      /\ \A x, y \in 1..n : p[x] = p[y] => x = y
      /\ \A k \in 1..n : \E x \in 1..n : p[x] = k
  BY <1>1 DEF Bijection, Injection, Surjection, IsInjective
<1> DEFINE q == [k \in 1..n |-> CHOOSE x \in 1..n : p[x] = k]
<1>3. \A k \in 1..n : q[k] \in 1..n /\ p[q[k]] = k
  BY <1>2
<1>4. q \in [1..n -> 1..n]
  BY <1>3
<1> HIDE DEF q
<1>5. \A x, y \in 1..n : q[x] = q[y] => x = y
  BY <1>3
<1>6. \A t \in 1..n : p[t] \in 1..n /\ q[p[t]] = t
  BY <1>2, <1>3
<1>7. q \in Bijection(1..n, 1..n)
  BY <1>4, <1>5, <1>6 DEF Bijection, Injection, Surjection, IsInjective
<1>8. \A k \in 1..n : b[k] = a[q[k]]
  BY <1>1, <1>3
<1> QED BY <1>7, <1>8 DEF Permuted

\* An exchange leaves every day in the list.
LEMMA ExchangePermutes ==
  ASSUME NEW n \in Nat, NEW i \in 1..n, NEW j \in 1..n, NEW wkst, NEW l \in Lists(n)
  PROVE  Permuted(Exchange(l, j, i, wkst), l, n)
<1>1. CASE FromStart(l[j], wkst) > FromStart(l[i], wkst)
  <2> DEFINE p == [k \in 1..n |-> IF k = j THEN i ELSE IF k = i THEN j ELSE k]
  <2>1. p \in Bijection(1..n, 1..n)
    <3>1. p \in [1..n -> 1..n]
      OBVIOUS
    <3>2. \A a, b \in 1..n : p[a] = p[b] => a = b
      OBVIOUS
    <3>3. \A t \in 1..n : p[t] \in 1..n /\ p[p[t]] = t
      OBVIOUS
    <3> HIDE DEF p
    <3> QED BY <3>1, <3>2, <3>3 DEF Bijection, Injection, Surjection, IsInjective
  <2>2. \A k \in 1..n : Exchange(l, j, i, wkst)[k] = l[p[k]]
    BY <1>1 DEF Exchange, Lists
  <2> HIDE DEF p
  <2> QED BY <2>1, <2>2, ExchangeType DEF Permuted
<1>2. CASE ~(FromStart(l[j], wkst) > FromStart(l[i], wkst))
  <2>1. Exchange(l, j, i, wkst) = l
    BY <1>2 DEF Exchange
  <2> QED BY <2>1, PermutedReflexive
<1> QED BY <1>1, <1>2

\* There are at most six days from the one the week starts on.
LEMMA FromStartType ==
  ASSUME NEW code \in Int, NEW wkst \in Int
  PROVE  FromStart(code, wkst) \in 0..6
BY DEF FromStart, DayOf, Size, Sign

\* Where the exchanges of the i-th day have come to when they are past the first m.
Inserting(l, list, i, wkst, n, m) ==
  /\ Permuted(l, list, n)
  /\ WeekOrder(l, wkst, i - 1)
  /\ \A k \in 1..m : FromStart(l[k], wkst) <= FromStart(l[i], wkst)

\* An exchange takes the insertion of a day one place further.
LEMMA ExchangeInserts ==
  ASSUME NEW n \in Nat, NEW i \in 1..n, NEW wkst \in Int, NEW list \in Lists(n),
         NEW l, NEW m \in Nat, m + 1 <= i - 1, Inserting(l, list, i, wkst, n, m)
  PROVE  Inserting(Exchange(l, m + 1, i, wkst), list, i, wkst, n, m + 1)
<1>1. l \in Lists(n) /\ m + 1 \in 1..n
  BY DEF Inserting, Permuted
<1>2. PICK e : e = Exchange(l, m + 1, i, wkst)
  OBVIOUS
<1>3. Permuted(e, list, n)
  BY <1>1, <1>2, ExchangePermutes, PermutedTransitive DEF Inserting
<1> DEFINE K(a, k) == FromStart(a[k], wkst)
<1>4. \A k \in 1..n : K(l, k) \in Int
  <2>1. \A k \in 1..n : l[k] \in Int
    BY <1>1 DEF Lists
  <2> QED BY <2>1, FromStartType
<1>5. /\ \A k \in 1..n : k \notin {m + 1, i} => K(e, k) = K(l, k)
      /\ K(e, m + 1) = IF K(l, m + 1) > K(l, i) THEN K(l, i) ELSE K(l, m + 1)
      /\ K(e, i) = IF K(l, m + 1) > K(l, i) THEN K(l, m + 1) ELSE K(l, i)
  BY <1>1, <1>2 DEF Exchange, Lists
<1>6. /\ \A a, b \in 1..i - 1 : a < b => K(l, a) <= K(l, b)
      /\ \A k \in 1..m : K(l, k) <= K(l, i)
  BY DEF Inserting, WeekOrder
<1> HIDE DEF K
<1>7. \A k \in 1..m + 1 : K(e, k) <= K(e, i)
  BY <1>1, <1>4, <1>5, <1>6
<1>8. \A a, b \in 1..i - 1 : a < b => K(e, a) <= K(e, b)
  BY <1>1, <1>4, <1>5, <1>6
<1> QED BY <1>2, <1>3, <1>7, <1>8 DEF Inserting, WeekOrder, K

\* So Insert puts the i-th day in its place among those before it.
LEMMA InsertInserts ==
  ASSUME NEW n \in Nat, NEW i \in 1..n, NEW wkst \in Int, NEW list \in Lists(n),
         WeekOrder(list, wkst, i - 1)
  PROVE  Permuted(Insert(list, i, wkst), list, n) /\ WeekOrder(Insert(list, i, wkst), wkst, i)
<1>1. PICK h : /\ h[0] = list
               /\ \A j \in 1..i - 1 : h[j] = Exchange(h[j - 1], j, i, wkst)
               /\ Insert(list, i, wkst) = h[i - 1]
  BY InsertSteps
<1> DEFINE N == {m \in Nat : m <= i - 1 => Inserting(h[m], list, i, wkst, n, m)}
<1>2. 0 \in N
  BY <1>1, PermutedReflexive DEF Inserting
<1>3. ASSUME NEW m \in Nat, m \in N PROVE m + 1 \in N
  <2> SUFFICES ASSUME m + 1 <= i - 1 PROVE Inserting(h[m + 1], list, i, wkst, n, m + 1)
    OBVIOUS
  <2>1. Inserting(h[m], list, i, wkst, n, m)
    BY <1>3
  <2>2. h[m + 1] = Exchange(h[m], m + 1, i, wkst)
    <3>1. m + 1 \in 1..i - 1 /\ (m + 1) - 1 = m
      OBVIOUS
    <3> QED BY <1>1, <3>1
  <2> QED BY <2>1, <2>2, ExchangeInserts
<1> HIDE DEF N
<1>4. i - 1 \in N
  <2>1. i - 1 \in Nat
    OBVIOUS
  <2> QED BY <1>2, <1>3, <2>1, InductionOnNat
<1>5. Inserting(h[i - 1], list, i, wkst, n, i - 1)
  BY <1>4 DEF N
<1>6. ASSUME NEW a \in 1..i, NEW b \in 1..i, a < b
      PROVE  FromStart(h[i - 1][a], wkst) <= FromStart(h[i - 1][b], wkst)
  <2>1. CASE b = i
    BY <1>5, <1>6, <2>1 DEF Inserting
  <2>2. CASE b # i
    BY <1>5, <1>6, <2>2 DEF Inserting, WeekOrder
  <2> QED BY <2>1, <2>2
<1>7. Permuted(h[i - 1], list, n)
  BY <1>5 DEF Inserting
<1>8. WeekOrder(h[i - 1], wkst, i)
  BY <1>6 DEF WeekOrder
<1> QED BY <1>1, <1>7, <1>8

\* Sorted is the insertions of the days, one after the other.
LEMMA SortedSteps ==
  ASSUME NEW n \in Nat, NEW wkst \in Int, NEW codes \in Lists(n)
  PROVE  \E h : /\ h[0] = codes
                /\ \A i \in 1..n : h[i] = Insert(h[i - 1], i, wkst)
                /\ Sorted(codes, wkst) = h[n]
<1>0. PICK V : V = Lists(n)
  OBVIOUS
<1>2. PICK T : T = [i \in 1..n |-> [v \in V |-> Insert(v, i, wkst)]]
  OBVIOUS
<1>3. T \in Steps(V, n)
  <2>1. ASSUME NEW i \in 1..n, NEW v \in V PROVE Insert(v, i, wkst) \in V
    BY <1>0, InsertType
  <2> QED BY <1>2, <2>1 DEF Steps
<1> DEFINE seq == [i \in DOMAIN codes |-> i]
           Is(f) == f = [S \in SUBSET DOMAIN seq |->
                           IF S = {} THEN codes
                           ELSE Insert(f[S \ {Max(S)}], seq[Max(S)], wkst)]
           fold == CHOOSE f : Is(f)
<1>4. DOMAIN seq = 1..n
  BY DEF Lists
<1>5. Sorted(codes, wkst) = fold[1..n]
  <2>1. Sorted(codes, wkst) = fold[DOMAIN seq]
    BY DEF Sorted, FoldLeft, MapThenFoldSet
  <2> QED BY <1>4, <2>1
<1>6. \E f : Is(f)
  <2>1. PICK g : FoldsOver(g, V, codes, n, T)
    BY <1>0, <1>3, FoldRecursion
  <2> DEFINE f == [S \in SUBSET DOMAIN seq |-> g[S]]
  <2>2. ASSUME NEW S \in SUBSET (1..n)
        PROVE  g[S] = IF S = {} THEN codes
                      ELSE Insert(f[S \ {Max(S)}], seq[Max(S)], wkst)
    <3>1. CASE S = {}
      BY <2>1, <3>1 DEF FoldsOver
    <3>2. CASE S # {}
      <4>1. PICK x : x = Max(S)
        OBVIOUS
      <4>2. x \in 1..n
        BY <3>2, <4>1, MaxProperties
      <4>3. S \ {x} \in SUBSET (1..n) /\ S \ {x} \in SUBSET DOMAIN seq
        BY <1>4
      <4>4. g[S \ {x}] \in V /\ g[S] = T[x][g[S \ {x}]]
        BY <2>1, <3>2, <4>1, <4>3 DEF FoldsOver
      <4>5. g[S] = Insert(g[S \ {x}], x, wkst)
        BY <1>2, <4>2, <4>4
      <4>6. f[S \ {x}] = g[S \ {x}] /\ seq[x] = x
        BY <1>4, <4>2, <4>3
      <4> QED BY <3>2, <4>1, <4>5, <4>6
    <3> QED BY <3>1, <3>2
  <2>3. Is(f)
    BY <1>4, <2>2
  <2> QED BY <2>3
<1>7. Is(fold)
  <2> HIDE DEF Is
  <2> QED BY <1>6
<1> HIDE DEF fold
<1>8. fold[1..0] = codes
  <2>1. 1..0 = {} /\ {} \in SUBSET DOMAIN seq
    OBVIOUS
  <2> QED BY <1>7, <2>1
<1>9. ASSUME NEW i \in 1..n PROVE fold[1..i] = Insert(fold[1..i - 1], i, wkst)
  <2>1. 1..i \in SUBSET DOMAIN seq /\ 1..i # {} /\ i \in Nat \ {0} /\ seq[i] = i
    <3>1. 1..i \in SUBSET DOMAIN seq
      BY <1>4
    <3>2. i \in DOMAIN codes
      BY DEF Lists
    <3> QED BY <3>1, <3>2
  <2>2. Max(1..i) = i /\ (1..i) \ {i} = 1..i - 1
    BY <2>1, MaxOfInterval
  <2> QED BY <1>7, <2>1, <2>2
<1> DEFINE h == [i \in 0..n |-> fold[1..i]]
<1>10. /\ h[0] = codes
       /\ \A i \in 1..n : h[i] = Insert(h[i - 1], i, wkst)
       /\ h[n] = fold[1..n]
  BY <1>8, <1>9
<1> HIDE DEF h
<1> QED BY <1>5, <1>10

\* Sorted gives the same days, in the order from the day weeks start on.
LEMMA SortedSorts ==
  ASSUME NEW n \in Nat, NEW wkst \in Int, NEW codes \in Lists(n)
  PROVE  Permuted(Sorted(codes, wkst), codes, n) /\ WeekOrder(Sorted(codes, wkst), wkst, n)
<1>1. PICK h : /\ h[0] = codes
               /\ \A i \in 1..n : h[i] = Insert(h[i - 1], i, wkst)
               /\ Sorted(codes, wkst) = h[n]
  BY SortedSteps
<1> DEFINE N == {m \in Nat : m <= n => Permuted(h[m], codes, n) /\ WeekOrder(h[m], wkst, m)}
<1>2. 0 \in N
  BY <1>1, PermutedReflexive DEF WeekOrder
<1>3. ASSUME NEW m \in Nat, m \in N PROVE m + 1 \in N
  <2> SUFFICES ASSUME m + 1 <= n
               PROVE  Permuted(h[m + 1], codes, n) /\ WeekOrder(h[m + 1], wkst, m + 1)
    OBVIOUS
  <2>1. m + 1 \in 1..n /\ (m + 1) - 1 = m
    OBVIOUS
  <2>2. /\ h[m] \in Lists(n) /\ Permuted(h[m], codes, n)
        /\ WeekOrder(h[m], wkst, (m + 1) - 1)
    BY <1>3, <2>1 DEF Permuted
  <2>3. h[m + 1] = Insert(h[m], m + 1, wkst)
    BY <1>1, <2>1
  <2>4. Permuted(h[m + 1], h[m], n) /\ WeekOrder(h[m + 1], wkst, m + 1)
    BY <2>1, <2>2, <2>3, InsertInserts
  <2> QED BY <2>2, <2>4, PermutedTransitive
<1> HIDE DEF N
<1>4. n \in N
  BY <1>2, <1>3, InductionOnNat
<1> QED BY <1>1, <1>4 DEF N

----------------------------------------------------------------------------
(* What a clause does to a rule.                                           *)

IsRule(r) == /\ r = [n \in ClauseNames |-> r[n]]
             /\ r.BYDAY \in Seq(Int)
             /\ r.WKST \in 1..7

\* Lists of n days are the sequences of n numbers.
LEMMA ListsAreSeqs ==
  ASSUME NEW l
  PROVE  l \in Seq(Int) <=> l \in Lists(Len(l)) /\ Len(l) \in Nat
BY DEF Lists

\* A day is the one its number was made of.
LEMMA DayIsEncoded ==
  ASSUME NEW d \in Days
  PROVE  Encoded(d) \in Int /\ d = [dow |-> DayOf(Encoded(d)), pos |-> PositionOf(Encoded(d))]
<1>1. PICK w \in 1..7, q \in Int : d = [dow |-> w, pos |-> q]
  BY DEF Days
<1>2. PICK c : c = Encoded(d)
  OBVIOUS
<1>3. c = IF q < 0 THEN -(w + 8 * (-q)) ELSE w + 8 * q
  BY <1>1, <1>2 DEF Encoded, Sign, Size
<1>4. c \in Int /\ (c < 0 <=> q < 0)
  BY <1>3
<1>5. Size(c) = w + 8 * Size(q)
  BY <1>3, <1>4 DEF Size, Sign
<1>6. Size(q) \in Nat
  BY DEF Size, Sign
<1>7. DayOf(c) = w
  BY <1>5, <1>6 DEF DayOf
<1>8. PositionOf(c) = Sign(c) * Size(q)
  <2>1. Size(c) - DayOf(c) = 8 * Size(q)
    BY <1>5, <1>6, <1>7
  <2>2. (8 * Size(q)) \div 8 = Size(q)
    BY <1>6
  <2> QED BY <2>1, <2>2 DEF PositionOf
<1>9. Sign(c) * Size(q) = q
  BY <1>4 DEF Sign, Size
<1> QED BY <1>1, <1>2, <1>4, <1>7, <1>8, <1>9

\* The numbers of days.
Numbers(days) == [i \in DOMAIN days |-> Encoded(days[i])]

\* The numbers of the days of a clause are those days, in the order of the week.
LEMMA CodesSort ==
  ASSUME NEW days \in Seq(Days), NEW wkst \in 1..7, NEW n, n = Len(days)
  PROVE  /\ n \in Nat
         /\ Permuted(Codes(days, wkst), Numbers(days), n)
         /\ WeekOrder(Codes(days, wkst), wkst, n)
<1>1. n \in Nat /\ \A i \in 1..n : days[i] \in Days
  OBVIOUS
<1>2. DOMAIN days = 1..n
  OBVIOUS
<1>3. Numbers(days) \in Lists(n)
  BY <1>1, <1>2, DayIsEncoded DEF Numbers, Lists
<1>4. Codes(days, wkst) = Sorted(Numbers(days), wkst)
  BY DEF Codes, Numbers
<1> QED BY <1>1, <1>3, <1>4, SortedSorts

DaysInOrder(r) == WeekOrder(r.BYDAY, r.WKST, Len(r.BYDAY))

\* What is done with a clause, case by case.
LEMMA TakenCases ==
  ASSUME NEW r, NEW c
  PROVE  /\ c.name = "BYDAY" => Taken(r, c) = [r EXCEPT !.BYDAY = Codes(c.value, r.WKST)]
         /\ c.name = "WKST" =>
              Taken(r, c) = [r EXCEPT !.WKST = c.value, !.BYDAY = Sorted(@, c.value)]
         /\ c.name \notin {"BYDAY", "WKST"} => Taken(r, c) = [r EXCEPT ![c.name] = c.value]
BY DEF Taken

\* What r becomes: the value of c at its name, and nothing else but the order of
\* the days.
Becomes(t, r, c) ==
  /\ IsRule(t) /\ DaysInOrder(t)
  /\ \A n \in ClauseNames \ {"BYDAY"} : t[n] = IF n = c.name THEN c.value ELSE r[n]
  /\ IF c.name = "BYDAY" THEN Permuted(t.BYDAY, Numbers(c.value), Len(c.value))
                         ELSE Permuted(t.BYDAY, r.BYDAY, Len(r.BYDAY))

\* A rearrangement is as long.
LEMMA PermutedLen ==
  ASSUME NEW n \in Nat, NEW a, NEW b, Permuted(a, b, n)
  PROVE  a \in Seq(Int) /\ Len(a) = n /\ b \in Seq(Int) /\ Len(b) = n
BY DEF Permuted, Lists

\* A rule that takes a clause has its value, and its days in order.
LEMMA TakenBecomes ==
  ASSUME NEW r, IsRule(r), DaysInOrder(r), NEW c, IsClause(c)
  PROVE  Becomes(Taken(r, c), r, c)
<1>1. PICK t : t = Taken(r, c)
  OBVIOUS
<1>2. /\ DOMAIN r = ClauseNames /\ {"BYDAY", "WKST"} \subseteq ClauseNames
      /\ r.BYDAY \in Seq(Int) /\ r.WKST \in 1..7
  BY DEF IsRule, ClauseNames, ByNames
<1>3. CASE c.name = "BYDAY"
  <2>1. t = [r EXCEPT !.BYDAY = Codes(c.value, r.WKST)]
    BY <1>1, <1>3, TakenCases
  <2>2. c.value \in Seq(Days)
    BY <1>3 DEF IsClause
  <2>3. PICK n : n = Len(c.value)
    OBVIOUS
  <2>4. PICK x : x = Codes(c.value, r.WKST)
    OBVIOUS
  <2>5. n \in Nat /\ Permuted(x, Numbers(c.value), n) /\ WeekOrder(x, r.WKST, n)
    BY <1>2, <2>2, <2>3, <2>4, CodesSort
  <2>6. x \in Seq(Int) /\ Len(x) = n
    BY <2>5, PermutedLen
  <2>7. t = [m \in ClauseNames |-> IF m = "BYDAY" THEN x ELSE r[m]]
    BY <1>2, <2>1, <2>4
  <2>8. t.BYDAY = x /\ t.WKST = r.WKST /\ t = [m \in ClauseNames |-> t[m]]
        /\ \A m \in ClauseNames \ {"BYDAY"} : t[m] = r[m]
    BY <1>2, <2>7
  <2> QED BY <1>1, <1>2, <1>3, <2>3, <2>5, <2>6, <2>8 DEF Becomes, IsRule, DaysInOrder
<1>4. CASE c.name = "WKST"
  <2>2. c.value \in 1..7
    BY <1>4 DEF IsClause
  <2>3. PICK n : n = Len(r.BYDAY)
    OBVIOUS
  <2>4. PICK x : x = Sorted(r.BYDAY, c.value)
    OBVIOUS
  <2>1. t = [r EXCEPT !.WKST = c.value, !.BYDAY = x]
    BY <1>1, <1>4, <2>4, TakenCases
  <2>5. n \in Nat /\ Permuted(x, r.BYDAY, n) /\ WeekOrder(x, c.value, n)
    BY <1>2, <2>2, <2>3, <2>4, ListsAreSeqs, SortedSorts
  <2>6. x \in Seq(Int) /\ Len(x) = n
    BY <2>5, PermutedLen
  <2>7. t = [m \in ClauseNames |-> IF m = "BYDAY" THEN x ELSE IF m = "WKST" THEN c.value ELSE r[m]]
    BY <1>2, <2>1
  <2>8. t.BYDAY = x /\ t.WKST = c.value /\ t = [m \in ClauseNames |-> t[m]]
        /\ \A m \in ClauseNames \ {"BYDAY", "WKST"} : t[m] = r[m]
    BY <1>2, <2>7
  <2> QED BY <1>1, <1>2, <1>4, <2>2, <2>3, <2>5, <2>6, <2>8 DEF Becomes, IsRule, DaysInOrder
<1>5. CASE c.name \notin {"BYDAY", "WKST"}
  <2>1. t = [r EXCEPT ![c.name] = c.value]
    BY <1>1, <1>5, TakenCases
  <2>2. t = [m \in ClauseNames |-> IF m = c.name THEN c.value ELSE r[m]]
    BY <1>2, <2>1
  <2>3. t.BYDAY = r.BYDAY /\ t.WKST = r.WKST /\ t = [m \in ClauseNames |-> t[m]]
        /\ \A m \in ClauseNames : t[m] = IF m = c.name THEN c.value ELSE r[m]
    BY <1>2, <1>5, <2>2
  <2>4. Permuted(t.BYDAY, r.BYDAY, Len(r.BYDAY))
    BY <1>2, <2>3, ListsAreSeqs, PermutedReflexive
  <2> QED BY <1>1, <1>2, <1>5, <2>3, <2>4 DEF Becomes, IsRule, DaysInOrder
<1> QED BY <1>3, <1>4, <1>5

\* A rule that was cleared is one, without days.
LEMMA ClearRule ==
  IsRule(Clear) /\ DaysInOrder(Clear) /\ Clear.BYDAY = <<>> /\ Clear.WKST = Monday
<1>1. Clear = [n \in ClauseNames |-> Clear[n]]
  <2> DEFINE E(n) == CASE n \in {"FREQ", "UNTIL"} -> None
                       [] n = "COUNT" -> 0 [] n = "INTERVAL" -> 1
                       [] n = "WKST" -> Monday [] n \in ByNames -> <<>>
  <2>1. Clear = [n \in ClauseNames |-> E(n)]
    BY Zenon DEF Clear
  <2> HIDE DEF E
  <2> QED BY <2>1
<1>2. Clear.BYDAY = <<>>
  BY DEF Clear, ClauseNames, ByNames
<1>3. Clear.WKST = Monday
  BY DEF Clear, ClauseNames, ByNames
<1>4. <<>> \in Seq(Int) /\ Len(<<>>) = 0
  OBVIOUS
<1>5. PICK c : c = Clear
  OBVIOUS
<1>6. IsRule(c)
  <2>1. c = [n \in ClauseNames |-> c[n]]
    BY <1>1, <1>5, Zenon
  <2>2. c.BYDAY = <<>> /\ c.WKST = 2
    BY <1>2, <1>3, <1>5 DEF Monday
  <2>3. c.BYDAY \in Seq(Int) /\ c.WKST \in 1..7
    BY <2>2
  <2> QED BY <2>1, <2>3 DEF IsRule
<1>7. DaysInOrder(c)
  BY <1>2, <1>4, <1>5 DEF DaysInOrder, WeekOrder
<1> QED BY <1>2, <1>3, <1>5, <1>6, <1>7

----------------------------------------------------------------------------
(* The days are sorted.                                                    *)

ClausesLeft == text \in Texts /\ left \in Seq(Range(text))

\* Whatever clauses come in, a rule is made of them whose days are in order.
RuleInv == ClausesLeft /\ IsRule(rt) /\ DaysInOrder(rt)

\* The parser begins with all clauses left and a rule that is clear.
LEMMA InitRule == RuleInit => RuleInv
<1> SUFFICES ASSUME RuleInit PROVE RuleInv
  OBVIOUS
<1>1. text \in Texts /\ left = text /\ rt = Clear
  BY DEF RuleInit
<1>2. text \in Seq(Range(text))
  BY <1>1, TextsAreRules
<1> QED BY <1>1, <1>2, ClearRule DEF RuleInv, ClausesLeft

\* A clause that is taken is the first of those left, and a clause.
LEMMA TakeTakes ==
  ASSUME ClausesLeft, Take
  PROVE  /\ IsClause(Head(left)) /\ Head(left) \in Range(text)
         /\ ClausesLeft' /\ text' = text
         /\ Len(left') = Len(left) - 1 /\ Len(left) \in Nat \ {0} /\ left[1] = Head(left)
         /\ \A j \in 1..Len(left') : left'[j] = left[j + 1]
<1>1. left # <<>> /\ Head(left) # Malformed /\ left' = Tail(left) /\ text' = text
  BY DEF Take
<1>2. PICK R : R = Range(text)
  OBVIOUS
<1>3. left \in Seq(R) /\ text \in Texts
  BY <1>2 DEF ClausesLeft
<1>4. /\ Head(left) \in R /\ left' \in Seq(R)
      /\ Len(left') = Len(left) - 1 /\ Len(left) \in Nat \ {0} /\ left[1] = Head(left)
      /\ \A j \in 1..Len(left') : left'[j] = left[j + 1]
  BY <1>1, <1>3
<1>5. IsClause(Head(left))
  BY <1>1, <1>2, <1>3, <1>4, TextsAreRules
<1> QED BY <1>1, <1>2, <1>3, <1>4, <1>5 DEF ClausesLeft

\* Every clause that is taken, or given up on, leaves a rule with its days in order.
LEMMA StepRule == RuleInv /\ [RuleNext]_ruleVars => RuleInv'
<1> SUFFICES ASSUME RuleInv, [RuleNext]_ruleVars PROVE RuleInv'
  OBVIOUS
<1>1. CASE Take
  <2>1. PICK c : c = Head(left)
    OBVIOUS
  <2>2. rt' = Taken(rt, c) /\ IsClause(c) /\ ClausesLeft'
    BY <1>1, <2>1, TakeTakes DEF Take, RuleInv
  <2>3. Becomes(rt', rt, c)
    BY <2>2, TakenBecomes DEF RuleInv
  <2> QED BY <2>2, <2>3 DEF Becomes, RuleInv
<1>2. CASE GiveUp
  <2>1. rt' = Clear /\ left' = <<>> /\ text' = text
    BY <1>2 DEF GiveUp
  <2> QED BY <2>1, ClearRule DEF RuleInv, ClausesLeft
<1>3. CASE UNCHANGED ruleVars
  BY <1>3 DEF ruleVars, RuleInv, ClausesLeft
<1> QED BY <1>1, <1>2, <1>3 DEF RuleNext

\* So the days are in order at all times.
LEMMA RuleHolds == RuleSpec => []RuleInv
BY InitRule, StepRule, PTL DEF RuleSpec

\* The days of a rule are in the order of the week, from the day it starts on,
\* whatever clauses it was read from and in which order they came.
THEOREM DaysSorted == RuleSpec => []DaysAreSorted
<1>1. RuleInv => DaysAreSorted
  <2> SUFFICES ASSUME RuleInv PROVE DaysAreSorted
    OBVIOUS
  <2>1. rt.BYDAY \in Seq(Int)
    BY DEF RuleInv, IsRule
  <2>2. DOMAIN rt.BYDAY = 1..Len(rt.BYDAY)
    BY <2>1
  <2> QED BY <2>2 DEF RuleInv, DaysInOrder, WeekOrder, DaysAreSorted
<1> QED BY <1>1, RuleHolds, PTL

----------------------------------------------------------------------------
(* The last clause of each name counts.                                    *)

\* What the first k clauses say of a name.
SaidLast(n, k, v) ==
  \/ \E i \in 1..k : /\ text[i].name = n /\ text[i].value = v
                    /\ \A j \in i + 1..k : text[j].name # n
  \/ (\A i \in 1..k : text[i].name # n) /\ v = Clear[n]

\* A rule has a value for a name; of days, in some order.
HasValue(r, n, v) ==
  IF n = "BYDAY" THEN v \in Seq(Days) /\ Permuted(r.BYDAY, Numbers(v), Len(v))
                 ELSE r[n] = v

\* The first k clauses are taken, and the others are left.
TakenUpTo(k) ==
  /\ Len(left) = Len(text) - k
  /\ \A j \in 1..Len(left) : left[j] = text[k + j]
  /\ \A i \in 1..k : text[i] # Malformed
  /\ \A n \in ClauseNames : \E v : SaidLast(n, k, v) /\ HasValue(rt, n, v)

GivenUp == left = <<>> /\ Malformed \in Range(text) /\ rt = Clear

OrderInv == RuleInv /\ (GivenUp \/ \E k \in 0..Len(text) : TakenUpTo(k))

\* In the beginning no clause was taken.
LEMMA InitOrder == RuleInit => OrderInv
<1> SUFFICES ASSUME RuleInit PROVE OrderInv
  OBVIOUS
<1>1. text \in Texts /\ left = text /\ rt = Clear
  BY DEF RuleInit
<1>2. RuleInv
  BY InitRule
<1>3. Len(text) \in Nat
  BY <1>1, TextsAreRules
<1>4. ASSUME NEW n \in ClauseNames PROVE SaidLast(n, 0, Clear[n]) /\ HasValue(rt, n, Clear[n])
  <2>1. SaidLast(n, 0, Clear[n])
    BY DEF SaidLast
  <2>2. CASE n # "BYDAY"
    BY <1>1, <2>1, <2>2 DEF HasValue
  <2>3. CASE n = "BYDAY"
    <3>1. Clear[n] = <<>> /\ rt.BYDAY = <<>>
      BY <1>1, <2>3, ClearRule
    <3>2. <<>> \in Seq(Days) /\ Len(<<>>) = 0 /\ Numbers(<<>>) = <<>>
      BY DEF Numbers
    <3>3. <<>> \in Lists(0)
      BY DEF Lists
    <3>4. Permuted(<<>>, <<>>, 0)
      BY <3>3, PermutedReflexive
    <3> QED BY <2>1, <2>3, <3>1, <3>2, <3>4 DEF HasValue
  <2> QED BY <2>2, <2>3
<1>5. TakenUpTo(0)
  BY <1>1, <1>3, <1>4 DEF TakenUpTo
<1> QED BY <1>2, <1>3, <1>5 DEF OrderInv

\* What is said up to a clause is what is said with it, if it has another name,
\* and its value if it has not.
LEMMA TakeSays ==
  ASSUME NEW k \in Nat, NEW n, NEW v, SaidLast(n, k, v)
  PROVE  IF text[k + 1].name = n THEN SaidLast(n, k + 1, text[k + 1].value)
                                 ELSE SaidLast(n, k + 1, v)
<1>1. k + 1 \in 1..k + 1 /\ (k + 1) + 1..k + 1 = {} /\ 1..k + 1 = 1..k \cup {k + 1}
  OBVIOUS
<1>2. CASE text[k + 1].name = n
  BY <1>1, <1>2 DEF SaidLast
<1>3. CASE text[k + 1].name # n
  <2>1. CASE \A i \in 1..k : text[i].name # n
    <3>1. v = Clear[n]
      BY <2>1 DEF SaidLast
    <3> QED BY <1>1, <1>3, <2>1, <3>1 DEF SaidLast
  <2>2. ASSUME NEW i \in 1..k, text[i].name = n, text[i].value = v,
               \A j \in i + 1..k : text[j].name # n
        PROVE  SaidLast(n, k + 1, v)
    <3>1. i \in 1..k + 1 /\ \A j \in i + 1..k + 1 : text[j].name # n
      BY <1>3, <2>2
    <3> QED BY <2>2, <3>1 DEF SaidLast
  <2> QED BY <1>3, <2>1, <2>2 DEF SaidLast
<1> QED BY <1>2, <1>3

\* A clause sets the value of its name and leaves the others.
LEMMA BecomesHas ==
  ASSUME NEW t, NEW r, NEW c, IsClause(c), Becomes(t, r, c), IsRule(r),
         NEW n \in ClauseNames, NEW v, HasValue(r, n, v)
  PROVE  IF c.name = n THEN HasValue(t, n, c.value) ELSE HasValue(t, n, v)
<1>1. CASE n # "BYDAY"
  BY <1>1 DEF HasValue, Becomes
<1>2. CASE n = "BYDAY" /\ c.name = n
  BY <1>2 DEF HasValue, Becomes, IsClause
<1>3. CASE n = "BYDAY" /\ c.name # n
  <2>1. v \in Seq(Days) /\ Permuted(r.BYDAY, Numbers(v), Len(v))
    BY <1>3 DEF HasValue
  <2>2. PICK m : m = Len(v)
    OBVIOUS
  <2>3. m \in Nat
    BY <2>1, <2>2
  <2>4. Len(r.BYDAY) = m
    BY <2>1, <2>2, <2>3, PermutedLen
  <2>5. Permuted(t.BYDAY, r.BYDAY, m)
    BY <1>3, <2>4 DEF Becomes
  <2>6. Permuted(t.BYDAY, Numbers(v), m)
    BY <2>1, <2>2, <2>3, <2>5, PermutedTransitive
  <2> QED BY <1>3, <2>1, <2>2, <2>6 DEF HasValue
<1> QED BY <1>1, <1>2, <1>3

\* A clause that is taken is the last one that counts.
LEMMA TakeOrder ==
  ASSUME RuleInv, RuleInv', Take, NEW k \in 0..Len(text), TakenUpTo(k)
  PROVE  \E m \in 0..Len(text)' : TakenUpTo(m)'
<1>1. PICK c : c = Head(left)
  OBVIOUS
<1>2. /\ IsClause(c) /\ text' = text
      /\ Len(left') = Len(left) - 1 /\ Len(left) \in Nat \ {0} /\ left[1] = c
      /\ \A j \in 1..Len(left') : left'[j] = left[j + 1]
  BY <1>1, TakeTakes DEF RuleInv
<1>3. c # Malformed /\ Becomes(rt', rt, c)
  <2>1. rt' = Taken(rt, c) /\ c # Malformed
    BY <1>1 DEF Take
  <2> QED BY <1>2, <2>1, TakenBecomes DEF RuleInv
<1>4. Len(text) \in Nat
  BY TextsAreRules DEF RuleInv, ClausesLeft
<1>5. /\ Len(left) = Len(text) - k
      /\ \A j \in 1..Len(left) : left[j] = text[k + j]
      /\ \A i \in 1..k : text[i] # Malformed
  BY DEF TakenUpTo
<1>6. k + 1 \in 0..Len(text) /\ text[k + 1] = c
  BY <1>2, <1>4, <1>5
<1>7. ASSUME NEW n \in ClauseNames
      PROVE  \E v : SaidLast(n, k + 1, v) /\ HasValue(rt', n, v)
  <2>1. PICK v : SaidLast(n, k, v) /\ HasValue(rt, n, v)
    BY DEF TakenUpTo
  <2>2. CASE c.name = n
    <3>1. SaidLast(n, k + 1, c.value)
      BY <1>6, <2>1, <2>2, TakeSays
    <3>2. HasValue(rt', n, c.value)
      BY <1>2, <1>3, <2>1, <2>2, BecomesHas DEF RuleInv
    <3> QED BY <3>1, <3>2
  <2>3. CASE c.name # n
    <3>1. SaidLast(n, k + 1, v)
      BY <1>6, <2>1, <2>3, TakeSays
    <3>2. HasValue(rt', n, v)
      BY <1>2, <1>3, <2>1, <2>3, BecomesHas DEF RuleInv
    <3> QED BY <3>1, <3>2
  <2> QED BY <2>2, <2>3
<1>8. Len(left') = Len(text) - (k + 1)
  BY <1>2, <1>5, <1>4
<1>9. \A j \in 1..Len(left') : left'[j] = text[(k + 1) + j]
  BY <1>2, <1>5, <1>4
<1>10. \A i \in 1..k + 1 : text[i] # Malformed
  BY <1>3, <1>5, <1>6
<1>11. \A n \in ClauseNames : \E v : SaidLast(n, k + 1, v)' /\ HasValue(rt', n, v)
  BY <1>2, <1>7 DEF SaidLast
<1>12. TakenUpTo(k + 1)'
  BY <1>2, <1>8, <1>9, <1>10, <1>11 DEF TakenUpTo
<1> QED BY <1>2, <1>6, <1>12

\* Every step leaves the rule with what the clauses up to one say.
LEMMA StepOrder == OrderInv /\ [RuleNext]_ruleVars => OrderInv'
<1> SUFFICES ASSUME OrderInv, [RuleNext]_ruleVars PROVE OrderInv'
  OBVIOUS
<1>0. RuleInv'
  BY StepRule DEF OrderInv
<1>1. CASE Take
  <2>1. ~GivenUp
    BY <1>1 DEF GivenUp, Take
  <2>2. PICK k \in 0..Len(text) : TakenUpTo(k)
    BY <2>1 DEF OrderInv
  <2> QED BY <1>0, <1>1, <2>2, TakeOrder DEF OrderInv
<1>2. CASE GiveUp
  <2>1. left' = <<>> /\ text' = text /\ rt' = Clear /\ left # <<>> /\ Head(left) = Malformed
    BY <1>2 DEF GiveUp
  <2>2. Malformed \in Range(text)
    BY <2>1 DEF OrderInv, RuleInv, ClausesLeft
  <2> QED BY <1>0, <2>1, <2>2 DEF OrderInv, GivenUp
<1>3. CASE UNCHANGED ruleVars
  <2>1. ASSUME NEW k \in 0..Len(text), TakenUpTo(k) PROVE TakenUpTo(k)'
    BY <1>3, <2>1 DEF ruleVars, TakenUpTo, SaidLast
  <2> QED BY <1>0, <1>3, <2>1 DEF ruleVars, OrderInv, GivenUp
<1> QED BY <1>1, <1>2, <1>3 DEF RuleNext

\* So it has what they say at all times.
LEMMA OrderHolds == RuleSpec => []OrderInv
BY InitOrder, StepOrder, PTL DEF RuleSpec

\* Days in some order, taken apart, are the days they were made of.
LEMMA ValueRearranged ==
  ASSUME NEW r, NEW v \in Seq(Days), Permuted(r.BYDAY, Numbers(v), Len(v))
  PROVE  Rearranged(Value(r, "BYDAY"), v)
<1>1. PICK n, b, w : n = Len(v) /\ b = r.BYDAY /\ w = Value(r, "BYDAY")
  OBVIOUS
<1>2. n \in Nat /\ DOMAIN v = 1..n /\ \A i \in 1..n : v[i] \in Days
  BY <1>1
<1>3. PICK p \in Bijection(1..n, 1..n) : \A i \in 1..n : b[i] = Numbers(v)[p[i]]
  BY <1>1 DEF Permuted
<1>4. DOMAIN b = 1..n
  BY <1>1 DEF Permuted, Lists
<1>5. w = [i \in 1..n |-> [dow |-> DayOf(b[i]), pos |-> PositionOf(b[i])]]
  BY <1>1, <1>4 DEF Value
<1>6. ASSUME NEW i \in 1..n PROVE w[i] = v[p[i]]
  <2>1. p[i] \in 1..n
    BY <1>3 DEF Bijection, Injection
  <2>2. b[i] = Encoded(v[p[i]])
    BY <1>2, <1>3, <2>1 DEF Numbers
  <2>3. v[p[i]] = [dow |-> DayOf(Encoded(v[p[i]])), pos |-> PositionOf(Encoded(v[p[i]]))]
    BY <1>2, <2>1, DayIsEncoded
  <2> QED BY <1>5, <2>2, <2>3
<1>7. DOMAIN w = 1..n
  BY <1>5
<1>8. Rearranged(w, v)
  BY <1>2, <1>3, <1>6, <1>7 DEF Rearranged
<1> QED BY <1>1, <1>8

\* A rule is what its clauses say: the last clause of a name gives its value,
\* whatever comes before, between and after, and of the days none is lost, none
\* is added.
THEOREM LastClauseCounts == RuleSpec => []OrderDoesNotMatter
<1>1. OrderInv => OrderDoesNotMatter
  <2> SUFFICES ASSUME OrderInv, left = <<>>, Malformed \notin Range(text), NEW n \in ClauseNames
               PROVE  LET last  == CHOOSE i \in Clauses(n) : \A j \in Clauses(n) : j <= i
                          value == IF Clauses(n) = {} THEN Clear[n] ELSE text[last].value
                      IN  IF n = "BYDAY" THEN Rearranged(Value(rt, n), value)
                                         ELSE rt[n] = value
    BY Zenon DEF OrderDoesNotMatter
  <2> DEFINE last  == CHOOSE i \in Clauses(n) : \A j \in Clauses(n) : j <= i
             value == IF Clauses(n) = {} THEN Clear[n] ELSE text[last].value
  <2>1. PICK k \in 0..Len(text) : TakenUpTo(k)
    BY DEF OrderInv, GivenUp
  <2>2. Len(text) \in Nat /\ DOMAIN text = 1..Len(text)
    BY TextsAreRules DEF OrderInv, RuleInv, ClausesLeft
  <2>3. k = Len(text)
    BY <2>1, <2>2 DEF TakenUpTo
  <2>4. PICK v : SaidLast(n, k, v) /\ HasValue(rt, n, v)
    BY <2>1 DEF TakenUpTo
  <2>5. Clauses(n) = {i \in 1..k : text[i].name = n}
    BY <2>1, <2>2, <2>3 DEF Clauses, TakenUpTo
  <2>6. value = v
    <3>1. CASE \A i \in 1..k : text[i].name # n
      <4>1. Clauses(n) = {}
        BY <2>5, <3>1
      <4> QED BY <2>4, <3>1, <4>1 DEF SaidLast
    <3>2. ASSUME NEW i \in 1..k, text[i].name = n, text[i].value = v,
                 \A j \in i + 1..k : text[j].name # n
          PROVE  value = v
      <4>1. i \in Clauses(n) /\ \A j \in Clauses(n) : j <= i
        BY <2>5, <3>2
      <4>2. last \in Clauses(n) /\ \A j \in Clauses(n) : j <= last
        BY <4>1, Zenon
      <4> HIDE DEF last
      <4>3. last = i
        BY <2>5, <4>1, <4>2
      <4> QED BY <3>2, <4>1, <4>3
    <3> QED BY <2>4, <3>1, <3>2 DEF SaidLast
  <2> HIDE DEF value
  <2>7. IF n = "BYDAY" THEN Rearranged(Value(rt, n), value) ELSE rt[n] = value
    <3>1. CASE n = "BYDAY"
      BY <2>4, <2>6, <3>1, ValueRearranged DEF HasValue
    <3>2. CASE n # "BYDAY"
      BY <2>4, <2>6, <3>2 DEF HasValue
    <3> QED BY <3>1, <3>2
  <2> QED BY <2>7, Zenon DEF value
<1> QED BY <1>1, OrderHolds, PTL

----------------------------------------------------------------------------
(* A rule that is written and read again.                                  *)

\* Two sorts of the same days have the same weekday at each place: were one
\* earlier in the week at i, its first i days would all be among the first
\* i - 1 of the other.
LEMMA NotEarlier ==
  ASSUME NEW n \in Nat, NEW wkst \in Int, NEW a, NEW b, Permuted(a, b, n),
         WeekOrder(a, wkst, n), WeekOrder(b, wkst, n), NEW i \in 1..n
  PROVE  FromStart(b[i], wkst) <= FromStart(a[i], wkst)
<1>1. PICK p \in Bijection(1..n, 1..n) : \A k \in 1..n : a[k] = b[p[k]]
  BY DEF Permuted
<1> DEFINE K(l, k) == FromStart(l[k], wkst)
<1>2. \A k \in 1..n : K(a, k) \in Int /\ K(b, k) \in Int
  <2> SUFFICES ASSUME NEW k \in 1..n PROVE K(a, k) \in Int /\ K(b, k) \in Int
    OBVIOUS
  <2>1. a[k] \in Int /\ b[k] \in Int
    BY DEF Permuted, Lists
  <2>2. FromStart(a[k], wkst) \in 0..6 /\ FromStart(b[k], wkst) \in 0..6
    BY <2>1, FromStartType
  <2> QED BY <2>2
<1>3. /\ \A x, y \in 1..n : x < y => K(a, x) <= K(a, y)
      /\ \A x, y \in 1..n : x < y => K(b, x) <= K(b, y)
      /\ \A k \in 1..n : p[k] \in 1..n /\ K(a, k) = K(b, p[k])
  BY <1>1 DEF WeekOrder, Bijection, Injection
<1>4. \A x, y \in 1..n : p[x] = p[y] => x = y
  BY <1>1 DEF Bijection, Injection, IsInjective
<1> HIDE DEF K
<1> SUFFICES ASSUME K(a, i) < K(b, i) PROVE FALSE
  BY <1>2 DEF K
<1>5. ASSUME NEW k \in 1..i PROVE p[k] \in 1..i - 1
  <2>1. k \in 1..n /\ K(a, k) <= K(a, i)
    BY <1>2, <1>3
  <2>2. K(b, p[k]) < K(b, i) /\ p[k] \in 1..n
    BY <1>2, <1>3, <2>1
  <2>3. ~(i < p[k]) /\ i # p[k]
    BY <1>2, <1>3, <2>2
  <2> QED BY <2>2, <2>3
<1> DEFINE q == [k \in 1..i |-> p[k]]
<1>6. q \in Injection(1..i, 1..i - 1)
  BY <1>4, <1>5 DEF Injection, IsInjective
<1>7. ExistsInjection(1..i, 1..i - 1)
  BY <1>6 DEF ExistsInjection
<1>8. i \in Nat /\ i - 1 \in Nat
  OBVIOUS
<1> QED BY <1>7, <1>8, Fun_NatInjLeq

\* Two lists of the same days, both in the order of the week, have the same weekday in
\* each place.
LEMMA SameWeekdays ==
  ASSUME NEW n \in Nat, NEW wkst \in 1..7, NEW a, NEW b, Permuted(a, b, n),
         WeekOrder(a, wkst, n), WeekOrder(b, wkst, n),
         \A i \in 1..n : DayOf(b[i]) \in 1..7
  PROVE  \A i \in 1..n : DayOf(a[i]) = DayOf(b[i])
<1> SUFFICES ASSUME NEW i \in 1..n PROVE DayOf(a[i]) = DayOf(b[i])
  OBVIOUS
<1>1. Permuted(b, a, n)
  BY PermutedSymmetric
<1>2. /\ FromStart(b[i], wkst) <= FromStart(a[i], wkst)
      /\ FromStart(a[i], wkst) <= FromStart(b[i], wkst)
  BY <1>1, NotEarlier
<1>3. FromStart(a[i], wkst) \in Int /\ FromStart(b[i], wkst) \in Int
  <2>1. a[i] \in Int /\ b[i] \in Int
    BY DEF Permuted, Lists
  <2> QED BY <2>1, FromStartType
<1>4. DayOf(a[i]) \in 1..7
  <2>1. PICK j \in 1..n : a[i] = b[j]
    BY DEF Permuted, Bijection, Injection
  <2> QED BY <2>1
<1>5. (DayOf(a[i]) - wkst) % 7 = (DayOf(b[i]) - wkst) % 7
  BY <1>2, <1>3 DEF FromStart
<1> QED BY <1>4, <1>5

\* Reading clauses from r comes to q, one clause after the other.
Reads(r, s, q) ==
  \E h : /\ h[0] = r /\ h[Len(s)] = q
        /\ \A i \in 1..Len(s) : h[i] = Taken(h[i - 1], s[i])

\* Nothing is read from no clauses,
LEMMA ReadsNothing ==
  ASSUME NEW r
  PROVE  Reads(r, <<>>, r)
<1> DEFINE h == [i \in 0..0 |-> r]
<1>1. h[0] = r /\ Len(<<>>) = 0
  OBVIOUS
<1> HIDE DEF h
<1> QED BY <1>1 DEF Reads

\* from one what it sets,
LEMMA ReadsOne ==
  ASSUME NEW r, NEW c
  PROVE  Reads(r, <<c>>, Taken(r, c))
<1>1. PICK t : t = Taken(r, c)
  OBVIOUS
<1> DEFINE h == [i \in 0..1 |-> IF i = 0 THEN r ELSE t]
<1>2. h[0] = r /\ h[1] = t /\ Len(<<c>>) = 1 /\ <<c>>[1] = c
  OBVIOUS
<1> HIDE DEF h
<1>3. \A i \in 1..Len(<<c>>) : h[i] = Taken(h[i - 1], <<c>>[i])
  <2>1. \A i \in 1..Len(<<c>>) : i = 1
    BY <1>2
  <2> QED BY <1>1, <1>2, <2>1
<1>4. Reads(r, <<c>>, t)
  BY <1>2, <1>3 DEF Reads
<1> QED BY <1>1, <1>4

\* and from two texts what the second makes of what the first made.
LEMMA ReadsConcat ==
  ASSUME NEW A, NEW s \in Seq(A), NEW t \in Seq(A), NEW r, NEW q, NEW u,
         Reads(r, s, q), Reads(q, t, u)
  PROVE  Reads(r, s \o t, u)
<1>1. PICK n, m, w : n = Len(s) /\ m = Len(t) /\ w = s \o t
  OBVIOUS
<1>2. /\ n \in Nat /\ m \in Nat /\ Len(w) = n + m
      /\ \A i \in 1..n : w[i] = s[i]
      /\ \A i \in 1..m : w[n + i] = t[i]
  BY <1>1
<1>3. PICK g : g[0] = r /\ g[n] = q /\ \A i \in 1..n : g[i] = Taken(g[i - 1], s[i])
  BY <1>1 DEF Reads
<1>4. PICK h : h[0] = q /\ h[m] = u /\ \A i \in 1..m : h[i] = Taken(h[i - 1], t[i])
  BY <1>1 DEF Reads
<1> DEFINE f == [i \in 0..n + m |-> IF i <= n THEN g[i] ELSE h[i - n]]
<1>5. f[0] = r
  BY <1>2, <1>3
<1>6. f[n + m] = u
  <2>1. CASE m = 0
    BY <1>2, <1>3, <1>4, <2>1
  <2>2. CASE m # 0
    BY <1>2, <1>4, <2>2
  <2> QED BY <2>1, <2>2
<1>7. ASSUME NEW i \in 1..n + m PROVE f[i] = Taken(f[i - 1], w[i])
  <2>1. CASE i <= n
    <3>1. i \in 1..n /\ i \in 0..n + m /\ i - 1 \in 0..n + m /\ i - 1 <= n
      BY <1>2, <2>1
    <3> QED BY <1>2, <1>3, <3>1
  <2>2. CASE i = n + 1
    <3>1. 1 \in 1..m /\ i - n = 1 /\ i - 1 = n /\ 1 - 1 = 0
      BY <1>2, <2>2
    <3>2. f[i] = h[1] /\ f[i - 1] = g[n] /\ w[i] = t[1]
      BY <1>2, <2>2, <3>1
    <3>3. h[1] = Taken(h[0], t[1])
      BY <1>4, <3>1
    <3> QED BY <1>3, <1>4, <3>2, <3>3
  <2>3. CASE i > n + 1
    <3>1. i - n \in 1..m /\ ~(i <= n) /\ ~(i - 1 <= n) /\ (i - 1) - n = (i - n) - 1
          /\ n + (i - n) = i
      BY <1>2, <2>3
    <3>2. f[i] = h[i - n] /\ f[i - 1] = h[(i - n) - 1] /\ w[i] = t[i - n]
      BY <1>2, <3>1
    <3>3. h[i - n] = Taken(h[(i - n) - 1], t[i - n])
      BY <1>4, <3>1
    <3> QED BY <3>2, <3>3
  <2> QED BY <1>2, <2>1, <2>2, <2>3
<1> HIDE DEF f
<1>8. Reads(r, w, u)
  BY <1>2, <1>5, <1>6, <1>7 DEF Reads
<1> QED BY <1>1, <1>8

\* That is what FoldLeft comes to.
LEMMA ReadsFold ==
  ASSUME NEW r, IsRule(r), DaysInOrder(r), NEW s, NEW n \in Nat,
         Len(s) = n, DOMAIN s = 1..n, \A i \in 1..n : IsClause(s[i])
  PROVE  Reads(r, s, FoldLeft(Taken, r, s))
<1> DEFINE X == {r[m] : m \in ClauseNames} \cup {s[i].value : i \in 1..n} \cup Seq(Int)
<1>0. PICK V : V = {t \in [ClauseNames -> X] : IsRule(t) /\ DaysInOrder(t)}
  OBVIOUS
<1>1. r \in V
  <2>1. r = [m \in ClauseNames |-> r[m]]
    BY DEF IsRule
  <2>2. r \in [ClauseNames -> X]
    BY <2>1
  <2> QED BY <1>0, <2>2
<1>2. PICK T : T = [i \in 1..n |-> [v \in V |-> Taken(v, s[i])]]
  OBVIOUS
<1>3. T \in Steps(V, n)
  <2>1. ASSUME NEW i \in 1..n, NEW v \in V PROVE Taken(v, s[i]) \in V
    <3>1. v \in [ClauseNames -> X] /\ IsRule(v) /\ DaysInOrder(v)
      BY <1>0
    <3>2. PICK t : t = Taken(v, s[i])
      OBVIOUS
    <3>3. Becomes(t, v, s[i])
      BY <3>1, <3>2, TakenBecomes
    <3>4. t.BYDAY \in X /\ t = [m \in ClauseNames |-> t[m]]
      BY <3>3 DEF Becomes, IsRule
    <3>5. \A m \in ClauseNames \ {"BYDAY"} : t[m] \in X
      BY <3>1, <3>3 DEF Becomes
    <3>6. \A m \in ClauseNames : t[m] \in X
      BY <3>4, <3>5
    <3> HIDE DEF X
    <3>7. t \in [ClauseNames -> X]
      BY <3>4, <3>6
    <3> QED BY <1>0, <3>2, <3>3, <3>7 DEF Becomes
  <2> QED BY <1>2, <2>1 DEF Steps
<1> HIDE DEF X
<1> DEFINE Is(f) == f = [S \in SUBSET DOMAIN s |->
                           IF S = {} THEN r ELSE Taken(f[S \ {Max(S)}], s[Max(S)])]
           fold == CHOOSE f : Is(f)
<1>5. FoldLeft(Taken, r, s) = fold[1..n]
  <2>1. FoldLeft(Taken, r, s) = fold[DOMAIN s]
    BY DEF FoldLeft, MapThenFoldSet
  <2> QED BY <2>1
<1>6. \E f : Is(f)
  <2>1. PICK g : FoldsOver(g, V, r, n, T)
    BY <1>1, <1>3, FoldRecursion
  <2> DEFINE f == [S \in SUBSET DOMAIN s |-> g[S]]
  <2>2. ASSUME NEW S \in SUBSET (1..n)
        PROVE  g[S] = IF S = {} THEN r ELSE Taken(f[S \ {Max(S)}], s[Max(S)])
    <3>1. CASE S = {}
      BY <2>1, <3>1 DEF FoldsOver
    <3>2. CASE S # {}
      <4>1. PICK x : x = Max(S)
        OBVIOUS
      <4>2. x \in 1..n
        BY <3>2, <4>1, MaxProperties
      <4>3. S \ {x} \in SUBSET (1..n)
        OBVIOUS
      <4>4. g[S \ {x}] \in V /\ g[S] = T[x][g[S \ {x}]]
        BY <2>1, <3>2, <4>1, <4>3 DEF FoldsOver
      <4>5. g[S] = Taken(g[S \ {x}], s[x])
        BY <1>2, <4>2, <4>4
      <4>6. f[S \ {x}] = g[S \ {x}]
        BY <4>3
      <4> QED BY <3>2, <4>1, <4>5, <4>6
    <3> QED BY <3>1, <3>2
  <2>3. Is(f)
    BY <2>2
  <2> QED BY <2>3
<1>7. Is(fold)
  <2> HIDE DEF Is
  <2> QED BY <1>6
<1> HIDE DEF fold
<1>8. fold[1..0] = r
  <2>1. 1..0 = {} /\ {} \in SUBSET DOMAIN s
    OBVIOUS
  <2> QED BY <1>7, <2>1
<1>9. ASSUME NEW i \in 1..n PROVE fold[1..i] = Taken(fold[1..i - 1], s[i])
  <2>1. 1..i \in SUBSET DOMAIN s /\ 1..i # {} /\ i \in Nat \ {0}
    OBVIOUS
  <2>2. Max(1..i) = i /\ (1..i) \ {i} = 1..i - 1
    BY <2>1, MaxOfInterval
  <2> QED BY <1>7, <2>1, <2>2
<1> DEFINE h == [i \in 0..n |-> fold[1..i]]
<1>10. /\ h[0] = r
       /\ \A i \in 1..n : h[i] = Taken(h[i - 1], s[i])
       /\ h[n] = fold[1..n]
  BY <1>8, <1>9
<1> HIDE DEF h
<1> QED BY <1>5, <1>10 DEF Reads

\* What is read from a text is determined by it.
LEMMA ReadsUnique ==
  ASSUME NEW r, NEW s, NEW n \in Nat, Len(s) = n, NEW q, NEW u, Reads(r, s, q), Reads(r, s, u)
  PROVE  q = u
<1>1. PICK g : g[0] = r /\ g[n] = q /\ \A i \in 1..n : g[i] = Taken(g[i - 1], s[i])
  BY DEF Reads
<1>2. PICK h : h[0] = r /\ h[n] = u /\ \A i \in 1..n : h[i] = Taken(h[i - 1], s[i])
  BY DEF Reads
<1> DEFINE N == {i \in Nat : i <= n => g[i] = h[i]}
<1>3. 0 \in N
  BY <1>1, <1>2
<1>4. ASSUME NEW i \in Nat, i \in N PROVE i + 1 \in N
  <2> SUFFICES ASSUME i + 1 <= n PROVE g[i + 1] = h[i + 1]
    OBVIOUS
  <2>1. i + 1 \in 1..n /\ (i + 1) - 1 = i
    OBVIOUS
  <2>2. g[i] = h[i]
    BY <1>4
  <2>3. g[i + 1] = Taken(g[i], s[i + 1]) /\ h[i + 1] = Taken(h[i], s[i + 1])
    BY <1>1, <1>2, <2>1
  <2> QED BY <2>2, <2>3
<1> HIDE DEF N
<1>5. n \in N
  BY <1>3, <1>4, InductionOnNat
<1> QED BY <1>1, <1>2, <1>5 DEF N

\* The clauses a rule may be written with.
Written(r) == {[name |-> n, value |-> Value(r, n)] : n \in ClauseNames}

\* A rule whose days have positions a text can tell, so that they are kept.
IsTold(r) == /\ IsRule(r) /\ DaysInOrder(r)
             /\ \A i \in DOMAIN r.BYDAY : \E d \in Days : r.BYDAY[i] = Encoded(d)

\* The days of a rule, taken apart, are days, and their numbers are the ones they were.
LEMMA TextOfDays ==
  ASSUME NEW r, IsTold(r)
  PROVE  Value(r, "BYDAY") \in Seq(Days) /\ Numbers(Value(r, "BYDAY")) = r.BYDAY
         /\ Len(Value(r, "BYDAY")) = Len(r.BYDAY)
<1>1. PICK b, w : b = r.BYDAY /\ w = Value(r, "BYDAY")
  OBVIOUS
<1>2. PICK n \in Nat : n = Len(b) /\ b \in [1..n -> Int]
  BY <1>1 DEF IsTold, IsRule
<1>3. w = [i \in 1..n |-> [dow |-> DayOf(b[i]), pos |-> PositionOf(b[i])]]
  BY <1>1, <1>2 DEF Value
<1>4. ASSUME NEW i \in 1..n PROVE w[i] \in Days /\ Encoded(w[i]) = b[i]
  <2>1. PICK d \in Days : b[i] = Encoded(d)
    BY <1>1, <1>2 DEF IsTold
  <2>2. w[i] = d
    BY <1>3, <2>1, DayIsEncoded
  <2> QED BY <2>1, <2>2
<1>5. w \in [1..n -> Days]
  BY <1>3, <1>4
<1>6. w \in Seq(Days) /\ Len(w) = n /\ DOMAIN w = 1..n
  BY <1>5
<1>7. Numbers(w) = [i \in 1..n |-> b[i]]
  BY <1>4, <1>6 DEF Numbers
<1>8. Numbers(w) = b
  BY <1>2, <1>7
<1> QED BY <1>1, <1>2, <1>6, <1>8

\* A clause that is written is one that can be read.
LEMMA WrittenClause ==
  ASSUME NEW r, IsTold(r), NEW c \in Written(r)
  PROVE  IsClause(c)
<1>1. PICK n \in ClauseNames : c = [name |-> n, value |-> Value(r, n)]
  BY DEF Written
<1>2. CASE n = "BYDAY"
  BY <1>1, <1>2, TextOfDays DEF IsClause
<1>3. CASE n # "BYDAY"
  <2>1. Value(r, n) = r[n]
    BY <1>3 DEF Value
  <2>2. r.WKST \in 1..7
    BY DEF IsTold, IsRule
  <2> QED BY <1>1, <1>3, <2>1, <2>2 DEF IsClause
<1> QED BY <1>2, <1>3

\* A rule q has the values of r for the names that were written, the days in some
\* order, and the defaults for the others.
DaysFrom(r, D) == IF "BYDAY" \in D THEN r.BYDAY ELSE <<>>

Copied(q, r, D) ==
  /\ IsRule(q) /\ DaysInOrder(q)
  /\ \A n \in ClauseNames \ {"BYDAY"} : q[n] = IF n \in D THEN r[n] ELSE Clear[n]
  /\ Permuted(q.BYDAY, DaysFrom(r, D), Len(DaysFrom(r, D)))

\* A rule that is clear has copied nothing of another,
LEMMA NothingCopied ==
  ASSUME NEW r
  PROVE  Copied(Clear, r, {})
<1>1. <<>> \in Lists(0) /\ Len(<<>>) = 0
  BY DEF Lists
<1>2. Permuted(<<>>, <<>>, 0)
  BY <1>1, PermutedReflexive
<1>3. DaysFrom(r, {}) = <<>>
  BY DEF DaysFrom
<1>4. PICK c : c = Clear
  OBVIOUS
<1>5. Copied(c, r, {})
  BY <1>1, <1>2, <1>3, <1>4, ClearRule DEF Copied
<1> QED BY <1>4, <1>5

\* Names with nothing but their default need not be written.
LEMMA SkipCopies ==
  ASSUME NEW r, NEW q, NEW D, Copied(q, r, D), NEW n \in ClauseNames, r[n] = Clear[n]
  PROVE  Copied(q, r, D \cup {n})
<1>1. DaysFrom(r, D \cup {n}) = DaysFrom(r, D)
  BY ClearRule DEF DaysFrom
<1>2. \A m \in ClauseNames \ {"BYDAY"} : q[m] = IF m \in D \cup {n} THEN r[m] ELSE Clear[m]
  BY DEF Copied
<1> QED BY <1>1, <1>2 DEF Copied

\* and one that takes a clause written from another copies that value.
LEMMA TakenCopies ==
  ASSUME NEW r, IsTold(r), NEW q, NEW D, Copied(q, r, D), NEW n \in ClauseNames,
         NEW c, c = [name |-> n, value |-> Value(r, n)]
  PROVE  Copied(Taken(q, c), r, D \cup {n})
<1>1. PICK t : t = Taken(q, c)
  OBVIOUS
<1>2. c \in Written(r) /\ c.name = n /\ c.value = Value(r, n)
  BY DEF Written
<1>3. Becomes(t, q, c)
  BY <1>1, <1>2, WrittenClause, TakenBecomes DEF Copied
<1>4. IsRule(t) /\ DaysInOrder(t)
  BY <1>3 DEF Becomes
<1>5. ASSUME NEW m \in ClauseNames \ {"BYDAY"}
      PROVE  t[m] = IF m \in D \cup {n} THEN r[m] ELSE Clear[m]
  <2>1. t[m] = IF m = n THEN Value(r, n) ELSE q[m]
    BY <1>2, <1>3 DEF Becomes
  <2>2. q[m] = IF m \in D THEN r[m] ELSE Clear[m]
    BY DEF Copied
  <2>3. m = n => Value(r, n) = r[m]
    BY DEF Value
  <2> QED BY <2>1, <2>2, <2>3
<1>6. Permuted(t.BYDAY, DaysFrom(r, D \cup {n}), Len(DaysFrom(r, D \cup {n})))
  <2>1. CASE n = "BYDAY"
    <3>1. Permuted(t.BYDAY, r.BYDAY, Len(r.BYDAY))
      BY <1>2, <1>3, <2>1, TextOfDays DEF Becomes
    <3> QED BY <2>1, <3>1 DEF DaysFrom
  <2>2. CASE n # "BYDAY"
    <3>1. PICK d, k : d = DaysFrom(r, D) /\ k = Len(d)
      OBVIOUS
    <3>2. Permuted(q.BYDAY, d, k)
      BY <3>1 DEF Copied
    <3>3. k \in Nat
      BY <3>1 DEF DaysFrom, IsTold, IsRule
    <3>4. Len(q.BYDAY) = k
      BY <3>2, <3>3, PermutedLen
    <3>5. Permuted(t.BYDAY, q.BYDAY, k)
      BY <1>2, <1>3, <2>2, <3>4 DEF Becomes
    <3>6. Permuted(t.BYDAY, d, k)
      BY <3>2, <3>3, <3>5, PermutedTransitive
    <3>7. DaysFrom(r, D \cup {n}) = d
      BY <2>2, <3>1 DEF DaysFrom
    <3> QED BY <3>1, <3>6, <3>7
  <2> QED BY <2>1, <2>2
<1>7. Copied(t, r, D \cup {n})
  BY <1>4, <1>5, <1>6 DEF Copied
<1> QED BY <1>1, <1>7

\* Some clauses copy the names of N: wherever they are read.
Copies(s, r, N) ==
  /\ s \in Seq(Written(r))
  /\ \A q, D : Copied(q, r, D) => \E u : Reads(q, s, u) /\ Copied(u, r, D \cup N)

\* A clause that is written copies its value.
LEMMA ClauseCopies ==
  ASSUME NEW r, IsTold(r), NEW n \in ClauseNames, NEW x, x = Value(r, n)
  PROVE  Copies(Clause(n, x), r, {n})
<1>1. PICK c : c = [name |-> n, value |-> x]
  OBVIOUS
<1>2. PICK W : W = Written(r)
  OBVIOUS
<1>3. Clause(n, x) = <<c>> /\ c \in W
  BY <1>1, <1>2 DEF Clause, Written
<1>4. <<c>> \in Seq(W)
  BY <1>3
<1>5. ASSUME NEW q, NEW D, Copied(q, r, D)
      PROVE  \E u : Reads(q, <<c>>, u) /\ Copied(u, r, D \cup {n})
  <2>1. Reads(q, <<c>>, Taken(q, c))
    BY ReadsOne
  <2>2. Copied(Taken(q, c), r, D \cup {n})
    BY <1>1, <1>5, TakenCopies
  <2> QED BY <2>1, <2>2
<1> QED BY <1>2, <1>3, <1>4, <1>5 DEF Copies

\* So does one that is written only if the value is not the one of a clear rule.
LEMMA IfCopies ==
  ASSUME NEW r, IsTold(r), NEW n \in ClauseNames, NEW x, x = Value(r, n), NEW test,
         ~test => r[n] = Clear[n]
  PROVE  Copies(If(test, Clause(n, x)), r, {n})
<1>1. CASE test
  <2>1. If(test, Clause(n, x)) = Clause(n, x)
    BY <1>1 DEF If
  <2> QED BY <2>1, ClauseCopies
<1>2. CASE ~test
  <2>1. If(test, Clause(n, x)) = <<>>
    BY <1>2 DEF If
  <2>2. <<>> \in Seq(Written(r))
    OBVIOUS
  <2>3. ASSUME NEW q, NEW D, Copied(q, r, D)
        PROVE  \E u : Reads(q, <<>>, u) /\ Copied(u, r, D \cup {n})
    BY <1>2, <2>3, ReadsNothing, SkipCopies
  <2>4. Copies(<<>>, r, {n})
    BY <2>2, <2>3 DEF Copies
  <2> QED BY <2>1, <2>4
<1> QED BY <1>1, <1>2

\* Two texts one after the other copy what each of them does.
LEMMA ConcatCopies ==
  ASSUME NEW r, NEW s, NEW t, NEW N, NEW M, Copies(s, r, N), Copies(t, r, M)
  PROVE  Copies(s \o t, r, N \cup M)
<1>1. PICK W : W = Written(r)
  OBVIOUS
<1>2. s \in Seq(W) /\ t \in Seq(W)
  BY <1>1 DEF Copies
<1>3. s \o t \in Seq(W)
  BY <1>2
<1>4. ASSUME NEW q, NEW D, Copied(q, r, D)
      PROVE  \E u : Reads(q, s \o t, u) /\ Copied(u, r, D \cup (N \cup M))
  <2>1. PICK u : Reads(q, s, u) /\ Copied(u, r, D \cup N)
    BY <1>4 DEF Copies
  <2>2. PICK v : Reads(u, t, v) /\ Copied(v, r, (D \cup N) \cup M)
    BY <2>1 DEF Copies
  <2>3. Reads(q, s \o t, v)
    BY <1>2, <2>1, <2>2, ReadsConcat
  <2>4. (D \cup N) \cup M = D \cup (N \cup M)
    OBVIOUS
  <2> QED BY <2>2, <2>3, <2>4
<1> QED BY <1>1, <1>3, <1>4 DEF Copies

\* The lists, in the order they are written in.
Lines(r) == [i \in DOMAIN Order |->
               If(r[Order[i]] # <<>>, Clause(Order[i], Value(r, Order[i])))]

\* The lists are written in an order in which each of them occurs.
LEMMA OrderProperties ==
  /\ Len(Order) = 9 /\ DOMAIN Order = 1..9
  /\ \A i \in 1..9 : Order[i] \in ByNames
  /\ {Order[i] : i \in 1..9} = ByNames
<1>1. Len(Order) = 9 /\ DOMAIN Order = 1..9
  BY DEF Order
<1>2. /\ Order[1] = "BYSECOND" /\ Order[2] = "BYMINUTE" /\ Order[3] = "BYHOUR"
      /\ Order[4] = "BYDAY" /\ Order[5] = "BYMONTHDAY" /\ Order[6] = "BYYEARDAY"
      /\ Order[7] = "BYWEEKNO" /\ Order[8] = "BYMONTH" /\ Order[9] = "BYSETPOS"
  BY DEF Order
<1>3. \A i \in 1..9 : i \in {1, 2, 3, 4, 5, 6, 7, 8, 9}
  OBVIOUS
<1>4. \A i \in 1..9 : Order[i] \in ByNames
  BY <1>2, <1>3 DEF ByNames
<1>5. \A n \in ByNames : \E i \in 1..9 : Order[i] = n
  BY <1>2 DEF ByNames
<1> QED BY <1>1, <1>4, <1>5

\* A rule that is clear has no lists.
LEMMA ByNamesDefault == ByNames \subseteq ClauseNames /\ \A n \in ByNames : Clear[n] = <<>>
<1>1. ByNames \subseteq ClauseNames
  BY DEF ClauseNames
<1>2. ASSUME NEW n \in ByNames PROVE Clear[n] = <<>>
  <2>1. n \in ClauseNames /\ n \notin {"FREQ", "UNTIL", "COUNT", "INTERVAL", "WKST"}
    BY DEF ClauseNames, ByNames
  <2> QED BY <2>1 DEF Clear
<1> QED BY <1>1, <1>2

\* The lists of a rule, written, copy them.
LEMMA LinesCopy ==
  ASSUME NEW r, IsTold(r)
  PROVE  Copies(FlattenSeq(Lines(r)), r, ByNames)
<1>1. PICK W, ss : W = Written(r) /\ ss = Lines(r)
  OBVIOUS
<1>2. ASSUME NEW i \in 1..9 PROVE Copies(ss[i], r, {Order[i]})
  <2>1. PICK n, x : n = Order[i] /\ x = Value(r, n)
    OBVIOUS
  <2>2. n \in ClauseNames /\ Clear[n] = <<>>
    BY <2>1, OrderProperties, ByNamesDefault
  <2>3. Copies(If(r[n] # <<>>, Clause(n, x)), r, {n})
    BY <2>1, <2>2, IfCopies
  <2>4. ss[i] = If(r[n] # <<>>, Clause(n, x))
    BY <1>1, <2>1, OrderProperties DEF Lines
  <2> QED BY <2>1, <2>3, <2>4
<1>3. IsRow(ss, W, 9)
  <2>1. \A i \in 1..9 : ss[i] \in Seq(W)
    BY <1>1, <1>2 DEF Copies
  <2>2. Len(ss) = 9
    BY <1>1, OrderProperties DEF Lines
  <2> QED BY <2>1, <2>2 DEF IsRow
<1>4. PICK g : Gathers(g, ss, W, 9) /\ FlattenSeq(ss) = g[9]
  BY <1>3, FlattenDef
<1> DEFINE Upto(i) == {Order[j] : j \in 1..i}
           N == {i \in Nat : i + 1 <= 9 => Copies(g[i + 1], r, Upto(i + 1))}
<1>5. 0 \in N
  <2>1. g[1] = ss[1] /\ Upto(1) = {Order[1]}
    BY <1>4 DEF Gathers
  <2> QED BY <1>2, <2>1
<1>6. ASSUME NEW i \in Nat, i \in N PROVE i + 1 \in N
  <2> SUFFICES ASSUME (i + 1) + 1 <= 9 PROVE Copies(g[(i + 1) + 1], r, Upto((i + 1) + 1))
    OBVIOUS
  <2>1. PICK k : k = (i + 1) + 1
    OBVIOUS
  <2>2. k \in 2..9 /\ k \in 1..9 /\ k - 1 = i + 1
    BY <2>1
  <2>3. Copies(g[k - 1], r, Upto(k - 1))
    BY <1>6, <2>1, <2>2
  <2>4. g[k] = g[k - 1] \o ss[k]
    BY <1>4, <2>2 DEF Gathers
  <2>5. Upto(k) = Upto(k - 1) \cup {Order[k]}
    <3>1. 1..k = (1..k - 1) \cup {k}
      BY <2>2
    <3> QED BY <3>1
  <2>6. Copies(ss[k], r, {Order[k]})
    BY <1>2, <2>2
  <2> HIDE DEF Upto
  <2>7. Copies(g[k], r, Upto(k))
    BY <2>3, <2>4, <2>5, <2>6, ConcatCopies
  <2> QED BY <2>1, <2>7
<1> HIDE DEF N
<1>7. 8 \in N
  BY <1>5, <1>6, InductionOnNat
<1>8. Copies(g[9], r, Upto(9))
  <2> HIDE DEF Upto
  <2>1. 8 + 1 = 9 /\ 8 + 1 <= 9
    OBVIOUS
  <2> QED BY <1>7, <2>1 DEF N
<1>9. Upto(9) = ByNames
  BY OrderProperties
<1> QED BY <1>1, <1>4, <1>8, <1>9

\* The text of a rule copies all of it.
LEMMA TextCopies ==
  ASSUME NEW r, IsTold(r)
  PROVE  Copies(AsText(r), r, ClauseNames)
<1>1. /\ Clear.UNTIL = None /\ Clear.COUNT = 0 /\ Clear.INTERVAL = 1
      /\ {"FREQ", "UNTIL", "COUNT", "INTERVAL", "WKST"} \subseteq ClauseNames
  BY DEF Clear, ClauseNames, ByNames
<1>2. /\ Value(r, "FREQ") = r.FREQ /\ Value(r, "UNTIL") = r.UNTIL /\ Value(r, "COUNT") = r.COUNT
      /\ Value(r, "INTERVAL") = r.INTERVAL /\ Value(r, "WKST") = r.WKST
  BY DEF Value
<1>3. PICK a : a = Clause("FREQ", r.FREQ)
  OBVIOUS
<1>4. PICK b : b = If(r.UNTIL # None, Clause("UNTIL", r.UNTIL))
  OBVIOUS
<1>5. PICK c : c = If(r.COUNT # 0, Clause("COUNT", r.COUNT))
  OBVIOUS
<1>6. PICK d : d = If(r.INTERVAL # 1, Clause("INTERVAL", r.INTERVAL))
  OBVIOUS
<1>7. PICK e : e = FlattenSeq(Lines(r))
  OBVIOUS
<1>8. PICK f : f = If(r.WKST # Monday, Clause("WKST", r.WKST))
  OBVIOUS
<1>9. AsText(r) = a \o b \o c \o d \o e \o f
  BY <1>3, <1>4, <1>5, <1>6, <1>7, <1>8, Zenon DEF AsText, Lines
<1>10. Copies(a, r, {"FREQ"})
  BY <1>1, <1>2, <1>3, ClauseCopies
<1>11. Copies(b, r, {"UNTIL"})
  BY <1>1, <1>2, <1>4, IfCopies
<1>12. Copies(c, r, {"COUNT"})
  BY <1>1, <1>2, <1>5, IfCopies
<1>13. Copies(d, r, {"INTERVAL"})
  BY <1>1, <1>2, <1>6, IfCopies
<1>14. Copies(e, r, ByNames)
  BY <1>7, LinesCopy
<1>15. Copies(f, r, {"WKST"})
  BY <1>1, <1>2, <1>8, ClearRule, IfCopies
<1>16. Copies(a \o b, r, {"FREQ", "UNTIL"})
  <2>1. {"FREQ"} \cup {"UNTIL"} = {"FREQ", "UNTIL"}
    OBVIOUS
  <2> QED BY <1>10, <1>11, <2>1, ConcatCopies
<1>17. Copies(a \o b \o c, r, {"FREQ", "UNTIL", "COUNT"})
  <2>1. {"FREQ", "UNTIL"} \cup {"COUNT"} = {"FREQ", "UNTIL", "COUNT"}
    OBVIOUS
  <2> QED BY <1>12, <1>16, <2>1, ConcatCopies
<1>18. Copies(a \o b \o c \o d, r, {"FREQ", "UNTIL", "COUNT", "INTERVAL"})
  <2>1. {"FREQ", "UNTIL", "COUNT"} \cup {"INTERVAL"} = {"FREQ", "UNTIL", "COUNT", "INTERVAL"}
    OBVIOUS
  <2> QED BY <1>13, <1>17, <2>1, ConcatCopies
<1>19. Copies(a \o b \o c \o d \o e, r, {"FREQ", "UNTIL", "COUNT", "INTERVAL"} \cup ByNames)
  BY <1>14, <1>18, ConcatCopies
<1>20. Copies(a \o b \o c \o d \o e \o f, r,
              ({"FREQ", "UNTIL", "COUNT", "INTERVAL"} \cup ByNames) \cup {"WKST"})
  BY <1>15, <1>19, ConcatCopies
<1>21. ({"FREQ", "UNTIL", "COUNT", "INTERVAL"} \cup ByNames) \cup {"WKST"} = ClauseNames
  BY DEF ClauseNames
<1> QED BY <1>9, <1>20, <1>21

\* What is written of a rule and read again has its values, and its days, each
\* weekday in its place.
LEMMA TextReadAgain ==
  ASSUME NEW r, IsTold(r), NEW again, again = FoldLeft(Taken, Clear, AsText(r))
  PROVE  /\ \A n \in ClauseNames \ {"BYDAY"} : again[n] = r[n]
         /\ Rearranged(again.BYDAY, r.BYDAY)
         /\ \A i \in DOMAIN r.BYDAY : DayOf(again.BYDAY[i]) = DayOf(r.BYDAY[i])
<1>1. PICK s, W : s = AsText(r) /\ W = Written(r)
  OBVIOUS
<1>2. Copies(s, r, ClauseNames) /\ s \in Seq(W)
  BY <1>1, TextCopies DEF Copies
<1>3. PICK n \in Nat : Len(s) = n /\ DOMAIN s = 1..n /\ \A i \in 1..n : s[i] \in W
  BY <1>2
<1>4. PICK u : Reads(Clear, s, u) /\ Copied(u, r, {} \cup ClauseNames)
  BY <1>2, NothingCopied DEF Copies
<1>5. Reads(Clear, s, again)
  BY <1>1, <1>3, WrittenClause, ClearRule, ReadsFold
<1>6. u = again
  BY <1>3, <1>4, <1>5, ReadsUnique
<1>7. /\ \A m \in ClauseNames \ {"BYDAY"} : again[m] = r[m]
      /\ IsRule(again) /\ DaysInOrder(again)
  BY <1>4, <1>6 DEF Copied
<1>8. Permuted(again.BYDAY, r.BYDAY, Len(r.BYDAY))
  <2>1. "BYDAY" \in {} \cup ClauseNames
    BY DEF ClauseNames, ByNames
  <2> QED BY <1>4, <1>6, <2>1 DEF Copied, DaysFrom
<1>9. PICK k, x, y : k = Len(r.BYDAY) /\ x = again.BYDAY /\ y = r.BYDAY
  OBVIOUS
<1>10. k \in Nat /\ Permuted(x, y, k)
  BY <1>8, <1>9 DEF IsTold, IsRule
<1>11. DOMAIN x = 1..k /\ DOMAIN y = 1..k /\ Len(x) = k
  BY <1>10, PermutedLen DEF Permuted, Lists
<1>12. Rearranged(x, y)
  BY <1>10, <1>11 DEF Permuted, Rearranged
<1>13. again.WKST = r.WKST /\ r.WKST \in 1..7
  <2>1. "WKST" \in ClauseNames \ {"BYDAY"}
    BY DEF ClauseNames
  <2> QED BY <1>7, <2>1 DEF IsTold, IsRule
<1>14. WeekOrder(x, r.WKST, k) /\ WeekOrder(y, r.WKST, k)
  BY <1>7, <1>9, <1>11, <1>13 DEF DaysInOrder, IsTold
<1>15. ASSUME NEW i \in 1..k PROVE DayOf(y[i]) \in 1..7
  <2>1. PICK d \in Days : y[i] = Encoded(d)
    BY <1>9, <1>11 DEF IsTold
  <2>2. d.dow \in 1..7 /\ d = [dow |-> DayOf(y[i]), pos |-> PositionOf(y[i])]
    BY <2>1, DayIsEncoded DEF Days
  <2> QED BY <2>2
<1>16. \A i \in 1..k : DayOf(x[i]) = DayOf(y[i])
  BY <1>10, <1>13, <1>14, <1>15, SameWeekdays
<1> QED BY <1>7, <1>9, <1>11, <1>12, <1>16

\* A rule with a frequency that is written and read again is the same rule, but
\* for the order of several positions of one weekday.
THEOREM TextKeepsRule == RuleSpec => []TextIsKept
<1>1. OrderInv => TextIsKept
  <2> SUFFICES ASSUME OrderInv, left = <<>>, rt.FREQ # None,
                      NEW again, again = FoldLeft(Taken, Clear, AsText(rt))
               PROVE  /\ \A n \in ClauseNames \ {"BYDAY"} : again[n] = rt[n]
                      /\ Rearranged(again.BYDAY, rt.BYDAY)
                      /\ \A i \in DOMAIN rt.BYDAY :
                           DayOf(again.BYDAY[i]) = DayOf(rt.BYDAY[i])
    BY Zenon DEF TextIsKept
  <2>1. ~GivenUp
    <3>1. Clear.FREQ = None
      BY DEF Clear, ClauseNames, ByNames
    <3> QED BY <3>1 DEF GivenUp
  <2>2. PICK k \in 0..Len(text) : TakenUpTo(k)
    BY <2>1 DEF OrderInv
  <2>3. PICK v : HasValue(rt, "BYDAY", v)
    <3>1. "BYDAY" \in ClauseNames
      BY DEF ClauseNames, ByNames
    <3> QED BY <2>2, <3>1 DEF TakenUpTo
  <2>4. ASSUME NEW i \in DOMAIN rt.BYDAY PROVE \E d \in Days : rt.BYDAY[i] = Encoded(d)
    <3>1. PICK m : m = Len(v)
      OBVIOUS
    <3>2. /\ m \in Nat /\ DOMAIN v = 1..m /\ \A j \in 1..m : v[j] \in Days
          /\ Permuted(rt.BYDAY, Numbers(v), m)
      BY <2>3, <3>1 DEF HasValue
    <3>3. PICK j \in 1..m : rt.BYDAY[i] = Numbers(v)[j]
      BY <3>2 DEF Permuted, Lists, Bijection, Injection
    <3> QED BY <3>2, <3>3 DEF Numbers
  <2>5. IsTold(rt)
    BY <2>4 DEF IsTold, OrderInv, RuleInv
  <2> QED BY <2>5, TextReadAgain
<1> QED BY <1>1, OrderHolds, PTL

Changes == [at : Int, to : Int, from : Int, daylight : BOOLEAN]

\* The search stays within the table.
LEMMA NearbyInTable ==
  ASSUME NEW cs \in Seq(Changes), NEW t \in Int
  PROVE  Nearby(cs, t) \in 0..Len(cs) /\ (Len(cs) > 0 => Nearby(cs, t) < Len(cs))
<1>1. PICK n \in Nat : n = Len(cs)
  OBVIOUS
<1>2. PICK D : D = (0..n) \X (0..n) \X (0..n)
  OBVIOUS
<1> DEFINE m(p) == (p[1] + p[2]) \div 2
           next == [p \in D |-> IF t < cs[m(p) + 1].at THEN <<p[1], m(p), m(p)>>
                                ELSE <<m(p) + 1, p[2], m(p)>>]
           val == [p \in D |-> IF p[1] >= p[2] THEN p[3] ELSE m(p)]
           done == {p \in D : p[1] >= p[2] \/ t = cs[m(p) + 1].at}
           mu == [p \in D |-> IF p[1] >= p[2] THEN 0 ELSE p[2] - p[1]]
           E(f, p) == IF p[1] >= p[2] THEN p[3]
                      ELSE IF t = cs[m(p) + 1].at THEN m(p)
                      ELSE IF t < cs[m(p) + 1].at THEN f[<<p[1], m(p), m(p)>>]
                      ELSE f[<<m(p) + 1, p[2], m(p)>>]
           Is(f) == f = [p \in D |-> E(f, p)]
           G == {p \in D : p[3] < n \/ n = 0}
           R == {r \in 0..n : r < n \/ n = 0}
<1>3. \A p \in D : p[1] \in 0..n /\ p[2] \in 0..n /\ p[3] \in 0..n
  BY <1>2
<1>4. ASSUME NEW p \in D, p[1] < p[2]
      PROVE  m(p) \in 0..n /\ p[1] <= m(p) /\ m(p) < p[2] /\ m(p) + 1 \in 0..n
  <2>1. PICK l \in 0..n, u \in 0..n : l = p[1] /\ u = p[2]
    BY <1>3
  <2>2. l < u
    BY <1>4, <2>1
  <2>3. (l + u) \div 2 \in 0..n /\ l <= (l + u) \div 2 /\ (l + u) \div 2 < u
    BY <2>2
  <2> QED BY <2>1, <2>2, <2>3
<1>5. Descends(D, n, mu, done, next)
  <2>1. mu \in [D -> 0..n]
    BY <1>3
  <2>2. ASSUME NEW p \in D, p \notin done PROVE next[p] \in D /\ mu[next[p]] < mu[p]
    <3>1. p[1] < p[2] /\ p[1] \in 0..n /\ p[2] \in 0..n
      BY <1>3, <2>2
    <3>2. PICK k : k = m(p)
      OBVIOUS
    <3>3. k \in 0..n /\ p[1] <= k /\ k < p[2] /\ k + 1 \in 0..n
      BY <1>4, <3>1, <3>2
    <3>4. <<p[1], k, k>> \in D /\ <<k + 1, p[2], k>> \in D
      BY <1>2, <3>1, <3>3
    <3>5. next[p] = <<p[1], k, k>> \/ next[p] = <<k + 1, p[2], k>>
      BY <3>2
    <3>6. mu[p] = p[2] - p[1]
      BY <3>1
    <3>7. /\ mu[<<p[1], k, k>>] < p[2] - p[1]
          /\ mu[<<k + 1, p[2], k>>] < p[2] - p[1]
      BY <3>1, <3>3, <3>4
    <3> HIDE DEF next, mu
    <3> QED BY <3>4, <3>5, <3>6, <3>7
  <2> HIDE DEF next, mu, done
  <2> QED BY <2>1, <2>2 DEF Descends
<1>6. ASSUME NEW f PROVE Loop(f, D, done, val, next) <=> Is(f)
  <2>1. ASSUME NEW p \in D
        PROVE  (IF p \in done THEN val[p] ELSE f[next[p]]) = E(f, p)
    <3>1. CASE p[1] >= p[2]
      BY <3>1
    <3>2. CASE ~(p[1] >= p[2]) /\ t = cs[m(p) + 1].at
      BY <3>2
    <3>3. CASE ~(p[1] >= p[2]) /\ t # cs[m(p) + 1].at
      <4>1. p \notin done
        BY <3>3
      <4>2. CASE t < cs[m(p) + 1].at
        BY <3>3, <4>1, <4>2
      <4>3. CASE ~(t < cs[m(p) + 1].at)
        BY <3>3, <4>1, <4>3
      <4> QED BY <4>2, <4>3
    <3> QED BY <3>1, <3>2, <3>3
  <2> HIDE DEF E, done, val, next
  <2>2. [p \in D |-> IF p \in done THEN val[p] ELSE f[next[p]]] = [p \in D |-> E(f, p)]
    BY <2>1
  <2> QED BY <2>2 DEF Loop
<1>7. LoopKeeps(G, R, done, val, next)
  <2> SUFFICES ASSUME NEW p \in G
               PROVE  IF p \in done THEN val[p] \in R ELSE next[p] \in G
    BY Zenon DEF LoopKeeps
  <2>1. p \in D /\ p[1] \in 0..n /\ p[2] \in 0..n /\ p[3] \in 0..n /\ (p[3] < n \/ n = 0)
    BY <1>3
  <2>2. CASE p[1] >= p[2]
    <3>1. p \in done /\ val[p] = p[3]
      BY <2>1, <2>2
    <3> QED BY <2>1, <3>1
  <2>3. CASE p[1] < p[2]
    <3>1. PICK k : k = m(p)
      OBVIOUS
    <3>2. k \in 0..n /\ k < n /\ val[p] = k
      BY <1>4, <2>1, <2>3, <3>1
    <3>3. p \notin done => next[p] \in D
      BY <1>5, <2>1 DEF Descends
    <3>4. next[p][3] = k
      BY <2>1, <3>1
    <3> HIDE DEF next, val, done
    <3> QED BY <3>2, <3>3, <3>4
  <2> QED BY <2>1, <2>2, <2>3
<1>8. <<0, n, 0>> \in G
  BY <1>2
<1>9. Nearby(cs, t) = (CHOOSE f : Is(f))[<<0, n, 0>>]
  BY <1>1, <1>2, Zenon DEF Nearby
<1>10. G \subseteq D
  OBVIOUS
<1> HIDE DEF Is, next, val, done, mu, G, R
<1>11. \E f : Is(f)
  BY <1>5, <1>6, TailRecursion
<1>12. PICK f : f = CHOOSE g : Is(g)
  OBVIOUS
<1>13. Is(f)
  BY <1>11, <1>12
<1>14. \A p \in G : f[p] \in R
  <2>1. Loop(f, D, done, val, next)
    BY <1>6, <1>13
  <2> HIDE DEF E, m
  <2> QED BY <1>5, <1>7, <1>10, <2>1, TailValues
<1>15. Nearby(cs, t) \in R
  BY <1>8, <1>9, <1>12, <1>14
<1> QED BY <1>1, <1>15 DEF R

\* The places of the walk over n changes: the index, the direction, and the last
\* change found that may apply.
Places(n) == (-1..n) \X {-1, 1} \X (-1..n)

WalkStep(since, t, p) == IF t >= since[p[1] + 1] THEN p[2] ELSE -1
WalkUse(since, t, p) == IF t >= since[p[1] + 1] THEN p[1] ELSE p[3]

\* A turn of the walk from a place in G leads to one in G, or to an answer in R.
WalkStays(since, t, n, G, R) ==
  \A p \in G :
    IF p[1] < 0 THEN -1 \in R
    ELSE IF p[1] >= n THEN p[3] \in R
    ELSE IF WalkStep(since, t, p) = -1 /\ WalkUse(since, t, p) # -1
      THEN WalkUse(since, t, p) \in R
    ELSE <<p[1] + WalkStep(since, t, p), WalkStep(since, t, p), WalkUse(since, t, p)>> \in G

\* The walk ends, and what holds of its answers holds of the one it gives.
LEMMA StepValue ==
  ASSUME NEW n \in Nat, NEW since, Len(since) = n, NEW t, NEW near,
         NEW G, G \subseteq Places(n), <<near, 1, -1>> \in G,
         NEW R, WalkStays(since, t, n, G, R)
  PROVE  Step(since, t, near) \in R
<1>1. PICK M \in Nat : M = 2 * n + 3
  OBVIOUS
<1>2. PICK D : D = Places(n)
  OBVIOUS
<1> DEFINE step(p) == WalkStep(since, t, p)
           use(p) == WalkUse(since, t, p)
           next == [p \in D |-> <<p[1] + step(p), step(p), use(p)>>]
           val == [p \in D |-> IF p[1] < 0 THEN -1 ELSE IF p[1] >= n THEN p[3] ELSE use(p)]
           done == {p \in D : p[1] < 0 \/ p[1] >= n \/ (step(p) = -1 /\ use(p) # -1)}
           mu == [p \in D |-> IF p[2] = -1 THEN p[1] + 1 ELSE 2 * n + 2 - p[1]]
           E(f, p) == IF p[1] < 0 THEN -1
                      ELSE IF p[1] >= n THEN p[3]
                      ELSE IF step(p) = -1 /\ use(p) # -1 THEN use(p)
                      ELSE f[<<p[1] + step(p), step(p), use(p)>>]
           Is(f) == f = [p \in D |-> E(f, p)]
<1>3. \A p \in D : p[1] \in -1..n /\ p[2] \in {-1, 1} /\ p[3] \in -1..n
  BY <1>2 DEF Places
<1>4. ASSUME NEW p \in D, p \notin done
      PROVE  /\ p[1] \in 0..n - 1 /\ step(p) \in {-1, 1} /\ use(p) \in -1..n
             /\ step(p) = 1 => p[2] = 1
             /\ next[p] = <<p[1] + step(p), step(p), use(p)>> /\ next[p] \in D
  <2>1. p[1] \in 0..n - 1
    BY <1>3, <1>4
  <2>2. step(p) \in {-1, 1} /\ use(p) \in -1..n /\ (step(p) = 1 => p[2] = 1)
    BY <1>3 DEF WalkStep, WalkUse
  <2> HIDE DEF step, use
  <2>3. p[1] + step(p) \in -1..n
    BY <2>1, <2>2
  <2> QED BY <1>2, <2>1, <2>2, <2>3 DEF Places
<1>5. Descends(D, M, mu, done, next)
  <2>1. mu \in [D -> 0..M]
    BY <1>1, <1>3
  <2>2. ASSUME NEW p \in D, p \notin done PROVE next[p] \in D /\ mu[next[p]] < mu[p]
    <3>1. PICK k \in 0..n - 1, s \in {-1, 1}, u \in -1..n :
             /\ k = p[1] /\ s = step(p) /\ u = use(p) /\ (s = 1 => p[2] = 1)
             /\ next[p] = <<k + s, s, u>> /\ next[p] \in D
      BY <1>4, <2>2
    <3>2. p[2] \in {-1, 1}
      BY <1>3
    <3>3. mu[<<k + s, s, u>>] = IF s = -1 THEN (k + s) + 1 ELSE 2 * n + 2 - (k + s)
      BY <3>1
    <3>4. mu[p] = IF p[2] = -1 THEN k + 1 ELSE 2 * n + 2 - k
      BY <3>1
    <3> HIDE DEF mu, next
    <3>5. CASE s = 1
      BY <3>1, <3>3, <3>4, <3>5
    <3>6. CASE s = -1
      <4>1. mu[<<k + s, s, u>>] = k
        BY <3>3, <3>6
      <4>2. k < mu[p]
        BY <3>2, <3>4
      <4> QED BY <3>1, <4>1, <4>2
    <3> QED BY <3>1, <3>5, <3>6
  <2> HIDE DEF next, mu, done
  <2> QED BY <2>1, <2>2 DEF Descends
<1>6. ASSUME NEW f PROVE Loop(f, D, done, val, next) <=> Is(f)
  <2>1. ASSUME NEW p \in D
        PROVE  (IF p \in done THEN val[p] ELSE f[next[p]]) = E(f, p)
    <3> HIDE DEF step, use
    <3>1. CASE p[1] < 0
      BY <3>1
    <3>2. CASE ~(p[1] < 0) /\ p[1] >= n
      BY <3>2
    <3>3. CASE ~(p[1] < 0) /\ ~(p[1] >= n)
      BY <3>3
    <3> QED BY <3>1, <3>2, <3>3
  <2> HIDE DEF E, done, val, next
  <2>2. [p \in D |-> IF p \in done THEN val[p] ELSE f[next[p]]] = [p \in D |-> E(f, p)]
    BY <2>1
  <2> QED BY <2>2 DEF Loop
<1>7. LoopKeeps(G, R, done, val, next)
  <2> SUFFICES ASSUME NEW p \in G
               PROVE  IF p \in done THEN val[p] \in R ELSE next[p] \in G
    BY Zenon DEF LoopKeeps
  <2>1. p \in D
    BY <1>2
  <2>2. IF p[1] < 0 THEN -1 \in R
        ELSE IF p[1] >= n THEN p[3] \in R
        ELSE IF step(p) = -1 /\ use(p) # -1 THEN use(p) \in R
        ELSE <<p[1] + step(p), step(p), use(p)>> \in G
    BY Zenon DEF WalkStays
  <2> HIDE DEF step, use
  <2>3. val[p] = IF p[1] < 0 THEN -1 ELSE IF p[1] >= n THEN p[3] ELSE use(p)
    BY <2>1
  <2>4. next[p] = <<p[1] + step(p), step(p), use(p)>>
    BY <2>1
  <2>5. p \in done <=> (p[1] < 0 \/ p[1] >= n \/ (step(p) = -1 /\ use(p) # -1))
    BY <2>1
  <2> HIDE DEF val, next, done
  <2> QED BY <2>2, <2>3, <2>4, <2>5
<1>9. Step(since, t, near) = (CHOOSE f : Is(f))[<<near, 1, -1>>]
  BY <1>2, ZenonT(30) DEF Step, Places, WalkStep, WalkUse
<1> HIDE DEF E, Is, next, val, done, mu, step, use
<1>11. \E f : Is(f)
  BY <1>5, <1>6, TailRecursion
<1>12. PICK f : f = CHOOSE g : Is(g)
  OBVIOUS
<1>13. Is(f)
  BY <1>11, <1>12
<1>14. \A p \in G : f[p] \in R
  <2>1. Loop(f, D, done, val, next)
    BY <1>6, <1>13
  <2>2. G \subseteq D
    BY <1>2
  <2> QED BY <1>5, <1>7, <2>1, <2>2, TailValues
<1> QED BY <1>9, <1>12, <1>14

\* The last of n changes that has come at t, -1 if none has.
IsLast(since, t, n, r) ==
  /\ r \in -1..n - 1
  /\ r >= 0 => since[r + 1] <= t
  /\ \A i \in 1..n : i >= r + 2 => t < since[i]

\* A walk among times that ascend ends at the last that has come, from wherever it
\* begins.
LEMMA StepIsLast ==
  ASSUME NEW n \in Nat, NEW since, Len(since) = n, \A i \in 1..n : since[i] \in Int,
         \A i, j \in 1..n : i < j => since[i] <= since[j],
         NEW t \in Int, NEW near \in 0..n, n > 0 => near < n
  PROVE  IsLast(since, t, n, Step(since, t, near))
<1> DEFINE Ahead(p) == /\ p[2] = 1 /\ p[1] >= 0
                       /\ \/ p[3] = -1 /\ (p[1] < n \/ n = 0)
                          \/ p[1] >= 1 /\ p[3] = p[1] - 1 /\ since[p[1]] <= t
           Back(p) == /\ p[2] = -1 /\ p[3] = -1 /\ p[1] < n
                      /\ \A i \in 1..n : i >= p[1] + 2 => t < since[i]
           G == {p \in Places(n) : Ahead(p) \/ Back(p)}
           R == {r \in -1..n - 1 : IsLast(since, t, n, r)}
<1>1. \A p \in Places(n) : p[1] \in -1..n /\ p[2] \in {-1, 1} /\ p[3] \in -1..n
  BY DEF Places
<1>2. WalkStays(since, t, n, G, R)
  <2> SUFFICES ASSUME NEW p \in G
               PROVE  IF p[1] < 0 THEN -1 \in R
                      ELSE IF p[1] >= n THEN p[3] \in R
                      ELSE IF WalkStep(since, t, p) = -1 /\ WalkUse(since, t, p) # -1
                        THEN WalkUse(since, t, p) \in R
                      ELSE <<p[1] + WalkStep(since, t, p), WalkStep(since, t, p),
                             WalkUse(since, t, p)>> \in G
    BY Zenon DEF WalkStays
  <2>1. p[1] \in -1..n /\ p[2] \in {-1, 1} /\ p[3] \in -1..n
    BY <1>1
  <2>2. Ahead(p) \/ Back(p)
    OBVIOUS
  <2>3. CASE p[1] < 0
    <3>1. p[1] = -1 /\ Back(p)
      BY <2>1, <2>2, <2>3
    <3>2. \A i \in 1..n : t < since[i]
      BY <3>1
    <3> QED BY <2>3, <3>2 DEF IsLast
  <2>4. CASE ~(p[1] < 0) /\ p[1] >= n
    <3>1. p[1] = n /\ Ahead(p)
      BY <2>1, <2>2, <2>4
    <3>2. (n = 0 /\ p[3] = -1) \/ (n >= 1 /\ p[3] = n - 1 /\ since[n] <= t)
      BY <3>1
    <3> HIDE DEF Ahead, Back
    <3>3. p[3] \in R
      BY <3>2 DEF IsLast
    <3> HIDE DEF R
    <3> QED BY <2>4, <3>3
  <2>5. CASE ~(p[1] < 0) /\ ~(p[1] >= n)
    <3>1. PICK k \in 0..n - 1, d \in {-1, 1}, use \in -1..n :
             k = p[1] /\ d = p[2] /\ use = p[3]
      <4> HIDE DEF Ahead, Back, G, R
      <4>1. p[1] \in 0..n - 1
        BY <2>1, <2>5
      <4> QED BY <2>1, <4>1, Zenon
    <3>2. PICK s, u : s = WalkStep(since, t, p) /\ u = WalkUse(since, t, p)
      OBVIOUS
    <3>3. since[k + 1] \in Int /\ k + 1 \in 1..n
      BY SMTT(30)
    <3>4. CASE t >= since[k + 1]
      <4>1. s = d /\ u = k
        BY <3>1, <3>2, <3>4 DEF WalkStep, WalkUse
      <4>2. CASE d = 1
        <5>1. <<k + 1, 1, k>> \in Places(n)
          BY SMTT(30) DEF Places
        <5>2. PICK q : q = <<k + 1, 1, k>>
          OBVIOUS
        <5>3. Ahead(q)
          BY <3>3, <3>4, <5>2
        <5>4. q \in G
          BY <5>1, <5>2, <5>3
        <5> HIDE DEF G, R
        <5> QED BY <2>5, <3>1, <3>2, <4>1, <4>2, <5>2, <5>4
      <4>3. CASE d = -1
        <5>1. \A i \in 1..n : i >= k + 2 => t < since[i]
          BY <2>2, <3>1, <4>3
        <5>2. k \in R
          BY <3>3, <3>4, <5>1 DEF IsLast
        <5> HIDE DEF G, R
        <5> QED BY <2>5, <3>1, <3>2, <4>1, <4>3, <5>2
      <4> QED BY <2>1, <3>1, <4>2, <4>3
    <3>5. CASE ~(t >= since[k + 1])
      <4>1. s = -1 /\ u = use
        BY <3>1, <3>2, <3>5 DEF WalkStep, WalkUse
      <4>2. ASSUME NEW i \in 1..n, i >= k + 1 PROVE t < since[i]
        <5>1. i = k + 1 \/ k + 1 < i
          BY <4>2
        <5>2. since[i] \in Int /\ since[k + 1] <= since[i]
          BY <3>3, <5>1
        <5> QED BY <3>3, <3>5, <5>2
      <4>3. CASE use = -1
        <5>1. <<k - 1, -1, -1>> \in Places(n)
          BY SMTT(30) DEF Places
        <5>2. PICK q : q = <<k - 1, -1, -1>>
          OBVIOUS
        <5>3. Back(q)
          BY <4>2, <5>2
        <5>4. q \in G
          BY <5>1, <5>2, <5>3
        <5>5. k + -1 = k - 1
          OBVIOUS
        <5> HIDE DEF G, R
        <5> QED BY <2>5, <3>1, <3>2, <4>1, <4>3, <5>2, <5>4, <5>5
      <4>4. CASE use # -1
        <5>1. k >= 1 /\ use = k - 1 /\ since[k] <= t
          BY <2>2, <3>1, <4>4
        <5>2. use \in R
          BY <4>2, <5>1 DEF IsLast
        <5> HIDE DEF G, R
        <5> QED BY <2>5, <3>1, <3>2, <4>1, <4>4, <5>2
      <4> QED BY <4>3, <4>4
    <3> QED BY <3>4, <3>5
  <2> QED BY <2>3, <2>4, <2>5
<1>3. <<near, 1, -1>> \in G
  <2>1. <<near, 1, -1>> \in Places(n)
    BY DEF Places
  <2>2. PICK q : q = <<near, 1, -1>>
    OBVIOUS
  <2>3. Ahead(q)
    BY <2>2
  <2> QED BY <2>1, <2>2, <2>3
<1>4. G \subseteq Places(n)
  OBVIOUS
<1> HIDE DEF G, R
<1>5. Step(since, t, near) \in R
  BY <1>2, <1>3, <1>4, StepValue
<1> QED BY <1>5 DEF R

\* What a lookup answers with is a change of the table, or none.
LEMMA StepInTable ==
  ASSUME NEW n \in Nat, NEW since, Len(since) = n, NEW t, NEW near \in 0..n
  PROVE  Step(since, t, near) \in -1..n - 1
<1> DEFINE G == {p \in Places(n) : p[3] <= n - 1}
           R == -1..n - 1
<1>1. \A p \in Places(n) : p[1] \in -1..n /\ p[2] \in {-1, 1} /\ p[3] \in -1..n
  BY DEF Places
<1>2. WalkStays(since, t, n, G, R)
  <2> SUFFICES ASSUME NEW p \in G
               PROVE  IF p[1] < 0 THEN -1 \in R
                      ELSE IF p[1] >= n THEN p[3] \in R
                      ELSE IF WalkStep(since, t, p) = -1 /\ WalkUse(since, t, p) # -1
                        THEN WalkUse(since, t, p) \in R
                      ELSE <<p[1] + WalkStep(since, t, p), WalkStep(since, t, p),
                             WalkUse(since, t, p)>> \in G
    BY Zenon DEF WalkStays
  <2>1. p[1] \in -1..n /\ p[2] \in {-1, 1} /\ p[3] \in -1..n - 1
    BY <1>1
  <2>2. CASE p[1] < 0 \/ p[1] >= n
    BY <2>1, <2>2
  <2>3. CASE ~(p[1] < 0 \/ p[1] >= n)
    <3>1. PICK k \in 0..n - 1 : k = p[1]
      BY <2>1, <2>3
    <3>2. PICK s, u : s = WalkStep(since, t, p) /\ u = WalkUse(since, t, p)
      OBVIOUS
    <3>3. s \in {-1, 1} /\ u \in -1..n - 1
      BY <2>1, <3>1, <3>2 DEF WalkStep, WalkUse
    <3>4. k + s \in -1..n /\ u \in -1..n
      BY <3>3
    <3>5. <<k + s, s, u>> \in G
      BY <3>3, <3>4 DEF Places
    <3> QED BY <3>1, <3>2, <3>3, <3>5
  <2> QED BY <2>2, <2>3
<1>3. <<near, 1, -1>> \in G
  BY DEF Places
<1>4. G \subseteq Places(n)
  OBVIOUS
<1> HIDE DEF G, R
<1>5. Step(since, t, near) \in R
  BY <1>2, <1>3, <1>4, StepValue
<1> QED BY <1>5 DEF R

\* Offsets are whole numbers, whatever is asked.
LEMMA OffsetsAreNumbers ==
  ASSUME NEW cs \in Seq(Changes), NEW t \in Int, NEW daylight \in BOOLEAN
  PROVE  /\ OfUtc(cs, t) \in [offset : Int, daylight : BOOLEAN]
         /\ OfLocal(cs, t, daylight) \in [offset : Int, daylight : BOOLEAN]
<1>1. PICK n \in Nat : n = Len(cs)
  OBVIOUS
<1>2. PICK near : near = Nearby(cs, t)
  OBVIOUS
<1>3. near \in 0..n
  BY <1>1, <1>2, NearbyInTable
<1>4. Len(Comes(cs)) = n /\ Len(Shows(cs)) = n
  BY <1>1 DEF Comes, Shows
<1>5. ASSUME NEW k \in -1..n - 1 PROVE Answer(cs, k) \in [offset : Int, daylight : BOOLEAN]
  <2>1. CASE k = -1
    BY <2>1 DEF Answer
  <2>2. CASE k # -1
    <3>1. cs[k + 1] \in Changes
      BY <1>1, <2>2
    <3> QED BY <2>2, <3>1 DEF Answer, Changes
  <2> QED BY <2>1, <2>2
<1>6. OfUtc(cs, t) \in [offset : Int, daylight : BOOLEAN]
  <2>1. Step(Comes(cs), t, near) \in -1..n - 1
    BY <1>3, <1>4, StepInTable
  <2> QED BY <1>2, <1>5, <2>1 DEF OfUtc
<1>7. OfLocal(cs, t, daylight) \in [offset : Int, daylight : BOOLEAN]
  <2>1. PICK k : k = Step(Shows(cs), t, near)
    OBVIOUS
  <2>2. k \in -1..n - 1
    BY <1>3, <1>4, <2>1, StepInTable
  <2>3. OfLocal(cs, t, daylight) \in {Answer(cs, k)} \cup {Answer(cs, k - 1) : m \in {x \in {1} : k > 0}}
    BY <1>2, <2>1 DEF OfLocal
  <2>4. k > 0 => k - 1 \in -1..n - 1
    BY <2>2
  <2> QED BY <1>5, <2>2, <2>3, <2>4
<1> QED BY <1>6, <1>7

\* A change has a place: after those that come no later, before those that do.
LEMMA PlaceIsThere ==
  ASSUME NEW s \in Seq(Changes), NEW c \in Changes
  PROVE  /\ Place(s, c) \in 1..Len(s) + 1
         /\ \A j \in 1..Place(s, c) - 1 : s[j].at <= c.at
         /\ Place(s, c) <= Len(s) => c.at < s[Place(s, c)].at
<1>1. PICK n \in Nat : n = Len(s)
  OBVIOUS
<1>2. \A i \in 1..n : s[i].at \in Int
  <2>1. \A i \in 1..n : s[i] \in Changes
    BY <1>1
  <2> QED BY <2>1 DEF Changes
<1>3. c.at \in Int
  BY DEF Changes
<1> DEFINE Q(i) == /\ \A j \in 1..i - 1 : s[j].at <= c.at
                   /\ i <= Len(s) => c.at < s[i].at
           T == {i \in 1..n + 1 : i = n + 1 \/ c.at < s[i].at}
<1>4. T \in SUBSET Nat /\ n + 1 \in T
  OBVIOUS
<1>5. PICK i \in T : \A j \in T : i <= j
  <2> HIDE DEF T
  <2>1. T # {}
    BY <1>4
  <2> QED BY <1>4, <2>1, LeastNumber
<1>6. i \in 1..Len(s) + 1 /\ Q(i)
  <2>1. ASSUME NEW j \in 1..i - 1 PROVE s[j].at <= c.at
    <3>1. j \in 1..n /\ j < i
      OBVIOUS
    <3>2. j \notin T
      BY <1>5, <3>1
    <3> QED BY <1>2, <1>3, <3>1, <3>2
  <2>2. i <= Len(s) => c.at < s[i].at
    BY <1>1
  <2> QED BY <1>1, <2>1, <2>2
<1> HIDE DEF Q, T
<1>7. Place(s, c) = CHOOSE k \in 1..Len(s) + 1 : Q(k)
  BY Zenon DEF Place, Q
<1>8. Place(s, c) \in 1..Len(s) + 1 /\ Q(Place(s, c))
  BY <1>6, <1>7
<1> QED BY <1>8 DEF Q

\* The times of a table ascend; they do so strictly.
Ascend(s) == \A i, j \in 1..Len(s) : i < j => s[i].at <= s[j].at
Climb(s) == \A i, j \in 1..Len(s) : i < j => s[i].at < s[j].at

\* A table with one more change in its place.
Placed(s, c) == InsertAt(s, Place(s, c), c)

\* x is one of the first n elements.
Among(x, s, n) == \E i \in 1..n : x = s[i]

\* What a table is when a change is put in its place.
LEMMA PlacedAscends ==
  ASSUME NEW s \in Seq(Changes), NEW c \in Changes, Ascend(s), NEW w, w = Placed(s, c)
  PROVE  /\ w \in Seq(Changes)
         /\ Ascend(w)
         /\ \A x : Among(x, w, Len(w)) <=> (x = c \/ Among(x, s, Len(s)))
         /\ Climb(s) /\ (\A i \in 1..Len(s) : s[i].at # c.at) => Climb(w)
<1>1. PICK n \in Nat, k \in {Place(s, c)} :
          n = Len(s) /\ k = Place(s, c) /\ w = InsertAt(s, k, c)
  BY DEF Placed
<1>2. /\ k \in 1..n + 1
      /\ \A j \in 1..k - 1 : s[j].at <= c.at
      /\ k <= n => c.at < s[k].at
  BY <1>1, PlaceIsThere
<1>3. /\ w \in Seq(Changes) /\ Len(w) = n + 1
      /\ \A i \in 1..n + 1 : w[i] = IF i < k THEN s[i] ELSE IF i = k THEN c ELSE s[i - 1]
  <2>1. s \in Seq(Changes) /\ c \in Changes /\ k \in 1..Len(s) + 1
    BY <1>1, <1>2
  <2>2. /\ InsertAt(s, k, c) \in Seq(Changes) /\ Len(InsertAt(s, k, c)) = Len(s) + 1
        /\ \A i \in 1..Len(s) + 1 :
             InsertAt(s, k, c)[i] = IF i < k THEN s[i] ELSE IF i = k THEN c ELSE s[i - 1]
    BY <2>1, InsertAtProperties
  <2> QED BY <1>1, <2>2
<1>4. c.at \in Int /\ \A i \in 1..n : s[i].at \in Int
  <2>1. \A i \in 1..n : s[i] \in Changes
    BY <1>1
  <2> QED BY <2>1 DEF Changes
<1>5. \A i, j \in 1..n : i < j => s[i].at <= s[j].at
  BY <1>1 DEF Ascend
<1>6. \A j \in k..n : c.at < s[j].at
  <2> SUFFICES ASSUME NEW j \in k..n PROVE c.at < s[j].at
    OBVIOUS
  <2>1. k \in 1..n /\ j \in 1..n /\ c.at < s[k].at
    BY <1>2
  <2>2. s[k].at <= s[j].at
    BY <1>4, <1>5, <2>1
  <2> QED BY <1>4, <2>1, <2>2
<1>7. \A i \in 1..k - 1 : i \in 1..n /\ w[i] = s[i]
  BY <1>2, <1>3
<1>8. w[k] = c
  BY <1>2, <1>3
<1>9. \A i \in k + 1..n + 1 : i - 1 \in k..n /\ i - 1 \in 1..n /\ w[i] = s[i - 1]
  BY <1>2, <1>3
<1>10. ASSUME NEW i \in 1..n + 1, NEW j \in 1..n + 1, i < j
       PROVE  /\ w[i].at <= w[j].at
              /\ Climb(s) /\ (\A x \in 1..n : s[x].at # c.at) => w[i].at < w[j].at
  <2>0. Climb(s) => \A x, y \in 1..n : x < y => s[x].at < s[y].at
    BY <1>1 DEF Climb
  <2>1. CASE j < k
    <3>1. i \in 1..k - 1 /\ j \in 1..k - 1
      BY <1>2, <1>10, <2>1
    <3> QED BY <1>5, <1>7, <1>10, <2>0, <3>1
  <2>2. CASE j = k
    <3>1. i \in 1..k - 1
      BY <1>2, <1>10, <2>2
    <3>2. i \in 1..n /\ w[i] = s[i] /\ s[i].at <= c.at
      BY <1>2, <1>7, <3>1
    <3> QED BY <1>4, <1>8, <2>2, <3>2
  <2>3. CASE j > k /\ i < k
    <3>1. i \in 1..k - 1 /\ j \in k + 1..n + 1
      BY <1>2, <2>3
    <3>2. i \in 1..n /\ w[i] = s[i] /\ s[i].at <= c.at
      BY <1>2, <1>7, <3>1
    <3>3. j - 1 \in k..n /\ j - 1 \in 1..n /\ w[j] = s[j - 1]
      BY <1>9, <3>1
    <3>4. c.at < s[j - 1].at
      BY <1>6, <3>3
    <3> QED BY <1>4, <3>2, <3>3, <3>4
  <2>4. CASE j > k /\ i = k
    <3>1. j \in k + 1..n + 1
      BY <1>2, <2>4
    <3>2. c.at < w[j].at /\ w[j].at \in Int
      BY <1>4, <1>6, <1>9, <3>1
    <3> QED BY <1>4, <1>8, <2>4, <3>2
  <2>5. CASE j > k /\ i > k
    <3>1. i \in k + 1..n + 1 /\ j \in k + 1..n + 1 /\ i - 1 < j - 1
      BY <1>2, <1>10, <2>5
    <3>2. i - 1 \in 1..n /\ j - 1 \in 1..n /\ w[i] = s[i - 1] /\ w[j] = s[j - 1]
      BY <1>9, <3>1
    <3> QED BY <1>5, <2>0, <3>1, <3>2
  <2> QED BY <1>2, <2>1, <2>2, <2>3, <2>4, <2>5
<1>11. Ascend(w)
  BY <1>3, <1>10 DEF Ascend
<1>12. Climb(s) /\ (\A i \in 1..n : s[i].at # c.at) => Climb(w)
  BY <1>3, <1>10 DEF Climb
<1>13. ASSUME NEW x
       PROVE  (\E i \in 1..n + 1 : x = w[i]) <=> (x = c \/ \E i \in 1..n : x = s[i])
  <2>1. ASSUME NEW i \in 1..n + 1, x = w[i] PROVE x = c \/ \E j \in 1..n : x = s[j]
    <3>1. i \in 1..k - 1 \/ i = k \/ i \in k + 1..n + 1
      BY <1>2
    <3> QED BY <1>7, <1>8, <1>9, <2>1, <3>1
  <2>2. x = c => \E i \in 1..n + 1 : x = w[i]
    BY <1>2, <1>8
  <2>3. ASSUME NEW j \in 1..n, x = s[j] PROVE \E i \in 1..n + 1 : x = w[i]
    <3>1. CASE j < k
      <4>1. j \in 1..k - 1 /\ j \in 1..n + 1
        BY <1>2, <3>1
      <4> QED BY <1>7, <2>3, <4>1
    <3>2. CASE ~(j < k)
      <4>1. PICK i : i = j + 1
        OBVIOUS
      <4>2. i \in k + 1..n + 1 /\ i \in 1..n + 1 /\ i - 1 = j
        BY <1>2, <3>2, <4>1
      <4> QED BY <1>9, <2>3, <4>2
    <3> QED BY <3>1, <3>2
  <2> QED BY <2>1, <2>2, <2>3
<1>14. \A x : Among(x, w, Len(w)) <=> (x = c \/ Among(x, s, Len(s)))
  BY <1>1, <1>3, <1>13 DEF Among
<1> QED BY <1>1, <1>3, <1>11, <1>12, <1>14

\* The sort puts the changes in their places, one after the other.
LEMMA InOrderSteps ==
  ASSUME NEW cs \in Seq(Changes), NEW m \in Nat, m = Len(cs)
  PROVE  \E h : /\ h[0] = <<>>
                /\ \A j \in 1..m : h[j] = Placed(h[j - 1], cs[j])
                /\ InOrder(cs) = h[m]
<1>0. PICK V : V = Seq(Changes)
  OBVIOUS
<1>1. \A j \in 1..m : cs[j] \in Changes
  OBVIOUS
<1>2. PICK T : T = [j \in 1..m |-> [v \in V |-> Placed(v, cs[j])]]
  OBVIOUS
<1>3. T \in Steps(V, m)
  <2>1. ASSUME NEW j \in 1..m, NEW v \in V PROVE Placed(v, cs[j]) \in V
    <3>1. PICK c \in Changes : c = cs[j]
      BY <1>1
    <3>2. v \in Seq(Changes)
      BY <1>0
    <3>3. Place(v, c) \in 1..Len(v) + 1
      BY <3>2, PlaceIsThere
    <3>4. InsertAt(v, Place(v, c), c) \in Seq(Changes)
      BY <3>2, <3>3, InsertAtProperties
    <3> QED BY <1>0, <3>1, <3>4 DEF Placed
  <2> QED BY <1>2, <2>1 DEF Steps
<1> DEFINE Is(f) == f = [S \in SUBSET DOMAIN cs |->
                           IF S = {} THEN <<>>
                           ELSE Placed(f[S \ {Max(S)}], cs[Max(S)])]
           fold == CHOOSE f : Is(f)
<1>4. DOMAIN cs = 1..m
  OBVIOUS
<1>5. InOrder(cs) = fold[1..m]
  <2>1. InOrder(cs) = fold[DOMAIN cs]
    BY DEF InOrder, FoldLeft, MapThenFoldSet, Placed
  <2> QED BY <1>4, <2>1
<1>6. \E f : Is(f)
  <2>1. PICK g : FoldsOver(g, V, <<>>, m, T)
    <3>1. <<>> \in V
      BY <1>0
    <3> QED BY <1>3, <3>1, FoldRecursion
  <2> DEFINE f == [S \in SUBSET DOMAIN cs |-> g[S]]
  <2>2. ASSUME NEW S \in SUBSET (1..m)
        PROVE  g[S] = IF S = {} THEN <<>>
                      ELSE Placed(f[S \ {Max(S)}], cs[Max(S)])
    <3>1. CASE S = {}
      BY <2>1, <3>1 DEF FoldsOver
    <3>2. CASE S # {}
      <4>1. PICK x : x = Max(S)
        OBVIOUS
      <4>2. x \in 1..m
        BY <3>2, <4>1, MaxProperties
      <4>3. S \ {x} \in SUBSET (1..m) /\ S \ {x} \in SUBSET DOMAIN cs
        BY <1>4
      <4>4. g[S \ {x}] \in V /\ g[S] = T[x][g[S \ {x}]]
        BY <2>1, <3>2, <4>1, <4>3 DEF FoldsOver
      <4>5. g[S] = Placed(g[S \ {x}], cs[x])
        BY <1>2, <4>2, <4>4
      <4>6. f[S \ {x}] = g[S \ {x}]
        BY <4>3
      <4> QED BY <3>2, <4>1, <4>5, <4>6
    <3> QED BY <3>1, <3>2
  <2>3. Is(f)
    BY <1>4, <2>2
  <2> QED BY <2>3
<1>7. Is(fold)
  <2> HIDE DEF Is
  <2> QED BY <1>6
<1> HIDE DEF fold
<1>8. fold[1..0] = <<>>
  <2>1. 1..0 = {} /\ {} \in SUBSET DOMAIN cs
    OBVIOUS
  <2> QED BY <1>7, <2>1
<1>9. ASSUME NEW j \in 1..m PROVE fold[1..j] = Placed(fold[1..j - 1], cs[j])
  <2>1. 1..j \in SUBSET DOMAIN cs /\ 1..j # {} /\ j \in Nat \ {0}
    <3>1. \A k \in 1..j : k \in 1..m
      OBVIOUS
    <3>2. j \in 1..j
      OBVIOUS
    <3>3. 1..j \in SUBSET (1..m)
      BY <3>1
    <3>4. 1..j \in SUBSET DOMAIN cs
      BY <1>4, <3>3
    <3>5. 1..j # {}
      BY <3>2
    <3>6. j \in Nat \ {0}
      OBVIOUS
    <3> QED BY <3>4, <3>5, <3>6
  <2>2. Max(1..j) = j /\ (1..j) \ {j} = 1..j - 1
    BY <2>1, MaxOfInterval
  <2> QED BY <1>7, <2>1, <2>2
<1> DEFINE h == [j \in 0..m |-> fold[1..j]]
<1>10. /\ h[0] = <<>>
       /\ \A j \in 1..m : h[j] = Placed(h[j - 1], cs[j])
       /\ h[m] = fold[1..m]
  BY <1>8, <1>9
<1> HIDE DEF h
<1> QED BY <1>5, <1>10

\* No two of the first n changes come at the same time.
ApartUpTo(s, n) == \A i, j \in 1..n : i < j => s[i].at # s[j].at

\* What a table of the first n changes is.
Holds(h, cs, n) ==
  /\ h \in Seq(Changes)
  /\ Ascend(h)
  /\ \A x : Among(x, h, Len(h)) <=> Among(x, cs, n)
  /\ ApartUpTo(cs, n) => Climb(h)

\* The table has the changes that were put in it and no others, by their times,
\* and strictly so if no two come at the same time.
LEMMA InOrderSorts ==
  ASSUME NEW cs \in Seq(Changes)
  PROVE  Holds(InOrder(cs), cs, Len(cs))
<1>1. PICK m \in Nat : m = Len(cs)
  OBVIOUS
<1>2. PICK h : /\ h[0] = <<>>
               /\ \A j \in 1..m : h[j] = Placed(h[j - 1], cs[j])
               /\ InOrder(cs) = h[m]
  BY <1>1, InOrderSteps
<1> DEFINE N == {n \in Nat : n <= m => Holds(h[n], cs, n)}
<1>3. 0 \in N
  <2>1. <<>> \in Seq(Changes) /\ Len(<<>>) = 0
    OBVIOUS
  <2>2. Ascend(<<>>) /\ Climb(<<>>)
    BY <2>1 DEF Ascend, Climb
  <2>3. \A x : ~Among(x, <<>>, 0) /\ ~Among(x, cs, 0)
    BY DEF Among
  <2> QED BY <1>2, <2>1, <2>2, <2>3 DEF Holds
<1>4. ASSUME NEW n \in Nat, n \in N PROVE n + 1 \in N
  <2> SUFFICES ASSUME n + 1 <= m PROVE Holds(h[n + 1], cs, n + 1)
    OBVIOUS
  <2>1. PICK s, c : s = h[n] /\ c = cs[n + 1]
    OBVIOUS
  <2>2. n + 1 \in 1..m /\ (n + 1) - 1 = n
    OBVIOUS
  <2>3. c \in Changes
    BY <1>1, <2>1, <2>2
  <2>4. Holds(s, cs, n)
    BY <1>4, <2>1
  <2>5. s \in Seq(Changes) /\ Ascend(s)
    BY <2>4 DEF Holds
  <2>6. PICK w : w = Placed(s, c)
    OBVIOUS
  <2>7. h[n + 1] = w
    BY <1>2, <2>1, <2>2, <2>6
  <2>8. /\ w \in Seq(Changes) /\ Ascend(w)
        /\ \A x : Among(x, w, Len(w)) <=> (x = c \/ Among(x, s, Len(s)))
        /\ Climb(s) /\ (\A i \in 1..Len(s) : s[i].at # c.at) => Climb(w)
    BY <2>3, <2>5, <2>6, PlacedAscends
  <2>9. ASSUME NEW x PROVE Among(x, w, Len(w)) <=> Among(x, cs, n + 1)
    <3>1. Among(x, w, Len(w)) <=> (x = c \/ Among(x, s, Len(s)))
      BY <2>8
    <3>2. Among(x, s, Len(s)) <=> Among(x, cs, n)
      BY <2>4 DEF Holds
    <3>3. Among(x, cs, n + 1) <=> (x = c \/ Among(x, cs, n))
      <4>1. \A i \in 1..n + 1 : i \in 1..n \/ i = n + 1
        OBVIOUS
      <4>2. n + 1 \in 1..n + 1 /\ \A i \in 1..n : i \in 1..n + 1
        OBVIOUS
      <4> QED BY <2>1, <4>1, <4>2, Zenon DEF Among
    <3> QED BY <3>1, <3>2, <3>3
  <2>10. ASSUME ApartUpTo(cs, n + 1) PROVE Climb(w)
    <3>1. \A i, j \in 1..n + 1 : i < j => cs[i].at # cs[j].at
      BY <2>10 DEF ApartUpTo
    <3>2. ApartUpTo(cs, n)
      BY <3>1 DEF ApartUpTo
    <3>3. ASSUME NEW i \in 1..Len(s) PROVE s[i].at # c.at
      <4>1. Among(s[i], s, Len(s))
        BY DEF Among
      <4>2. Among(s[i], cs, n)
        BY <2>4, <4>1 DEF Holds
      <4>3. PICK j \in 1..n : s[i] = cs[j]
        BY <4>2 DEF Among
      <4>4. j \in 1..n + 1 /\ n + 1 \in 1..n + 1 /\ j < n + 1
        OBVIOUS
      <4> QED BY <2>1, <3>1, <4>3, <4>4
    <3>4. Climb(s)
      BY <2>4, <3>2 DEF Holds
    <3> QED BY <2>8, <3>3, <3>4
  <2> QED BY <2>7, <2>8, <2>9, <2>10 DEF Holds
<1> HIDE DEF N
<1>5. m \in N
  BY <1>3, <1>4, InductionOnNat
<1> QED BY <1>1, <1>2, <1>5 DEF N

----------------------------------------------------------------------------
(* Arithmetic of the years.                                                *)

\* A quotient is determined by the number and a remainder.
LEMMA Quotient ==
  ASSUME NEW t \in Int, NEW y \in Nat \ {0}, NEW q \in Int, NEW r \in Int,
         t = y * q + r, 0 <= r, r < y
  PROVE  t \div y = q
OBVIOUS

\* A number is its quotient times the divisor, and its remainder.
LEMMA Divided ==
  ASSUME NEW t \in Int, NEW y \in Nat \ {0}
  PROVE  t = y * (t \div y) + (t % y) /\ t % y \in 0..y - 1 /\ t \div y \in Int
OBVIOUS

\* A number of years later it is that much later a year.
LEMMA YearLater ==
  ASSUME NEW t \in Int, NEW m \in Nat
  PROVE  YearOf(t + m * Year) = YearOf(t) + m
<1>1. PICK y \in Nat \ {0} : y = Year
  BY LengthsAreNumbers
<1>2. PICK q \in Int, r \in Int : q = t \div y /\ r = t % y
  BY Divided
<1>3. t = y * q + r /\ 0 <= r /\ r < y
  BY <1>2, Divided
<1>4. t + m * y = y * (q + m) + r
  <2>1. y * (q + m) = y * q + y * m
    OBVIOUS
  <2>2. y * m = m * y
    OBVIOUS
  <2> QED BY <1>3, <2>1, <2>2
<1>5. q + m \in Int /\ t + m * y \in Int
  OBVIOUS
<1>6. (t + m * y) \div y = q + m
  BY <1>3, <1>4, <1>5, Quotient
<1> QED BY <1>1, <1>2, <1>6 DEF YearOf

\* The year of a time is a number.
LEMMA YearType ==
  ASSUME NEW t \in Int
  PROVE  YearOf(t) \in Int /\ (t \in Nat => YearOf(t) \in Nat)
<1>1. PICK y \in Nat \ {0} : y = Year
  BY LengthsAreNumbers
<1>2. ASSUME NEW n \in Nat PROVE n \div y \in Nat
  OBVIOUS
<1> QED BY <1>1, <1>2, Divided DEF YearOf

\* More years are longer.
LEMMA YearsMonotone ==
  ASSUME NEW m \in Nat, NEW k \in Nat, NEW y \in Nat, m <= k
  PROVE  m * y <= k * y
OBVIOUS

----------------------------------------------------------------------------
(* The changes of a part.                                                  *)

\* The n-th year after DTSTART is one in which a part recurs.
Recurs(part, lastYear, n) ==
  /\ part.start + n * Year <= EndOf(part)
  /\ YearOf(part.start + n * Year) <= lastYear

\* The fields of a part,
LEMMA PartType ==
  ASSUME NEW part \in Parts
  PROVE  /\ part.daylight \in BOOLEAN /\ part.from \in Int /\ part.to \in Int
         /\ part.start \in Nat /\ part.rdates \in Seq(Rdates) /\ part.yearly \in BOOLEAN
         /\ part.until \in Int /\ part.untilUtc \in BOOLEAN
BY DEF Parts

\* of a change of it,
LEMMA ChangeType ==
  ASSUME NEW part \in Parts, NEW at \in Int
  PROVE  Change(part, at) \in Changes
BY PartType DEF Change, Changes

\* A part recurs in the years up to one, and it is not after the last year.
LEMMA RecursUpTo ==
  ASSUME NEW part \in Parts, NEW lastYear \in Nat
  PROVE  \E n \in 0..lastYear + 1 : \A m \in Nat : m < n <=> Recurs(part, lastYear, m)
<1>1. PICK y \in Nat \ {0} : y = Year
  BY LengthsAreNumbers
<1>2. PICK s \in Nat, e \in Int : s = part.start /\ e = EndOf(part)
  BY PartType DEF EndOf
<1>3. YearOf(s) \in Nat
  BY YearType
<1>4. ASSUME NEW m \in Nat, NEW k \in Nat, m <= k, Recurs(part, lastYear, k)
      PROVE  Recurs(part, lastYear, m)
  <2>1. m * y <= k * y /\ m * y \in Int /\ k * y \in Int
    BY <1>4, YearsMonotone
  <2>2. YearOf(s + m * Year) = YearOf(s) + m /\ YearOf(s + k * Year) = YearOf(s) + k
    BY YearLater
  <2>3. s + k * y <= e /\ YearOf(s) + k <= lastYear
    BY <1>1, <1>2, <1>4, <2>2 DEF Recurs
  <2>4. s + m * y <= e /\ YearOf(s) + m <= lastYear
    BY <1>3, <1>4, <2>1, <2>3
  <2> QED BY <1>1, <1>2, <2>2, <2>4 DEF Recurs
<1>5. ~Recurs(part, lastYear, lastYear + 1)
  <2>1. YearOf(s + (lastYear + 1) * Year) = YearOf(s) + (lastYear + 1)
    BY YearLater
  <2> QED BY <1>2, <1>3, <2>1 DEF Recurs
<1> DEFINE T == {n \in Nat : ~Recurs(part, lastYear, n)}
<1>6. T \in SUBSET Nat /\ T # {} /\ lastYear + 1 \in T
  BY <1>5
<1>7. PICK n \in T : \A k \in T : n <= k
  <2> HIDE DEF T
  <2> QED BY <1>6, LeastNumber
<1>8. n \in 0..lastYear + 1
  BY <1>6, <1>7
<1>9. \A m \in Nat : m < n <=> Recurs(part, lastYear, m)
  BY <1>4, <1>7
<1> QED BY <1>8, <1>9

\* The recurrences are those of the years in which the part recurs.
LEMMA RecurrencesAre ==
  ASSUME NEW part \in Parts, NEW lastYear \in Nat
  PROVE  /\ Recurrences(part, lastYear) \in Seq(Changes)
         /\ \A x : Among(x, Recurrences(part, lastYear), Len(Recurrences(part, lastYear)))
                     <=> \E m \in Nat : /\ Recurs(part, lastYear, m)
                                        /\ x = Change(part, part.start + m * Year - part.from)
<1> DEFINE P(n) == \A m \in 0..lastYear + 1 : m < n <=> Recurs(part, lastYear, m)
           at(m) == part.start + m * Year - part.from
<1>1. PICK k \in 0..lastYear + 1 : \A m \in Nat : m < k <=> Recurs(part, lastYear, m)
  BY RecursUpTo
<1>2. PICK n : n = CHOOSE i \in 0..lastYear + 1 : P(i)
  OBVIOUS
<1>3. n \in 0..lastYear + 1 /\ P(n)
  <2>1. P(k)
    BY <1>1
  <2> HIDE DEF P
  <2> QED BY <1>2, <2>1
<1>4. n = k
  <2>1. n \in 0..lastYear + 1 /\ k \in 0..lastYear + 1
    BY <1>3
  <2>2. n < k <=> n < n
    BY <1>1, <1>3, <2>1
  <2>3. k < k <=> k < n
    BY <1>1, <1>3, <2>1
  <2> QED BY <2>1, <2>2, <2>3
<1>5. PICK r : r = Recurrences(part, lastYear)
  OBVIOUS
<1>6. r = [i \in 1..k |-> Change(part, at(i - 1))]
  <2>1. Recurrences(part, lastYear) = [i \in 1..n |-> Change(part, at(i - 1))]
    BY <1>2, Zenon DEF Recurrences, Recurs
  <2> QED BY <1>4, <1>5, <2>1
<1>7. \A i \in 1..k : at(i - 1) \in Int
  BY PartType, LengthsAreNumbers
<1> HIDE DEF at, P
<1>8. r \in Seq(Changes) /\ Len(r) = k
  <2>1. \A i \in 1..k : Change(part, at(i - 1)) \in Changes
    BY <1>7, ChangeType
  <2> QED BY <1>6, <2>1
<1>9. ASSUME NEW x
      PROVE  Among(x, r, Len(r)) <=> \E m \in Nat : Recurs(part, lastYear, m) /\ x = Change(part, at(m))
  <2>1. ASSUME NEW i \in 1..k, x = r[i]
        PROVE  \E m \in Nat : Recurs(part, lastYear, m) /\ x = Change(part, at(m))
    <3>1. i - 1 \in Nat /\ i - 1 < k
      OBVIOUS
    <3> QED BY <1>1, <1>6, <2>1, <3>1
  <2>2. ASSUME NEW m \in Nat, Recurs(part, lastYear, m), x = Change(part, at(m))
        PROVE  \E i \in 1..k : x = r[i]
    <3>1. m < k
      BY <1>1, <2>2
    <3>2. PICK i : i = m + 1
      OBVIOUS
    <3>3. i \in 1..k /\ i - 1 = m
      BY <3>1, <3>2
    <3> QED BY <1>6, <2>2, <3>3
  <2> QED BY <1>8, <2>1, <2>2 DEF Among
<1> QED BY <1>5, <1>8, <1>9 DEF at

\* and of a change that is listed.
LEMMA RdateType ==
  ASSUME NEW part \in Parts, NEW r \in Rdates
  PROVE  OfRdate(part, r) \in Changes
<1> DEFINE at == CASE r.kind = "date"  -> (r.at \div Day) * Day + (part.start % Day)
                   [] r.kind = "utc"   -> r.at
                   [] r.kind = "local" -> r.at - part.from
<1>1. r.at \in Int /\ r.kind \in {"date", "utc", "local"}
  BY DEF Rdates
<1>2. PICK d \in Nat \ {0} : d = Day
  BY LengthsAreNumbers
<1>3. (r.at \div d) * d + (part.start % d) \in Int
  <2>1. PICK a \in Int, s \in Nat : a = r.at /\ s = part.start
    BY <1>1, PartType
  <2>2. a \div d \in Int /\ s % d \in Int
    BY Divided
  <2> QED BY <2>1, <2>2
<1>4. r.at - part.from \in Int
  BY <1>1, PartType
<1>5. at \in Int
  BY <1>1, <1>2, <1>3, <1>4
<1>6. OfRdate(part, r) = Change(part, at)
  BY Zenon DEF OfRdate
<1> HIDE DEF at
<1> QED BY <1>5, <1>6, ChangeType

\* x is a change a part is expanded to.
PartHas(part, lastYear, x) ==
  IF part.rdates = <<>> /\ ~part.yearly THEN x = Change(part, part.start - part.from)
  ELSE \/ \E i \in 1..Len(part.rdates) : x = OfRdate(part, part.rdates[i])
       \/ /\ part.yearly
          /\ \E m \in Nat : /\ Recurs(part, lastYear, m)
                            /\ x = Change(part, part.start + m * Year - part.from)

\* What is in two sequences one after the other.
LEMMA ConcatAmong ==
  ASSUME NEW A, NEW a \in Seq(A), NEW b \in Seq(A)
  PROVE  /\ a \o b \in Seq(A)
         /\ \A x : Among(x, a \o b, Len(a \o b)) <=> Among(x, a, Len(a)) \/ Among(x, b, Len(b))
<1>1. PICK c : c = a \o b
  OBVIOUS
<1>2. PICK n \in Nat, m \in Nat : n = Len(a) /\ m = Len(b)
  OBVIOUS
<1>3. /\ c \in Seq(A) /\ Len(c) = n + m
      /\ \A i \in 1..n + m : c[i] = IF i <= n THEN a[i] ELSE b[i - n]
  BY <1>1, <1>2, ConcatProperties
<1>4. ASSUME NEW x PROVE Among(x, c, n + m) <=> Among(x, a, n) \/ Among(x, b, m)
  <2>1. ASSUME NEW i \in 1..n + m, x = c[i] PROVE Among(x, a, n) \/ Among(x, b, m)
    <3>1. CASE i <= n
      <4>1. i \in 1..n /\ x = a[i]
        BY <1>3, <2>1, <3>1
      <4> QED BY <4>1 DEF Among
    <3>2. CASE ~(i <= n)
      <4>1. i - n \in 1..m /\ x = b[i - n]
        BY <1>3, <2>1, <3>2
      <4> QED BY <4>1 DEF Among
    <3> QED BY <3>1, <3>2
  <2>2. ASSUME NEW i \in 1..n, x = a[i] PROVE Among(x, c, n + m)
    <3>1. i \in 1..n + m /\ x = c[i]
      BY <1>3, <2>2
    <3> QED BY <3>1 DEF Among
  <2>3. ASSUME NEW i \in 1..m, x = b[i] PROVE Among(x, c, n + m)
    <3>1. PICK j : j = i + n
      OBVIOUS
    <3>2. j \in 1..n + m /\ ~(j <= n) /\ j - n = i
      BY <3>1
    <3>3. x = c[j]
      BY <1>3, <2>3, <3>2
    <3> QED BY <3>2, <3>3 DEF Among
  <2> QED BY <2>1, <2>2, <2>3, Zenon DEF Among
<1> QED BY <1>1, <1>2, <1>3, <1>4

\* What is in sequences that are flattened.
LEMMA FlattenAmong ==
  ASSUME NEW A, NEW ss \in Seq(Seq(A))
  PROVE  /\ FlattenSeq(ss) \in Seq(A)
         /\ \A x : Among(x, FlattenSeq(ss), Len(FlattenSeq(ss)))
                     <=> \E i \in 1..Len(ss) : Among(x, ss[i], Len(ss[i]))
<1>0. PICK B : B = Seq(A)
  OBVIOUS
<1> DEFINE Held(x, s) == \E i \in 1..Len(s) : Among(x, s[i], Len(s[i]))
           S == {s \in Seq(B) : \A x : Among(x, FlattenSeq(s), Len(FlattenSeq(s))) <=> Held(x, s)}
<1>1. <<>> \in S
  <2>1. FlattenSeq(<<>>) = <<>> /\ Len(<<>>) = 0 /\ <<>> \in Seq(B)
    BY EmptySeq DEF FlattenSeq
  <2>2. \A x : ~Among(x, <<>>, 0) /\ ~Held(x, <<>>)
    BY DEF Among
  <2> HIDE DEF Held
  <2> QED BY <2>1, <2>2
<1>2. ASSUME NEW s \in Seq(B), NEW a \in B, s \in S PROVE Append(s, a) \in S
  <2>1. PICK n \in Nat, t \in {Append(s, a)} : n = Len(s) /\ t = Append(s, a)
    BY LenProperties
  <2>2. t \in Seq(B) /\ Len(t) = n + 1 /\ t[n + 1] = a /\ \A i \in 1..n : t[i] = s[i]
    BY <2>1, AppendProperties
  <2>3. PICK f : f = FlattenSeq(s)
    OBVIOUS
  <2>4. f \in Seq(A) /\ a \in Seq(A) /\ FlattenSeq(t) = f \o a
    <3>1. s \in Seq(Seq(A)) /\ a \in Seq(A)
      BY <1>0
    <3> QED BY <2>1, <2>3, <3>1, FlattenAppend
  <2>5. ASSUME NEW x PROVE Among(x, FlattenSeq(t), Len(FlattenSeq(t))) <=> Held(x, t)
    <3>1. Among(x, f \o a, Len(f \o a)) <=> Among(x, f, Len(f)) \/ Among(x, a, Len(a))
      BY <2>4, ConcatAmong
    <3>2. Among(x, f, Len(f)) <=> Held(x, s)
      BY <1>2, <2>3
    <3>3. Held(x, t) <=> Held(x, s) \/ Among(x, a, Len(a))
      <4>1. \A i \in 1..n + 1 : i \in 1..n \/ i = n + 1
        OBVIOUS
      <4>2. n + 1 \in 1..n + 1 /\ \A i \in 1..n : i \in 1..n + 1
        OBVIOUS
      <4>3. Held(x, t) <=> \E i \in 1..n + 1 : Among(x, t[i], Len(t[i]))
        BY <2>2
      <4>4. Held(x, s) <=> \E i \in 1..n : Among(x, s[i], Len(s[i]))
        BY <2>1
      <4> HIDE DEF Held
      <4> QED BY <2>2, <4>1, <4>2, <4>3, <4>4, Zenon
    <3> HIDE DEF Held
    <3> QED BY <2>4, <3>1, <3>2, <3>3
  <2> HIDE DEF Held
  <2> QED BY <2>1, <2>2, <2>5
<1> HIDE DEF S
<1>3. Seq(B) \subseteq S
  BY <1>1, <1>2, InductionOnSeq
<1>4. ss \in S
  BY <1>0, <1>3
<1>5. FlattenSeq(ss) \in Seq(A)
  <2>1. <<>> \in Seq(A)
    OBVIOUS
  <2> QED BY <2>1, FlattenAppend
<1> QED BY <1>4, <1>5 DEF S

\* A part is expanded to its own changes.
LEMMA ExpandPartIs ==
  ASSUME NEW part \in Parts, NEW lastYear \in Nat
  PROVE  /\ ExpandPart(part, lastYear) \in Seq(Changes)
         /\ \A x : Among(x, ExpandPart(part, lastYear), Len(ExpandPart(part, lastYear)))
                     <=> PartHas(part, lastYear, x)
<1>1. CASE part.rdates = <<>> /\ ~part.yearly
  <2>1. PICK c : c = Change(part, part.start - part.from)
    OBVIOUS
  <2>2. c \in Changes
    BY <2>1, PartType, ChangeType
  <2>3. ExpandPart(part, lastYear) = <<c>>
    BY <1>1, <2>1 DEF ExpandPart
  <2>4. <<c>> \in Seq(Changes) /\ Len(<<c>>) = 1 /\ \A x : Among(x, <<c>>, 1) <=> x = c
    BY <2>2 DEF Among
  <2> QED BY <1>1, <2>1, <2>3, <2>4 DEF PartHas
<1>2. CASE ~(part.rdates = <<>> /\ ~part.yearly)
  <2>1. PICK rs : rs = part.rdates
    OBVIOUS
  <2>2. rs \in Seq(Rdates)
    BY <2>1, PartType
  <2>3. PICK n \in Nat : n = Len(rs)
    BY <2>2
  <2>4. PICK a : a = [i \in 1..n |-> OfRdate(part, rs[i])]
    OBVIOUS
  <2>5. a \in Seq(Changes) /\ Len(a) = n
    <3>1. \A i \in 1..n : OfRdate(part, rs[i]) \in Changes
      BY <2>2, <2>3, RdateType
    <3> QED BY <2>4, <3>1
  <2>6. PICK b : b = IF part.yearly THEN Recurrences(part, lastYear) ELSE <<>>
    OBVIOUS
  <2>7. b \in Seq(Changes)
    BY <2>6, RecurrencesAre
  <2>8. ExpandPart(part, lastYear) = a \o b
    <3>1. DOMAIN rs = 1..n
      BY <2>2, <2>3
    <3> QED BY <1>2, <2>1, <2>4, <2>6, <3>1 DEF ExpandPart
  <2>9. ASSUME NEW x PROVE Among(x, a, Len(a)) \/ Among(x, b, Len(b)) <=> PartHas(part, lastYear, x)
    <3> DEFINE listed == \E i \in 1..n : x = OfRdate(part, rs[i])
               again == \E m \in Nat : /\ Recurs(part, lastYear, m)
                                       /\ x = Change(part, part.start + m * Year - part.from)
    <3>1. Among(x, a, Len(a)) <=> listed
      BY <2>4, <2>5 DEF Among
    <3>2. Among(x, b, Len(b)) <=> part.yearly /\ again
      <4>1. CASE part.yearly
        BY <2>6, <4>1, RecurrencesAre, Zenon
      <4>2. CASE ~part.yearly
        <5>1. b = <<>> /\ Len(b) = 0
          BY <2>6, <4>2
        <5> QED BY <4>2, <5>1 DEF Among
      <4> QED BY <4>1, <4>2
    <3>3. PartHas(part, lastYear, x) <=> listed \/ (part.yearly /\ again)
      BY <1>2, <2>1, <2>3, Zenon DEF PartHas
    <3> HIDE DEF listed, again
    <3> QED BY <3>1, <3>2, <3>3
  <2> QED BY <2>5, <2>7, <2>8, <2>9, ConcatAmong
<1> QED BY <1>1, <1>2

\* The table of a zone has the changes of its parts and no others, by their times.
LEMMA ExpandedIs ==
  ASSUME NEW v \in Seq(Parts), NEW lastYear \in Nat, NEW h, h = ExpandChanges(v, lastYear)
  PROVE  /\ h \in Seq(Changes) /\ Gathered(v, lastYear) \in Seq(Changes)
         /\ \A x : Among(x, h, Len(h)) <=> \E i \in 1..Len(v) : PartHas(v[i], lastYear, x)
         /\ ApartUpTo(Gathered(v, lastYear), Len(Gathered(v, lastYear))) => Climb(h)
<1>1. PICK n \in Nat : n = Len(v)
  OBVIOUS
<1>2. PICK ss : ss = [i \in 1..n |-> ExpandPart(v[i], lastYear)]
  OBVIOUS
<1>3. \A i \in 1..n : v[i] \in Parts
  BY <1>1
<1>4. ss \in Seq(Seq(Changes)) /\ Len(ss) = n
  <2>1. \A i \in 1..n : ExpandPart(v[i], lastYear) \in Seq(Changes)
    BY <1>3, ExpandPartIs
  <2>2. PICK B : B = Seq(Changes)
    OBVIOUS
  <2>3. ss \in Seq(B) /\ Len(ss) = n
    BY <1>2, <2>1, <2>2
  <2> QED BY <2>2, <2>3
<1>5. PICK g : g = Gathered(v, lastYear)
  OBVIOUS
<1>6. g = FlattenSeq(ss)
  <2>1. DOMAIN v = 1..n
    BY <1>1
  <2> QED BY <1>2, <1>5, <2>1 DEF Gathered
<1>7. /\ g \in Seq(Changes)
      /\ \A x : Among(x, g, Len(g)) <=> \E i \in 1..Len(ss) : Among(x, ss[i], Len(ss[i]))
  BY <1>4, <1>6, FlattenAmong
<1>8. Holds(h, g, Len(g))
  <2>1. h = InOrder(g)
    BY <1>5 DEF ExpandChanges
  <2> QED BY <1>7, <2>1, InOrderSorts
<1>9. ASSUME NEW x PROVE Among(x, h, Len(h)) <=> \E i \in 1..n : PartHas(v[i], lastYear, x)
  <2>1. Among(x, h, Len(h)) <=> Among(x, g, Len(g))
    BY <1>8 DEF Holds
  <2>2. ASSUME NEW i \in 1..n
        PROVE  Among(x, ss[i], Len(ss[i])) <=> PartHas(v[i], lastYear, x)
    <3>1. v[i] \in Parts /\ ss[i] = ExpandPart(v[i], lastYear)
      BY <1>2, <1>3
    <3> QED BY <3>1, ExpandPartIs
  <2> QED BY <1>4, <1>7, <2>1, <2>2
<1>10. h \in Seq(Changes) /\ (ApartUpTo(g, Len(g)) => Climb(h))
  BY <1>8 DEF Holds
<1> QED BY <1>1, <1>5, <1>7, <1>9, <1>10

----------------------------------------------------------------------------
(* The tables that are kept.                                               *)

ChangeTimes == [at : Int, daylight : BOOLEAN, zone : Names \cup {Utc, NoZone}]

\* A table that is kept is the one of the component, up to the year it ends with.
Kept(table, vtimezone, year) ==
  IF table = NoTable THEN year = 0 ELSE table = ExpandChanges(vtimezone, year)

ZoneInv ==
  /\ component \in [Names -> Seq(Parts)] /\ \A z \in Names : component[z] \in Vtimezones[z]
  /\ changes = [z \in Names |-> changes[z]]
  /\ endYear \in [Names -> 0..MaxYear]
  /\ \A z \in Names : Kept(changes[z], component[z], endYear[z])
  /\ minimum \in Nat
  /\ tt = NoTime \/ tt \in ChangeTimes

\* The names of the fields of a change.
LEMMA ChangeFields ==
  ASSUME NEW c \in Changes
  PROVE  DOMAIN c = {"at", "to", "from", "daylight"}
BY DEF Changes

\* No table of changes is taken for none.
LEMMA NoTableIsNone ==
  ASSUME NEW cs \in Seq(Changes)
  PROVE  cs # NoTable
<1> SUFFICES ASSUME cs = NoTable PROVE FALSE
  OBVIOUS
<1>1. Len(cs) = 1 /\ cs[1] = NoTime
  BY DEF NoTable
<1>2. cs[1] \in Changes
  BY <1>1
<1>3. DOMAIN NoTime = {"zone"}
  BY DEF NoTime
<1>4. DOMAIN NoTime = {"at", "to", "from", "daylight"}
  BY <1>1, <1>2, ChangeFields
<1>5. "zone" \in {"at", "to", "from", "daylight"}
  BY <1>3, <1>4
<1> QED BY <1>5

\* A table is made up to the year that was asked for, unless that is after the last.
LEMMA ReachesType ==
  ASSUME ZoneInv, NEW asked \in Int
  PROVE  /\ Reaches(asked) \in 0..MaxYear
         /\ Reaches(asked) >= asked \/ Reaches(asked) = MaxYear
<1>1. minimum \in Nat
  BY DEF ZoneInv
<1> QED BY <1>1, CoverageAssumption DEF Reaches

\* A zone that is asked about a year has the table of its component, up to a year
\* that is not before that one nor before the one it ended with.
LEMMA TableForIs ==
  ASSUME ZoneInv, NEW z \in Names, NEW asked \in Int
  PROVE  \E y \in 0..MaxYear :
           /\ y >= endYear[z] /\ (y >= asked \/ y = MaxYear)
           /\ TableFor(z, asked) = ExpandChanges(component[z], y)
           /\ EndFor(z, asked) = y
<1>1. endYear[z] \in 0..MaxYear /\ Kept(changes[z], component[z], endYear[z])
  BY DEF ZoneInv
<1>2. CASE Covers(z, asked)
  <2>1. changes[z] # NoTable /\ endYear[z] >= asked
    BY <1>2 DEF Covers
  <2>2. changes[z] = ExpandChanges(component[z], endYear[z])
    BY <1>1, <2>1 DEF Kept
  <2>3. TableFor(z, asked) = changes[z] /\ EndFor(z, asked) = endYear[z]
    BY <1>2 DEF TableFor, EndFor
  <2> QED BY <1>1, <2>1, <2>2, <2>3
<1>3. CASE ~Covers(z, asked)
  <2>1. PICK y : y = Reaches(asked)
    OBVIOUS
  <2>2. y \in 0..MaxYear /\ (y >= asked \/ y = MaxYear)
    BY <2>1, ReachesType
  <2>3. endYear[z] = 0 \/ endYear[z] < asked
    BY <1>1, <1>3 DEF Covers, Kept
  <2>4. y >= endYear[z]
    BY <1>1, <2>2, <2>3, CoverageAssumption
  <2>5. TableFor(z, asked) = ExpandChanges(component[z], y) /\ EndFor(z, asked) = y
    BY <1>3, <2>1 DEF TableFor, EndFor
  <2> QED BY <2>2, <2>4, <2>5
<1> QED BY <1>2, <1>3

\* The table of the component of z up to a year.
TableOf(z, y) == ExpandChanges(component[z], y)

\* A table of changes is one, and not the mark for none.
LEMMA TableType ==
  ASSUME ZoneInv, NEW z \in Names, NEW y \in 0..MaxYear
  PROVE  TableOf(z, y) \in Seq(Changes) /\ TableOf(z, y) # NoTable
<1>1. component[z] \in Seq(Parts) /\ y \in Nat
  BY CoverageAssumption DEF ZoneInv
<1>2. PICK h : h = ExpandChanges(component[z], y)
  OBVIOUS
<1>3. h \in Seq(Changes)
  BY <1>1, <1>2, ExpandedIs
<1> QED BY <1>2, <1>3, NoTableIsNone DEF TableOf

\* What a conversion does to a zone: nothing, or it gives it a table that ends no
\* earlier.
Grown(z) ==
  \/ changes'[z] = changes[z] /\ endYear'[z] = endYear[z]
  \/ \E y \in 0..MaxYear : /\ y >= endYear[z]
                           /\ changes'[z] = TableOf(z, y) /\ endYear'[z] = y

\* What a conversion is, in terms of the tables that it uses.
LEMMA ConvertIs ==
  ASSUME ZoneInv, NEW zone \in Names \cup {Utc}, Convert(zone)
  PROVE  /\ tt \in ChangeTimes /\ tt.zone \in Names \cup {Utc} /\ tt.zone # zone
         /\ UNCHANGED <<component, minimum>>
         /\ changes' = [z \in Names |-> changes'[z]] /\ endYear' = [z \in Names |-> endYear'[z]]
         /\ \A z \in Names : Grown(z)
         /\ \E u \in Int : \E source, target :
              /\ u = ToUtc(source) /\ tt' = FromUtc(target, u, zone) /\ tt' \in ChangeTimes
              /\ tt.zone \in Names =>
                   \E y \in 0..MaxYear : /\ source = TableOf(tt.zone, y)
                                         /\ y >= YearOf(tt.at) \/ y = MaxYear
              /\ zone \in Names =>
                   \E y \in 0..MaxYear : /\ target = TableOf(zone, y)
                                         /\ y >= YearOf(u) \/ y = MaxYear
<1>1. tt \in ChangeTimes /\ tt.zone \in Names \cup {Utc} /\ tt.zone # zone
  BY DEF Convert, ZoneInv, ChangeTimes
<1>2. tt.at \in Int /\ tt.daylight \in BOOLEAN /\ YearOf(tt.at) \in Int
  BY <1>1, YearType DEF ChangeTimes
<1>3. PICK source : source = Expanded(tt.zone, YearOf(tt.at))
  OBVIOUS
<1>4. PICK u : u = ToUtc(source)
  OBVIOUS
<1>5. PICK target : target = Expanded(zone, YearOf(u))
  OBVIOUS
<1>6. /\ tt' = FromUtc(target, u, zone)
      /\ changes' = [z \in Names |-> IF z = tt.zone THEN source
                                     ELSE IF z = zone THEN target ELSE changes[z]]
      /\ endYear' = [z \in Names |-> IF z = tt.zone THEN EndFor(z, YearOf(tt.at))
                                     ELSE IF z = zone THEN EndFor(z, YearOf(u))
                                     ELSE endYear[z]]
      /\ UNCHANGED <<component, minimum>>
  BY <1>3, <1>4, <1>5 DEF Convert
<1>7. ASSUME tt.zone \in Names
      PROVE  \E y \in 0..MaxYear : /\ source = TableOf(tt.zone, y)
                                   /\ y >= YearOf(tt.at) \/ y = MaxYear
                                   /\ EndFor(tt.zone, YearOf(tt.at)) = y /\ y >= endYear[tt.zone]
  <2>1. source = TableFor(tt.zone, YearOf(tt.at))
    BY <1>3, <1>7, UtcIsNoName DEF Expanded
  <2> QED BY <1>2, <1>7, <2>1, TableForIs DEF TableOf
<1>8. u \in Int
  <2>1. CASE tt.zone = Utc
    BY <1>2, <1>4, <2>1 DEF ToUtc
  <2>2. CASE tt.zone # Utc
    <3>1. tt.zone \in Names
      BY <1>1, <2>2
    <3>2. source \in Seq(Changes)
      BY <1>7, <3>1, TableType
    <3>3. OfLocal(source, tt.at, tt.daylight).offset \in Int
      BY <1>2, <3>2, OffsetsAreNumbers
    <3> QED BY <1>2, <1>4, <2>2, <3>3 DEF ToUtc
  <2> QED BY <2>1, <2>2
<1>9. ASSUME zone \in Names
      PROVE  \E y \in 0..MaxYear : /\ target = TableOf(zone, y)
                                   /\ y >= YearOf(u) \/ y = MaxYear
                                   /\ EndFor(zone, YearOf(u)) = y /\ y >= endYear[zone]
  <2>1. target = TableFor(zone, YearOf(u))
    BY <1>5, <1>9, UtcIsNoName DEF Expanded
  <2>2. YearOf(u) \in Int
    BY <1>8, YearType
  <2> QED BY <1>9, <2>1, <2>2, TableForIs DEF TableOf
<1>10. tt' \in ChangeTimes
  <2>1. CASE zone = Utc
    <3>1. FromUtc(target, u, zone) = [at |-> u + 0, daylight |-> FALSE, zone |-> Utc]
      BY <2>1 DEF FromUtc, Answer
    <3> QED BY <1>6, <1>8, <3>1 DEF ChangeTimes
  <2>2. CASE zone # Utc
    <3>1. zone \in Names
      BY <2>2
    <3>2. target \in Seq(Changes)
      BY <1>9, <3>1, TableType
    <3>3. PICK answer \in [offset : Int, daylight : BOOLEAN] : answer = OfUtc(target, u)
      BY <1>8, <3>2, OffsetsAreNumbers
    <3>4. FromUtc(target, u, zone)
            = [at |-> u + answer.offset, daylight |-> answer.daylight, zone |-> zone]
      BY <2>2, <3>3 DEF FromUtc
    <3> QED BY <1>6, <1>8, <3>1, <3>4 DEF ChangeTimes
  <2> QED BY <2>1, <2>2
<1>11. ASSUME NEW z \in Names PROVE Grown(z)
  <2>1. CASE z = tt.zone
    BY <1>6, <1>7, <2>1 DEF Grown
  <2>2. CASE z # tt.zone /\ z = zone
    BY <1>6, <1>9, <2>2 DEF Grown
  <2>3. CASE z # tt.zone /\ z # zone
    BY <1>6, <2>3 DEF Grown
  <2> QED BY <2>1, <2>2, <2>3
<1>12. changes' = [z \in Names |-> changes'[z]] /\ endYear' = [z \in Names |-> endYear'[z]]
  BY <1>6
<1> QED BY <1>1, <1>4, <1>6, <1>7, <1>8, <1>9, <1>10, <1>11, <1>12

\* In the beginning no zone has a table.
LEMMA InitZone == Init => ZoneInv
<1> SUFFICES ASSUME Init PROVE ZoneInv
  OBVIOUS
<1>1. component \in [Names -> UNION {Vtimezones[z] : z \in Names}]
      /\ \A z \in Names : component[z] \in Vtimezones[z]
  BY DEF Init
<1>2. component \in [Names -> Seq(Parts)]
  <2>1. \A z \in Names : component[z] \in Seq(Parts)
    BY <1>1, VtimezonesAreParts
  <2> QED BY <1>1, <2>1
<1>3. changes = [z \in Names |-> changes[z]] /\ \A z \in Names : changes[z] = NoTable
  BY DEF Init
<1>4. endYear \in [Names -> 0..MaxYear] /\ \A z \in Names : endYear[z] = 0
  BY CoverageAssumption DEF Init
<1>5. minimum \in Nat /\ tt = NoTime
  BY TimesAreNumbers DEF Init
<1> QED BY <1>1, <1>2, <1>3, <1>4, <1>5 DEF ZoneInv, Kept

\* No step leaves a zone with a table other than the one of its component.
LEMMA StepZone == ZoneInv /\ [Next]_vars => ZoneInv'
<1> SUFFICES ASSUME ZoneInv, [Next]_vars PROVE ZoneInv'
  OBVIOUS
<1> DEFINE Tables == /\ component \in [Names -> Seq(Parts)]
                     /\ \A z \in Names : component[z] \in Vtimezones[z]
                     /\ changes = [z \in Names |-> changes[z]]
                     /\ endYear \in [Names -> 0..MaxYear]
                     /\ \A z \in Names : Kept(changes[z], component[z], endYear[z])
                     /\ minimum \in Nat
<1>0. ASSUME UNCHANGED <<component, changes, endYear, minimum>>, tt' = NoTime \/ tt' \in ChangeTimes
      PROVE  ZoneInv'
  <2>1. Tables
    BY DEF ZoneInv
  <2>2. Tables'
    BY <1>0, <2>1 DEF Kept
  <2> QED BY <1>0, <2>2 DEF ZoneInv
<1>1. ASSUME NEW t \in Moments, NEW zone \in {Utc, NoZone}, FromString(t, zone) PROVE ZoneInv'
  <2>1. tt' \in ChangeTimes
    BY <1>1, TimesAreNumbers DEF FromString, ChangeTimes
  <2> QED BY <1>0, <1>1, <2>1 DEF FromString
<1>2. ASSUME Drop PROVE ZoneInv'
  BY <1>0, <1>2 DEF Drop
<1>3. ASSUME NEW zone \in Names \cup {Utc}, SetTimezone(zone) PROVE ZoneInv'
  <2>1. tt \in ChangeTimes
    BY <1>3 DEF SetTimezone, ZoneInv
  <2>2. tt' \in ChangeTimes
    BY <1>3, <2>1 DEF SetTimezone, ChangeTimes
  <2> QED BY <1>0, <1>3, <2>2 DEF SetTimezone
<1>4. ASSUME NEW zone \in Names \cup {Utc}, Float(zone) PROVE ZoneInv'
  BY <1>3, <1>4 DEF Float
<1>5. ASSUME NEW zone \in Names \cup {Utc}, Convert(zone) PROVE ZoneInv'
  <2>1. /\ UNCHANGED <<component, minimum>>
        /\ changes' = [z \in Names |-> changes'[z]] /\ endYear' = [z \in Names |-> endYear'[z]]
        /\ \A z \in Names : Grown(z)
        /\ tt' \in ChangeTimes
    BY <1>5, ConvertIs
  <2>2. ASSUME NEW z \in Names
        PROVE  endYear'[z] \in 0..MaxYear /\ Kept(changes'[z], component'[z], endYear'[z])
    <3>0. endYear[z] \in 0..MaxYear /\ Kept(changes[z], component[z], endYear[z])
      BY DEF ZoneInv
    <3>1. CASE changes'[z] = changes[z] /\ endYear'[z] = endYear[z]
      BY <2>1, <3>0, <3>1
    <3>2. CASE \E y \in 0..MaxYear : changes'[z] = TableOf(z, y) /\ endYear'[z] = y
      <4>1. PICK y \in 0..MaxYear : changes'[z] = TableOf(z, y) /\ endYear'[z] = y
        BY <3>2
      <4>2. TableOf(z, y) # NoTable
        BY TableType
      <4>3. component'[z] = component[z]
        BY <2>1
      <4> QED BY <4>1, <4>2, <4>3 DEF Kept, TableOf
    <3> QED BY <2>1, <3>1, <3>2 DEF Grown
  <2>3. endYear' \in [Names -> 0..MaxYear]
    BY <2>1, <2>2
  <2> QED BY <2>1, <2>2, <2>3 DEF ZoneInv
<1>6. ASSUME NEW z \in Names, NEW v \in Vtimezones[z], SetComponent(z, v) PROVE ZoneInv'
  <2>1. /\ component' = [component EXCEPT ![z] = v]
        /\ changes' = [changes EXCEPT ![z] = NoTable]
        /\ endYear' = [endYear EXCEPT ![z] = 0]
        /\ UNCHANGED <<minimum, tt>>
    BY <1>6 DEF SetComponent
  <2>2. v \in Seq(Parts)
    BY VtimezonesAreParts
  <2>3. component' \in [Names -> Seq(Parts)] /\ \A y \in Names : component'[y] \in Vtimezones[y]
    BY <2>1, <2>2 DEF ZoneInv
  <2>4. endYear' \in [Names -> 0..MaxYear]
    BY <2>1, CoverageAssumption DEF ZoneInv
  <2>5. DOMAIN changes = Names
    BY DEF ZoneInv
  <2>6. changes' = [y \in Names |-> changes'[y]]
    BY <2>1, <2>5
  <2>7. ASSUME NEW y \in Names PROVE Kept(changes'[y], component'[y], endYear'[y])
    <3>1. CASE y = z
      <4>1. changes'[y] = NoTable /\ endYear'[y] = 0
        BY <2>1, <2>5, <3>1 DEF ZoneInv
      <4> QED BY <4>1 DEF Kept
    <3>2. CASE y # z
      <4>1. changes'[y] = changes[y] /\ endYear'[y] = endYear[y] /\ component'[y] = component[y]
        BY <2>1, <2>5, <3>2 DEF ZoneInv
      <4> QED BY <4>1 DEF ZoneInv
    <3> QED BY <3>1, <3>2
  <2>8. minimum' \in Nat /\ (tt' = NoTime \/ tt' \in ChangeTimes)
    BY <2>1 DEF ZoneInv
  <2> QED BY <2>3, <2>4, <2>6, <2>7, <2>8 DEF ZoneInv
<1>7. CASE UNCHANGED vars
  <2>1. UNCHANGED <<component, changes, endYear, minimum>> /\ (tt' = NoTime \/ tt' \in ChangeTimes)
    BY <1>7 DEF vars, ZoneInv
  <2> QED BY <1>0, <2>1
<1> QED BY <1>1, <1>2, <1>3, <1>4, <1>5, <1>6, <1>7 DEF Next

\* So every table is the one of its component at all times.
LEMMA ZoneHolds == Spec => []ZoneInv
<1> QED BY InitZone, StepZone, PTL DEF Spec

\* CoverageGrows: no conversion, to whatever zone and time, makes a table shorter.
THEOREM CoverageStays == Spec => CoverageGrows
<1>1. ASSUME ZoneInv, [Next]_vars
      PROVE  [\A z \in Names : component'[z] = component[z] /\ endYear'[z] < endYear[z]
                => \E v \in Vtimezones[z] : SetComponent(z, v)]_vars
  <2> SUFFICES ASSUME NEW z \in Names, endYear'[z] < endYear[z]
               PROVE  \E v \in Vtimezones[z] : SetComponent(z, v)
    OBVIOUS
  <2>0. endYear[z] \in 0..MaxYear
    BY <1>1 DEF ZoneInv
  <2>1. endYear'[z] # endYear[z]
    BY <2>0
  <2>2. ~UNCHANGED endYear
    BY <2>1
  <2>3. ASSUME NEW zone \in Names \cup {Utc}, Convert(zone) PROVE FALSE
    <3>1. Grown(z)
      BY <1>1, <2>3, ConvertIs
    <3> QED BY <2>0, <2>1, <3>1 DEF Grown
  <2>4. ASSUME NEW y \in Names, NEW v \in Vtimezones[y], SetComponent(y, v)
        PROVE  \E w \in Vtimezones[z] : SetComponent(z, w)
    <3>1. CASE y = z
      BY <2>4, <3>1
    <3>2. CASE y # z
      <4>1. endYear'[z] = endYear[z]
        BY <1>1, <2>4, <3>2 DEF SetComponent, ZoneInv
      <4> QED BY <2>1, <4>1
    <3> QED BY <3>1, <3>2
  <2> QED BY <1>1, <2>2, <2>3, <2>4 DEF Next, FromString, Drop, SetTimezone, Float, vars
<1> QED BY <1>1, ZoneHolds, PTL DEF Spec, CoverageGrows

\* The time in UTC a listed time tells of.
ToldAt(part, r) == CASE r.kind = "utc" -> r.at
                     [] r.kind = "local" -> r.at - part.from
                     [] r.kind = "date" -> r.at + (part.start % Day) - part.from

\* What is told of a part, case by case.
LEMMA TellsCases ==
  ASSUME NEW part \in Parts, NEW x
  PROVE  x \in Tells(part) <=>
           \/ x = Change(part, part.start - part.from)
           \/ \E i \in 1..Len(part.rdates) : x = Change(part, ToldAt(part, part.rdates[i]))
           \/ /\ part.yearly
              /\ \E m \in 0..MaxYear : /\ Recurs(part, MaxYear, m)
                                       /\ x = Change(part, part.start + m * Year - part.from)
<1>1. PICK rs : rs = part.rdates
  OBVIOUS
<1>2. DOMAIN rs = 1..Len(rs)
  BY <1>1, PartType
<1> DEFINE A == {Change(part, part.start - part.from)}
           B == {Change(part, ToldAt(part, r)) : r \in {rs[i] : i \in DOMAIN rs}}
           until == part.until - (IF part.untilUtc THEN 0 ELSE part.from)
           M == {m \in 0..MaxYear : /\ part.yearly
                                    /\ YearOf(part.start + m * Year) <= MaxYear
                                    /\ part.start + m * Year - part.from <= until}
           D == {Change(part, part.start + m * Year - part.from) : m \in M}
<1>3. Tells(part) = A \cup B \cup D
  BY <1>1, Zenon DEF Tells, ToldAt
<1>4. x \in B <=> \E i \in 1..Len(rs) : x = Change(part, ToldAt(part, rs[i]))
  BY <1>2
<1>5. ASSUME NEW m \in 0..MaxYear PROVE m \in M <=> part.yearly /\ Recurs(part, MaxYear, m)
  <2>1. PICK t : t = part.start + m * Year
    OBVIOUS
  <2>2. t \in Int
    BY <2>1, PartType, LengthsAreNumbers
  <2>3. t - part.from <= until <=> t <= EndOf(part)
    BY <2>2, PartType DEF EndOf
  <2> HIDE DEF until
  <2>6. part.start + m * Year - part.from = t - part.from
    BY <2>1, PartType, LengthsAreNumbers
  <2>4. m \in M <=> part.yearly /\ YearOf(t) <= MaxYear /\ t - part.from <= until
    BY <2>1, <2>6
  <2>5. Recurs(part, MaxYear, m) <=> t <= EndOf(part) /\ YearOf(t) <= MaxYear
    BY <2>1 DEF Recurs
  <2> HIDE DEF M
  <2> QED BY <2>3, <2>4, <2>5
<1>6. x \in D <=> part.yearly /\ \E m \in 0..MaxYear :
                                    /\ Recurs(part, MaxYear, m)
                                    /\ x = Change(part, part.start + m * Year - part.from)
  <2>1. x \in D <=> \E m \in M : x = Change(part, part.start + m * Year - part.from)
    OBVIOUS
  <2>2. M \subseteq 0..MaxYear
    OBVIOUS
  <2> HIDE DEF D, M
  <2> QED BY <1>5, <2>1, <2>2
<1> HIDE DEF B, D
<1> QED BY <1>1, <1>3, <1>4, <1>6

\* What Plain says of one part.
PlainPart(part) ==
  /\ part.yearly => part.start <= EndOf(part)
  /\ part.rdates # <<>> /\ ~part.yearly =>
       \E j \in 1..Len(part.rdates) : OfRdate(part, part.rdates[j]).at = part.start - part.from
  /\ \A j \in 1..Len(part.rdates) :
       part.rdates[j].kind = "date" => part.from = 0 /\ part.rdates[j].at % Day = 0

\* A listed time of such a part is put in UTC right.
LEMMA RdateIsTold ==
  ASSUME NEW part \in Parts, PlainPart(part), NEW i \in 1..Len(part.rdates)
  PROVE  OfRdate(part, part.rdates[i]) = Change(part, ToldAt(part, part.rdates[i]))
<1>1. PICK r \in Rdates : r = part.rdates[i]
  BY PartType
<1>2. r.at \in Int /\ r.kind \in {"date", "utc", "local"}
  BY DEF Rdates
<1> DEFINE at == CASE r.kind = "date"  -> (r.at \div Day) * Day + (part.start % Day)
                   [] r.kind = "utc"   -> r.at
                   [] r.kind = "local" -> r.at - part.from
<1>3. OfRdate(part, r) = Change(part, at)
  BY Zenon DEF OfRdate
<1>4. CASE r.kind = "date"
  <2>1. part.from = 0 /\ r.at % Day = 0
    BY <1>1, <1>4 DEF PlainPart
  <2>2. PICK d \in Nat \ {0}, a \in Int, s \in Nat : d = Day /\ a = r.at /\ s = part.start
    BY <1>2, LengthsAreNumbers, PartType
  <2>3. a = d * (a \div d) + (a % d) /\ a \div d \in Int
    BY Divided
  <2>8. s % d \in Int
    BY Divided
  <2>4. a % d = 0
    BY <2>1, <2>2
  <2>5. (a \div d) * d = a
    BY <2>3, <2>4
  <2>6. (a \div d) * d + (s % d) = a + (s % d) - 0
    BY <2>3, <2>5, <2>8
  <2>7. at = ToldAt(part, r)
    BY <1>4, <2>1, <2>2, <2>6 DEF ToldAt
  <2> HIDE DEF at
  <2> QED BY <1>1, <1>3, <2>7
<1>5. CASE r.kind # "date"
  <2>1. at = ToldAt(part, r)
    BY <1>2, <1>5 DEF ToldAt
  <2> HIDE DEF at
  <2> QED BY <1>1, <1>3, <2>1
<1> QED BY <1>4, <1>5

\* A change has the time and the offset it was made with.
LEMMA ChangeSays ==
  ASSUME NEW part, NEW at
  PROVE  Change(part, at).at = at /\ Change(part, at).from = part.from
BY DEF Change

\* A listed change is determined by the part and its time.
LEMMA SameChange ==
  ASSUME NEW part \in Parts, NEW r \in Rdates, NEW at, OfRdate(part, r).at = at
  PROVE  OfRdate(part, r) = Change(part, at)
<1> DEFINE told == CASE r.kind = "date"  -> (r.at \div Day) * Day + (part.start % Day)
                     [] r.kind = "utc"   -> r.at
                     [] r.kind = "local" -> r.at - part.from
<1>1. OfRdate(part, r) = Change(part, told)
  BY Zenon DEF OfRdate
<1> HIDE DEF told
<1> QED BY <1>1, ChangeSays

\* What the table has of a plain part is told of it,
LEMMA HadIsTold ==
  ASSUME NEW part \in Parts, PlainPart(part), NEW y \in 0..MaxYear, NEW x, PartHas(part, y, x)
  PROVE  x \in Tells(part)
<1>1. CASE part.rdates = <<>> /\ ~part.yearly
  BY <1>1, TellsCases DEF PartHas
<1>2. ASSUME NEW i \in 1..Len(part.rdates), x = OfRdate(part, part.rdates[i])
      PROVE  x \in Tells(part)
  BY <1>2, RdateIsTold, TellsCases
<1>3. ASSUME part.yearly, NEW m \in Nat, Recurs(part, y, m),
             x = Change(part, part.start + m * Year - part.from)
      PROVE  x \in Tells(part)
  <2>1. YearOf(part.start + m * Year) = YearOf(part.start) + m /\ YearOf(part.start) \in Nat
    <3>1. part.start \in Nat /\ part.start \in Int
      BY PartType
    <3> QED BY <3>1, YearLater, YearType
  <2>2. m \in 0..MaxYear /\ Recurs(part, MaxYear, m)
    BY <1>3, <2>1, CoverageAssumption DEF Recurs
  <2> QED BY <1>3, <2>2, TellsCases
<1> QED BY <1>1, <1>2, <1>3 DEF PartHas

\* and what is told of it up to the year the table ends with is in the table.
LEMMA ToldIsHad ==
  ASSUME NEW part \in Parts, PlainPart(part), NEW y \in 0..MaxYear, NEW x, x \in Tells(part),
         \/ YearOf(x.at + x.from) <= y
         \/ y = MaxYear /\ (part.yearly => YearOf(part.start) <= MaxYear)
  PROVE  PartHas(part, y, x)
<1>0. part.from \in Int /\ part.start \in Nat
  BY PartType
<1>1. CASE x = Change(part, part.start - part.from)
  <2>1. x.at + x.from = part.start
    BY <1>0, <1>1, ChangeSays
  <2>2. CASE part.rdates = <<>> /\ ~part.yearly
    BY <1>1, <2>2 DEF PartHas
  <2>3. CASE part.rdates # <<>> /\ ~part.yearly
    <3>1. PICK j \in 1..Len(part.rdates) :
             OfRdate(part, part.rdates[j]).at = part.start - part.from
      BY <2>3 DEF PlainPart
    <3>2. part.rdates[j] \in Rdates
      BY PartType
    <3>3. OfRdate(part, part.rdates[j]) = x
      BY <1>1, <3>1, <3>2, SameChange
    <3> QED BY <2>3, <3>3 DEF PartHas
  <2>4. CASE part.yearly
    <3>0. PICK m \in Nat, t \in {part.start + 0 * Year} : m = 0 /\ t = part.start + m * Year
      OBVIOUS
    <3>1. t = part.start
      BY <1>0, <3>0, LengthsAreNumbers
    <3>2. Recurs(part, y, m)
      BY <2>1, <2>4, <3>0, <3>1 DEF Recurs, PlainPart
    <3>3. x = Change(part, part.start + m * Year - part.from)
      <4>1. part.start + m * Year - part.from = part.start - part.from
        BY <1>0, <3>0, <3>1, LengthsAreNumbers
      <4> QED BY <1>1, <4>1
    <3> QED BY <2>4, <3>2, <3>3 DEF PartHas
  <2> QED BY <2>2, <2>3, <2>4
<1>2. ASSUME NEW i \in 1..Len(part.rdates), x = Change(part, ToldAt(part, part.rdates[i]))
      PROVE  PartHas(part, y, x)
  <2>1. x = OfRdate(part, part.rdates[i])
    BY <1>2, RdateIsTold
  <2>2. part.rdates # <<>>
    BY PartType
  <2> QED BY <2>1, <2>2 DEF PartHas
<1>3. ASSUME part.yearly, NEW m \in 0..MaxYear, Recurs(part, MaxYear, m),
             x = Change(part, part.start + m * Year - part.from)
      PROVE  PartHas(part, y, x)
  <2>1. PICK t : t = part.start + m * Year
    OBVIOUS
  <2>2. t \in Int
    BY <1>0, <2>1, LengthsAreNumbers
  <2>3. x.at + x.from = t
    <3>1. x = Change(part, t - part.from)
      <4>1. part.start + m * Year - part.from = t - part.from
        BY <1>0, <2>1, LengthsAreNumbers
      <4> QED BY <1>3, <4>1
    <3>2. x.at = t - part.from /\ x.from = part.from
      BY <3>1, ChangeSays
    <3> QED BY <1>0, <2>2, <3>2
  <2>4. Recurs(part, y, m)
    BY <1>3, <2>1, <2>3 DEF Recurs
  <2> QED BY <1>3, <2>4 DEF PartHas
<1> QED BY <1>1, <1>2, <1>3, TellsCases

\* Every part of a plain VTIMEZONE is plain.
LEMMA PlainOfAll ==
  ASSUME NEW v \in Seq(Parts), Plain(v), NEW n \in Nat, n = Len(v)
  PROVE  \A i \in 1..n : PlainPart(v[i])
<1> SUFFICES ASSUME NEW i \in 1..n PROVE PlainPart(v[i])
  OBVIOUS
<1>1. v[i] \in Parts /\ i \in DOMAIN v
  OBVIOUS
<1>2. DOMAIN v[i].rdates = 1..Len(v[i].rdates)
  BY <1>1, PartType
<1> QED BY <1>1, <1>2 DEF Plain, PlainPart

\* What a table of a plain VTIMEZONE is.
Complete(table, v, y) ==
  /\ Range(table) \subseteq ClockOf(v)
  /\ {c \in ClockOf(v) : YearOf(c.at + c.from) <= y} \subseteq Range(table)
  /\ \A i, j \in DOMAIN table : i < j => table[i].at < table[j].at

\* The table of a plain VTIMEZONE is complete.
LEMMA PlainIsComplete ==
  ASSUME NEW v \in Seq(Parts), Plain(v), NEW y \in 0..MaxYear, NEW h, h = ExpandChanges(v, y)
  PROVE  Complete(h, v, y)
<1>0. y \in Nat
  BY CoverageAssumption
<1>1. PICK n \in Nat : n = Len(v)
  OBVIOUS
<1>2. DOMAIN v = 1..n /\ \A i \in 1..n : v[i] \in Parts
  BY <1>1
<1>3. \A i \in 1..n : PlainPart(v[i])
  BY <1>1, PlainOfAll
<1>4. PICK g : g = Gathered(v, y)
  OBVIOUS
<1>5. /\ h \in Seq(Changes) /\ g \in Seq(Changes)
      /\ \A x : Among(x, h, Len(h)) <=> \E i \in 1..n : PartHas(v[i], y, x)
      /\ ApartUpTo(g, Len(g)) => Climb(h)
  BY <1>0, <1>1, <1>4, ExpandedIs
<1>6. Climb(h)
  <2>1. \A i, j \in DOMAIN g : i < j => g[i].at # g[j].at
    BY <1>4 DEF Plain
  <2>2. DOMAIN g = 1..Len(g)
    BY <1>5
  <2> QED BY <1>5, <2>1, <2>2 DEF ApartUpTo
<1>7. PICK m \in Nat : m = Len(h)
  BY <1>5
<1>8. DOMAIN h = 1..m
  BY <1>5, <1>7
<1>9. \A x : x \in Range(h) <=> \E i \in 1..n : PartHas(v[i], y, x)
  <2>1. \A x : x \in Range(h) <=> Among(x, h, m)
    BY <1>8 DEF Range, Among
  <2> QED BY <1>5, <1>7, <2>1
<1>10. \A x : x \in ClockOf(v) <=> \E i \in 1..n : x \in Tells(v[i])
  BY <1>2 DEF ClockOf
<1>11. Range(h) \subseteq ClockOf(v)
  BY <1>2, <1>3, <1>9, <1>10, HadIsTold
<1>12. {c \in ClockOf(v) : YearOf(c.at + c.from) <= y} \subseteq Range(h)
  BY <1>2, <1>3, <1>9, <1>10, ToldIsHad
<1>13. \A i, j \in DOMAIN h : i < j => h[i].at < h[j].at
  BY <1>6, <1>7, <1>8 DEF Climb
<1> QED BY <1>11, <1>12, <1>13 DEF Complete

\* TableIsComplete: of zones whose VTIMEZONEs are plain, whatever is asked and
\* however often a component is replaced.
THEOREM TablesAreComplete == AllPlain /\ Spec => []TableIsComplete
<1> SUFFICES ASSUME AllPlain PROVE Spec => []TableIsComplete
  OBVIOUS
<1>1. ASSUME ZoneInv PROVE TableIsComplete
  <2> SUFFICES ASSUME NEW z \in Names, changes[z] # NoTable
               PROVE  Complete(changes[z], component[z], endYear[z])
    BY DEF TableIsComplete, Complete, Clock
  <2>1. component[z] \in Seq(Parts) /\ Plain(component[z]) /\ endYear[z] \in 0..MaxYear
    BY <1>1 DEF AllPlain, ZoneInv
  <2>2. changes[z] = ExpandChanges(component[z], endYear[z])
    BY <1>1 DEF ZoneInv, Kept
  <2> QED BY <2>1, <2>2, PlainIsComplete
<1> QED BY <1>1, ZoneHolds, PTL

----------------------------------------------------------------------------
(* The clock of a zone.                                                    *)

\* Changes by a clock, no two of them at the same time.
Clocks(cs) == cs \subseteq Changes /\ C!Orderly(cs)

\* The fields of the changes of a clock.
LEMMA ClockFields ==
  ASSUME NEW cs, Clocks(cs), NEW c \in cs
  PROVE  c.at \in Int /\ c.to \in Int /\ c.from \in Int /\ c.daylight \in BOOLEAN
BY DEF Clocks, Changes

\* c is the last of the changes that has come at u.
Rules(cs, u, c) == c \in cs /\ c.at <= u /\ \A d \in cs : d.at <= u => d.at <= c.at

\* The clock of a moment is the one of the change that rules it,
LEMMA RulingClock ==
  ASSUME NEW cs, Clocks(cs), NEW u \in Int, NEW c, Rules(cs, u, c)
  PROVE  C!OffsetAt(cs, u) = c.to /\ C!DaylightAt(cs, u) = c.daylight /\ C!Wall(cs, u) = u + c.to
<1>1. PICK s : s = C!Started(cs, u)
  OBVIOUS
<1>2. c \in s /\ \A d \in s : d \in cs /\ d.at <= u
  BY <1>1 DEF C!Started, Rules
<1>3. C!Latest(s) = c
  <2>1. \A d \in s : d.at <= c.at
    BY <1>2 DEF Rules
  <2>2. ASSUME NEW x \in s, \A d \in s : d.at <= x.at PROVE x = c
    <3>1. x.at <= c.at /\ c.at <= x.at
      BY <1>2, <2>1, <2>2
    <3>2. x.at \in Int /\ c.at \in Int
      BY <1>2, ClockFields
    <3>3. x.at = c.at
      BY <3>1, <3>2
    <3> QED BY <1>2, <3>3 DEF Clocks, C!Orderly
  <2>3. PICK x : x = C!Latest(s)
    OBVIOUS
  <2>4. x \in s /\ \A d \in s : d.at <= x.at
    BY <1>2, <2>1, <2>3 DEF C!Latest
  <2> QED BY <2>2, <2>3, <2>4
<1>4. c.daylight \in BOOLEAN /\ s # {}
  BY <1>2, ClockFields DEF Rules
<1>5. C!OffsetAt(cs, u) = c.to
  BY <1>1, <1>3, <1>4 DEF C!OffsetAt
<1>6. C!DaylightAt(cs, u) <=> c.daylight
  BY <1>1, <1>3, <1>4 DEF C!DaylightAt
<1>7. C!DaylightAt(cs, u) \in BOOLEAN
  BY Zenon DEF C!DaylightAt
<1> QED BY <1>4, <1>5, <1>6, <1>7 DEF C!Wall

\* No change has come at u.
Unruled(cs, u) == \A c \in cs : u < c.at

\* and UTC if there is none.
LEMMA UnruledClock ==
  ASSUME NEW cs, NEW u \in Int, Clocks(cs), Unruled(cs, u)
  PROVE  C!OffsetAt(cs, u) = 0 /\ C!DaylightAt(cs, u) = FALSE /\ C!Wall(cs, u) = u
<1>1. C!Started(cs, u) = {}
  BY ClockFields DEF C!Started, Unruled
<1>2. C!DaylightAt(cs, u) = FALSE
  BY <1>1 DEF C!DaylightAt
<1> QED BY <1>1, <1>2 DEF C!OffsetAt, C!Wall

\* Of any changes there is one that comes first.
LEMMA FirstOfSome ==
  ASSUME NEW cs, cs \subseteq Changes, NEW low \in Int, cs # {}, \A c \in cs : low <= c.at
  PROVE  \E c \in cs : \A d \in cs : c.at <= d.at
<1>1. \A c \in cs : c.at \in Int
  BY DEF Changes
<1> DEFINE T == {c.at - low : c \in cs}
<1>2. T \in SUBSET Nat /\ T # {}
  <2>1. \A c \in cs : c.at - low \in Nat
    BY <1>1
  <2>2. \E c \in cs : c.at - low \in T
    OBVIOUS
  <2> QED BY <2>1, <2>2
<1>3. PICK x \in T : \A y \in T : x <= y
  BY <1>2, LeastNumber
<1>4. PICK c \in cs : x = c.at - low
  BY <1>3
<1>5. ASSUME NEW d \in cs PROVE c.at <= d.at
  <2>1. d.at - low \in T
    OBVIOUS
  <2>2. c.at - low <= d.at - low
    BY <1>3, <1>4, <2>1
  <2> QED BY <1>1, <2>2
<1> QED BY <1>5

\* Before a change there is the one that comes next after another, with the offset
\* that one leaves.
LEMMA NextOf ==
  ASSUME NEW cs, Clocks(cs), NEW c \in cs, NEW d \in cs, c.at < d.at
  PROVE  \E e \in cs : c.at < e.at /\ e.at <= d.at /\ e.from = c.to
<1> DEFINE later == {e \in cs : c.at < e.at}
<1>1. later \subseteq Changes /\ later # {} /\ d \in later
  BY DEF Clocks
<1>2. \A e \in cs : e.at \in Int
  BY ClockFields
<1>3. \A e \in later : c.at <= e.at
  BY <1>2
<1>4. PICK e \in later : \A f \in later : e.at <= f.at
  <2> HIDE DEF later
  <2> QED BY <1>1, <1>2, <1>3, FirstOfSome
<1>5. \A f \in cs : f.at <= c.at \/ e.at <= f.at
  BY <1>2, <1>4
<1>6. e.from = c.to
  BY <1>4, <1>5 DEF Clocks, C!Orderly
<1> QED BY <1>1, <1>4, <1>6

\* At every moment there is one that rules, or none has come.
LEMMA RuledOrNot ==
  ASSUME NEW cs, Clocks(cs), NEW u \in Int
  PROVE  Unruled(cs, u) \/ \E c \in cs : Rules(cs, u, c)
<1> DEFINE S == {c \in cs : c.at <= u}
           T == {u - c.at : c \in S}
<1>1. \A c \in cs : c.at \in Int
  BY ClockFields
<1>2. CASE S = {}
  BY <1>1, <1>2 DEF Unruled
<1>3. CASE S # {}
  <2>1. T \in SUBSET Nat /\ T # {}
    <3>1. \A c \in S : u - c.at \in Nat
      BY <1>1
    <3>2. \E c \in S : u - c.at \in T
      BY <1>3
    <3> QED BY <3>1, <3>2
  <2>2. PICK x \in T : \A y \in T : x <= y
    BY <2>1, LeastNumber
  <2>3. PICK c \in S : x = u - c.at
    BY <2>2
  <2>4. ASSUME NEW d \in cs, d.at <= u PROVE d.at <= c.at
    <3>1. d \in S
      BY <2>4
    <3>2. u - d.at \in T
      BY <3>1
    <3>3. u - c.at <= u - d.at
      BY <2>2, <2>3, <3>2
    <3> QED BY <1>1, <3>3
  <2>5. Rules(cs, u, c)
    BY <2>4 DEF Rules
  <2> QED BY <2>5
<1> QED BY <1>2, <1>3

----------------------------------------------------------------------------
(* Looking up a moment.                                                    *)

\* A table of some of the changes of a clock, in order.
TableOn(h, cs) ==
  /\ h \in Seq(Changes) /\ Clocks(cs)
  /\ \A i \in 1..Len(h) : h[i] \in cs
  /\ \A i, j \in 1..Len(h) : i < j => h[i].at < h[j].at

\* What is answered with the place of a change.
LEMMA AnswerSays ==
  ASSUME NEW h, NEW k \in Nat
  PROVE  /\ Answer(h, -1).offset = 0 /\ Answer(h, -1).daylight = FALSE
         /\ Answer(h, k).offset = h[k + 1].to /\ Answer(h, k).daylight = h[k + 1].daylight
<1>1. Answer(h, -1) = [offset |-> 0, daylight |-> FALSE]
  BY DEF Answer
<1>2. Answer(h, k) = [offset |-> h[k + 1].to, daylight |-> h[k + 1].daylight]
  <2>1. k # -1
    OBVIOUS
  <2> QED BY <2>1, Zenon DEF Answer
<1> QED BY <1>1, <1>2

\* A table that has all that has come at a moment tells the clock of it.
LEMMA UtcIsTold ==
  ASSUME NEW h, NEW cs, TableOn(h, cs), NEW u \in Int,
         \A c \in cs : c.at <= u => \E i \in 1..Len(h) : c = h[i]
  PROVE  /\ OfUtc(h, u).offset = C!OffsetAt(cs, u)
         /\ OfUtc(h, u).daylight = C!DaylightAt(cs, u)
<1>0. PICK n \in Nat : n = Len(h)
  BY DEF TableOn
<1>1. h \in Seq(Changes) /\ Clocks(cs) /\ \A i \in 1..n : h[i] \in cs /\ h[i].at \in Int
  BY <1>0, ClockFields DEF TableOn
<1>2. PICK near : near = Nearby(h, u)
  OBVIOUS
<1>3. near \in 0..n /\ (n > 0 => near < n)
  BY <1>0, <1>1, <1>2, NearbyInTable
<1>4. PICK since : since = Comes(h)
  OBVIOUS
<1>5. /\ Len(since) = n
      /\ \A i \in 1..n : since[i] = h[i].at /\ since[i] \in Int
  <2>1. DOMAIN h = 1..n
    BY <1>0, <1>1
  <2> QED BY <1>1, <1>4, <2>1 DEF Comes
<1>6. \A i, j \in 1..n : i < j => since[i] <= since[j]
  <2>1. \A i, j \in 1..n : i < j => h[i].at < h[j].at
    BY <1>0 DEF TableOn
  <2> QED BY <1>1, <1>5, <2>1
<1>7. PICK k : k = Step(since, u, near)
  OBVIOUS
<1>8. IsLast(since, u, n, k)
  <2>1. \A i \in 1..n : since[i] \in Int
    BY <1>5
  <2> QED BY <1>3, <1>5, <1>6, <1>7, <2>1, StepIsLast
<1>9. OfUtc(h, u) = Answer(h, k)
  BY <1>2, <1>4, <1>7 DEF OfUtc
<1>10. CASE k = -1
  <2>1. \A i \in 1..n : u < h[i].at
    BY <1>5, <1>8, <1>10 DEF IsLast
  <2>2. Unruled(cs, u)
    <3> SUFFICES ASSUME NEW c \in cs, ~(u < c.at) PROVE FALSE
      BY DEF Unruled
    <3>1. c.at <= u
      BY <1>1, ClockFields
    <3>2. PICK i \in 1..n : c = h[i]
      BY <1>0, <3>1
    <3> QED BY <2>1, <3>2
  <2> QED BY <1>1, <1>9, <1>10, <2>2, UnruledClock, AnswerSays
<1>11. CASE k # -1
  <2>1. k \in Nat /\ k + 1 \in 1..n /\ h[k + 1].at <= u
        /\ \A i \in 1..n : i >= k + 2 => u < h[i].at
    BY <1>5, <1>8, <1>11 DEF IsLast
  <2>2. PICK c : c = h[k + 1]
    OBVIOUS
  <2>3. ASSUME NEW d \in cs, d.at <= u PROVE d.at <= c.at
    <3>1. PICK i \in 1..n : d = h[i]
      BY <1>0, <2>3
    <3>2. h[i].at \in Int
      BY <1>1
    <3>3. i < k + 1 \/ i = k + 1
      BY <2>1, <2>3, <3>1, <3>2
    <3>4. i < k + 1 => h[i].at <= h[k + 1].at
      BY <1>5, <1>6, <2>1
    <3>5. h[k + 1].at \in Int
      BY <1>1, <2>1
    <3> QED BY <2>2, <3>1, <3>3, <3>4, <3>5
  <2>4. Rules(cs, u, c)
    BY <1>1, <2>1, <2>2, <2>3 DEF Rules
  <2>5. C!OffsetAt(cs, u) = c.to /\ C!DaylightAt(cs, u) = c.daylight
    BY <1>1, <2>4, RulingClock
  <2>6. Answer(h, k).offset = c.to /\ Answer(h, k).daylight = c.daylight
    BY <2>1, <2>2, AnswerSays
  <2> QED BY <1>9, <2>5, <2>6
<1> QED BY <1>10, <1>11

----------------------------------------------------------------------------
(* Looking up what a clock shows.                                          *)

\* A change by the clock is so by the one after it or the one before it.
LEMMA OnWallIs ==
  ASSUME NEW cs, Clocks(cs), NEW c \in cs
  PROVE  /\ OnWall(c) \in Int /\ OnWall(c) <= c.at + c.to /\ OnWall(c) <= c.at + c.from
         /\ OnWall(c) = c.at + c.to \/ OnWall(c) = c.at + c.from
         /\ OnWall(c) = c.at + c.to \/ c.from <= c.to
BY ClockFields DEF OnWall

\* Every clock has passed a change before the next comes.
LEMMA Spaced ==
  ASSUME NEW cs, Clocks(cs), NEW c \in cs, NEW d \in cs, c.at < d.at
  PROVE  /\ c.at + c.to <= OnWall(d) /\ c.at + c.from <= OnWall(d)
         /\ OnWall(c) <= OnWall(d)
<1>1. \A o \in {c.to, c.from}, p \in {d.to, d.from} : c.at + o <= d.at + p
  BY DEF Clocks, C!Orderly
<1>2. c.at + c.to <= OnWall(d) /\ c.at + c.from <= OnWall(d)
  BY <1>1, OnWallIs
<1>3. OnWall(c) \in Int /\ OnWall(d) \in Int /\ OnWall(c) <= c.at + c.to /\ c.at + c.to \in Int
  BY OnWallIs, ClockFields
<1> QED BY <1>2, <1>3

\* c is the last change a clock that shows w may have passed.
Turns(cs, w, c) ==
  /\ c \in cs /\ OnWall(c) <= w
  /\ \A d \in cs : c.at < d.at => w < OnWall(d)

\* The clock of a moment that shows w is the one of that change or of the one just
\* before it, and then the hour is shown again.
LEMMA ShownAfter ==
  ASSUME NEW cs, Clocks(cs), NEW w \in Int, NEW c, Turns(cs, w, c),
         NEW f \in cs, f.at <= w, NEW x \in Int, C!Wall(cs, x) = w
  PROVE  \E e \in cs :
           /\ Rules(cs, x, e) /\ w = x + e.to
           /\ \/ e = c
              \/ /\ e.at < c.at /\ w < c.at + c.from
                 /\ \A d \in cs : d.at <= e.at \/ c.at <= d.at
<1>1. c \in cs /\ c.at \in Int /\ c.to \in Int /\ c.from \in Int
  BY ClockFields DEF Turns
<1>2. ~Unruled(cs, x)
  <2> SUFFICES ASSUME Unruled(cs, x) PROVE FALSE
    OBVIOUS
  <2>1. x = w
    BY UnruledClock
  <2>2. x < f.at /\ f.at \in Int
    BY ClockFields DEF Unruled
  <2> QED BY <2>1, <2>2
<1>3. PICK e \in cs : Rules(cs, x, e)
  BY <1>2, RuledOrNot
<1>4. e.at \in Int /\ e.to \in Int /\ e.from \in Int
  BY ClockFields
<1>5. w = x + e.to /\ e.at <= x
  BY <1>3, RulingClock DEF Rules
<1>6. OnWall(e) \in Int /\ OnWall(e) <= e.at + e.to
  BY OnWallIs
<1>7. OnWall(e) <= w
  BY <1>4, <1>5, <1>6
<1>8. e.at <= c.at
  BY <1>1, <1>4, <1>6, <1>7 DEF Turns
<1>9. CASE e.at = c.at
  <2>1. e = c
    BY <1>1, <1>9 DEF Clocks, C!Orderly
  <2> QED BY <1>3, <1>5, <2>1
<1>10. CASE e.at # c.at
  <2>1. e.at < c.at
    BY <1>1, <1>4, <1>8, <1>10
  <2>2. ASSUME NEW d \in cs, e.at < d.at
        PROVE  \E g \in cs : e.at < g.at /\ g.at <= d.at /\ w < g.at + g.from
    <3>1. PICK g \in cs : e.at < g.at /\ g.at <= d.at /\ g.from = e.to
      BY <2>2, NextOf
    <3>2. g.at \in Int
      BY ClockFields
    <3>3. ~(g.at <= x)
      BY <1>3, <1>4, <3>1, <3>2 DEF Rules
    <3> QED BY <1>4, <1>5, <3>1, <3>2, <3>3
  <2>3. OnWall(c) \in Int /\ OnWall(c) <= w
    BY <1>1, OnWallIs DEF Turns
  <2>4. ASSUME NEW g \in cs, g.at < c.at, w < g.at + g.from PROVE FALSE
    <3>1. g.at + g.from <= OnWall(c) /\ g.at + g.from \in Int
      BY <1>1, <2>4, Spaced, ClockFields
    <3> QED BY <2>3, <2>4, <3>1
  <2>5. w < c.at + c.from
    <3>1. PICK g \in cs : e.at < g.at /\ g.at <= c.at /\ w < g.at + g.from
      BY <1>1, <2>1, <2>2
    <3>2. g.at = c.at
      BY <1>1, <2>4, <3>1, ClockFields
    <3>3. g = c
      BY <1>1, <3>2 DEF Clocks, C!Orderly
    <3> QED BY <3>1, <3>3
  <2>6. ASSUME NEW d \in cs, ~(d.at <= e.at), ~(c.at <= d.at) PROVE FALSE
    <3>1. d.at \in Int
      BY ClockFields
    <3>2. e.at < d.at /\ d.at < c.at
      BY <1>1, <1>4, <2>6, <3>1
    <3>3. PICK g \in cs : e.at < g.at /\ g.at <= d.at /\ w < g.at + g.from
      BY <2>2, <3>2
    <3>4. g.at < c.at
      BY <1>1, <3>1, <3>2, <3>3, ClockFields
    <3> QED BY <2>4, <3>3, <3>4
  <2> QED BY <1>3, <1>5, <2>1, <2>5, <2>6
<1> QED BY <1>9, <1>10

\* What is shown is not in an hour that is skipped.
LEMMA NotSkipped ==
  ASSUME NEW cs, Clocks(cs), NEW w \in Int, NEW c, Turns(cs, w, c),
         NEW f \in cs, f.at <= w, NEW x \in Int, C!Wall(cs, x) = w
  PROVE  c.at + c.to <= w
<1>1. c \in cs /\ c.at \in Int /\ c.to \in Int /\ c.from \in Int
  BY ClockFields DEF Turns
<1>2. PICK e \in cs : /\ Rules(cs, x, e) /\ w = x + e.to
                      /\ e = c \/ (e.at < c.at /\ w < c.at + c.from)
  BY ShownAfter
<1>3. CASE e = c
  BY <1>1, <1>2, <1>3 DEF Rules
<1>4. CASE w < c.at + c.from
  <2>1. OnWall(c) \in Int /\ OnWall(c) <= w
    BY <1>1, OnWallIs DEF Turns
  <2>2. OnWall(c) = c.at + c.to \/ OnWall(c) = c.at + c.from
    BY <1>1, OnWallIs
  <2> QED BY <1>1, <1>4, <2>1, <2>2
<1> QED BY <1>2, <1>3, <1>4

\* The moment by the offset of that change is one it rules.
LEMMA LaterMoment ==
  ASSUME NEW cs, Clocks(cs), NEW w \in Int, NEW c, Turns(cs, w, c), c.at + c.to <= w
  PROVE  Rules(cs, w - c.to, c)
<1>1. c \in cs /\ c.at \in Int /\ c.to \in Int
  BY ClockFields DEF Turns
<1>2. ASSUME NEW d \in cs, d.at <= w - c.to PROVE d.at <= c.at
  <2> SUFFICES ASSUME ~(d.at <= c.at) PROVE FALSE
    OBVIOUS
  <2>1. d.at \in Int
    BY ClockFields
  <2>2. PICK e \in cs : c.at < e.at /\ e.at <= d.at /\ e.from = c.to
    BY <1>1, <2>1, NextOf
  <2>3. w < OnWall(e) /\ OnWall(e) \in Int /\ OnWall(e) <= e.at + e.from
    BY <2>2, OnWallIs DEF Turns
  <2>4. e.at \in Int
    BY ClockFields
  <2> QED BY <1>1, <1>2, <2>1, <2>2, <2>3, <2>4
<1> QED BY <1>1, <1>2 DEF Rules

\* So is the moment by the offset of the change before, if the hour is shown twice.
LEMMA EarlierMoment ==
  ASSUME NEW cs, Clocks(cs), NEW w \in Int, NEW c, Turns(cs, w, c), w < c.at + c.from,
         NEW p \in cs, p.at < c.at, \A d \in cs : d.at <= p.at \/ c.at <= d.at
  PROVE  Rules(cs, w - p.to, p)
<1>1. c \in cs /\ c.at \in Int /\ c.from \in Int /\ p.at \in Int /\ p.to \in Int
  BY ClockFields DEF Turns
<1>2. c.from = p.to
  BY <1>1 DEF Clocks, C!Orderly
<1>3. OnWall(c) \in Int /\ OnWall(c) <= w
  BY <1>1, OnWallIs DEF Turns
<1>4. p.at + p.to <= OnWall(c)
  BY <1>1, Spaced
<1>5. p.at <= w - p.to /\ w - p.to < c.at
  BY <1>1, <1>2, <1>3, <1>4
<1>6. ASSUME NEW d \in cs, d.at <= w - p.to PROVE d.at <= p.at
  <2>1. d.at \in Int
    BY ClockFields
  <2> QED BY <1>1, <1>5, <1>6, <2>1
<1> QED BY <1>5, <1>6 DEF Rules

\* u is a moment at which the clock shows w, with the setting of daylight if there
\* is one with it.
Fits(cs, w, daylight, u) ==
  /\ u \in C!Showing(cs, w)
  /\ \/ C!DaylightAt(cs, u) = daylight
     \/ \A x \in C!Showing(cs, w) : C!DaylightAt(cs, x) # daylight

\* The moments at which a clock shows w.
LEMMA ShowingIs ==
  ASSUME NEW cs, Clocks(cs), NEW w \in Int
  PROVE  /\ \A x \in C!Showing(cs, w) : x \in Int /\ C!Wall(cs, x) = w
         /\ \A c \in cs : C!Wall(cs, w - c.to) = w => w - c.to \in C!Showing(cs, w)
         /\ C!Wall(cs, w) = w => w \in C!Showing(cs, w)
<1> DEFINE O == {0} \cup {c.to : c \in cs}
<1>1. \A o \in O : o \in Int
  BY ClockFields
<1>2. \A c \in cs : c.to \in O
  OBVIOUS
<1>3. 0 \in O
  OBVIOUS
<1>4. C!Showing(cs, w) = {u \in {w - o : o \in O} : C!Wall(cs, u) = w}
  BY DEF C!Showing
<1> HIDE DEF O
<1>5. w - 0 = w
  OBVIOUS
<1>6. \A x \in C!Showing(cs, w) : x \in Int /\ C!Wall(cs, x) = w
  BY <1>1, <1>4
<1>7. \A c \in cs : C!Wall(cs, w - c.to) = w => w - c.to \in C!Showing(cs, w)
  BY <1>2, <1>4
<1>8. C!Wall(cs, w) = w => w \in C!Showing(cs, w)
  <2>1. w \in {w - o : o \in O}
    BY <1>3, <1>5
  <2> QED BY <1>4, <2>1
<1> QED BY <1>6, <1>7, <1>8

\* There are no changes, or one is the first.
Begins(cs) == cs = {} \/ \E f \in cs : \A d \in cs : f.at <= d.at

\* The first of the changes is the one that is chosen.
LEMMA FirstIs ==
  ASSUME NEW cs, Clocks(cs), NEW f \in cs, \A d \in cs : f.at <= d.at
  PROVE  C!First(cs) = f
<1>1. PICK g : g = C!First(cs)
  OBVIOUS
<1>2. g \in cs /\ \A d \in cs : g.at <= d.at
  BY <1>1 DEF C!First
<1>3. f.at \in Int /\ g.at \in Int
  BY <1>2, ClockFields
<1>4. f.at = g.at
  BY <1>2, <1>3
<1> QED BY <1>1, <1>2, <1>4 DEF Clocks, C!Orderly

\* A clock that has passed no change shows the time in UTC.
LEMMA NothingPassed ==
  ASSUME NEW cs, Clocks(cs), Begins(cs), NEW w \in Int, NEW daylight \in BOOLEAN,
         C!Told(cs, w), \A c \in cs : w < OnWall(c)
  PROVE  Fits(cs, w, daylight, w)
<1>1. Unruled(cs, w)
  <2>1. CASE cs = {}
    BY <2>1 DEF Unruled
  <2>2. CASE cs # {}
    <3>1. PICK f \in cs : \A d \in cs : f.at <= d.at
      BY <2>2 DEF Begins
    <3>2. f.at \in Int /\ f.to \in Int /\ f.from \in Int
      BY ClockFields
    <3>3. w < OnWall(f) /\ OnWall(f) \in Int /\ OnWall(f) <= f.at + f.to
      BY OnWallIs
    <3>4. ~(w >= f.at + f.to)
      BY <3>2, <3>3
    <3>5. w < f.at + 0
      BY <3>1, <3>4, FirstIs DEF C!Told
    <3> SUFFICES ASSUME NEW d \in cs PROVE w < d.at
      BY DEF Unruled
    <3> QED BY <3>1, <3>2, <3>5, ClockFields
  <2> QED BY <2>1, <2>2
<1>2. C!Wall(cs, w) = w /\ C!DaylightAt(cs, w) = FALSE
  BY <1>1, UnruledClock
<1>3. w \in C!Showing(cs, w)
  BY <1>2, ShowingIs
<1>4. ASSUME NEW x \in C!Showing(cs, w) PROVE C!DaylightAt(cs, x) = FALSE
  <2>1. x \in Int /\ C!Wall(cs, x) = w
    BY ShowingIs
  <2>2. Unruled(cs, x)
    <3> SUFFICES ASSUME ~Unruled(cs, x) PROVE FALSE
      OBVIOUS
    <3>1. PICK e \in cs : Rules(cs, x, e)
      BY <2>1, RuledOrNot
    <3>2. w = x + e.to /\ e.at <= x
      BY <2>1, <3>1, RulingClock DEF Rules
    <3>3. w < OnWall(e) /\ OnWall(e) \in Int /\ OnWall(e) <= e.at + e.to
      BY OnWallIs
    <3> QED BY <2>1, <3>2, <3>3, ClockFields
  <2> QED BY <2>1, <2>2, UnruledClock
<1> QED BY <1>2, <1>3, <1>4 DEF Fits

\* The clock has passed a change: then it shows w after the first one.
LEMMA FirstPassed ==
  ASSUME NEW cs, Clocks(cs), Begins(cs), NEW w \in Int, C!Told(cs, w),
         NEW c \in cs, OnWall(c) <= w
  PROVE  \E f \in cs : f.at <= w
<1>1. PICK f \in cs : \A d \in cs : f.at <= d.at
  BY DEF Begins
<1>2. f.at \in Int /\ c.at \in Int
  BY ClockFields
<1>3. OnWall(f) \in Int /\ OnWall(c) \in Int
  BY OnWallIs
<1>4. OnWall(f) <= OnWall(c)
  <2>1. CASE f.at < c.at
    BY <2>1, Spaced
  <2>2. CASE f.at = c.at
    BY <1>3, <2>2 DEF Clocks, C!Orderly
  <2> QED BY <1>1, <1>2, <2>1, <2>2
<1>5. OnWall(f) <= w
  BY <1>3, <1>4
<1>6. OnWall(f) = f.at + f.to \/ OnWall(f) = f.at + f.from
  BY OnWallIs
<1>7. ~(w < f.at + f.to) \/ ~(w < f.at + f.from)
  BY <1>3, <1>5, <1>6
<1>8. w >= f.at + 0
  BY <1>1, <1>7, FirstIs DEF C!Told
<1> QED BY <1>2, <1>8

\* What is shown at w is shown again after change k, the last one passed.
Again(h, w, k) == k > 0 /\ h[k + 1].to < h[k + 1].from /\ w < h[k + 1].at + h[k + 1].from

\* What OfLocal answers with when the search ends at change k.
LEMMA LocalAnswer ==
  ASSUME NEW h, NEW w, NEW daylight, NEW k, k = Step(Shows(h), w, Nearby(h, w))
  PROVE  OfLocal(h, w, daylight) =
           IF Again(h, w, k) /\ h[k + 1].daylight # daylight /\ h[k].daylight = daylight
           THEN Answer(h, k - 1) ELSE Answer(h, k)
BY DEF OfLocal, Again

\* A table that has all that a clock which shows w may have passed, answers with an
\* offset of a moment that fits.
LEMMA LocalFits ==
  ASSUME NEW h, NEW cs, TableOn(h, cs), Begins(cs), NEW w \in Int, NEW daylight \in BOOLEAN,
         C!Told(cs, w), C!Showing(cs, w) # {},
         \A c \in cs : OnWall(c) <= w => \E i \in 1..Len(h) : c = h[i]
  PROVE  Fits(cs, w, daylight, w - OfLocal(h, w, daylight).offset)
<1>0. PICK n \in Nat : n = Len(h)
  BY DEF TableOn
<1>1. /\ h \in Seq(Changes) /\ Clocks(cs)
      /\ \A i \in 1..n : h[i] \in cs /\ h[i].at \in Int
      /\ \A i, j \in 1..n : i < j => h[i].at < h[j].at
  BY <1>0, ClockFields DEF TableOn
<1>2. PICK near : near = Nearby(h, w)
  OBVIOUS
<1>3. near \in 0..n /\ (n > 0 => near < n)
  BY <1>0, <1>1, <1>2, NearbyInTable
<1>4. PICK since : since = Shows(h)
  OBVIOUS
<1>5. /\ Len(since) = n
      /\ \A i \in 1..n : since[i] = OnWall(h[i]) /\ since[i] \in Int
  <2>1. DOMAIN h = 1..n
    BY <1>0, <1>1
  <2>2. \A i \in 1..n : OnWall(h[i]) \in Int
    BY <1>1, OnWallIs
  <2> QED BY <1>4, <2>1, <2>2 DEF Shows
<1>6. ASSUME NEW i \in 1..n, NEW j \in 1..n, i < j PROVE since[i] <= since[j]
  <2>1. h[i] \in cs /\ h[j] \in cs /\ h[i].at < h[j].at
    BY <1>1, <1>6
  <2> QED BY <1>1, <1>5, <2>1, Spaced
<1>7. PICK k : k = Step(since, w, near)
  OBVIOUS
<1>8. IsLast(since, w, n, k)
  <2>1. \A i \in 1..n : since[i] \in Int
    BY <1>5
  <2>2. \A i, j \in 1..n : i < j => since[i] <= since[j]
    BY <1>6
  <2> QED BY <1>3, <1>5, <1>7, <2>1, <2>2, StepIsLast
<1>9. PICK r : r = OfLocal(h, w, daylight)
  OBVIOUS
<1>10. PICK twice : twice = Again(h, w, k)
  OBVIOUS
<1>11. r = IF twice /\ h[k + 1].daylight # daylight /\ h[k].daylight = daylight
           THEN Answer(h, k - 1) ELSE Answer(h, k)
  BY <1>2, <1>4, <1>7, <1>9, <1>10, LocalAnswer
<1>12. CASE k = -1
  <2>1. \A i \in 1..n : w < OnWall(h[i])
    BY <1>5, <1>8, <1>12 DEF IsLast
  <2>2. ASSUME NEW c \in cs, ~(w < OnWall(c)) PROVE FALSE
    <3>1. OnWall(c) \in Int
      BY <1>1, OnWallIs
    <3>2. OnWall(c) <= w
      BY <2>2, <3>1
    <3>3. PICK i \in 1..n : c = h[i]
      BY <1>0, <3>2
    <3> QED BY <2>1, <2>2, <3>3
  <2>3. Fits(cs, w, daylight, w)
    BY <1>1, <2>2, NothingPassed
  <2>4. ~twice
    <3>1. ~Again(h, w, k)
      BY <1>12 DEF Again
    <3> QED BY <1>10, <3>1, Zenon
  <2>5. r.offset = 0
    BY <1>11, <1>12, <2>4, AnswerSays
  <2>6. w - r.offset = w
    BY <2>5
  <2> QED BY <1>9, <2>3, <2>6
<1>13. CASE k # -1
  <2>1. k \in Nat /\ k + 1 \in 1..n /\ OnWall(h[k + 1]) <= w
        /\ \A i \in 1..n : i >= k + 2 => w < OnWall(h[i])
    BY <1>5, <1>8, <1>13 DEF IsLast
  <2>2. PICK c : c = h[k + 1]
    OBVIOUS
  <2>3. c \in cs /\ OnWall(c) <= w
    BY <1>1, <2>1, <2>2
  <2>4. c.at \in Int /\ c.to \in Int /\ c.from \in Int /\ c.daylight \in BOOLEAN
    BY <1>1, <2>3, ClockFields
  <2>5. Turns(cs, w, c)
    <3> SUFFICES ASSUME NEW d \in cs, c.at < d.at, ~(w < OnWall(d)) PROVE FALSE
      BY <2>3 DEF Turns
    <3>1. OnWall(d) \in Int
      BY <1>1, OnWallIs
    <3>2. PICK i \in 1..n : d = h[i]
      BY <1>0, <3>1
    <3>3. k + 1 < i
      <4>1. i < k + 1 => h[i].at < h[k + 1].at
        BY <1>1, <2>1
      <4>2. h[i].at \in Int
        BY <1>1
      <4> QED BY <2>1, <2>2, <2>4, <3>2, <4>1, <4>2
    <3> QED BY <2>1, <3>2, <3>3
  <2>6. PICK f \in cs : f.at <= w
    BY <1>1, <2>3, FirstPassed
  <2>7. \A x \in C!Showing(cs, w) : x \in Int /\ C!Wall(cs, x) = w
    BY <1>1, ShowingIs
  <2>8. c.at + c.to <= w
    BY <1>1, <2>5, <2>6, <2>7, NotSkipped
  <2>9. /\ w - c.to \in C!Showing(cs, w)
        /\ C!DaylightAt(cs, w - c.to) = c.daylight
    <3>1. w - c.to \in Int /\ Rules(cs, w - c.to, c)
      BY <1>1, <2>4, <2>5, <2>8, LaterMoment
    <3>2. PICK u \in Int : u = w - c.to
      BY <3>1
    <3>3. C!Wall(cs, u) = u + c.to /\ C!DaylightAt(cs, u) = c.daylight
      BY <1>1, <3>1, <3>2, RulingClock
    <3>4. C!Wall(cs, u) = w
      BY <2>4, <3>2, <3>3
    <3> QED BY <1>1, <2>3, <3>2, <3>3, <3>4, ShowingIs
  \* The change before c, if the hour is shown twice.
  <2>10. ASSUME k > 0, w < c.at + c.from
         PROVE  /\ h[k] \in cs /\ h[k].at < c.at
                /\ \A d \in cs : d.at <= h[k].at \/ c.at <= d.at
    <3>1. k \in 1..n /\ k < k + 1
      BY <2>1, <2>10
    <3>2. h[k] \in cs /\ h[k].at < c.at /\ h[k].at \in Int
      BY <1>1, <2>1, <2>2, <3>1
    <3>3. ASSUME NEW d \in cs, ~(d.at <= h[k].at), ~(c.at <= d.at) PROVE FALSE
      <4>1. d.at \in Int
        BY <1>1, ClockFields
      <4>2. d.at < c.at /\ h[k].at < d.at
        BY <2>4, <3>2, <3>3, <4>1
      <4>3. OnWall(d) <= OnWall(c) /\ OnWall(d) \in Int /\ OnWall(c) \in Int
        BY <1>1, <2>3, <4>2, Spaced, OnWallIs
      <4>4. PICK i \in 1..n : d = h[i]
        BY <1>0, <2>3, <4>3
      <4>5. i < k => h[i].at < h[k].at
        BY <1>1, <3>1
      <4>6. k + 1 < i => h[k + 1].at < h[i].at
        BY <1>1, <2>1
      <4>7. ~(i < k) /\ ~(k + 1 < i)
        BY <2>2, <2>4, <3>2, <4>1, <4>2, <4>4, <4>5, <4>6
      <4>8. i = k \/ i = k + 1
        BY <2>1, <4>7
      <4> QED BY <2>2, <2>4, <3>2, <4>1, <4>2, <4>4, <4>8
    <3> QED BY <3>2, <3>3
  <2>11. CASE twice /\ h[k + 1].daylight # daylight /\ h[k].daylight = daylight
    <3>1. k > 0 /\ c.to < c.from /\ w < c.at + c.from
      BY <1>10, <2>2, <2>11 DEF Again
    <3>2. PICK p \in cs : p = h[k] /\ p.at < c.at /\ \A d \in cs : d.at <= p.at \/ c.at <= d.at
      BY <2>10, <3>1
    <3>3. Rules(cs, w - p.to, p)
      BY <1>1, <2>5, <3>1, <3>2, EarlierMoment
    <3>4. PICK u \in Int : u = w - p.to
      BY <1>1, <3>2, ClockFields
    <3>5. C!Wall(cs, u) = u + p.to /\ C!DaylightAt(cs, u) = p.daylight
      BY <1>1, <3>3, <3>4, RulingClock
    <3>6. C!Wall(cs, u) = w
      BY <1>1, <3>2, <3>4, <3>5, ClockFields
    <3>7. u \in C!Showing(cs, w)
      BY <1>1, <3>2, <3>4, <3>6, ShowingIs
    <3>8. r.offset = p.to
      <4>1. PICK m \in Nat : m = k - 1
        BY <2>1, <3>1
      <4>2. m + 1 = k
        BY <2>1, <4>1
      <4>3. r = Answer(h, m)
        BY <1>11, <2>11, <4>1
      <4>4. r.offset = h[m + 1].to
        BY <4>3, AnswerSays
      <4> QED BY <3>2, <4>2, <4>4
    <3>9. Fits(cs, w, daylight, u)
      BY <2>11, <3>2, <3>5, <3>7 DEF Fits
    <3> QED BY <1>9, <3>4, <3>8, <3>9
  <2>12. CASE ~(twice /\ h[k + 1].daylight # daylight /\ h[k].daylight = daylight)
    <3>1. r.offset = c.to
      <4>1. r = Answer(h, k)
        BY <1>11, <2>12
      <4> QED BY <2>1, <2>2, <4>1, AnswerSays
    <3>2. ASSUME c.daylight # daylight, NEW x \in C!Showing(cs, w)
          PROVE  C!DaylightAt(cs, x) # daylight
      <4>1. x \in Int /\ C!Wall(cs, x) = w
        BY <2>7
      <4>2. PICK e \in cs : /\ Rules(cs, x, e)
                            /\ \/ e = c
                               \/ /\ e.at < c.at /\ w < c.at + c.from
                                  /\ \A d \in cs : d.at <= e.at \/ c.at <= d.at
        BY <1>1, <2>5, <2>6, <4>1, ShownAfter
      <4>3. C!DaylightAt(cs, x) = e.daylight
        BY <1>1, <4>1, <4>2, RulingClock
      <4>4. CASE e = c
        BY <3>2, <4>3, <4>4
      <4>5. CASE e # c
        <5>1. e.at < c.at /\ w < c.at + c.from /\ \A d \in cs : d.at <= e.at \/ c.at <= d.at
          BY <4>2, <4>5
        <5>2. e.at \in Int
          BY <1>1, ClockFields
        <5>3. OnWall(e) <= OnWall(c) /\ OnWall(e) \in Int /\ OnWall(c) \in Int
          BY <1>1, <2>3, <5>1, Spaced, OnWallIs
        <5>4. PICK i \in 1..n : e = h[i]
          BY <1>0, <2>3, <5>3
        <5>5. k > 0
          <6>1. i # k + 1
            BY <2>2, <4>5, <5>4
          <6>2. k + 1 < i => h[k + 1].at < h[i].at
            BY <1>1, <2>1
          <6>3. i < k + 1
            BY <2>1, <2>2, <2>4, <5>1, <5>2, <5>4, <6>1, <6>2
          <6> QED BY <2>1, <6>3
        <5>6. /\ h[k] \in cs /\ h[k].at < c.at
              /\ \A d \in cs : d.at <= h[k].at \/ c.at <= d.at
          BY <2>10, <5>1, <5>5
        <5>7. h[k].at \in Int
          BY <1>1, <5>6, ClockFields
        <5>8. h[k].at = e.at
          <6>1. h[k].at <= e.at
            BY <2>4, <5>1, <5>6, <5>7
          <6>2. e.at <= h[k].at
            BY <2>4, <5>1, <5>2, <5>6
          <6> QED BY <5>2, <5>7, <6>1, <6>2
        <5>9. h[k] = e
          BY <1>1, <5>6, <5>8 DEF Clocks, C!Orderly
        <5>10. c.to < c.from
          <6>1. OnWall(c) = c.at + c.to \/ OnWall(c) = c.at + c.from
            BY <1>1, <2>3, OnWallIs
          <6>2. c.from > c.to \/ c.from <= c.to
            BY <2>4
          <6>3. c.from <= c.to => c.at + c.from <= c.at + c.to
            BY <2>4
          <6> QED BY <2>3, <2>4, <2>8, <5>1, <5>3, <6>1, <6>2, <6>3
        <5>11. twice
          BY <1>10, <2>2, <5>1, <5>5, <5>10 DEF Again
        <5> QED BY <2>2, <2>12, <3>2, <4>3, <5>9, <5>11
      <4> QED BY <4>4, <4>5
    <3>3. Fits(cs, w, daylight, w - c.to)
      BY <2>9, <3>2 DEF Fits
    <3> QED BY <1>9, <3>1, <3>3
  <2> QED BY <2>11, <2>12
<1> QED BY <1>12, <1>13

\* The table of a regular VTIMEZONE that ends with the last year has its whole clock.
LEMMA LastTableIsWhole ==
  ASSUME NEW v \in Seq(Parts), Regular(v), NEW h, h = ExpandChanges(v, MaxYear)
  PROVE  /\ ClockOf(v) \subseteq Range(h) /\ Clocks(ClockOf(v)) /\ Begins(ClockOf(v))
<1>1. PICK n \in Nat : n = Len(v)
  OBVIOUS
<1>2. DOMAIN v = 1..n /\ \A i \in 1..n : v[i] \in Parts
  BY <1>1
<1>3. Plain(v) /\ \A i \in 1..n : v[i].yearly => YearOf(v[i].start) <= MaxYear
  BY <1>2 DEF Regular
<1>4. \A i \in 1..n : PlainPart(v[i])
  BY <1>1, <1>3, PlainOfAll
<1>5. MaxYear \in Nat /\ MaxYear \in 0..MaxYear
  BY CoverageAssumption
<1>6. /\ h \in Seq(Changes)
      /\ \A x : Among(x, h, Len(h)) <=> \E i \in 1..n : PartHas(v[i], MaxYear, x)
  BY <1>1, <1>5, ExpandedIs
<1>7. PICK m \in Nat : m = Len(h)
  BY <1>6
<1>8. DOMAIN h = 1..m /\ \A i \in 1..m : h[i] \in Changes
  BY <1>6, <1>7
<1>9. ASSUME NEW x \in ClockOf(v) PROVE \E j \in 1..m : x = h[j]
  <2>1. PICK i \in 1..n : x \in Tells(v[i])
    BY <1>2 DEF ClockOf
  <2>2. PartHas(v[i], MaxYear, x)
    BY <1>2, <1>3, <1>4, <1>5, <2>1, ToldIsHad
  <2> QED BY <1>6, <1>7, <2>2 DEF Among
<1>10. ClockOf(v) \subseteq Range(h)
  BY <1>8, <1>9 DEF Range
<1>11. Clocks(ClockOf(v))
  <2>1. C!Orderly(ClockOf(v))
    BY DEF Regular
  <2> QED BY <1>8, <1>9, <2>1 DEF Clocks
<1>12. Begins(ClockOf(v))
  <2>1. Complete(h, v, MaxYear)
    BY <1>3, <1>5, PlainIsComplete
  <2>2. \A i \in 1..m : h[i] \in ClockOf(v)
    BY <1>8, <2>1 DEF Complete, Range
  <2>3. \A i, j \in 1..m : i < j => h[i].at < h[j].at
    BY <1>8, <2>1 DEF Complete
  <2>4. CASE m = 0
    BY <1>9, <2>4 DEF Begins
  <2>5. CASE m # 0
    <3>1. PICK one \in 1..m : one = 1
      BY <2>5
    <3>2. ASSUME NEW d \in ClockOf(v) PROVE h[one].at <= d.at
      <4>1. PICK j \in 1..m : d = h[j]
        BY <1>9
      <4>2. h[one].at \in Int
        BY <1>8 DEF Changes
      <4>3. one = j \/ one < j
        BY <3>1
      <4>4. one < j => h[one].at < h[j].at
        BY <2>3
      <4>5. h[j].at \in Int
        BY <1>8 DEF Changes
      <4> QED BY <4>1, <4>2, <4>3, <4>4, <4>5
    <3> QED BY <2>2, <3>2 DEF Begins
  <2> QED BY <2>4, <2>5
<1> QED BY <1>10, <1>11, <1>12

\* The table of a regular VTIMEZONE up to any year is one of its clock, and has the
\* changes of the years up to that one, or all.
LEMMA RegularTable ==
  ASSUME NEW v \in Seq(Parts), Regular(v), NEW y \in 0..MaxYear, NEW h, h = ExpandChanges(v, y)
  PROVE  /\ TableOn(h, ClockOf(v))
         /\ \A c \in ClockOf(v) : YearOf(c.at + c.from) <= y \/ y = MaxYear
                                    => \E i \in 1..Len(h) : c = h[i]
<1>1. Complete(h, v, y)
  BY PlainIsComplete DEF Regular
<1>2. y \in Nat
  BY CoverageAssumption
<1>3. h \in Seq(Changes)
  BY <1>2, ExpandedIs
<1>4. PICK m \in Nat : m = Len(h)
  BY <1>3
<1>5. DOMAIN h = 1..m
  BY <1>3, <1>4
<1>6. PICK last : last = ExpandChanges(v, MaxYear)
  OBVIOUS
<1>7. ClockOf(v) \subseteq Range(last) /\ Clocks(ClockOf(v))
  BY <1>6, LastTableIsWhole
<1>8. TableOn(h, ClockOf(v))
  <2>1. \A i \in 1..m : h[i] \in ClockOf(v)
    BY <1>1, <1>5 DEF Complete, Range
  <2>2. \A i, j \in 1..m : i < j => h[i].at < h[j].at
    BY <1>1, <1>5 DEF Complete
  <2> QED BY <1>3, <1>4, <1>7, <2>1, <2>2 DEF TableOn
<1>9. ASSUME NEW c \in ClockOf(v), YearOf(c.at + c.from) <= y \/ y = MaxYear
      PROVE  \E i \in 1..m : c = h[i]
  <2>1. c \in Range(h)
    <3>1. CASE YearOf(c.at + c.from) <= y
      BY <1>1, <3>1 DEF Complete
    <3>2. CASE y = MaxYear
      BY <1>6, <1>7, <3>2
    <3> QED BY <1>9, <3>1, <3>2
  <2> QED BY <1>5, <2>1 DEF Range
<1> QED BY <1>4, <1>8, <1>9

\* No year is later than that of a later time.
LEMMA YearGrows ==
  ASSUME NEW s \in Int, NEW t \in Int, s <= t
  PROVE  YearOf(s) <= YearOf(t)
<1>1. PICK y \in Nat \ {0} : y = Year
  BY LengthsAreNumbers
<1>2. s \div y <= t \div y
  OBVIOUS
<1> QED BY <1>1, <1>2 DEF YearOf

\* No change is in a later year by the clock before it than a time at which it may
\* have been passed.
LEMMA PassedInYear ==
  ASSUME NEW v \in Seq(Parts), Regular(v), NEW c \in ClockOf(v), NEW t \in Int,
         c.at <= t \/ OnWall(c) <= t
  PROVE  YearOf(c.at + c.from) <= YearOf(t)
<1>1. Clocks(ClockOf(v))
  BY LastTableIsWhole
<1>2. c.at \in Int /\ c.to \in Int /\ c.from \in Int
  BY <1>1, ClockFields
<1>3. \A o \in {0, c.to} : YearOf(c.at + c.from) <= YearOf(c.at + o)
  BY DEF Regular
<1>4. PICK s \in Int : /\ s <= t
                       /\ s = c.at + 0 \/ s = c.at + c.to \/ s = c.at + c.from
  <2>1. CASE c.at <= t
    BY <1>2, <2>1
  <2>2. CASE OnWall(c) <= t
    <3>1. OnWall(c) \in Int /\ (OnWall(c) = c.at + c.to \/ OnWall(c) = c.at + c.from)
      BY <1>1, OnWallIs
    <3> QED BY <2>2, <3>1
  <2> QED BY <2>1, <2>2
<1>5. PICK p \in Int : p = c.at + c.from
  BY <1>2
<1>6. YearOf(s) \in Int /\ YearOf(t) \in Int /\ YearOf(p) \in Int
  BY YearType
<1>7. YearOf(s) <= YearOf(t)
  BY <1>4, YearGrows
<1>8. YearOf(p) <= YearOf(s)
  <2>1. CASE s = p
    BY <1>6, <2>1
  <2>2. CASE s = c.at + 0 \/ s = c.at + c.to
    BY <1>3, <1>5, <2>2
  <2> QED BY <1>4, <1>5, <2>1, <2>2
<1> QED BY <1>5, <1>6, <1>7, <1>8

\* A table that ends no earlier than the year of a moment, or with the last year,
\* tells the clock of the moment.
LEMMA TargetTells ==
  ASSUME NEW v \in Seq(Parts), Regular(v), NEW y \in 0..MaxYear, NEW u \in Int,
         y >= YearOf(u) \/ y = MaxYear, NEW h, h = ExpandChanges(v, y)
  PROVE  /\ OfUtc(h, u).offset = C!OffsetAt(ClockOf(v), u)
         /\ OfUtc(h, u).daylight = C!DaylightAt(ClockOf(v), u)
<1>1. PICK cs : cs = ClockOf(v)
  OBVIOUS
<1>2. TableOn(h, cs)
  BY <1>1, RegularTable
<1>3. ASSUME NEW c \in cs, c.at <= u PROVE \E i \in 1..Len(h) : c = h[i]
  <2>1. YearOf(c.at + c.from) <= YearOf(u)
    BY <1>1, <1>3, PassedInYear
  <2>2. YearOf(u) \in Int /\ YearOf(c.at + c.from) \in Int /\ y \in Int
    <3>1. c.at + c.from \in Int
      BY <1>2, ClockFields DEF TableOn
    <3> QED BY <3>1, YearType, CoverageAssumption
  <2>3. YearOf(c.at + c.from) <= y \/ y = MaxYear
    BY <2>1, <2>2
  <2> QED BY <1>1, <2>3, RegularTable
<1> QED BY <1>1, <1>2, <1>3, UtcIsTold

\* The moment a table of the zone gives the time is one of those it may stand for.
LEMMA SourceTells ==
  ASSUME NEW v \in Seq(Parts), Regular(v), NEW y \in 0..MaxYear, tt \in ChangeTimes,
         tt.zone \in Names, component[tt.zone] = v, Meant # {},
         y >= YearOf(tt.at) \/ y = MaxYear, NEW h, h = ExpandChanges(v, y)
  PROVE  ToUtc(h) \in Meant
<1>1. PICK cs : cs = ClockOf(v)
  OBVIOUS
<1>2. TableOn(h, cs) /\ Begins(cs)
  BY <1>1, RegularTable, LastTableIsWhole
<1>3. PICK w, daylight : w = tt.at /\ daylight = tt.daylight
  OBVIOUS
<1>4. w \in Int /\ daylight \in BOOLEAN
  BY <1>3, Zenon DEF ChangeTimes
<1>5. PICK same : same = {u \in C!Showing(cs, w) : C!DaylightAt(cs, u) = daylight}
  OBVIOUS
<1>6. Meant = IF ~C!Told(cs, w) THEN {} ELSE IF same # {} THEN same ELSE C!Showing(cs, w)
  <2>1. tt.zone # Utc /\ Clock(tt.zone) = cs
    BY <1>1, UtcIsNoName DEF Clock
  <2> QED BY <1>3, <1>5, <2>1, Zenon DEF Meant
<1>7. C!Told(cs, w) /\ C!Showing(cs, w) # {}
  BY <1>5, <1>6
<1>8. ASSUME NEW c \in cs, OnWall(c) <= w PROVE \E i \in 1..Len(h) : c = h[i]
  <2>1. YearOf(c.at + c.from) <= YearOf(w)
    BY <1>1, <1>4, <1>8, PassedInYear
  <2>2. YearOf(w) \in Int /\ YearOf(c.at + c.from) \in Int /\ y \in Int
    <3>1. c.at + c.from \in Int
      BY <1>2, ClockFields DEF TableOn
    <3> QED BY <1>4, <3>1, YearType, CoverageAssumption
  <2>3. YearOf(c.at + c.from) <= y \/ y = MaxYear
    BY <1>3, <2>1, <2>2
  <2> QED BY <1>1, <2>3, RegularTable
<1>9. PICK u : u = w - OfLocal(h, w, daylight).offset
  OBVIOUS
<1>10. Fits(cs, w, daylight, u)
  BY <1>2, <1>4, <1>7, <1>8, <1>9, LocalFits
<1>11. ToUtc(h) = u
  BY <1>3, <1>9, UtcIsNoName DEF ToUtc
<1>12. u \in Meant
  BY <1>5, <1>6, <1>7, <1>10 DEF Fits
<1> QED BY <1>11, <1>12

\* ConversionKeepsMoment: of zones whose VTIMEZONEs are regular, in whatever order
\* they are asked, and however often a component is replaced.
THEOREM ConversionKeeps == AllRegular /\ Spec => ConversionKeepsMoment
<1> SUFFICES ASSUME AllRegular PROVE Spec => ConversionKeepsMoment
  OBVIOUS
<1>1. ASSUME ZoneInv, Next, NoTime \notin {tt, tt'}, tt.zone \notin {NoZone, tt'.zone}
      PROVE  tt'.zone \in Names \cup {Utc}
  <2>1. ~Drop /\ \A t, zone : ~FromString(t, zone)
    BY <1>1 DEF Drop, FromString
  <2>2. tt' # tt
    BY <1>1
  <2>3. \A z \in Names : \A v : ~SetComponent(z, v)
    BY <2>2 DEF SetComponent
  <2>4. ASSUME NEW zone \in Names \cup {Utc}, SetTimezone(zone) PROVE tt'.zone = zone
    <3>1. tt \in ChangeTimes
      BY <1>1 DEF ZoneInv
    <3>2. DOMAIN tt = {"at", "daylight", "zone"}
      BY <3>1 DEF ChangeTimes
    <3> QED BY <2>4, <3>2 DEF SetTimezone
  <2>5. ASSUME NEW zone \in Names \cup {Utc}, Convert(zone) PROVE tt'.zone = zone
    <3>1. PICK u, target : tt' = FromUtc(target, u, zone)
      BY <1>1, <2>5, ConvertIs
    <3> QED BY <3>1 DEF FromUtc
  <2>6. \E zone \in Names \cup {Utc} : SetTimezone(zone) \/ Float(zone) \/ Convert(zone)
    BY <1>1, <2>1, <2>3 DEF Next
  <2>7. PICK zone \in Names \cup {Utc} : SetTimezone(zone) \/ Convert(zone)
    BY <2>6 DEF Float
  <2> QED BY <2>4, <2>5, <2>7
<1>2. ASSUME ZoneInv, NEW zone \in Names \cup {Utc}, zone = tt'.zone, Convert(zone), Meant # {}
      PROVE  \E u \in Meant :
               IF zone = Utc THEN tt' = [at |-> u, daylight |-> FALSE, zone |-> Utc]
               ELSE /\ tt'.at = C!Wall(Clock(zone), u)
                    /\ tt'.daylight = C!DaylightAt(Clock(zone), u)
  <2>1. /\ tt \in ChangeTimes /\ tt.zone \in Names \cup {Utc}
        /\ \A z \in Names : component[z] \in Seq(Parts) /\ Regular(component[z])
    BY <1>2, ConvertIs DEF AllRegular, ZoneInv
  <2>a. PICK u \in Int : \E source, target :
            /\ u = ToUtc(source) /\ tt' = FromUtc(target, u, zone)
            /\ tt.zone \in Names =>
                 \E y \in 0..MaxYear : /\ source = TableOf(tt.zone, y)
                                       /\ y >= YearOf(tt.at) \/ y = MaxYear
            /\ zone \in Names =>
                 \E y \in 0..MaxYear : /\ target = TableOf(zone, y)
                                       /\ y >= YearOf(u) \/ y = MaxYear
    BY <1>2, ConvertIs
  <2>2. PICK source, target :
          /\ u = ToUtc(source) /\ tt' = FromUtc(target, u, zone)
          /\ tt.zone \in Names =>
               \E y \in 0..MaxYear : /\ source = TableOf(tt.zone, y)
                                     /\ y >= YearOf(tt.at) \/ y = MaxYear
          /\ zone \in Names =>
               \E y \in 0..MaxYear : /\ target = TableOf(zone, y)
                                     /\ y >= YearOf(u) \/ y = MaxYear
    BY <2>a
  <2>3. u \in Meant
    <3>1. CASE tt.zone = Utc
      <4>1. u = tt.at - 0 /\ tt.at \in Int
        BY <2>1, <2>2, <3>1 DEF ToUtc, ChangeTimes
      <4>2. Meant = {tt.at}
        BY <3>1 DEF Meant
      <4> QED BY <4>1, <4>2
    <3>2. CASE tt.zone # Utc
      <4>1. PICK z \in Names : z = tt.zone
        BY <2>1, <3>2
      <4>2. PICK v \in Seq(Parts) : v = component[z] /\ Regular(v)
        BY <2>1
      <4>3. PICK y \in 0..MaxYear : /\ source = ExpandChanges(v, y)
                                    /\ y >= YearOf(tt.at) \/ y = MaxYear
        BY <2>2, <4>1, <4>2 DEF TableOf
      <4> QED BY <1>2, <2>1, <2>2, <4>1, <4>2, <4>3, SourceTells
    <3> QED BY <3>1, <3>2
  <2>4. CASE zone = Utc
    <3>1. tt' = [at |-> u + 0, daylight |-> FALSE, zone |-> Utc]
      BY <2>2, <2>4 DEF FromUtc, Answer
    <3>2. u + 0 = u
      OBVIOUS
    <3> QED BY <2>3, <2>4, <3>1, <3>2
  <2>5. CASE zone # Utc
    <3>1. PICK z \in Names : z = zone
      BY <2>5
    <3>2. PICK v \in Seq(Parts) : v = component[z] /\ Regular(v)
      BY <2>1
    <3>3. PICK y \in 0..MaxYear : /\ target = ExpandChanges(v, y)
                                  /\ y >= YearOf(u) \/ y = MaxYear
      BY <2>2, <3>1, <3>2 DEF TableOf
    <3>4. PICK answer : answer = OfUtc(target, u)
      OBVIOUS
    <3>5. /\ answer.offset = C!OffsetAt(ClockOf(v), u)
          /\ answer.daylight = C!DaylightAt(ClockOf(v), u)
      BY <3>2, <3>3, <3>4, TargetTells
    <3>6. tt' = [at |-> u + answer.offset, daylight |-> answer.daylight, zone |-> zone]
      BY <2>2, <2>5, <3>4 DEF FromUtc
    <3>7. Clock(zone) = ClockOf(v)
      BY <3>1, <3>2 DEF Clock
    <3>8. tt'.at = C!Wall(ClockOf(v), u) /\ tt'.daylight = C!DaylightAt(ClockOf(v), u)
      BY <3>5, <3>6 DEF C!Wall
    <3> QED BY <2>3, <2>5, <3>7, <3>8
  <2> QED BY <2>4, <2>5
<1>3. ASSUME ZoneInv, [Next]_vars
      PROVE  [NoTime \notin {tt, tt'} /\ tt.zone \notin {NoZone, tt'.zone} /\ Meant # {}
                /\ Convert(tt'.zone)
              => \E u \in Meant :
                   IF tt'.zone = Utc THEN tt' = [at |-> u, daylight |-> FALSE, zone |-> Utc]
                   ELSE /\ tt'.at = C!Wall(Clock(tt'.zone), u)
                        /\ tt'.daylight = C!DaylightAt(Clock(tt'.zone), u)]_vars
  <2> SUFFICES ASSUME Next, NoTime \notin {tt, tt'}, tt.zone \notin {NoZone, tt'.zone},
                      Meant # {}, Convert(tt'.zone)
               PROVE  \E u \in Meant :
                        IF tt'.zone = Utc
                        THEN tt' = [at |-> u, daylight |-> FALSE, zone |-> Utc]
                        ELSE /\ tt'.at = C!Wall(Clock(tt'.zone), u)
                             /\ tt'.daylight = C!DaylightAt(Clock(tt'.zone), u)
    BY <1>3
  <2>1. PICK zone \in Names \cup {Utc} : zone = tt'.zone
    BY <1>1, <1>3
  <2> QED BY <1>2, <1>3, <2>1
<1> QED BY <1>3, ZoneHolds, PTL DEF Spec, ConversionKeepsMoment
----------------------------------------------------------------------------
(* The iterator of a recurrence rule: every pass takes it further.         *)

SameDate(t, u) == t.year = u.year /\ t.month = u.month /\ t.day = u.day
SameHour(t, u) == SameDate(t, u) /\ t.hour = u.hour
SameMinute(t, u) == SameHour(t, u) /\ t.minute = u.minute

DateBefore(t, u) ==
  \/ t.year < u.year
  \/ t.year = u.year /\ t.month < u.month
  \/ t.year = u.year /\ t.month = u.month /\ t.day < u.day
HourBefore(t, u) == DateBefore(t, u) \/ (SameDate(t, u) /\ t.hour < u.hour)
MinuteBefore(t, u) == HourBefore(t, u) \/ (SameHour(t, u) /\ t.minute < u.minute)
Before(t, u) == MinuteBefore(t, u) \/ (SameMinute(t, u) /\ t.second < u.second)

\* A time is earlier than those it is before.
LEMMA BeforeIsEarlier ==
  ASSUME NEW t \in Times, NEW u \in Times, Before(t, u)
  PROVE  Earlier(t, u)
<1> DEFINE fields == <<"year", "month", "day", "hour", "minute", "second">>
           At(i) == /\ t[fields[i]] < u[fields[i]]
                    /\ \A j \in 1..i - 1 : t[fields[j]] = u[fields[j]]
<1>1. /\ fields[1] = "year" /\ fields[2] = "month" /\ fields[3] = "day"
      /\ fields[4] = "hour" /\ fields[5] = "minute" /\ fields[6] = "second"
  OBVIOUS
<1> HIDE DEF fields
<1>2. \E i \in 1..6 : At(i)
  <2>1. CASE t.year < u.year
    <3>1. At(1)
      BY <1>1, <2>1
    <3> QED BY <3>1
  <2>2. CASE t.year = u.year /\ t.month < u.month
    <3>1. At(2)
      BY <1>1, <2>2
    <3> QED BY <3>1
  <2>3. CASE t.year = u.year /\ t.month = u.month /\ t.day < u.day
    <3>1. At(3)
      BY <1>1, <2>3
    <3> QED BY <3>1
  <2>4. CASE SameDate(t, u) /\ t.hour < u.hour
    <3>1. At(4)
      BY <1>1, <2>4 DEF SameDate
    <3> QED BY <3>1
  <2>5. CASE SameHour(t, u) /\ t.minute < u.minute
    <3>1. At(5)
      BY <1>1, <2>5 DEF SameDate, SameHour
    <3> QED BY <3>1
  <2>6. CASE SameMinute(t, u) /\ t.second < u.second
    <3>1. At(6)
      BY <1>1, <2>6 DEF SameDate, SameHour, SameMinute
    <3> QED BY <3>1
  <2> QED BY <2>1, <2>2, <2>3, <2>4, <2>5, <2>6 DEF Before, MinuteBefore, HourBefore, DateBefore
<1>3. NotAfter(t, u)
  BY <1>2 DEF NotAfter, fields
<1>4. t # u
  <2> SUFFICES ASSUME t = u PROVE FALSE
    OBVIOUS
  <2>1. PICK i \in 1..6 : t[fields[i]] < t[fields[i]]
    BY <1>2
  <2>2. fields[i] \in {"year", "month", "day", "hour", "minute", "second"}
    BY <1>1
  <2>3. t[fields[i]] \in Int
    BY <2>2 DEF Times
  <2> QED BY <2>1, <2>3
<1> QED BY <1>3, <1>4 DEF Earlier

\* Nothing is lost between two times one of which is before the other.
LEMMA BeforeAfter ==
  ASSUME NEW t \in Times, NEW u \in Times, NEW v \in Times
  PROVE  /\ SameMinute(t, u) /\ SameHour(u, v) => SameHour(t, v)
         /\ SameHour(t, u) /\ SameDate(u, v) => SameDate(t, v)
         /\ SameMinute(t, u) /\ MinuteBefore(u, v) => MinuteBefore(t, v)
         /\ SameHour(t, u) /\ HourBefore(u, v) => HourBefore(t, v)
         /\ SameDate(t, u) /\ DateBefore(u, v) => DateBefore(t, v)
         /\ DateBefore(t, u) /\ DateBefore(u, v) => DateBefore(t, v)
<1>1. /\ t.year \in Int /\ t.month \in Int /\ t.day \in Int
      /\ t.hour \in Int /\ t.minute \in Int /\ t.second \in Int
  BY DEF Times
<1>2. /\ u.year \in Int /\ u.month \in Int /\ u.day \in Int
      /\ u.hour \in Int /\ u.minute \in Int /\ u.second \in Int
  BY DEF Times
<1>3. /\ v.year \in Int /\ v.month \in Int /\ v.day \in Int
      /\ v.hour \in Int /\ v.minute \in Int /\ v.second \in Int
  BY DEF Times
<1>4. DateBefore(t, u) /\ DateBefore(u, v) => DateBefore(t, v)
  BY <1>1, <1>2, <1>3 DEF DateBefore
<1>5. SameDate(t, u) /\ DateBefore(u, v) => DateBefore(t, v)
  BY <1>1, <1>2, <1>3 DEF DateBefore, SameDate
<1>6. SameDate(t, u) /\ SameDate(u, v) => SameDate(t, v)
  BY DEF SameDate
<1>7. SameHour(t, u) /\ HourBefore(u, v) => HourBefore(t, v)
  BY <1>1, <1>2, <1>3, <1>5, <1>6 DEF SameHour, HourBefore
<1>8. SameHour(t, u) /\ SameHour(u, v) => SameHour(t, v)
  BY <1>6 DEF SameHour
<1>9. SameMinute(t, u) /\ MinuteBefore(u, v) => MinuteBefore(t, v)
  BY <1>1, <1>2, <1>3, <1>7, <1>8 DEF SameMinute, MinuteBefore
<1> QED BY <1>4, <1>5, <1>6, <1>7, <1>8, <1>9 DEF SameHour, SameMinute

----------------------------------------------------------------------------
(* The fields of a time.                                                   *)

\* The fields of a time.
LEMMA TimeFields ==
  ASSUME NEW t \in Times
  PROVE  /\ t.year \in Int /\ t.month \in 1..12 /\ t.day \in Int
         /\ t.hour \in 0..23 /\ t.minute \in 0..59 /\ t.second \in 0..59
BY DEF Times

\* The time u is that one.
Is(u, y, mo, d, h, mi, s) ==
  /\ u \in Times /\ u.year = y /\ u.month = mo /\ u.day = d
  /\ u.hour = h /\ u.minute = mi /\ u.second = s

\* A time with another month,
OtherMonth(t, mo, y) == [t EXCEPT !.month = mo, !.year = y]

\* A time with another month and year,
LEMMA MonthMoved ==
  ASSUME NEW t \in Times, NEW mo \in 1..12, NEW y \in Int
  PROVE  Is(OtherMonth(t, mo, y), y, mo, t.day, t.hour, t.minute, t.second)
<1>1. OtherMonth(t, mo, y) \in Times
  BY DEF Times, OtherMonth
<1> QED BY <1>1 DEF Times, Is, OtherMonth

\* another day,
LEMMA DayMoved ==
  ASSUME NEW t \in Times, NEW d \in Int
  PROVE  Is([t EXCEPT !.day = d], t.year, t.month, d, t.hour, t.minute, t.second)
<1>1. [t EXCEPT !.day = d] \in Times
  BY DEF Times
<1> QED BY <1>1 DEF Times, Is

\* another hour,
LEMMA HourMoved ==
  ASSUME NEW t \in Times, NEW h \in 0..23
  PROVE  Is([t EXCEPT !.hour = h], t.year, t.month, t.day, h, t.minute, t.second)
<1>1. [t EXCEPT !.hour = h] \in Times
  BY DEF Times
<1> QED BY <1>1 DEF Times, Is

\* another minute,
LEMMA MinuteMoved ==
  ASSUME NEW t \in Times, NEW m \in 0..59
  PROVE  Is([t EXCEPT !.minute = m], t.year, t.month, t.day, t.hour, m, t.second)
<1>1. [t EXCEPT !.minute = m] \in Times
  BY DEF Times
<1> QED BY <1>1 DEF Times, Is

\* or another second.
LEMMA SecondMoved ==
  ASSUME NEW t \in Times, NEW s \in 0..59
  PROVE  Is([t EXCEPT !.second = s], t.year, t.month, t.day, t.hour, t.minute, s)
<1>1. [t EXCEPT !.second = s] \in Times
  BY DEF Times
<1> QED BY <1>1 DEF Times, Is

----------------------------------------------------------------------------
(* The increments.                                                         *)

ListNames == {"second", "minute", "hour", "weekday", "day", "yearday", "weekno", "month", "setpos"}

\* The place of an iterator in a list it goes through.
InList(i, r, p) ==
  /\ Ascending(i.by[p])
  /\ i.by[p] = <<>> => p = "month" \/ r.freq = Freq(p)
  /\ i.by[p] # <<>> => i.at[p] \in 1..Len(i.by[p]) /\ i.last[p] = i.by[p][i.at[p]]

Iterators == [last : Times, by : ByLists, at : [ListNames -> Nat],
              days : Seq(Int), dayAt : Nat, no : Nat]

Iterator(i, r) ==
  /\ i \in Iterators
  /\ i.by.month = r.by.month
  /\ i.by.day # <<>> \/ r.freq # "MONTHLY"

\* What an increment of the date leaves as it is.
OnlyDate(i, j) ==
  /\ j.by = i.by /\ \A p \in ListNames \ {"month"} : j.at[p] = i.at[p]
  /\ \A p \in {"hour", "minute", "second"} : j.last[p] = i.last[p]

\* A rule of the kind the iterator is followed for.
Rule == /\ rule.interval \in Nat \ {0} /\ rule.by \in ByLists
        /\ rule.freq \in {"SECONDLY", "MINUTELY", "HOURLY", "DAILY", "MONTHLY"}

\* The next month is a later one.
LEMMA IncMonthMoves ==
  ASSUME Rule, NEW i, Iterator(i, rule), InList(i, rule, "month")
  PROVE  /\ Iterator(IncMonth(i), rule) /\ InList(IncMonth(i), rule, "month")
         /\ OnlyDate(i, IncMonth(i))
         /\ DateBefore(i.last, IncMonth(i).last)
         /\ IncMonth(i).last.day = i.last.day
<1>0. /\ i.last \in Times /\ i.by \in ByLists /\ i.at \in [ListNames -> Nat]
      /\ {"last", "by", "at"} \subseteq DOMAIN i
      /\ i \in Iterators
      /\ i.by.month = rule.by.month /\ rule.by.month \in Seq(1..12)
  <2>1. i.by \in ByLists /\ rule.by \in ByLists
    BY DEF Iterator, Iterators, Rule
  <2> QED BY <2>1 DEF Iterator, Iterators, ByLists
<1>t. PICK t : t = i.last
  OBVIOUS
<1>u. t \in Times /\ t.month \in 1..12 /\ t.year \in Int
  BY <1>0, <1>t DEF Times
<1>j. PICK j : j = IncMonth(i)
  OBVIOUS
<1>1. CASE ~Has("month")
  <2>1. PICK m \in Nat : /\ m >= t.month
                         /\ m = t.month - 1 + (IF rule.freq = "MONTHLY" THEN rule.interval ELSE 1)
    BY <1>u DEF Rule
  <2>2. PICK y, mo : y = m \div 12 /\ mo = 1 + (m % 12)
    OBVIOUS
  <2>t. y \in Nat /\ mo \in 1..12 /\ m = 12 * y + (mo - 1)
    BY <2>2
  <2>u. y = 0 => mo > t.month
    BY <1>u, <2>1, <2>t
  <2>z. PICK z \in Int : z = t.year + y
    BY <1>u, <2>t
  <2>3. j = [i EXCEPT !.last = OtherMonth(t, mo, z)]
    BY <1>0, <1>1, <1>j, <1>t, <2>1, <2>2, <2>z DEF IncMonth, OtherMonth
  <2>4. PICK u : u = OtherMonth(t, mo, z)
    OBVIOUS
  <2>5. DOMAIN j = DOMAIN i /\ j.by = i.by /\ j.at = i.at /\ j.last = u
    BY <1>0, <2>3, <2>4
  <2>6. /\ u \in Times /\ DateBefore(t, u) /\ u.day = t.day
        /\ u.hour = t.hour /\ u.minute = t.minute /\ u.second = t.second
    <3>1. Is(u, z, mo, t.day, t.hour, t.minute, t.second)
      <4>1. mo \in 1..12 /\ z \in Int
        BY <2>t, <2>z
      <4> QED BY <1>u, <2>4, <4>1, MonthMoved
    <3>2. DateBefore(t, u)
      BY <1>u, <2>t, <2>u, <2>z, <3>1 DEF DateBefore, Is
    <3> QED BY <3>1, <3>2 DEF Is
  <2>7. Iterator(j, rule) /\ OnlyDate(i, j)
    <3>1. j \in Iterators
      BY <1>0, <2>3, <2>4, <2>6 DEF Iterators
    <3> QED BY <1>0, <1>t, <2>5, <2>6, <3>1 DEF Iterator, OnlyDate
  <2>8. InList(j, rule, "month")
    <3>1. i.by.month = <<>>
      BY <1>0, <1>1 DEF Has
    <3> QED BY <2>5, <3>1 DEF InList
  <2> QED BY <1>j, <1>t, <2>5, <2>6, <2>7, <2>8
<1>2. CASE Has("month")
  <2>1. PICK list, k : list = i.by.month /\ k = i.at.month
    OBVIOUS
  <2>2. /\ list \in Seq(1..12) /\ list # <<>> /\ k \in 1..Len(list) /\ t.month = list[k]
        /\ Len(list) \in Nat /\ DOMAIN list = 1..Len(list)
    BY <1>0, <1>2, <1>t, <2>1 DEF InList, Has
  <2>3. \A a, b \in 1..Len(list) : a < b => list[a] < list[b]
    BY <2>1, <2>2 DEF InList, Ascending
  <2>4. PICK n \in 1..Len(list), y \in {0, 1} :
           /\ n = IF k + 1 <= Len(list) THEN k + 1 ELSE 1
           /\ y = IF k + 1 <= Len(list) THEN 0 ELSE 1
    BY <2>2
  <2>5. /\ list[n] \in 1..12 /\ n \in Nat
        /\ y = 1 \/ (y = 0 /\ list[n] > t.month)
    BY <2>2, <2>3, <2>4
  <2>z. PICK z \in Int : z = t.year + y
    BY <1>u, <2>4
  <2>6. j = [i EXCEPT !.at = [i.at EXCEPT !["month"] = n],
                      !.last = OtherMonth(t, list[n], z)]
    <3>1. CASE k + 1 <= Len(list)
      <4>1. n = k + 1 /\ y = 0
        BY <2>4, <3>1
      <4>2. j = [i EXCEPT !.at.month = n, !.last.month = list[n]]
        BY <1>2, <1>j, <2>1, <3>1, <4>1 DEF IncMonth
      <4>3. [t EXCEPT !.month = list[n], !.year = z] = [t EXCEPT !.month = list[n]]
        <5>1. z = t.year
          BY <1>u, <2>z, <4>1
        <5>2. [t EXCEPT !.month = list[n], !.year = t.year] = [t EXCEPT !.month = list[n]]
          BY <1>u DEF Times
        <5> QED BY <5>1, <5>2
      <4> QED BY <1>0, <1>t, <4>2, <4>3 DEF OtherMonth
    <3>2. CASE ~(k + 1 <= Len(list))
      <4>1. n = 1 /\ y = 1
        BY <2>4, <3>2
      <4>2. j = [i EXCEPT !.at.month = n, !.last.month = list[n], !.last.year = z]
        BY <1>2, <1>j, <1>t, <2>1, <2>z, <3>2, <4>1 DEF IncMonth
      <4> QED BY <1>0, <1>t, <4>2 DEF OtherMonth
    <3> QED BY <3>1, <3>2
  <2>7. PICK u, a : /\ u = OtherMonth(t, list[n], z)
                    /\ a = [i.at EXCEPT !["month"] = n]
    OBVIOUS
  <2>8. DOMAIN j = DOMAIN i /\ j.by = i.by /\ j.at = a /\ j.last = u
    BY <1>0, <2>6, <2>7
  <2>9. /\ u \in Times /\ DateBefore(t, u) /\ u.day = t.day /\ u.month = list[n]
        /\ u.hour = t.hour /\ u.minute = t.minute /\ u.second = t.second
    <3>1. Is(u, z, list[n], t.day, t.hour, t.minute, t.second)
      <4>1. list[n] \in 1..12 /\ z \in Int
        BY <2>5, <2>z
      <4> QED BY <1>u, <2>7, <4>1, MonthMoved
    <3>2. DateBefore(t, u)
      BY <1>u, <2>4, <2>5, <2>z, <3>1 DEF DateBefore, Is
    <3> QED BY <3>1, <3>2 DEF Is
  <2>10. /\ a \in [ListNames -> Nat] /\ a["month"] = n
         /\ \A p \in ListNames \ {"month"} : a[p] = i.at[p]
    <3>1. "month" \in ListNames
      BY DEF ListNames
    <3> QED BY <1>0, <2>5, <2>7, <3>1
  <2>11. Iterator(j, rule) /\ OnlyDate(i, j)
    <3>1. j \in Iterators
      BY <1>0, <2>6, <2>7, <2>9, <2>10 DEF Iterators
    <3> QED BY <1>0, <1>t, <2>8, <2>9, <2>10, <3>1 DEF Iterator, OnlyDate
  <2>12. InList(j, rule, "month")
    <3>1. j.by.month = list /\ j.at.month = n /\ j.last.month = list[n]
      BY <2>1, <2>8, <2>9, <2>10
    <3>2. Ascending(list)
      BY <2>1 DEF InList
    <3> QED BY <2>2, <3>1, <3>2 DEF InList
  <2> QED BY <1>j, <1>t, <2>8, <2>9, <2>11, <2>12
<1> QED BY <1>1, <1>2

\* A month has 28 to 31 days.
LEMMA DaysInMonthType ==
  ASSUME NEW m \in 1..12, NEW y
  PROVE  DaysInMonth(m, y) \in 28..31
<1>1. PICK days : days = <<31, 28, 31, 30, 31, 30, 31, 31, 30, 31, 30, 31>>
  OBVIOUS
<1>2. \A n \in 1..12 : days[n] \in 28..31
  BY <1>1
<1>3. DaysInMonth(m, y) = IF m = 2 /\ Leap(y) THEN 29 ELSE days[m]
  BY <1>1 DEF DaysInMonth
<1> QED BY <1>2, <1>3

\* What a step leaves as it is of a part.
PartKept(i, j, p) == j.by = i.by /\ j.at[p] = i.at[p] /\ j.last[p] = i.last[p]

\* An iterator that is left alone in a list stays at its place in it.
LEMMA KeptInList ==
  ASSUME NEW r, NEW i, NEW j, NEW p, InList(i, r, p), PartKept(i, j, p)
  PROVE  InList(j, r, p)
BY DEF InList, PartKept

\* An iterator that is in its list of months.
IterFits(i) == Iterator(i, rule) /\ InList(i, rule, "month")

\* What an iterator that fits its rule is made of.
LEMMA FitsFields ==
  ASSUME NEW i, IterFits(i)
  PROVE  /\ i \in Iterators /\ i.last \in Times /\ i.by \in ByLists /\ i.at \in [ListNames -> Nat]
         /\ DOMAIN i = {"last", "by", "at", "days", "dayAt", "no"}
         /\ \A p \in ListNames : p \in DOMAIN i.at
         /\ ListNames = DOMAIN i.at
BY DEF IterFits, Iterator, Iterators

\* An iterator with another time in the same month.
LEMMA FitsAnother ==
  ASSUME NEW i, IterFits(i), NEW t \in Times, t.month = i.last.month,
         NEW j, j = [i EXCEPT !.last = t]
  PROVE  IterFits(j) /\ j.last = t /\ j.by = i.by /\ j.at = i.at
<1>1. j.last = t /\ j.by = i.by /\ j.at = i.at
  BY FitsFields
<1>2. j \in Iterators
  BY FitsFields DEF Iterators
<1>3. Iterator(j, rule)
  BY <1>1, <1>2 DEF IterFits, Iterator
<1>4. InList(j, rule, "month")
  BY <1>1 DEF IterFits, InList
<1> QED BY <1>1, <1>3, <1>4 DEF IterFits

\* An iterator in another place of a list, at this time.
Put(i, p, n, t) == [i EXCEPT !.at = [i.at EXCEPT ![p] = n], !.last = t]

\* Another time of the same month fits its rule as well.
LEMMA FitsPut ==
  ASSUME NEW i, IterFits(i), NEW t \in Times, t.month = i.last.month,
         NEW p \in ListNames \ {"month"}, NEW n \in Nat
  PROVE  /\ IterFits(Put(i, p, n, t)) /\ Put(i, p, n, t).last = t /\ Put(i, p, n, t).by = i.by
         /\ Put(i, p, n, t).at[p] = n
         /\ \A q \in ListNames \ {p} : Put(i, p, n, t).at[q] = i.at[q]
<1>j. PICK j : j = Put(i, p, n, t)
  OBVIOUS
<1>a. PICK a : a = [i.at EXCEPT ![p] = n]
  OBVIOUS
<1>b. /\ a \in [ListNames -> Nat] /\ a[p] = n
      /\ \A q \in ListNames \ {p} : a[q] = i.at[q]
  BY <1>a, FitsFields
<1>0. "month" \in ListNames \ {p}
  BY DEF ListNames
<1>1. j.last = t /\ j.by = i.by /\ j.at = a
  BY <1>a, <1>j, FitsFields DEF Put
<1>c. PICK k : k = [i EXCEPT !.at = a]
  OBVIOUS
<1>f. i \in Iterators /\ a \in [ListNames -> Nat]
  BY <1>b, FitsFields
<1>d. k \in Iterators
  BY <1>c, <1>f DEF Iterators
<1>e. j = [k EXCEPT !.last = t]
  BY <1>a, <1>c, <1>j, FitsFields DEF Put
<1>2. j \in Iterators
  BY <1>d, <1>e DEF Iterators
<1>3. Iterator(j, rule)
  BY <1>1, <1>2 DEF IterFits, Iterator
<1>4. InList(j, rule, "month")
  BY <1>0, <1>b, <1>1 DEF IterFits, InList
<1> QED BY <1>j, <1>b, <1>1, <1>3, <1>4 DEF IterFits

ClockOfDay == {"hour", "minute", "second"}

\* The next day is a later one.
LEMMA OneDayMoves ==
  ASSUME Rule, NEW i, IterFits(i)
  PROVE  /\ IterFits(OneDay(i))
         /\ \A p \in ClockOfDay : PartKept(i, OneDay(i), p)
         /\ DateBefore(i.last, OneDay(i).last)
<1>t. PICK t : t = i.last
  OBVIOUS
<1>u. t \in Times /\ t.month \in 1..12 /\ t.day \in Int
  BY <1>t, FitsFields, TimeFields
<1>l. PICK len \in 28..31 : len = DaysInMonth(t.month, t.year)
  BY <1>u, DaysInMonthType
<1>1. CASE t.day < len
  <2>1. PICK d \in Int : d = t.day + 1
    BY <1>u
  <2>2. PICK u : u = [t EXCEPT !.day = d]
    OBVIOUS
  <2>3. PICK j : j = [i EXCEPT !.last = u]
    OBVIOUS
  <2>4. OneDay(i) = j
    BY <1>1, <1>l, <1>t, <2>1, <2>2, <2>3, FitsFields DEF OneDay
  <2>5. Is(u, t.year, t.month, d, t.hour, t.minute, t.second)
    BY <1>u, <2>2, DayMoved
  <2>6. u \in Times /\ u.month = i.last.month
    BY <1>t, <2>5 DEF Is
  <2>7. IterFits(j) /\ j.last = u /\ j.by = i.by /\ j.at = i.at
    BY <2>3, <2>6, FitsAnother
  <2>8. DateBefore(t, u)
    BY <1>u, <2>1, <2>5 DEF DateBefore, Is
  <2>9. \A p \in ClockOfDay : j.last[p] = i.last[p]
    BY <1>t, <2>5, <2>7 DEF ClockOfDay, Is
  <2> QED BY <1>t, <2>4, <2>7, <2>8, <2>9 DEF PartKept
<1>2. CASE ~(t.day < len)
  <2>1. PICK d \in Int : d = t.day + 1 - len
    BY <1>u, <1>l
  <2>2. PICK u : u = [t EXCEPT !.day = d]
    OBVIOUS
  <2>3. PICK k : k = [i EXCEPT !.last = u]
    OBVIOUS
  <2>4. OneDay(i) = IncMonth(k)
    <3>1. [i EXCEPT !.last.day = @ + 1 - len] = k
      BY <1>t, <2>1, <2>2, <2>3, FitsFields
    <3> QED BY <1>2, <1>l, <1>t, <3>1 DEF OneDay
  <2>5. Is(u, t.year, t.month, d, t.hour, t.minute, t.second)
    BY <1>u, <2>2, DayMoved
  <2>6. u \in Times /\ u.month = i.last.month
    BY <1>t, <2>5 DEF Is
  <2>7. IterFits(k) /\ k.last = u /\ k.by = i.by /\ k.at = i.at
    BY <2>3, <2>6, FitsAnother
  <2>8. PICK j : j = IncMonth(k)
    OBVIOUS
  <2>9. /\ Iterator(j, rule) /\ InList(j, rule, "month") /\ OnlyDate(k, j)
        /\ DateBefore(u, j.last) /\ j.last.day = d
    BY <2>5, <2>7, <2>8, IncMonthMoves DEF IterFits, Is
  <2>10. DateBefore(t, j.last)
    BY <2>1, <2>5, <2>9 DEF DateBefore, Is
  <2>11. \A p \in ClockOfDay : j.last[p] = i.last[p] /\ j.at[p] = i.at[p]
    BY <1>t, <2>5, <2>7, <2>9 DEF ClockOfDay, Is, OnlyDate, ListNames
  <2>12. j.by = i.by
    BY <2>7, <2>9 DEF OnlyDate
  <2> QED BY <1>t, <2>4, <2>8, <2>9, <2>10, <2>11, <2>12 DEF IterFits, PartKept
<1> QED BY <1>1, <1>2

\* Of applies its operator.
LEMMA OfOneDay ==
  ASSUME NEW i
  PROVE  Of(i, OneDay) = OneDay(i)
<1>1. \A v \in {OneDay(y) : y \in {i}} : v = OneDay(i)
  OBVIOUS
<1>2. OneDay(i) \in {OneDay(y) : y \in {i}}
  OBVIOUS
<1> QED BY <1>1, <1>2 DEF Of

\* Days are incremented one after the other.
LEMMA IncDaySteps ==
  ASSUME Rule, NEW i, IterFits(i), NEW n \in Nat
  PROVE  \E h : /\ h[0] = i
                /\ \A j \in 1..n : h[j] = OneDay(h[j - 1])
                /\ IncDay(i, n) = h[n]
<1>0. PICK V : V = {v \in Iterators : IterFits(v)}
  OBVIOUS
<1>v. i \in V
  BY <1>0, FitsFields
<1>2. PICK T : T = [j \in 1..n |-> [v \in V |-> OneDay(v)]]
  OBVIOUS
<1>3. T \in Steps(V, n)
  <2>1. ASSUME NEW v \in V PROVE OneDay(v) \in V
    <3>1. IterFits(OneDay(v))
      BY <1>0, OneDayMoves
    <3> QED BY <1>0, <3>1, FitsFields
  <2> QED BY <1>2, <2>1 DEF Steps
<1> DEFINE seq == [k \in 1..n |-> k]
           IsFold(f) == f = [S \in SUBSET DOMAIN seq |->
                               IF S = {} THEN i ELSE Of(f[S \ {Max(S)}], OneDay)]
           fold == CHOOSE f : IsFold(f)
<1>4. DOMAIN seq = 1..n
  OBVIOUS
<1>5. IncDay(i, n) = fold[1..n]
  <2>1. IncDay(i, n) = fold[DOMAIN seq]
    BY DEF IncDay, FoldLeft, MapThenFoldSet
  <2> QED BY <1>4, <2>1
<1>6. \E f : IsFold(f)
  <2>1. PICK g : FoldsOver(g, V, i, n, T)
    BY <1>v, <1>3, FoldRecursion
  <2> DEFINE f == [S \in SUBSET DOMAIN seq |-> g[S]]
  <2>2. ASSUME NEW S \in SUBSET (1..n)
        PROVE  g[S] = IF S = {} THEN i ELSE Of(f[S \ {Max(S)}], OneDay)
    <3>1. CASE S = {}
      BY <2>1, <3>1 DEF FoldsOver
    <3>2. CASE S # {}
      <4>1. PICK x : x = Max(S)
        OBVIOUS
      <4>2. x \in 1..n
        BY <3>2, <4>1, MaxProperties
      <4>3. S \ {x} \in SUBSET (1..n) /\ S \ {x} \in SUBSET DOMAIN seq
        BY <1>4
      <4>4. g[S \ {x}] \in V /\ g[S] = T[x][g[S \ {x}]]
        BY <2>1, <3>2, <4>1, <4>3 DEF FoldsOver
      <4>5. g[S] = OneDay(g[S \ {x}])
        BY <1>2, <4>2, <4>4
      <4>6. f[S \ {x}] = g[S \ {x}]
        BY <4>3
      <4> HIDE DEF f
      <4>7. g[S] = Of(f[S \ {x}], OneDay)
        BY <4>5, <4>6, OfOneDay
      <4> QED BY <3>2, <4>1, <4>7
    <3> QED BY <3>1, <3>2
  <2>3. IsFold(f)
    BY <1>4, <2>2
  <2> QED BY <2>3
<1>7. IsFold(fold)
  <2> HIDE DEF IsFold
  <2> QED BY <1>6
<1> HIDE DEF fold
<1>8. fold[1..0] = i
  <2>1. 1..0 = {} /\ {} \in SUBSET DOMAIN seq
    OBVIOUS
  <2> QED BY <1>7, <2>1
<1>9. ASSUME NEW j \in 1..n PROVE fold[1..j] = OneDay(fold[1..j - 1])
  <2>1. 1..j \in SUBSET DOMAIN seq /\ 1..j # {} /\ j \in Nat \ {0}
    BY <1>4
  <2>2. Max(1..j) = j /\ (1..j) \ {j} = 1..j - 1
    BY <2>1, MaxOfInterval
  <2>3. fold[1..j] = Of(fold[(1..j) \ {Max(1..j)}], OneDay)
    BY <1>7, <2>1
  <2> QED BY <2>2, <2>3, OfOneDay
<1> DEFINE h == [j \in 0..n |-> fold[1..j]]
<1>10. /\ h[0] = i
       /\ \A j \in 1..n : h[j] = OneDay(h[j - 1])
       /\ h[n] = fold[1..n]
  BY <1>8, <1>9
<1> HIDE DEF h
<1> QED BY <1>5, <1>10

\* Time that goes on by some days is later.
LEMMA IncDayMoves ==
  ASSUME Rule, NEW i, IterFits(i), NEW n \in Nat
  PROVE  /\ IterFits(IncDay(i, n))
         /\ \A p \in ClockOfDay : PartKept(i, IncDay(i, n), p)
         /\ IF n = 0 THEN IncDay(i, n) = i ELSE DateBefore(i.last, IncDay(i, n).last)
<1>1. PICK h : /\ h[0] = i
               /\ \A j \in 1..n : h[j] = OneDay(h[j - 1])
               /\ IncDay(i, n) = h[n]
  BY IncDaySteps
<1> DEFINE Moved(m) == /\ IterFits(h[m])
                       /\ \A p \in ClockOfDay : PartKept(i, h[m], p)
                       /\ m = 0 \/ DateBefore(i.last, h[m].last)
           N == {m \in Nat : m <= n => Moved(m)}
<1>2. 0 \in N
  BY <1>1 DEF PartKept
<1>3. ASSUME NEW m \in Nat, m \in N PROVE m + 1 \in N
  <2> SUFFICES ASSUME m + 1 <= n PROVE Moved(m + 1)
    OBVIOUS
  <2>1. m + 1 \in 1..n /\ (m + 1) - 1 = m /\ m + 1 # 0
    OBVIOUS
  <2>2. h[m + 1] = OneDay(h[m])
    BY <1>1, <2>1
  <2>3. Moved(m)
    BY <1>3
  <2>4. /\ IterFits(h[m + 1])
        /\ \A p \in ClockOfDay : PartKept(h[m], h[m + 1], p)
        /\ DateBefore(h[m].last, h[m + 1].last)
    BY <2>2, <2>3, OneDayMoves
  <2>5. \A p \in ClockOfDay : PartKept(i, h[m + 1], p)
    BY <2>3, <2>4 DEF PartKept
  <2>6. DateBefore(i.last, h[m + 1].last)
    <3>1. CASE m = 0
      BY <1>1, <2>4, <3>1
    <3>2. CASE m # 0
      <4>1. i.last \in Times /\ h[m].last \in Times /\ h[m + 1].last \in Times
        BY <2>3, <2>4, FitsFields
      <4> QED BY <2>3, <2>4, <3>2, <4>1, BeforeAfter
    <3> QED BY <3>1, <3>2
  <2> QED BY <2>4, <2>5, <2>6
<1> HIDE DEF N
<1>4. n \in N
  BY <1>2, <1>3, InductionOnNat
<1> QED BY <1>1, <1>4 DEF N

\* What is carried.
LEMMA Carried ==
  ASSUME NEW n \in Nat
  PROVE  /\ n % 24 \in 0..23 /\ n \div 24 \in Nat /\ n = 24 * (n \div 24) + (n % 24)
         /\ n % 60 \in 0..59 /\ n \div 60 \in Nat /\ n = 60 * (n \div 60) + (n % 60)
<1>1. n % 24 \in 0..23 /\ n \div 24 \in Nat /\ n = 24 * (n \div 24) + (n % 24)
  OBVIOUS
<1>2. n % 60 \in 0..59 /\ n \div 60 \in Nat /\ n = 60 * (n \div 60) + (n % 60)
  OBVIOUS
<1> QED BY <1>1, <1>2

\* So is one that goes on by some hours,
LEMMA IncHourMoves ==
  ASSUME Rule, NEW i, IterFits(i), NEW n \in Nat
  PROVE  /\ IterFits(IncHour(i, n))
         /\ \A p \in {"minute", "second"} : PartKept(i, IncHour(i, n), p)
         /\ IF n = 0 THEN SameHour(i.last, IncHour(i, n).last)
                     ELSE HourBefore(i.last, IncHour(i, n).last)
<1>t. PICK t : t = i.last
  OBVIOUS
<1>u. t \in Times /\ t.hour \in 0..23
  BY <1>t, FitsFields, TimeFields
<1>z. PICK z \in Nat : z = t.hour + n
  BY <1>u
<1>1. PICK x \in Nat, y \in 0..23 : y = z % 24 /\ x = z \div 24
  BY Carried
<1>v. x \in Nat /\ y \in 0..23 /\ z = 24 * x + y
  BY <1>1, Carried
<1>2. PICK u : u = [t EXCEPT !.hour = y]
  OBVIOUS
<1>3. PICK k : k = [i EXCEPT !.last = u]
  OBVIOUS
<1>4. PICK j : j = IncDay(k, x)
  OBVIOUS
<1>5. IncHour(i, n) = j
  <2>1. [i EXCEPT !.last.hour = y] = k
    BY <1>t, <1>2, <1>3, FitsFields
  <2> QED BY <1>t, <1>z, <1>1, <1>4, <2>1 DEF IncHour
<1>6. Is(u, t.year, t.month, t.day, y, t.minute, t.second)
  BY <1>u, <1>2, HourMoved
<1>7. u \in Times /\ u.month = i.last.month
  BY <1>t, <1>6 DEF Is
<1>8. IterFits(k) /\ k.last = u /\ k.by = i.by /\ k.at = i.at
  BY <1>3, <1>7, FitsAnother
<1>9. /\ IterFits(j) /\ \A p \in ClockOfDay : PartKept(k, j, p)
      /\ IF x = 0 THEN j = k ELSE DateBefore(u, j.last)
  BY <1>4, <1>8, IncDayMoves
<1>10. \A p \in {"minute", "second"} : PartKept(i, j, p)
  BY <1>t, <1>6, <1>8, <1>9 DEF ClockOfDay, PartKept, Is
<1>11. CASE x = 0
  <2>1. j.last = u /\ y = t.hour + n
    BY <1>u, <1>z, <1>v, <1>8, <1>9, <1>11
  <2>2. SameDate(t, u) /\ u.hour = t.hour + n
    BY <1>6, <2>1 DEF Is, SameDate
  <2>3. n = 0 => SameHour(t, u)
    BY <1>u, <2>2 DEF SameHour
  <2>4. n # 0 => HourBefore(t, u)
    BY <1>u, <2>2 DEF HourBefore
  <2> QED BY <1>t, <1>5, <1>9, <1>10, <2>1, <2>3, <2>4
<1>12. CASE x # 0
  <2>1. n # 0
    <3>1. z >= 24
      BY <1>v, <1>12
    <3>2. t.hour < 24
      BY <1>u
    <3> QED BY <1>u, <1>z, <3>1, <3>2
  <2>2. DateBefore(t, j.last)
    BY <1>6, <1>9, <1>12 DEF DateBefore, Is
  <2> QED BY <1>t, <1>5, <1>9, <1>10, <2>1, <2>2 DEF HourBefore
<1> QED BY <1>11, <1>12

\* some minutes,
LEMMA IncMinuteMoves ==
  ASSUME Rule, NEW i, IterFits(i), NEW n \in Nat
  PROVE  /\ IterFits(IncMinute(i, n))
         /\ PartKept(i, IncMinute(i, n), "second")
         /\ IF n = 0 THEN SameMinute(i.last, IncMinute(i, n).last)
                     ELSE MinuteBefore(i.last, IncMinute(i, n).last)
<1>t. PICK t : t = i.last
  OBVIOUS
<1>u. t \in Times /\ t.minute \in 0..59
  BY <1>t, FitsFields, TimeFields
<1>z. PICK z \in Nat : z = t.minute + n
  BY <1>u
<1>1. PICK x \in Nat, y \in 0..59 : y = z % 60 /\ x = z \div 60
  BY Carried
<1>v. x \in Nat /\ y \in 0..59 /\ z = 60 * x + y
  BY <1>1, Carried
<1>2. PICK u : u = [t EXCEPT !.minute = y]
  OBVIOUS
<1>3. PICK k : k = [i EXCEPT !.last = u]
  OBVIOUS
<1>4. PICK j : j = IncHour(k, x)
  OBVIOUS
<1>5. IncMinute(i, n) = j
  <2>1. [i EXCEPT !.last.minute = y] = k
    BY <1>t, <1>2, <1>3, FitsFields
  <2> QED BY <1>t, <1>z, <1>1, <1>4, <2>1 DEF IncMinute
<1>6. Is(u, t.year, t.month, t.day, t.hour, y, t.second)
  BY <1>u, <1>2, MinuteMoved
<1>7. u \in Times /\ u.month = i.last.month
  BY <1>t, <1>6 DEF Is
<1>8. IterFits(k) /\ k.last = u /\ k.by = i.by /\ k.at = i.at
  BY <1>3, <1>7, FitsAnother
<1>9. /\ IterFits(j) /\ PartKept(k, j, "minute") /\ PartKept(k, j, "second")
      /\ IF x = 0 THEN SameHour(u, j.last) ELSE HourBefore(u, j.last)
  BY <1>4, <1>8, IncHourMoves
<1>10. PartKept(i, j, "second") /\ j.last.minute = y
  BY <1>t, <1>6, <1>8, <1>9 DEF PartKept, Is
<1>11. CASE x = 0
  <2>1. y = t.minute + n
    BY <1>u, <1>z, <1>v, <1>11
  <2>2. SameHour(t, j.last)
    BY <1>6, <1>9, <1>11 DEF Is, SameHour, SameDate
  <2>3. n = 0 => SameMinute(t, j.last)
    BY <1>u, <1>10, <2>1, <2>2 DEF SameMinute
  <2>4. n # 0 => MinuteBefore(t, j.last)
    BY <1>u, <1>10, <2>1, <2>2 DEF MinuteBefore
  <2> QED BY <1>t, <1>5, <1>9, <1>10, <2>3, <2>4
<1>12. CASE x # 0
  <2>1. n # 0
    <3>1. z >= 60
      BY <1>v, <1>12
    <3>2. t.minute < 60
      BY <1>u
    <3> QED BY <1>u, <1>z, <3>1, <3>2
  <2>2. HourBefore(t, j.last)
    BY <1>6, <1>9, <1>12 DEF HourBefore, SameDate, DateBefore, Is
  <2> QED BY <1>t, <1>5, <1>9, <1>10, <2>1, <2>2 DEF MinuteBefore
<1> QED BY <1>11, <1>12

\* or some seconds.
LEMMA IncSecondMoves ==
  ASSUME Rule, NEW i, IterFits(i), NEW n \in Nat \ {0}
  PROVE  IterFits(IncSecond(i, n)) /\ IncSecond(i, n).by = i.by /\ Before(i.last, IncSecond(i, n).last)
<1>t. PICK t : t = i.last
  OBVIOUS
<1>u. t \in Times /\ t.second \in 0..59
  BY <1>t, FitsFields, TimeFields
<1>z. PICK z \in Nat : z = t.second + n
  BY <1>u
<1>1. PICK x \in Nat, y \in 0..59 : y = z % 60 /\ x = z \div 60
  BY Carried
<1>v. x \in Nat /\ y \in 0..59 /\ z = 60 * x + y
  BY <1>1, Carried
<1>2. PICK u : u = [t EXCEPT !.second = y]
  OBVIOUS
<1>3. PICK k : k = [i EXCEPT !.last = u]
  OBVIOUS
<1>4. PICK j : j = IncMinute(k, x)
  OBVIOUS
<1>5. IncSecond(i, n) = j
  <2>1. [i EXCEPT !.last.second = y] = k
    BY <1>t, <1>2, <1>3, FitsFields
  <2> QED BY <1>t, <1>z, <1>1, <1>4, <2>1 DEF IncSecond
<1>6. Is(u, t.year, t.month, t.day, t.hour, t.minute, y)
  BY <1>u, <1>2, SecondMoved
<1>7. u \in Times /\ u.month = i.last.month
  BY <1>t, <1>6 DEF Is
<1>8. IterFits(k) /\ k.last = u /\ k.by = i.by /\ k.at = i.at
  BY <1>3, <1>7, FitsAnother
<1>9. /\ IterFits(j) /\ PartKept(k, j, "second")
      /\ IF x = 0 THEN SameMinute(u, j.last) ELSE MinuteBefore(u, j.last)
  BY <1>4, <1>8, IncMinuteMoves
<1>10. j.by = i.by /\ j.last.second = y
  BY <1>6, <1>8, <1>9 DEF PartKept, Is
<1>11. CASE x = 0
  <2>1. y > t.second
    BY <1>u, <1>z, <1>v, <1>11
  <2>2. SameMinute(t, j.last)
    BY <1>6, <1>9, <1>11 DEF Is, SameMinute, SameHour, SameDate
  <2> QED BY <1>t, <1>5, <1>9, <1>10, <2>1, <2>2 DEF Before
<1>12. CASE x # 0
  <2>1. MinuteBefore(t, j.last)
    BY <1>6, <1>9, <1>12 DEF MinuteBefore, HourBefore, SameHour, SameDate, DateBefore, Is
  <2> QED BY <1>t, <1>5, <1>9, <1>10, <2>1 DEF Before
<1> QED BY <1>11, <1>12

----------------------------------------------------------------------------
(* The time of day.                                                        *)

\* The step through a list, as the next value and the carry.
LEMMA PartSteps ==
  ASSUME NEW i
  PROVE  /\ i.by["second"] = <<>> =>
              /\ NextPart(i, "second", IncSecond, IncMinute).it = IncSecond(i, rule.interval)
              /\ NextPart(i, "second", IncSecond, IncMinute).end = FALSE
         /\ i.by["second"] # <<>> =>
              /\ NextPart(i, "second", IncSecond, IncMinute).end = AtEnd(i, "second")
              /\ NextPart(i, "second", IncSecond, IncMinute).it =
                   IF AtEnd(i, "second") /\ rule.freq = "SECONDLY"
                   THEN IncMinute(NextValue(i, "second"), 1) ELSE NextValue(i, "second")
         /\ i.by["minute"] = <<>> =>
              /\ NextPart(i, "minute", IncMinute, IncHour).it = IncMinute(i, rule.interval)
              /\ NextPart(i, "minute", IncMinute, IncHour).end = FALSE
         /\ i.by["minute"] # <<>> =>
              /\ NextPart(i, "minute", IncMinute, IncHour).end = AtEnd(i, "minute")
              /\ NextPart(i, "minute", IncMinute, IncHour).it =
                   IF AtEnd(i, "minute") /\ rule.freq = "MINUTELY"
                   THEN IncHour(NextValue(i, "minute"), 1) ELSE NextValue(i, "minute")
         /\ i.by["hour"] = <<>> =>
              /\ NextPart(i, "hour", IncHour, IncDay).it = IncHour(i, rule.interval)
              /\ NextPart(i, "hour", IncHour, IncDay).end = FALSE
         /\ i.by["hour"] # <<>> =>
              /\ NextPart(i, "hour", IncHour, IncDay).end = AtEnd(i, "hour")
              /\ NextPart(i, "hour", IncHour, IncDay).it =
                   IF AtEnd(i, "hour") /\ rule.freq = "HOURLY"
                   THEN IncDay(NextValue(i, "hour"), 1) ELSE NextValue(i, "hour")
<1>1. /\ Freq("second") = "SECONDLY" /\ Freq("minute") = "MINUTELY" /\ Freq("hour") = "HOURLY"
  BY DEF Freq
<1>2. PICK s2 : s2 = NextPart(i, "second", IncSecond, IncMinute)
  OBVIOUS
<1>3. /\ i.by["second"] = <<>> => s2.it = IncSecond(i, rule.interval) /\ s2.end = FALSE
      /\ i.by["second"] # <<>> =>
           /\ s2.end = AtEnd(i, "second")
           /\ s2.it = IF AtEnd(i, "second") /\ rule.freq = "SECONDLY"
                       THEN IncMinute(NextValue(i, "second"), 1) ELSE NextValue(i, "second")
  BY <1>1, <1>2 DEF NextPart
<1>4. PICK s4 : s4 = NextPart(i, "minute", IncMinute, IncHour)
  OBVIOUS
<1>5. /\ i.by["minute"] = <<>> => s4.it = IncMinute(i, rule.interval) /\ s4.end = FALSE
      /\ i.by["minute"] # <<>> =>
           /\ s4.end = AtEnd(i, "minute")
           /\ s4.it = IF AtEnd(i, "minute") /\ rule.freq = "MINUTELY"
                       THEN IncHour(NextValue(i, "minute"), 1) ELSE NextValue(i, "minute")
  BY <1>1, <1>4 DEF NextPart
<1>6. PICK s6 : s6 = NextPart(i, "hour", IncHour, IncDay)
  OBVIOUS
<1>7. /\ i.by["hour"] = <<>> => s6.it = IncHour(i, rule.interval) /\ s6.end = FALSE
      /\ i.by["hour"] # <<>> =>
           /\ s6.end = AtEnd(i, "hour")
           /\ s6.it = IF AtEnd(i, "hour") /\ rule.freq = "HOURLY"
                       THEN IncDay(NextValue(i, "hour"), 1) ELSE NextValue(i, "hour")
  BY <1>1, <1>6 DEF NextPart
<1> QED BY <1>2, <1>3, <1>4, <1>5, <1>6, <1>7

\* What the step from one value of a list to the next does.
LEMMA NextValueMoves ==
  ASSUME Rule, NEW p \in ClockOfDay, NEW i, IterFits(i), InList(i, rule, p), i.by[p] # <<>>
  PROVE  /\ IterFits(NextValue(i, p)) /\ InList(NextValue(i, p), rule, p)
         /\ NextValue(i, p).by = i.by
         /\ \A q \in ListNames \ {p} : NextValue(i, p).at[q] = i.at[q]
         /\ \A q \in ClockOfDay \ {p} : NextValue(i, p).last[q] = i.last[q]
         /\ SameDate(i.last, NextValue(i, p).last)
         /\ ~AtEnd(i, p) => i.last[p] < NextValue(i, p).last[p]
<1>t. PICK t : t = i.last
  OBVIOUS
<1>u. t \in Times
  BY <1>t, FitsFields
<1>l. PICK list, k : list = i.by[p] /\ k = i.at[p]
  OBVIOUS
<1>m. PICK M : M = IF p = "hour" THEN 0..23 ELSE 0..59
  OBVIOUS
<1>1. list \in Seq(M) /\ M \subseteq Int
  <2>1. i.by["hour"] \in Seq(0..23) /\ i.by["minute"] \in Seq(0..59) /\ i.by["second"] \in Seq(0..59)
    BY FitsFields DEF ByLists
  <2>2. CASE p = "hour"
    BY <1>l, <1>m, <2>1, <2>2
  <2>3. CASE p = "minute"
    BY <1>l, <1>m, <2>1, <2>3
  <2>4. CASE p = "second"
    BY <1>l, <1>m, <2>1, <2>4
  <2> QED BY <2>2, <2>3, <2>4 DEF ClockOfDay
<1>2. /\ k \in 1..Len(list) /\ t[p] = list[k] /\ Len(list) \in Nat
      /\ DOMAIN list = 1..Len(list) /\ \A a \in 1..Len(list) : list[a] \in M
  <2>1. k \in 1..Len(list) /\ t[p] = list[k]
    BY <1>l, <1>t DEF InList
  <2> QED BY <1>1, <2>1
<1>3. \A a, b \in 1..Len(list) : a < b => list[a] < list[b]
  BY <1>l, <1>2 DEF InList, Ascending
<1>4. PICK n \in 1..Len(list) : n = IF AtEnd(i, p) THEN 1 ELSE k + 1
  BY <1>l, <1>2 DEF AtEnd
<1>5. PICK u : u = [t EXCEPT ![p] = list[n]]
  OBVIOUS
<1>6. PICK j : j = Put(i, p, n, u)
  OBVIOUS
<1>7. NextValue(i, p) = j
  <2>1. j = [i EXCEPT !.at[p] = n, !.last[p] = list[n]]
    BY <1>5, <1>6, <1>t, FitsFields DEF Put
  <2> QED BY <1>l, <1>4, <2>1 DEF NextValue
<1>8. /\ u \in Times /\ u.month = t.month /\ u[p] = list[n] /\ SameDate(t, u)
      /\ \A q \in ClockOfDay \ {p} : u[q] = t[q]
  <2>1. list[n] \in M
    BY <1>2, <1>4
  <2>2. CASE p = "hour"
    <3>1. Is(u, t.year, t.month, t.day, list[n], t.minute, t.second)
      BY <1>m, <1>5, <1>u, <2>1, <2>2, HourMoved
    <3> QED BY <2>2, <3>1 DEF Is, SameDate, ClockOfDay
  <2>3. CASE p = "minute"
    <3>1. Is(u, t.year, t.month, t.day, t.hour, list[n], t.second)
      BY <1>m, <1>5, <1>u, <2>1, <2>3, MinuteMoved
    <3> QED BY <2>3, <3>1 DEF Is, SameDate, ClockOfDay
  <2>4. CASE p = "second"
    <3>1. Is(u, t.year, t.month, t.day, t.hour, t.minute, list[n])
      BY <1>m, <1>5, <1>u, <2>1, <2>4, SecondMoved
    <3> QED BY <2>4, <3>1 DEF Is, SameDate, ClockOfDay
  <2> QED BY <2>2, <2>3, <2>4 DEF ClockOfDay
<1>9. /\ IterFits(j) /\ j.last = u /\ j.by = i.by /\ j.at[p] = n
      /\ \A q \in ListNames \ {p} : j.at[q] = i.at[q]
  <2>1. p \in ListNames \ {"month"} /\ n \in Nat
    BY <1>2, <1>4 DEF ClockOfDay, ListNames
  <2>2. u \in Times /\ u.month = i.last.month
    BY <1>8, <1>t
  <2> QED BY <1>6, <2>1, <2>2, FitsPut
<1>10. InList(j, rule, p)
  BY <1>2, <1>4, <1>8, <1>9, <1>l DEF InList
<1>11. ~AtEnd(i, p) => t[p] < u[p]
  <2> SUFFICES ASSUME ~AtEnd(i, p) PROVE list[k] < list[n]
    BY <1>2, <1>8
  <2>1. k < n
    BY <1>2, <1>4
  <2> QED BY <1>2, <1>3, <1>4, <2>1
<1> QED BY <1>7, <1>8, <1>9, <1>10, <1>11, <1>t

\* The seconds: the next one is later, in its minute unless it is the rule's.
LEMMA NextSecondMoves ==
  ASSUME Rule, NEW i, IterFits(i), InList(i, rule, "second")
  PROVE  /\ IterFits(NextSecond(i).it) /\ InList(NextSecond(i).it, rule, "second")
         /\ NextSecond(i).it.by = i.by /\ NextSecond(i).end \in BOOLEAN
         /\ rule.freq = "SECONDLY" \/ ~NextSecond(i).end => Before(i.last, NextSecond(i).it.last)
         /\ rule.freq # "SECONDLY" =>
              /\ SameMinute(i.last, NextSecond(i).it.last)
              /\ \A q \in ListNames \ {"second"} : NextSecond(i).it.at[q] = i.at[q]
<1>s. PICK s : s = NextSecond(i)
  OBVIOUS
<1>i. rule.interval \in Nat \ {0}
  BY DEF Rule
<1>1. CASE i.by["second"] = <<>>
  <2>1. s.it = IncSecond(i, rule.interval) /\ s.end = FALSE
    BY <1>s, <1>1, PartSteps DEF NextSecond
  <2>2. IterFits(s.it) /\ s.it.by = i.by /\ Before(i.last, s.it.last)
    BY <1>i, <2>1, IncSecondMoves
  <2>3. rule.freq = "SECONDLY"
    BY <1>1 DEF InList, Freq
  <2>4. InList(s.it, rule, "second")
    BY <1>1, <2>2 DEF InList
  <2> QED BY <1>s, <2>1, <2>2, <2>3, <2>4
<1>2. CASE i.by["second"] # <<>>
  <2>v. PICK v, e : v = NextValue(i, "second") /\ e = AtEnd(i, "second")
    OBVIOUS
  <2>0. e \in BOOLEAN
    BY <2>v DEF AtEnd
  <2>1. /\ s.it = IF e /\ rule.freq = "SECONDLY" THEN IncMinute(v, 1) ELSE v
        /\ s.end = e
    BY <1>s, <1>2, <2>v, PartSteps DEF NextSecond
  <2>2. /\ IterFits(v) /\ InList(v, rule, "second") /\ v.by = i.by
        /\ \A q \in ListNames \ {"second"} : v.at[q] = i.at[q]
        /\ v.last["hour"] = i.last["hour"] /\ v.last["minute"] = i.last["minute"]
        /\ SameDate(i.last, v.last)
        /\ ~e => i.last["second"] < v.last["second"]
    BY <1>2, <2>v, NextValueMoves DEF ClockOfDay
  <2>3. SameMinute(i.last, v.last)
    BY <2>2 DEF SameMinute, SameHour
  <2>4. ~e => Before(i.last, v.last)
    BY <2>2, <2>3 DEF Before
  <2>5. CASE e /\ rule.freq = "SECONDLY"
    <3>1. IterFits(s.it) /\ PartKept(v, s.it, "second") /\ MinuteBefore(v.last, s.it.last)
      BY <2>1, <2>2, <2>5, IncMinuteMoves
    <3>2. InList(s.it, rule, "second")
      BY <2>2, <3>1, KeptInList
    <3>3. MinuteBefore(i.last, s.it.last)
      <4>1. i.last \in Times /\ v.last \in Times /\ s.it.last \in Times
        BY <2>2, <3>1, FitsFields
      <4> QED BY <2>3, <3>1, <4>1, BeforeAfter
    <3>4. s.it.by = i.by
      BY <2>2, <3>1 DEF PartKept
    <3> QED BY <1>s, <2>0, <2>1, <2>5, <3>1, <3>2, <3>3, <3>4 DEF Before
  <2>6. CASE ~(e /\ rule.freq = "SECONDLY")
    <3>1. s.it = v
      BY <2>1, <2>6
    <3> QED BY <1>s, <2>0, <2>1, <2>2, <2>3, <2>4, <2>6, <3>1
  <2> QED BY <2>5, <2>6
<1> QED BY <1>1, <1>2

\* What next_minute is, by what next_second ended with,
LEMMA NextMinuteOf ==
  ASSUME NEW i
  PROVE  NextMinute(i) = IF NextSecond(i).end
                         THEN NextPart(NextSecond(i).it, "minute", IncMinute, IncHour)
                         ELSE NextSecond(i)
<1> DEFINE s == NextSecond(i)
           After(y) == IF y.end THEN NextPart(y.it, "minute", IncMinute, IncHour) ELSE y
<1>1. NextMinute(i) = CHOOSE v \in {After(y) : y \in {s}} : TRUE
  BY DEF NextMinute, Of
<1> HIDE DEF After
<1>2. {After(y) : y \in {s}} = {After(s)}
  OBVIOUS
<1>3. NextMinute(i) = After(s)
  BY <1>1, <1>2
<1> QED BY <1>3 DEF After

\* and what next_hour is, by what next_minute ended with.
LEMMA NextHourOf ==
  ASSUME NEW i
  PROVE  NextHour(i) = IF NextMinute(i).end
                       THEN NextPart(NextMinute(i).it, "hour", IncHour, IncDay)
                       ELSE NextMinute(i)
<1> DEFINE s == NextMinute(i)
           After(y) == IF y.end THEN NextPart(y.it, "hour", IncHour, IncDay) ELSE y
<1>1. NextHour(i) = CHOOSE v \in {After(y) : y \in {s}} : TRUE
  BY DEF NextHour, Of
<1> HIDE DEF After
<1>2. {After(y) : y \in {s}} = {After(s)}
  OBVIOUS
<1>3. NextHour(i) = After(s)
  BY <1>1, <1>2
<1> QED BY <1>3 DEF After

\* The minutes: what is given is later, and in its hour if the minutes are not
\* the rule's.
LEMMA NextMinuteMoves ==
  ASSUME Rule, rule.freq # "SECONDLY",
         NEW i, IterFits(i), InList(i, rule, "second"), InList(i, rule, "minute")
  PROVE  /\ IterFits(NextMinute(i).it)
         /\ InList(NextMinute(i).it, rule, "second") /\ InList(NextMinute(i).it, rule, "minute")
         /\ NextMinute(i).it.by = i.by /\ NextMinute(i).end \in BOOLEAN
         /\ rule.freq = "MINUTELY" \/ ~NextMinute(i).end => Before(i.last, NextMinute(i).it.last)
         /\ rule.freq # "MINUTELY" =>
              /\ SameHour(i.last, NextMinute(i).it.last)
              /\ \A q \in ListNames \ {"second", "minute"} : NextMinute(i).it.at[q] = i.at[q]
<1>s. PICK s, m : s = NextSecond(i) /\ m = NextMinute(i)
  OBVIOUS
<1>k. PICK k : k = s.it
  OBVIOUS
<1>i. rule.interval \in Nat \ {0}
  BY DEF Rule
<1>0. /\ IterFits(k) /\ InList(k, rule, "second") /\ k.by = i.by /\ s.end \in BOOLEAN
      /\ ~s.end => Before(i.last, k.last)
      /\ SameMinute(i.last, k.last)
      /\ \A q \in ListNames \ {"second"} : k.at[q] = i.at[q]
  BY <1>s, <1>k, NextSecondMoves
<1>a. k.at["minute"] = i.at["minute"]
  BY <1>0 DEF ListNames
<1>b. InList(k, rule, "minute")
  <2>1. k.last["minute"] = i.last["minute"]
    BY <1>0 DEF SameMinute
  <2> QED BY <1>0, <1>a, <2>1, KeptInList DEF PartKept
<1>1. CASE ~s.end
  <2>1. m = s
    BY <1>s, <1>1, NextMinuteOf
  <2>2. SameHour(i.last, k.last)
    BY <1>0 DEF SameMinute
  <2> QED BY <1>s, <1>k, <1>0, <1>1, <1>b, <2>1, <2>2
<1>2. CASE s.end
  <2>p. m = NextPart(k, "minute", IncMinute, IncHour)
    BY <1>s, <1>k, <1>2, NextMinuteOf
  <2>1. CASE k.by["minute"] = <<>>
    <3>1. m.it = IncMinute(k, rule.interval) /\ m.end = FALSE
      BY <2>p, <2>1, PartSteps
    <3>2. IterFits(m.it) /\ PartKept(k, m.it, "second") /\ MinuteBefore(k.last, m.it.last)
      BY <1>i, <1>0, <3>1, IncMinuteMoves
    <3>3. rule.freq = "MINUTELY"
      BY <1>b, <2>1 DEF InList, Freq
    <3>4. InList(m.it, rule, "second")
      BY <1>0, <3>2, KeptInList
    <3>5. InList(m.it, rule, "minute") /\ m.it.by = i.by
      BY <1>0, <1>b, <2>1, <3>2 DEF InList, PartKept
    <3>6. MinuteBefore(i.last, m.it.last)
      <4>1. i.last \in Times /\ k.last \in Times /\ m.it.last \in Times
        BY <1>0, <3>2, FitsFields
      <4> QED BY <1>0, <3>2, <4>1, BeforeAfter
    <3> QED BY <1>s, <3>1, <3>2, <3>3, <3>4, <3>5, <3>6 DEF Before
  <2>2. CASE k.by["minute"] # <<>>
    <3>v. PICK v, e : v = NextValue(k, "minute") /\ e = AtEnd(k, "minute")
      OBVIOUS
    <3>0. e \in BOOLEAN
      BY <3>v DEF AtEnd
    <3>1. /\ m.it = IF e /\ rule.freq = "MINUTELY" THEN IncHour(v, 1) ELSE v
          /\ m.end = e
      BY <2>p, <2>2, <3>v, PartSteps
    <3>2. /\ IterFits(v) /\ InList(v, rule, "minute") /\ v.by = k.by
          /\ \A q \in ListNames \ {"minute"} : v.at[q] = k.at[q]
          /\ v.last["hour"] = k.last["hour"] /\ v.last["second"] = k.last["second"]
          /\ SameDate(k.last, v.last)
          /\ ~e => k.last["minute"] < v.last["minute"]
      BY <1>0, <1>b, <2>2, <3>v, NextValueMoves DEF ClockOfDay
    <3>3. SameHour(i.last, v.last)
      <4>1. SameHour(k.last, v.last)
        BY <3>2 DEF SameHour
      <4> QED BY <1>0, <4>1 DEF SameMinute, SameHour, SameDate
    <3>4. ~e => Before(i.last, v.last)
      <4>1. i.last.minute = k.last.minute
        BY <1>0 DEF SameMinute
      <4> QED BY <3>2, <3>3, <4>1 DEF Before, MinuteBefore
    <3>5. InList(v, rule, "second")
      <4>1. v.at["second"] = k.at["second"]
        BY <3>2 DEF ListNames
      <4> QED BY <1>0, <3>2, <4>1, KeptInList DEF PartKept
    <3>6. \A q \in ListNames \ {"second", "minute"} : v.at[q] = i.at[q]
      BY <1>0, <3>2
    <3>7. CASE e /\ rule.freq = "MINUTELY"
      <4>1. /\ IterFits(m.it) /\ PartKept(v, m.it, "second") /\ PartKept(v, m.it, "minute")
            /\ HourBefore(v.last, m.it.last)
        BY <3>1, <3>2, <3>7, IncHourMoves
      <4>2. InList(m.it, rule, "second") /\ InList(m.it, rule, "minute")
        BY <3>2, <3>5, <4>1, KeptInList
      <4>3. HourBefore(i.last, m.it.last)
        <5>1. i.last \in Times /\ v.last \in Times /\ m.it.last \in Times
          BY <3>2, <4>1, FitsFields
        <5> QED BY <3>3, <4>1, <5>1, BeforeAfter
      <4>4. m.it.by = i.by
        BY <1>0, <3>2, <4>1 DEF PartKept
      <4> QED BY <1>s, <3>0, <3>1, <3>7, <4>1, <4>2, <4>3, <4>4 DEF Before, MinuteBefore
    <3>8. CASE ~(e /\ rule.freq = "MINUTELY")
      <4>1. m.it = v
        BY <3>1, <3>8
      <4> QED BY <1>s, <1>0, <3>0, <3>1, <3>2, <3>3, <3>4, <3>5, <3>6, <3>8, <4>1
    <3> QED BY <3>7, <3>8
  <2> QED BY <2>1, <2>2
<1> QED BY <1>0, <1>1, <1>2

\* The hours: what is given is later, and of its day if the hours are not the
\* rule's.
LEMMA NextHourMoves ==
  ASSUME Rule, rule.freq \notin {"SECONDLY", "MINUTELY"},
         NEW i, IterFits(i), \A p \in ClockOfDay : InList(i, rule, p)
  PROVE  /\ IterFits(NextHour(i).it)
         /\ \A p \in ClockOfDay : InList(NextHour(i).it, rule, p)
         /\ NextHour(i).it.by = i.by /\ NextHour(i).end \in BOOLEAN
         /\ rule.freq = "HOURLY" \/ ~NextHour(i).end => Before(i.last, NextHour(i).it.last)
         /\ rule.freq # "HOURLY" =>
              /\ SameDate(i.last, NextHour(i).it.last)
              /\ \A q \in ListNames \ ClockOfDay : NextHour(i).it.at[q] = i.at[q]
<1>s. PICK s, m : s = NextMinute(i) /\ m = NextHour(i)
  OBVIOUS
<1>k. PICK k : k = s.it
  OBVIOUS
<1>i. rule.interval \in Nat \ {0}
  BY DEF Rule
<1>c. InList(i, rule, "second") /\ InList(i, rule, "minute") /\ InList(i, rule, "hour")
  BY DEF ClockOfDay
<1>0. /\ IterFits(k) /\ InList(k, rule, "second") /\ InList(k, rule, "minute")
      /\ k.by = i.by /\ s.end \in BOOLEAN
      /\ ~s.end => Before(i.last, k.last)
      /\ SameHour(i.last, k.last)
      /\ \A q \in ListNames \ {"second", "minute"} : k.at[q] = i.at[q]
  BY <1>s, <1>k, <1>c, NextMinuteMoves
<1>a. /\ k.at["hour"] = i.at["hour"]
      /\ \A q \in ListNames \ ClockOfDay : k.at[q] = i.at[q]
  BY <1>0 DEF ListNames, ClockOfDay
<1>b. InList(k, rule, "hour")
  <2>1. k.last["hour"] = i.last["hour"]
    BY <1>0 DEF SameHour
  <2> QED BY <1>0, <1>a, <1>c, <2>1, KeptInList DEF PartKept
<1>d. \A p \in ClockOfDay : InList(k, rule, p)
  BY <1>0, <1>b DEF ClockOfDay
<1>1. CASE ~s.end
  <2>1. m = s
    BY <1>s, <1>1, NextHourOf
  <2>2. SameDate(i.last, k.last)
    BY <1>0 DEF SameHour
  <2> QED BY <1>s, <1>k, <1>0, <1>1, <1>a, <1>d, <2>1, <2>2
<1>2. CASE s.end
  <2>p. m = NextPart(k, "hour", IncHour, IncDay)
    BY <1>s, <1>k, <1>2, NextHourOf
  <2>1. CASE k.by["hour"] = <<>>
    <3>1. m.it = IncHour(k, rule.interval) /\ m.end = FALSE
      BY <2>p, <2>1, PartSteps
    <3>2. /\ IterFits(m.it) /\ PartKept(k, m.it, "second") /\ PartKept(k, m.it, "minute")
          /\ HourBefore(k.last, m.it.last)
      BY <1>i, <1>0, <3>1, IncHourMoves
    <3>3. rule.freq = "HOURLY"
      BY <1>b, <2>1 DEF InList, Freq
    <3>4. InList(m.it, rule, "second") /\ InList(m.it, rule, "minute")
      BY <1>0, <3>2, KeptInList
    <3>5. InList(m.it, rule, "hour") /\ m.it.by = i.by
      BY <1>0, <1>b, <2>1, <3>2 DEF InList, PartKept
    <3>6. HourBefore(i.last, m.it.last)
      <4>1. i.last \in Times /\ k.last \in Times /\ m.it.last \in Times
        BY <1>0, <3>2, FitsFields
      <4> QED BY <1>0, <3>2, <4>1, BeforeAfter
    <3>7. \A p \in ClockOfDay : InList(m.it, rule, p)
      BY <3>4, <3>5 DEF ClockOfDay
    <3> QED BY <1>s, <3>1, <3>2, <3>3, <3>5, <3>6, <3>7 DEF Before, MinuteBefore
  <2>2. CASE k.by["hour"] # <<>>
    <3>v. PICK v, e : v = NextValue(k, "hour") /\ e = AtEnd(k, "hour")
      OBVIOUS
    <3>0. e \in BOOLEAN
      BY <3>v DEF AtEnd
    <3>1. /\ m.it = IF e /\ rule.freq = "HOURLY" THEN IncDay(v, 1) ELSE v
          /\ m.end = e
      BY <2>p, <2>2, <3>v, PartSteps
    <3>2. /\ IterFits(v) /\ InList(v, rule, "hour") /\ v.by = k.by
          /\ \A q \in ListNames \ {"hour"} : v.at[q] = k.at[q]
          /\ v.last["minute"] = k.last["minute"] /\ v.last["second"] = k.last["second"]
          /\ SameDate(k.last, v.last)
          /\ ~e => k.last["hour"] < v.last["hour"]
      BY <1>0, <1>b, <2>2, <3>v, NextValueMoves DEF ClockOfDay
    <3>3. SameDate(i.last, v.last)
      BY <1>0, <3>2 DEF SameHour, SameDate
    <3>4. ~e => Before(i.last, v.last)
      <4>1. i.last.hour = k.last.hour
        BY <1>0 DEF SameHour
      <4> QED BY <3>2, <3>3, <4>1 DEF Before, MinuteBefore, HourBefore
    <3>5. InList(v, rule, "second") /\ InList(v, rule, "minute")
      <4>1. v.at["second"] = k.at["second"] /\ v.at["minute"] = k.at["minute"]
        BY <3>2 DEF ListNames
      <4> QED BY <1>0, <3>2, <4>1, KeptInList DEF PartKept
    <3>6. \A q \in ListNames \ ClockOfDay : v.at[q] = i.at[q]
      BY <1>a, <3>2 DEF ClockOfDay
    <3>7. CASE e /\ rule.freq = "HOURLY"
      <4>1. /\ IterFits(m.it) /\ \A p \in ClockOfDay : PartKept(v, m.it, p)
            /\ DateBefore(v.last, m.it.last)
        BY <3>1, <3>2, <3>7, IncDayMoves
      <4>2. \A p \in ClockOfDay : InList(m.it, rule, p)
        BY <3>2, <3>5, <4>1, KeptInList DEF ClockOfDay
      <4>3. DateBefore(i.last, m.it.last)
        <5>1. i.last \in Times /\ v.last \in Times /\ m.it.last \in Times
          BY <3>2, <4>1, FitsFields
        <5> QED BY <3>3, <4>1, <5>1, BeforeAfter
      <4>4. m.it.by = i.by
        BY <1>0, <3>2, <4>1 DEF PartKept, ClockOfDay
      <4> QED BY <1>s, <3>0, <3>1, <3>7, <4>1, <4>2, <4>3, <4>4 DEF Before, MinuteBefore, HourBefore
    <3>8. CASE ~(e /\ rule.freq = "HOURLY")
      <4>1. m.it = v
        BY <3>1, <3>8
      <4>2. \A p \in ClockOfDay : InList(v, rule, p)
        BY <3>2, <3>5 DEF ClockOfDay
      <4> QED BY <1>s, <1>0, <3>0, <3>1, <3>2, <3>3, <3>4, <3>6, <3>8, <4>1, <4>2
    <3> QED BY <3>7, <3>8
  <2> QED BY <2>1, <2>2
<1> QED BY <1>0, <1>1, <1>2

----------------------------------------------------------------------------
(* Days and months.                                                        *)

\* An iterator that is in all the lists it goes through.
OnPath(i, r) ==
  /\ Iterator(i, r)
  /\ \A p \in Walked(r) : InList(i, r, p)
  /\ "day" \in Walked(r) => \A k \in DOMAIN i.by.day : i.by.day[k] > 0

\* The lists that are walked through at each frequency.
LEMMA WalkedParts ==
  ASSUME Rule
  PROVE  /\ rule.freq = "SECONDLY" => Walked(rule) = {"second", "month"}
         /\ rule.freq = "MINUTELY" => Walked(rule) = {"second", "minute", "month"}
         /\ rule.freq \in {"HOURLY", "DAILY"} => Walked(rule) = ClockOfDay \cup {"month"}
         /\ rule.freq = "MONTHLY" =>
              Walked(rule) = ClockOfDay \cup {"month"}
                               \cup (IF ~Has("weekday") /\ Has("day") THEN {"day"} ELSE {})
<1>1. CASE rule.freq = "SECONDLY"
  BY <1>1 DEF Walked
<1>2. CASE rule.freq = "MINUTELY"
  BY <1>2 DEF Walked
<1>3. CASE rule.freq \in {"HOURLY", "DAILY"}
  BY <1>3 DEF Walked, ClockOfDay
<1>4. CASE rule.freq = "MONTHLY"
  <2>1. "MONTHLY" \notin {"SECONDLY", "MINUTELY"}
    OBVIOUS
  <2>2. CASE ~Has("weekday") /\ Has("day")
    BY <1>4, <2>2 DEF Walked, ClockOfDay, Has
  <2>3. CASE ~(~Has("weekday") /\ Has("day"))
    BY <1>4, <2>3 DEF Walked, ClockOfDay, Has
  <2> QED BY <2>2, <2>3
<1> QED BY <1>1, <1>2, <1>3, <1>4 DEF Rule

\* A pass for a rule of seconds takes the iterator further, and leaves it in its lists,
LEMMA SecondlyMoves ==
  ASSUME Rule, rule.freq = "SECONDLY", NEW i, OnPath(i, rule)
  PROVE  OnPath(NextSecond(i).it, rule) /\ Before(i.last, NextSecond(i).it.last)
<1>1. Walked(rule) = {"second", "month"}
  BY WalkedParts
<1>2. IterFits(i) /\ InList(i, rule, "second")
  BY <1>1 DEF OnPath, IterFits
<1>3. /\ IterFits(NextSecond(i).it) /\ InList(NextSecond(i).it, rule, "second")
      /\ Before(i.last, NextSecond(i).it.last)
  BY <1>2, NextSecondMoves
<1> QED BY <1>1, <1>3 DEF OnPath, IterFits

\* as does a pass for a rule of minutes,
LEMMA MinutelyMoves ==
  ASSUME Rule, rule.freq = "MINUTELY", NEW i, OnPath(i, rule)
  PROVE  OnPath(NextMinute(i).it, rule) /\ Before(i.last, NextMinute(i).it.last)
<1>1. Walked(rule) = {"second", "minute", "month"} /\ rule.freq # "SECONDLY"
  BY WalkedParts
<1>2. IterFits(i) /\ InList(i, rule, "second") /\ InList(i, rule, "minute")
  BY <1>1 DEF OnPath, IterFits
<1>3. /\ IterFits(NextMinute(i).it)
      /\ InList(NextMinute(i).it, rule, "second") /\ InList(NextMinute(i).it, rule, "minute")
      /\ Before(i.last, NextMinute(i).it.last)
  BY <1>1, <1>2, NextMinuteMoves
<1> QED BY <1>1, <1>3 DEF OnPath, IterFits

\* and one for a rule of hours.
LEMMA HourlyMoves ==
  ASSUME Rule, rule.freq = "HOURLY", NEW i, OnPath(i, rule)
  PROVE  OnPath(NextHour(i).it, rule) /\ Before(i.last, NextHour(i).it.last)
<1>1. Walked(rule) = ClockOfDay \cup {"month"} /\ rule.freq \notin {"SECONDLY", "MINUTELY"}
  BY WalkedParts
<1>2. IterFits(i) /\ \A p \in ClockOfDay : InList(i, rule, p)
  BY <1>1 DEF OnPath, IterFits
<1>3. /\ IterFits(NextHour(i).it)
      /\ \A p \in ClockOfDay : InList(NextHour(i).it, rule, p)
      /\ Before(i.last, NextHour(i).it.last)
  BY <1>1, <1>2, NextHourMoves
<1>4. "day" \notin Walked(rule)
  BY <1>1 DEF ClockOfDay
<1> QED BY <1>1, <1>3, <1>4 DEF OnPath, IterFits

\* What next_day is, by what next_hour ended with.
LEMMA NextDayOf ==
  ASSUME NEW i
  PROVE  NextDay(i) = IF NextHour(i).end THEN IncDay(NextHour(i).it, rule.interval)
                                         ELSE NextHour(i).it
<1> DEFINE s == NextHour(i)
           After(y) == IF y.end THEN IncDay(y.it, rule.interval) ELSE y.it
<1>1. NextDay(i) = CHOOSE v \in {After(y) : y \in {s}} : TRUE
  BY DEF NextDay, Of
<1> HIDE DEF After
<1>2. {After(y) : y \in {s}} = {After(s)}
  OBVIOUS
<1>3. NextDay(i) = After(s)
  BY <1>1, <1>2
<1> QED BY <1>3 DEF After

\* A pass of a rule of days.
LEMMA DailyMoves ==
  ASSUME Rule, rule.freq = "DAILY", NEW i, OnPath(i, rule)
  PROVE  OnPath(NextDay(i), rule) /\ Before(i.last, NextDay(i).last)
<1>s. PICK h, j : h = NextHour(i) /\ j = NextDay(i)
  OBVIOUS
<1>k. PICK k : k = h.it
  OBVIOUS
<1>1. /\ Walked(rule) = ClockOfDay \cup {"month"} /\ "day" \notin Walked(rule)
      /\ rule.freq \notin {"SECONDLY", "MINUTELY", "HOURLY"}
  BY WalkedParts DEF ClockOfDay
<1>2. IterFits(i) /\ \A p \in ClockOfDay : InList(i, rule, p)
  BY <1>1 DEF OnPath, IterFits
<1>3. /\ IterFits(k) /\ \A p \in ClockOfDay : InList(k, rule, p)
      /\ h.end \in BOOLEAN
      /\ ~h.end => Before(i.last, k.last)
      /\ SameDate(i.last, k.last)
  BY <1>s, <1>k, <1>1, <1>2, NextHourMoves
<1>4. CASE ~h.end
  <2>1. j = k
    BY <1>s, <1>k, <1>4, NextDayOf
  <2>2. OnPath(k, rule)
    BY <1>1, <1>3 DEF OnPath, IterFits
  <2>3. Before(i.last, k.last)
    BY <1>3, <1>4
  <2> QED BY <1>s, <2>1, <2>2, <2>3
<1>5. CASE h.end
  <2>1. j = IncDay(k, rule.interval) /\ rule.interval \in Nat \ {0}
    BY <1>s, <1>k, <1>5, NextDayOf DEF Rule
  <2>2. /\ IterFits(j) /\ \A p \in ClockOfDay : PartKept(k, j, p)
        /\ DateBefore(k.last, j.last)
    BY <1>3, <2>1, IncDayMoves
  <2>3. \A p \in ClockOfDay : InList(j, rule, p)
    BY <1>3, <2>2, KeptInList
  <2>4. DateBefore(i.last, j.last)
    <3>1. i.last \in Times /\ k.last \in Times /\ j.last \in Times
      BY <1>2, <1>3, <2>2, FitsFields
    <3> QED BY <1>3, <2>2, <3>1, BeforeAfter
  <2>5. OnPath(j, rule)
    BY <1>1, <2>2, <2>3 DEF OnPath, IterFits
  <2>6. Before(i.last, j.last)
    BY <2>4 DEF Before, MinuteBefore, HourBefore
  <2> QED BY <1>s, <2>5, <2>6
<1> QED BY <1>3, <1>4, <1>5

\* To a day that is later in the month, or to the first of the next month.
LEMMA ToDayMoves ==
  ASSUME Rule, NEW i, IterFits(i), NEW days, days \subseteq {d \in MonthOf(i) : d > i.last.day}
  PROVE  /\ IterFits(ToDay(i, days))
         /\ \A p \in ClockOfDay : PartKept(i, ToDay(i, days), p)
         /\ DateBefore(i.last, ToDay(i, days).last)
<1>t. PICK t : t = i.last
  OBVIOUS
<1>u. t \in Times /\ t.month \in 1..12 /\ t.day \in Int
  BY <1>t, FitsFields, TimeFields
<1>j. PICK j : j = ToDay(i, days)
  OBVIOUS
<1>1. CASE days = {}
  <2>2. PICK u : u = [t EXCEPT !.day = 1]
    OBVIOUS
  <2>3. PICK k : k = [i EXCEPT !.last = u]
    OBVIOUS
  <2>4. j = IncMonth(k)
    <3>1. [i EXCEPT !.last.day = 1] = k
      BY <1>t, <2>2, <2>3, FitsFields
    <3> QED BY <1>1, <1>j, <3>1 DEF ToDay
  <2>5. Is(u, t.year, t.month, 1, t.hour, t.minute, t.second)
    BY <1>u, <2>2, DayMoved
  <2>6. u \in Times /\ u.month = i.last.month
    BY <1>t, <2>5 DEF Is
  <2>7. IterFits(k) /\ k.last = u /\ k.by = i.by /\ k.at = i.at
    BY <2>3, <2>6, FitsAnother
  <2>9. /\ Iterator(j, rule) /\ InList(j, rule, "month") /\ OnlyDate(k, j)
        /\ DateBefore(u, j.last) /\ j.last.day = 1
    BY <2>4, <2>5, <2>7, IncMonthMoves DEF IterFits, Is
  <2>10. DateBefore(t, j.last)
    BY <2>5, <2>9 DEF DateBefore, Is
  <2>11. \A p \in ClockOfDay : j.last[p] = i.last[p] /\ j.at[p] = i.at[p]
    BY <1>t, <2>5, <2>7, <2>9 DEF ClockOfDay, Is, OnlyDate, ListNames
  <2>12. j.by = i.by
    BY <2>7, <2>9 DEF OnlyDate
  <2> QED BY <1>t, <1>j, <2>9, <2>10, <2>11, <2>12 DEF IterFits, PartKept
<1>2. CASE days # {}
  <2>1. PICK d : d = Least(days)
    OBVIOUS
  <2>2. d \in days
    <3>1. days \in SUBSET Nat
      BY DEF MonthOf
    <3>2. \E x \in days : \A y \in days : x <= y
      BY <1>2, <3>1, LeastNumber
    <3> QED BY <2>1, <3>2 DEF Least
  <2>3. d \in Int /\ t.day < d
    BY <1>t, <1>u, <2>2 DEF MonthOf
  <2>4. PICK u : u = [t EXCEPT !.day = d]
    OBVIOUS
  <2>5. j = [i EXCEPT !.last = u]
    <3>1. j = [i EXCEPT !.last.day = d]
      BY <1>2, <1>j, <2>1 DEF ToDay
    <3> QED BY <1>t, <2>4, <3>1, FitsFields
  <2>6. Is(u, t.year, t.month, d, t.hour, t.minute, t.second)
    BY <1>u, <2>3, <2>4, DayMoved
  <2>7. u \in Times /\ u.month = i.last.month
    BY <1>t, <2>6 DEF Is
  <2>8. IterFits(j) /\ j.last = u /\ j.by = i.by /\ j.at = i.at
    BY <2>5, <2>7, FitsAnother
  <2>9. DateBefore(t, u)
    BY <2>3, <2>6 DEF DateBefore, Is
  <2>10. \A p \in ClockOfDay : j.last[p] = i.last[p]
    BY <1>t, <2>6, <2>8 DEF ClockOfDay, Is
  <2> QED BY <1>t, <1>j, <2>8, <2>9, <2>10 DEF PartKept
<1> QED BY <1>1, <1>2

\* The next weekday that a month lists, or else the next month, is a later date.
LEMMA MonthWeekdaysMove ==
  ASSUME Rule, NEW i, IterFits(i), NEW j, j \in {ByDay(i).it, ByDayAndMonthDay(i).it}
  PROVE  IterFits(j) /\ (\A p \in ClockOfDay : PartKept(i, j, p)) /\ DateBefore(i.last, j.last)
<1>1. PICK set : set = {d \in MonthOf(i) : InByDay(On(i, d))}
  OBVIOUS
<1>2. PICK days : days = {d \in set : d > i.last.day /\ (Has("setpos") => InSetPos(set, d))}
  OBVIOUS
<1>3. ByDay(i).it = ToDay(i, days)
  BY <1>1, <1>2 DEF ByDay
<1>4. PICK others : others = {d \in MonthOf(i) : /\ d > i.last.day /\ d \in Range(i.by.day)
                                                /\ InByDay(On(i, d))}
  OBVIOUS
<1>5. ByDayAndMonthDay(i).it = ToDay(i, others)
  BY <1>4 DEF ByDayAndMonthDay
<1>6. \E S : S \subseteq {d \in MonthOf(i) : d > i.last.day} /\ j = ToDay(i, S)
  <2>1. days \subseteq {d \in MonthOf(i) : d > i.last.day}
    BY <1>1, <1>2
  <2>2. others \subseteq {d \in MonthOf(i) : d > i.last.day}
    BY <1>4
  <2> QED BY <1>3, <1>5, <2>1, <2>2
<1> QED BY <1>6, ToDayMoves

\* The next month by its fields, with the day and the clock as they were.
LEMMA MonthOnly ==
  ASSUME Rule, NEW i, IterFits(i)
  PROVE  /\ IterFits(IncMonth(i)) /\ OnlyDate(i, IncMonth(i)) /\ IncMonth(i).last.day = i.last.day
         /\ \/ i.last.year < IncMonth(i).last.year
            \/ i.last.year = IncMonth(i).last.year /\ i.last.month < IncMonth(i).last.month
<1>1. PICK j : j = IncMonth(i)
  OBVIOUS
<1>2. /\ Iterator(j, rule) /\ InList(j, rule, "month") /\ OnlyDate(i, j)
      /\ DateBefore(i.last, j.last) /\ j.last.day = i.last.day
  BY <1>1, IncMonthMoves DEF IterFits
<1>3. i.last.day \in Int
  BY FitsFields, TimeFields
<1>4. ~(i.last.day < j.last.day)
  BY <1>2, <1>3
<1> QED BY <1>1, <1>2, <1>4 DEF IterFits, DateBefore

\* The same day, or the last, of a later month.
LEMMA SameDayMoves ==
  ASSUME Rule, rule.freq = "MONTHLY", NEW i, IterFits(i)
  PROVE  /\ IterFits(SameDay(i).it)
         /\ \A p \in ClockOfDay : PartKept(i, SameDay(i).it, p)
         /\ DateBefore(i.last, SameDay(i).it.last)
<1>1. PICK k, t : k = IncMonth(i) /\ t = k.last
  OBVIOUS
<1>2. /\ IterFits(k) /\ OnlyDate(i, k)
      /\ i.last.year < t.year \/ (i.last.year = t.year /\ i.last.month < t.month)
  BY <1>1, MonthOnly
<1>3. t \in Times /\ t.month \in 1..12
  BY <1>1, <1>2, FitsFields, TimeFields
<1>4. i.by.day[1] \in Int
  <2>1. i.by.day # <<>> /\ i.by.day \in Seq(Int)
    BY FitsFields DEF IterFits, Iterator, ByLists
  <2>2. PICK list : list = i.by.day
    OBVIOUS
  <2>3. list \in Seq(Int) /\ 1 \in 1..Len(list)
    BY <2>1, <2>2
  <2>4. list[1] \in Int
    BY <2>3
  <2> QED BY <2>2, <2>4
<1>5. PICK len \in 28..31 : len = DaysInMonth(t.month, t.year)
  BY <1>3, DaysInMonthType
<1>6. PICK d \in Int : d = IF i.by.day[1] > len THEN len ELSE i.by.day[1]
  BY <1>4
<1>7. PICK u : u = [t EXCEPT !.day = d]
  OBVIOUS
<1>8. PICK j : j = [k EXCEPT !.last = u]
  OBVIOUS
<1>9. SameDay(i).it = j
  <2>1. [k EXCEPT !.last.day = d] = j
    BY <1>1, <1>2, <1>7, <1>8, FitsFields
  <2> QED BY <1>1, <1>5, <1>6, <2>1 DEF SameDay
<1>10. Is(u, t.year, t.month, d, t.hour, t.minute, t.second)
  BY <1>3, <1>6, <1>7, DayMoved
<1>11. u \in Times /\ u.month = k.last.month
  BY <1>1, <1>10 DEF Is
<1>12. IterFits(j) /\ j.last = u /\ j.by = k.by /\ j.at = k.at
  BY <1>2, <1>8, <1>11, FitsAnother
<1>13. DateBefore(i.last, u)
  BY <1>2, <1>10 DEF DateBefore, Is
<1>14. \A p \in ClockOfDay : j.last[p] = i.last[p] /\ j.at[p] = i.at[p]
  BY <1>1, <1>2, <1>10, <1>12 DEF ClockOfDay, Is, OnlyDate, ListNames
<1>15. j.by = i.by
  BY <1>2, <1>12 DEF OnlyDate
<1> QED BY <1>9, <1>12, <1>13, <1>14, <1>15 DEF PartKept

\* The next day of the list, in this month or in a later one.
LEMMA ByMonthDayMoves ==
  ASSUME Rule, NEW i, IterFits(i), InList(i, rule, "day"), i.by.day # <<>>,
         \A k \in DOMAIN i.by.day : i.by.day[k] > 0
  PROVE  /\ IterFits(ByMonthDay(i).it) /\ InList(ByMonthDay(i).it, rule, "day")
         /\ \A p \in ClockOfDay : PartKept(i, ByMonthDay(i).it, p)
         /\ DateBefore(i.last, ByMonthDay(i).it.last)
<1>l. PICK list, n : list = i.by.day /\ n = i.at.day
  OBVIOUS
<1>1. list \in Seq(Int)
  BY <1>l, FitsFields DEF ByLists
<1>2. /\ n \in 1..Len(list) /\ i.last.day = list[n] /\ Len(list) \in Nat
      /\ DOMAIN list = 1..Len(list)
      /\ \A a \in 1..Len(list) : list[a] \in Int /\ list[a] > 0
      /\ \A a, b \in 1..Len(list) : a < b => list[a] < list[b]
  <2>1. n \in 1..Len(list) /\ i.last.day = list[n] /\ Ascending(list)
    BY <1>l DEF InList
  <2>2. Len(list) \in Nat /\ DOMAIN list = 1..Len(list)
    BY <1>1
  <2>3. \A a \in 1..Len(list) : list[a] \in Int
    BY <1>1
  <2>4. \A a \in 1..Len(list) : list[a] > 0
    BY <1>l, <2>2
  <2>5. \A a, b \in 1..Len(list) : a < b => list[a] < list[b]
    BY <2>1, <2>2 DEF Ascending
  <2> QED BY <2>1, <2>2, <2>3, <2>4, <2>5
<1>d. "day" \in ListNames \ {"month"} /\ i.last \in Times
  BY FitsFields DEF ListNames
<1>e. PICK m \in 1..Len(list) : m = IF n + 1 > Len(list) THEN 1 ELSE n + 1
  BY <1>2
<1>3. PICK k : k = Put(i, "day", m, i.last)
  OBVIOUS
<1>4. /\ IterFits(k) /\ k.last = i.last /\ k.by = i.by /\ k.at["day"] = m
      /\ \A q \in ListNames \ {"day"} : k.at[q] = i.at[q]
  <2>1. m \in Nat
    BY <1>2, <1>e
  <2> QED BY <1>3, <1>d, <2>1, FitsPut
<1>5. k = [i EXCEPT !.at.day = m]
  BY <1>3, FitsFields DEF Put
<1>6. PICK j : j = IF n + 1 > Len(list) THEN IncMonth(k) ELSE k
  OBVIOUS
<1>7. /\ IterFits(j) /\ OnlyDate(k, j)
      /\ \/ i.last.year < j.last.year
         \/ i.last.year = j.last.year /\ i.last.month < j.last.month
         \/ n + 1 <= Len(list) /\ j = k
  <2>1. CASE n + 1 > Len(list)
    BY <1>4, <1>6, <2>1, MonthOnly
  <2>2. CASE ~(n + 1 > Len(list))
    BY <1>2, <1>4, <1>6, <2>2 DEF OnlyDate
  <2> QED BY <2>1, <2>2
<1>8. PICK t, d : t = j.last /\ d = list[m]
  OBVIOUS
<1>9. t \in Times /\ t.month \in 1..12 /\ d \in Int /\ d > 0
  BY <1>2, <1>e, <1>7, <1>8, FitsFields, TimeFields
<1>10. PICK u, z : u = [t EXCEPT !.day = d] /\ z = [j EXCEPT !.last = u]
  OBVIOUS
<1>11. j.by = i.by /\ j.at["day"] = m
  BY <1>4, <1>7, <1>d DEF OnlyDate
<1>12. ByMonthDay(i).it = z
  <2>1. j = IF n + 1 > Len(list) THEN IncMonth([i EXCEPT !.at.day = 1])
                                 ELSE [i EXCEPT !.at.day = n + 1]
    BY <1>5, <1>6, <1>e
  <2>2. [i EXCEPT !.at.day = @ + 1] = [i EXCEPT !.at.day = n + 1]
    BY <1>l
  <2>3. j = IF i.at.day + 1 > Len(i.by.day) THEN IncMonth([i EXCEPT !.at.day = 1])
                                            ELSE [i EXCEPT !.at.day = @ + 1]
    BY <1>l, <2>1, <2>2
  <2>4. j.by.day[j.at.day] = d /\ ~(d < 0)
    BY <1>8, <1>9, <1>11, <1>l
  <2>5. [j EXCEPT !.last.day = d] = z
    BY <1>7, <1>8, <1>10, FitsFields
  <2> QED BY <2>3, <2>4, <2>5 DEF ByMonthDay
<1>13. Is(u, t.year, t.month, d, t.hour, t.minute, t.second)
  BY <1>9, <1>10, DayMoved
<1>14. u \in Times /\ u.month = j.last.month
  BY <1>8, <1>13 DEF Is
<1>15. IterFits(z) /\ z.last = u /\ z.by = j.by /\ z.at = j.at
  <2>1. IterFits(j)
    BY <1>7
  <2>2. z = [j EXCEPT !.last = u]
    BY <1>10
  <2> QED BY <1>14, <2>1, <2>2, FitsAnother
<1>16. DateBefore(i.last, u)
  <2>1. CASE j = k /\ n + 1 <= Len(list)
    <3>1. m = n + 1 /\ i.last.day < d
      BY <1>2, <1>8, <1>e, <2>1
    <3> QED BY <1>4, <1>8, <1>13, <2>1, <3>1 DEF DateBefore, Is
  <2>2. CASE \/ i.last.year < j.last.year
             \/ i.last.year = j.last.year /\ i.last.month < j.last.month
    BY <1>8, <1>13, <2>2 DEF DateBefore, Is
  <2> QED BY <1>7, <2>1, <2>2
<1>17. InList(z, rule, "day")
  <2>1. Ascending(list)
    BY <1>l DEF InList
  <2>2. z.by.day = list /\ z.at.day = m /\ z.last.day = list[m]
    BY <1>8, <1>11, <1>13, <1>15, <1>l DEF Is
  <2> QED BY <1>e, <1>l, <2>1, <2>2 DEF InList
<1>18. \A p \in ClockOfDay : z.last[p] = i.last[p] /\ z.at[p] = i.at[p]
  BY <1>4, <1>7, <1>8, <1>13, <1>15 DEF ClockOfDay, Is, OnlyDate, ListNames
<1> QED BY <1>11, <1>12, <1>15, <1>16, <1>17, <1>18 DEF PartKept

\* What next_month is, by what next_hour ended with.
LEMMA NextMonthOf ==
  ASSUME NEW i, NextHour(i).end \in BOOLEAN
  PROVE  /\ ~NextHour(i).end => NextMonth(i).it = NextHour(i).it
         /\ NextHour(i).end =>
              /\ Has("weekday") /\ Has("day") =>
                   NextMonth(i).it = ByDayAndMonthDay(NextHour(i).it).it
              /\ Has("weekday") /\ ~Has("day") => NextMonth(i).it = ByDay(NextHour(i).it).it
              /\ ~Has("weekday") /\ Has("day") => NextMonth(i).it = ByMonthDay(NextHour(i).it).it
              /\ ~Has("weekday") /\ ~Has("day") => NextMonth(i).it = SameDay(NextHour(i).it).it
<1> DEFINE s == NextHour(i)
           After(h) == CASE ~h.end -> [it |-> h.it, valid |-> TRUE]
                         [] h.end /\ Has("weekday") /\ Has("day") -> ByDayAndMonthDay(h.it)
                         [] h.end /\ Has("weekday") /\ ~Has("day") -> ByDay(h.it)
                         [] h.end /\ ~Has("weekday") /\ Has("day") -> ByMonthDay(h.it)
                         [] h.end /\ ~Has("weekday") /\ ~Has("day") -> SameDay(h.it)
<1>1. NextMonth(i) = CHOOSE v \in {After(y) : y \in {s}} : TRUE
  BY DEF NextMonth, Of
<1> HIDE DEF After
<1>2. {After(y) : y \in {s}} = {After(s)}
  OBVIOUS
<1>3. NextMonth(i) = After(s)
  BY <1>1, <1>2
<1>4. CASE ~s.end
  <2>1. After(s) = [it |-> s.it, valid |-> TRUE]
    BY <1>4 DEF After
  <2> QED BY <1>3, <1>4, <2>1
<1>5. CASE s.end /\ Has("weekday") /\ Has("day")
  <2>1. After(s) = ByDayAndMonthDay(s.it)
    BY <1>5 DEF After
  <2> QED BY <1>3, <1>5, <2>1
<1>6. CASE s.end /\ Has("weekday") /\ ~Has("day")
  <2>1. After(s) = ByDay(s.it)
    BY <1>6 DEF After
  <2> QED BY <1>3, <1>6, <2>1
<1>7. CASE s.end /\ ~Has("weekday") /\ Has("day")
  <2>1. After(s) = ByMonthDay(s.it)
    BY <1>7 DEF After
  <2> QED BY <1>3, <1>7, <2>1
<1>8. CASE s.end /\ ~Has("weekday") /\ ~Has("day")
  <2>1. After(s) = SameDay(s.it)
    BY <1>8 DEF After
  <2> QED BY <1>3, <1>8, <2>1
<1> QED BY <1>4, <1>5, <1>6, <1>7, <1>8

\* A pass of a rule of months.
LEMMA MonthlyMoves ==
  ASSUME Rule, rule.freq = "MONTHLY", NEW i, OnPath(i, rule)
  PROVE  OnPath(NextMonth(i).it, rule) /\ Before(i.last, NextMonth(i).it.last)
<1>s. PICK h, j : h = NextHour(i) /\ j = NextMonth(i).it
  OBVIOUS
<1>k. PICK k : k = h.it
  OBVIOUS
<1>w. PICK walks : walks = (~Has("weekday") /\ Has("day"))
  OBVIOUS
<1>1. /\ Walked(rule) = ClockOfDay \cup {"month"} \cup (IF walks THEN {"day"} ELSE {})
      /\ rule.freq \notin {"SECONDLY", "MINUTELY", "HOURLY"}
  BY <1>w, WalkedParts
<1>d. ("day" \in Walked(rule)) <=> walks
  BY <1>1 DEF ClockOfDay
<1>2. IterFits(i) /\ (\A p \in ClockOfDay : InList(i, rule, p)) /\ (walks => InList(i, rule, "day"))
  BY <1>1 DEF OnPath, IterFits
<1>3. /\ IterFits(k) /\ \A p \in ClockOfDay : InList(k, rule, p)
      /\ h.end \in BOOLEAN
      /\ ~h.end => Before(i.last, k.last)
      /\ SameDate(i.last, k.last) /\ k.by = i.by
      /\ \A q \in ListNames \ ClockOfDay : k.at[q] = i.at[q]
  BY <1>s, <1>k, <1>1, <1>2, NextHourMoves
<1>4. walks => InList(k, rule, "day")
  <2>1. k.at["day"] = i.at["day"] /\ k.last["day"] = i.last["day"]
    BY <1>3 DEF ListNames, ClockOfDay, SameDate
  <2> QED BY <1>2, <1>3, <2>1, KeptInList DEF PartKept
<1>5. walks => \A n \in DOMAIN k.by.day : k.by.day[n] > 0
  BY <1>3, <1>d DEF OnPath
<1>n. /\ ~h.end => j = k
      /\ h.end =>
           /\ Has("weekday") /\ Has("day") => j = ByDayAndMonthDay(k).it
           /\ Has("weekday") /\ ~Has("day") => j = ByDay(k).it
           /\ ~Has("weekday") /\ Has("day") => j = ByMonthDay(k).it
           /\ ~Has("weekday") /\ ~Has("day") => j = SameDay(k).it
  <2>1. NextHour(i).end \in BOOLEAN
    BY <1>1, <1>2, NextHourMoves
  <2> QED BY <1>s, <1>k, <2>1, NextMonthOf
<1>6. CASE ~h.end
  <2>1. j = k
    BY <1>6, <1>n
  <2>2. OnPath(k, rule)
    BY <1>1, <1>3, <1>4, <1>5, <1>d DEF OnPath, IterFits
  <2>3. Before(i.last, k.last)
    BY <1>3, <1>6
  <2> QED BY <1>s, <2>1, <2>2, <2>3
<1>7. CASE h.end
  <2>1. /\ IterFits(j) /\ \A p \in ClockOfDay : PartKept(k, j, p)
        /\ DateBefore(k.last, j.last)
        /\ walks => InList(j, rule, "day")
    <3>1. CASE Has("weekday")
      <4>1. j \in {ByDay(k).it, ByDayAndMonthDay(k).it}
        BY <1>7, <1>n, <3>1
      <4> QED BY <1>3, <1>w, <3>1, <4>1, MonthWeekdaysMove
    <3>2. CASE ~Has("weekday") /\ Has("day")
      <4>1. j = ByMonthDay(k).it
        BY <1>7, <1>n, <3>2
      <4>2. k.by.day # <<>>
        BY <1>3 DEF IterFits, Iterator
      <4>3. InList(k, rule, "day") /\ \A n \in DOMAIN k.by.day : k.by.day[n] > 0
        BY <1>4, <1>5, <1>w, <3>2
      <4> QED BY <1>3, <4>1, <4>2, <4>3, ByMonthDayMoves
    <3>3. CASE ~Has("weekday") /\ ~Has("day")
      <4>1. j = SameDay(k).it
        BY <1>7, <1>n, <3>3
      <4> QED BY <1>3, <1>w, <3>3, <4>1, SameDayMoves
    <3> QED BY <3>1, <3>2, <3>3
  <2>2. \A p \in ClockOfDay : InList(j, rule, p)
    BY <1>3, <2>1, KeptInList
  <2>3. j.by = k.by
    BY <2>1 DEF PartKept, ClockOfDay
  <2>4. OnPath(j, rule)
    BY <1>1, <1>5, <1>d, <2>1, <2>2, <2>3 DEF OnPath, IterFits
  <2>5. DateBefore(i.last, j.last)
    <3>1. i.last \in Times /\ k.last \in Times /\ j.last \in Times
      BY <1>2, <1>3, <2>1, FitsFields
    <3> QED BY <1>3, <2>1, <3>1, BeforeAfter
  <2>6. Before(i.last, j.last)
    BY <2>5 DEF Before, MinuteBefore, HourBefore
  <2> QED BY <1>s, <2>4, <2>6
<1> QED BY <1>3, <1>6, <1>7

----------------------------------------------------------------------------
(* The iterator at its first time.                                         *)

\* A month is as long as the days to its end are more than those to its start.
LEMMA PassedMonths ==
  ASSUME NEW m \in 1..12, NEW y
  PROVE  /\ Passed(m, Leap(y)) \in Nat /\ Passed(m + 1, Leap(y)) \in Nat
         /\ Passed(m + 1, Leap(y)) = Passed(m, Leap(y)) + DaysInMonth(m, y)
         /\ Passed(m + 1, Leap(y)) <= DaysIn(y)
         /\ \A n \in 1..12 : /\ n < m => Passed(n + 1, Leap(y)) <= Passed(m, Leap(y))
                             /\ n > m => Passed(m + 1, Leap(y)) <= Passed(n, Leap(y))
<1>1. PICK p : p = <<0, 31, 59, 90, 120, 151, 181, 212, 243, 273, 304, 334, 365>>
  OBVIOUS
<1>2. PICK l \in {0, 1} : l = IF Leap(y) THEN 1 ELSE 0
  OBVIOUS
<1>3. \A n \in 1..13 : Passed(n, Leap(y)) = p[n] + (IF n > 2 THEN l ELSE 0)
  <2>1. ASSUME NEW n \in 1..13 PROVE Passed(n, Leap(y)) = p[n] + (IF n > 2 THEN l ELSE 0)
    <3>1. CASE Leap(y) /\ n > 2
      BY <1>1, <1>2, <3>1 DEF Passed
    <3>2. CASE ~(Leap(y) /\ n > 2)
      BY <1>1, <1>2, <3>2 DEF Passed
    <3> QED BY <3>1, <3>2
  <2> QED BY <2>1
<1>4. PICK q : q = <<31, 28, 31, 30, 31, 30, 31, 31, 30, 31, 30, 31>>
  OBVIOUS
<1>5. DaysInMonth(m, y) = q[m] + (IF m = 2 THEN l ELSE 0)
  <2>1. q[2] = 28
    BY <1>4
  <2>2. CASE m = 2 /\ Leap(y)
    BY <1>2, <2>1, <2>2 DEF DaysInMonth
  <2>3. CASE ~(m = 2 /\ Leap(y))
    <3>1. DaysInMonth(m, y) = q[m]
      BY <1>4, <2>3 DEF DaysInMonth
    <3>2. q[m] \in Int
      BY <1>4
    <3> QED BY <1>2, <2>3, <3>1, <3>2
  <2> QED BY <2>2, <2>3
<1>6. \A n \in 1..12 : /\ p[n] \in Nat /\ p[n + 1] \in Nat /\ p[n + 1] <= 365
                       /\ p[n + 1] = p[n] + q[n]
  BY <1>1, <1>4
<1>7. \A n, k \in 1..13 : n <= k => p[n] <= p[k]
  BY <1>1
<1>8. DaysIn(y) = 365 + l
  <2>1. p[13] = 365
    BY <1>1
  <2> QED BY <1>2, <1>3, <2>1 DEF DaysIn
<1>9. Passed(m, Leap(y)) = p[m] + (IF m > 2 THEN l ELSE 0)
  BY <1>3
<1>10. Passed(m + 1, Leap(y)) = p[m + 1] + (IF m + 1 > 2 THEN l ELSE 0)
  BY <1>3
<1>11. ASSUME NEW n \in 1..12
       PROVE  /\ n < m => Passed(n + 1, Leap(y)) <= Passed(m, Leap(y))
              /\ n > m => Passed(m + 1, Leap(y)) <= Passed(n, Leap(y))
  <2>1. /\ Passed(n, Leap(y)) = p[n] + (IF n > 2 THEN l ELSE 0)
        /\ Passed(n + 1, Leap(y)) = p[n + 1] + (IF n + 1 > 2 THEN l ELSE 0)
    BY <1>3
  <2>2. /\ n < m => p[n + 1] <= p[m]
        /\ n > m => p[m + 1] <= p[n]
    BY <1>7
  <2>3. p[n] \in Nat /\ p[n + 1] \in Nat /\ p[m] \in Nat /\ p[m + 1] \in Nat
    BY <1>6
  <2> QED BY <1>2, <1>9, <1>10, <2>1, <2>2, <2>3
<1>12. p[m] \in Nat /\ p[m + 1] \in Nat /\ p[m + 1] <= 365 /\ p[m + 1] = p[m] + q[m]
  BY <1>6
<1>13. q[m] \in Int
  BY <1>4
<1>14. Passed(m + 1, Leap(y)) = Passed(m, Leap(y)) + DaysInMonth(m, y)
  <2>1. (IF m + 1 > 2 THEN l ELSE 0) = (IF m > 2 THEN l ELSE 0) + (IF m = 2 THEN l ELSE 0)
    BY <1>2
  <2> QED BY <1>2, <1>5, <1>9, <1>10, <1>12, <1>13, <2>1
<1> QED BY <1>2, <1>8, <1>9, <1>10, <1>11, <1>12, <1>14

\* A day that is in its month stays where it is.
LEMMA NormalizeIsSame ==
  ASSUME NEW t \in Times, t.day \in 1..DaysInMonth(t.month, t.year)
  PROVE  Normalize(t) = t
<1>1. PICK y, m, d : y = t.year /\ m = t.month /\ d = t.day
  OBVIOUS
<1>2. y \in Int /\ m \in 1..12 /\ d \in Int /\ d \in 1..DaysInMonth(m, y)
  BY <1>1 DEF Times
<1>3. PICK leap, a, b : leap = Leap(y) /\ a = Passed(m, Leap(y)) /\ b = Passed(m + 1, Leap(y))
  OBVIOUS
<1>4. /\ a \in Nat /\ b \in Nat /\ b = a + DaysInMonth(m, y) /\ b <= DaysIn(y)
      /\ \A n \in 1..12 : /\ n < m => Passed(n + 1, leap) <= a
                          /\ n > m => b <= Passed(n, leap)
  BY <1>2, <1>3, PassedMonths
<1>5. PICK doy : doy = a + d
  OBVIOUS
<1>6. /\ doy \in Nat /\ doy >= 1 /\ doy <= DaysIn(y) /\ a < doy /\ doy <= b
  <2>1. DaysInMonth(m, y) \in Int
    BY <1>2, DaysInMonthType
  <2>2. DaysIn(y) \in Int
    BY PassedMonths DEF DaysIn, Passed
  <2> QED BY <1>2, <1>4, <1>5, <2>1, <2>2
<1>7. DayOfYear(t) = doy
  BY <1>1, <1>3, <1>5 DEF DayOfYear
<1>8. \A n \in 1..12 : Passed(n, leap) < doy /\ (n = 12 \/ doy <= Passed(n + 1, leap)) <=> n = m
  <2> TAKE n \in 1..12
  <2>1. CASE n = m
    BY <1>3, <1>6, <2>1
  <2>2. CASE n < m
    <3>1. Passed(n + 1, leap) <= a /\ Passed(n + 1, leap) \in Nat
      BY <1>3, <1>4, <2>2, PassedMonths
    <3>2. ~(doy <= Passed(n + 1, leap))
      BY <1>4, <1>6, <3>1
    <3> QED BY <1>2, <2>2, <3>2
  <2>3. CASE n > m
    <3>1. b <= Passed(n, leap) /\ Passed(n, leap) \in Nat
      BY <1>3, <1>4, <2>3, PassedMonths
    <3>2. ~(Passed(n, leap) < doy)
      BY <1>4, <1>6, <3>1
    <3> QED BY <1>2, <2>3, <3>2
  <2> QED BY <1>2, <2>1, <2>2, <2>3
<1>9. (CHOOSE n \in 1..12 : Passed(n, leap) < doy /\ (n = 12 \/ doy <= Passed(n + 1, leap))) = m
  BY <1>2, <1>8
<1>10. doy - a = d
  BY <1>2, <1>4, <1>5
<1>11. ~(doy < 1) /\ ~(doy > DaysIn(y))
  <2>1. DaysIn(y) \in Int
    BY PassedMonths DEF DaysIn, Passed
  <2> QED BY <1>6, <2>1
<1>12. PICK w : w = [year |-> y, doy |-> doy]
  OBVIOUS
<1>14. ToItsYear(w) = w /\ w.doy = doy /\ w.year = y
  BY <1>11, <1>12 DEF ToItsYear
<1>15. InMonth(t, w, leap) = [t EXCEPT !.year = y, !.month = m, !.day = d]
  BY <1>3, <1>9, <1>10, <1>14 DEF InMonth
<1>16. Normalize(t) = InMonth(t, w, leap)
  <2>1. Normalize(t) = LET e == ToItsYear(ToItsYear(w)) IN InMonth(t, e, Leap(e.year))
    BY <1>1, <1>7, <1>12 DEF Normalize
  <2> QED BY <1>3, <1>14, <2>1
<1>13. [t EXCEPT !.year = t.year, !.month = t.month, !.day = t.day] = t
  BY DEF Times
<1> QED BY <1>1, <1>13, <1>15, <1>16

\* A rule that starts on a day there is.
StartsWell ==
  /\ Rule /\ start \in Times
  /\ start.day \in 1..DaysInMonth(start.month, start.year)

\* The lists that only filter, at each frequency.
LEMMA ContractingParts ==
  ASSUME Rule
  PROVE  /\ Contracts("month")
         /\ Contracts("day") <=> rule.freq # "MONTHLY"
         /\ Contracts("second") <=> rule.freq = "SECONDLY"
         /\ Contracts("minute") <=> rule.freq \in {"SECONDLY", "MINUTELY"}
         /\ Contracts("hour") <=> rule.freq \in {"SECONDLY", "MINUTELY", "HOURLY"}
<1>1. CASE rule.freq = "SECONDLY"
  <2>1. \A p : Contracts(p) <=> p \in ClockParts \cup DateParts
    BY <1>1 DEF Contracts
  <2> QED BY <1>1, <2>1 DEF ClockParts, DateParts
<1>2. CASE rule.freq = "MINUTELY"
  <2>1. \A p : Contracts(p) <=> p \in {"minute", "hour"} \cup DateParts
    BY <1>2 DEF Contracts
  <2> QED BY <1>2, <2>1 DEF DateParts
<1>3. CASE rule.freq = "HOURLY"
  <2>1. \A p : Contracts(p) <=> p \in {"hour"} \cup DateParts
    BY <1>3 DEF Contracts
  <2> QED BY <1>3, <2>1 DEF DateParts
<1>4. CASE rule.freq = "DAILY"
  <2>1. \A p : Contracts(p) <=> p \in DateParts
    BY <1>4 DEF Contracts
  <2> QED BY <1>4, <2>1 DEF DateParts
<1>5. CASE rule.freq = "MONTHLY"
  <2>1. \A p : Contracts(p) <=> p \in {"month"}
    BY <1>5 DEF Contracts
  <2> QED BY <1>5, <2>1
<1> QED BY <1>1, <1>2, <1>3, <1>4, <1>5 DEF Rule

\* The list of a field is the rule's, or the start's value.
LEMMA DefaultLists ==
  ASSUME StartsWell
  PROVE  /\ Defaults \in ByLists
         /\ \A p \in Fields : Defaults[p] = IF Has(p) \/ Contracts(p) THEN rule.by[p]
                                                                     ELSE <<start[p]>>
<1>1. rule.by \in ByLists /\ DOMAIN rule.by = ListNames /\ Fields \subseteq ListNames
  BY DEF StartsWell, Rule, ByLists, ListNames, Fields, ClockParts
<1>2. rule.freq # "WEEKLY"
  BY DEF StartsWell, Rule
<1>3. DOMAIN Defaults = ListNames
  BY <1>1 DEF Defaults
<1>4. ASSUME NEW p \in ListNames
      PROVE  Defaults[p] = IF p \in Fields /\ ~Has(p) /\ ~Contracts(p) THEN <<start[p]>>
                                                                      ELSE rule.by[p]
  <2>1. ~(p = "weekday" /\ ~Has(p) /\ rule.freq = "WEEKLY")
    BY <1>2
  <2>2. Defaults[p] = CASE p \in Fields /\ ~Has(p) /\ ~Contracts(p) -> <<start[p]>>
                        [] p = "weekday" /\ ~Has(p) /\ rule.freq = "WEEKLY" ->
                             <<[dow |-> DayOfWeek(start), pos |-> 0]>>
                        [] OTHER -> rule.by[p]
    BY <1>1 DEF Defaults
  <2>3. CASE p \in Fields /\ ~Has(p) /\ ~Contracts(p)
    BY <2>1, <2>2, <2>3
  <2>4. CASE ~(p \in Fields /\ ~Has(p) /\ ~Contracts(p))
    BY <2>1, <2>2, <2>4
  <2> QED BY <2>3, <2>4
<1>5. \A p \in Fields : Defaults[p] = IF Has(p) \/ Contracts(p) THEN rule.by[p] ELSE <<start[p]>>
  BY <1>1, <1>4
<1>6. Defaults \in ByLists
  <2>1. /\ start["hour"] \in 0..23 /\ start["minute"] \in 0..59 /\ start["second"] \in 0..59
        /\ start["day"] \in Int /\ Contracts("month")
    BY ContractingParts, TimeFields DEF StartsWell
  <2>2. /\ Defaults["hour"] \in Seq(0..23) /\ Defaults["minute"] \in Seq(0..59)
        /\ Defaults["second"] \in Seq(0..59) /\ Defaults["day"] \in Seq(Int)
        /\ Defaults["month"] \in Seq(1..12)
    <3>1. /\ rule.by["hour"] \in Seq(0..23) /\ rule.by["minute"] \in Seq(0..59)
          /\ rule.by["second"] \in Seq(0..59) /\ rule.by["day"] \in Seq(Int)
          /\ rule.by["month"] \in Seq(1..12)
      BY <1>1 DEF ByLists
    <3>2. /\ <<start["hour"]>> \in Seq(0..23) /\ <<start["minute"]>> \in Seq(0..59)
          /\ <<start["second"]>> \in Seq(0..59) /\ <<start["day"]>> \in Seq(Int)
      BY <2>1
    <3>3. /\ "hour" \in Fields /\ "minute" \in Fields /\ "second" \in Fields
          /\ "day" \in Fields /\ "month" \in Fields
      BY DEF Fields, ClockParts
    <3>4. Defaults["hour"] \in {rule.by["hour"], <<start["hour"]>>}
      BY <1>5, <3>3
    <3>5. Defaults["minute"] \in {rule.by["minute"], <<start["minute"]>>}
      BY <1>5, <3>3
    <3>6. Defaults["second"] \in {rule.by["second"], <<start["second"]>>}
      BY <1>5, <3>3
    <3>7. Defaults["day"] \in {rule.by["day"], <<start["day"]>>}
      BY <1>5, <3>3
    <3>8. Defaults["month"] = rule.by["month"]
      BY <1>5, <2>1, <3>3
    <3> QED BY <3>1, <3>2, <3>4, <3>5, <3>6, <3>7, <3>8
  <2>3. \A p \in {"weekday", "yearday", "weekno", "setpos"} : Defaults[p] = rule.by[p]
    <3>1. \A p \in {"weekday", "yearday", "weekno", "setpos"} : p \in ListNames /\ p \notin Fields
      BY DEF ListNames, Fields, ClockParts
    <3> QED BY <1>4, <3>1
  <2>4. Defaults = [p \in DOMAIN rule.by |-> Defaults[p]]
    BY DEF Defaults
  <2>5. Defaults = [p \in ListNames |-> Defaults[p]]
    BY <1>1, <2>4
  <2> QED BY <1>1, <2>2, <2>3, <2>4, <2>5 DEF ByLists, ListNames
<1> QED BY <1>5, <1>6

\* The first of a list is in its set.
LEMMA FirstOfList ==
  ASSUME NEW S, NEW s \in Seq(S), s # <<>>
  PROVE  s[1] \in S
<1>1. 1 \in 1..Len(s)
  OBVIOUS
<1> QED BY <1>1

\* The first time is on the start's day, or in its month.
LEMMA FirstTimeIsTime ==
  ASSUME StartsWell
  PROVE  /\ FirstTime \in Times
         /\ FirstTime.year = start.year /\ FirstTime.month = start.month
         /\ \A f \in ClockOfDay : FirstTime[f] = IF rule.freq # Freq(f) /\ ~Contracts(f)
                                            THEN Defaults[f][1] ELSE start[f]
         /\ FirstTime.day = IF rule.freq = "MONTHLY" THEN Defaults["day"][1] ELSE start.day
<1>1. start \in Times /\ DOMAIN start = {"year", "month", "day", "hour", "minute", "second"}
  BY DEF StartsWell, Times
<1>2. ASSUME NEW f \in DOMAIN start
      PROVE  FirstTime[f] = IF f \in Fields /\ rule.freq # Freq(f) /\ ~Contracts(f)
                            THEN Defaults[f][1] ELSE start[f]
  BY DEF FirstTime
<1>3. FirstTime["year"] = start["year"] /\ FirstTime["month"] = start["month"]
  <2>1. "year" \notin Fields /\ Contracts("month")
    BY ContractingParts DEF StartsWell, Fields, ClockParts
  <2> QED BY <1>1, <1>2, <2>1
<1>4. \A f \in ClockOfDay : FirstTime[f] = IF rule.freq # Freq(f) /\ ~Contracts(f)
                                      THEN Defaults[f][1] ELSE start[f]
  <2>1. \A f \in ClockOfDay : f \in Fields /\ f \in DOMAIN start
    BY <1>1 DEF ClockOfDay, Fields, ClockParts
  <2> QED BY <1>2, <2>1
<1>5. FirstTime["day"] = IF rule.freq = "MONTHLY" THEN Defaults["day"][1] ELSE start["day"]
  <2>1. "day" \in Fields /\ Freq("day") = "DAILY" /\ (Contracts("day") <=> rule.freq # "MONTHLY")
    BY ContractingParts DEF StartsWell, Fields, ClockParts, Freq
  <2>2. FirstTime["day"] = IF "day" \in Fields /\ rule.freq # Freq("day") /\ ~Contracts("day")
                           THEN Defaults["day"][1] ELSE start["day"]
    BY <1>1, <1>2
  <2>3. CASE rule.freq = "MONTHLY"
    BY <2>1, <2>2, <2>3
  <2>4. CASE rule.freq # "MONTHLY"
    BY <2>1, <2>2, <2>4
  <2> QED BY <2>3, <2>4
<1>6. ASSUME NEW f \in Fields, ~Contracts(f) PROVE Defaults[f] # <<>>
  <2>1. Defaults[f] = IF Has(f) \/ Contracts(f) THEN rule.by[f] ELSE <<start[f]>>
    BY <1>6, DefaultLists
  <2>2. CASE Has(f)
    <3>1. Defaults[f] = rule.by[f]
      BY <2>1, <2>2
    <3> QED BY <2>2, <3>1 DEF Has
  <2>3. CASE ~Has(f)
    <3>1. Defaults[f] = <<start[f]>>
      BY <1>6, <2>1, <2>3
    <3> QED BY <3>1
  <2> QED BY <2>2, <2>3
<1>7. /\ FirstTime["hour"] \in 0..23 /\ FirstTime["minute"] \in 0..59
      /\ FirstTime["second"] \in 0..59 /\ FirstTime["day"] \in Int
  <2>1. /\ start["hour"] \in 0..23 /\ start["minute"] \in 0..59 /\ start["second"] \in 0..59
        /\ start["day"] \in Int
    BY <1>1, TimeFields
  <2>2. /\ Defaults["hour"] \in Seq(0..23) /\ Defaults["minute"] \in Seq(0..59)
        /\ Defaults["second"] \in Seq(0..59) /\ Defaults["day"] \in Seq(Int)
    BY DefaultLists DEF ByLists
  <2>3. /\ ~Contracts("hour") => Defaults["hour"] # <<>>
        /\ ~Contracts("minute") => Defaults["minute"] # <<>>
        /\ ~Contracts("second") => Defaults["second"] # <<>>
        /\ ~Contracts("day") => Defaults["day"] # <<>>
    BY <1>6 DEF Fields, ClockParts
  <2>4. /\ Defaults["hour"] # <<>> => Defaults["hour"][1] \in 0..23
        /\ Defaults["minute"] # <<>> => Defaults["minute"][1] \in 0..59
        /\ Defaults["second"] # <<>> => Defaults["second"][1] \in 0..59
        /\ Defaults["day"] # <<>> => Defaults["day"][1] \in Int
    BY <2>2, FirstOfList
  <2>5. rule.freq = "MONTHLY" => ~Contracts("day")
    BY ContractingParts DEF StartsWell
  <2>6. "hour" \in ClockOfDay /\ "minute" \in ClockOfDay /\ "second" \in ClockOfDay
    BY DEF ClockOfDay
  <2>7. FirstTime["hour"] \in 0..23
    <3>1. FirstTime["hour"] = IF rule.freq # Freq("hour") /\ ~Contracts("hour")
                               THEN Defaults["hour"][1] ELSE start["hour"]
      BY <1>4, <2>6
    <3>2. CASE ~Contracts("hour")
      BY <2>1, <2>3, <2>4, <3>1, <3>2
    <3>3. CASE Contracts("hour")
      BY <2>1, <3>1, <3>3
    <3> QED BY <3>2, <3>3
  <2>8. FirstTime["minute"] \in 0..59
    <3>1. FirstTime["minute"] = IF rule.freq # Freq("minute") /\ ~Contracts("minute")
                               THEN Defaults["minute"][1] ELSE start["minute"]
      BY <1>4, <2>6
    <3>2. CASE ~Contracts("minute")
      BY <2>1, <2>3, <2>4, <3>1, <3>2
    <3>3. CASE Contracts("minute")
      BY <2>1, <3>1, <3>3
    <3> QED BY <3>2, <3>3
  <2>9. FirstTime["second"] \in 0..59
    <3>1. FirstTime["second"] = IF rule.freq # Freq("second") /\ ~Contracts("second")
                               THEN Defaults["second"][1] ELSE start["second"]
      BY <1>4, <2>6
    <3>2. CASE ~Contracts("second")
      BY <2>1, <2>3, <2>4, <3>1, <3>2
    <3>3. CASE Contracts("second")
      BY <2>1, <3>1, <3>3
    <3> QED BY <3>2, <3>3
  <2>10. FirstTime["day"] \in Int
    BY <1>5, <2>1, <2>2, <2>3, <2>4, <2>5
  <2> QED BY <2>7, <2>8, <2>9, <2>10
<1>8. start["year"] \in Int /\ start["month"] \in 1..12
  BY <1>1, TimeFields
<1>9. FirstTime \in Times
  <2>1. PICK t : t = FirstTime
    OBVIOUS
  <2>2. \E g : t = [f \in {"year", "month", "day", "hour", "minute", "second"} |-> g[f]]
    BY <1>1, <2>1 DEF FirstTime
  <2> QED BY <1>3, <1>7, <1>8, <2>1, <2>2 DEF Times
<1> QED BY <1>3, <1>4, <1>5, <1>9

\* What is made first is in its lists.
LEMMA FreshIsOnPath ==
  ASSUME StartsWell, Advances(rule, start)
  PROVE  OnPath(Fresh, rule) /\ Fresh.last = FirstTime
<1>1. PICK f : f = Fresh
  OBVIOUS
<1>2. /\ f.last = FirstTime /\ f.by = Defaults
      /\ f.at = [p \in DOMAIN rule.by |-> 1] /\ DOMAIN rule.by = ListNames
  <2>1. DOMAIN rule.by = ListNames
    BY DEF StartsWell, Rule, ByLists, ListNames
  <2> QED BY <1>1, <2>1 DEF Fresh
<1>3. f \in Iterators
  <2>1. PICK a : a = [p \in DOMAIN rule.by |-> 1]
    OBVIOUS
  <2>2. a \in [ListNames -> Nat]
    BY <1>2, <2>1
  <2>3. f = [last |-> FirstTime, by |-> Defaults, at |-> a, days |-> <<>>, dayAt |-> 1, no |-> 0]
    BY <1>1, <2>1 DEF Fresh
  <2> QED BY <2>2, <2>3, DefaultLists, FirstTimeIsTime DEF Iterators
<1>a. \A p \in ListNames : f.at[p] = 1
  BY <1>2
<1>b. \A p \in Fields : f.by[p] = IF Has(p) \/ Contracts(p) THEN rule.by[p] ELSE <<start[p]>>
  BY <1>2, DefaultLists
<1>f. /\ "month" \in Fields /\ "day" \in Fields /\ ClockOfDay \subseteq Fields /\ Fields \subseteq ListNames
      /\ Rule
  BY DEF StartsWell, Fields, ClockParts, ClockOfDay, ListNames
<1>c. /\ Contracts("month")
      /\ Contracts("day") <=> rule.freq # "MONTHLY"
      /\ Contracts("second") <=> rule.freq = "SECONDLY"
      /\ Contracts("minute") <=> rule.freq \in {"SECONDLY", "MINUTELY"}
      /\ Contracts("hour") <=> rule.freq \in {"SECONDLY", "MINUTELY", "HOURLY"}
  BY <1>f, ContractingParts
<1>4. Iterator(f, rule)
  <2>1. f.by["month"] = rule.by["month"]
    BY <1>b, <1>c, <1>f
  <2>2. f.by["day"] # <<>> \/ rule.freq # "MONTHLY"
    <3> SUFFICES ASSUME rule.freq = "MONTHLY" PROVE f.by["day"] # <<>>
      OBVIOUS
    <3>1. CASE Has("day")
      BY <1>b, <1>f, <3>1 DEF Has
    <3>2. CASE ~Has("day")
      <4>1. f.by["day"] = <<start["day"]>>
        BY <1>b, <1>c, <1>f, <3>2
      <4> QED BY <4>1
    <3> QED BY <3>1, <3>2
  <2> QED BY <1>3, <2>1, <2>2 DEF Iterator
<1>w. \A p \in Walked(rule) :
        /\ Ascending(rule.by[p])
        /\ (p = "month" \/ rule.freq = Freq(p)) /\ rule.by[p] # <<>> => start[p] = rule.by[p][1]
  BY DEF Advances
<1>l. ASSUME NEW p \in Fields, f.by[p] # <<>> PROVE 1 \in 1..Len(f.by[p])
  <2>1. /\ f.by["second"] \in Seq(0..59) /\ f.by["minute"] \in Seq(0..59)
        /\ f.by["hour"] \in Seq(0..23) /\ f.by["day"] \in Seq(Int)
        /\ f.by["month"] \in Seq(1..12)
    BY <1>2, DefaultLists DEF ByLists
  <2>2. PICK S : f.by[p] \in Seq(S)
    BY <2>1 DEF Fields, ClockParts
  <2> QED BY <1>l, <2>2
<1>5. InList(f, rule, "month")
  <2>1. f.by["month"] = rule.by["month"] /\ "month" \in Walked(rule)
    BY <1>b, <1>c, <1>f DEF Walked
  <2>2. f.last["month"] = start["month"] /\ f.at["month"] = 1
    BY <1>2, <1>a, <1>f, FirstTimeIsTime
  <2>3. Ascending(f.by["month"])
    BY <1>w, <2>1
  <2>4. f.by["month"] # <<>> => 1 \in 1..Len(f.by["month"]) /\ start["month"] = f.by["month"][1]
    BY <1>f, <1>l, <1>w, <2>1
  <2> QED BY <2>2, <2>3, <2>4 DEF InList
<1>6. ASSUME NEW p \in ClockOfDay \cap Walked(rule) PROVE InList(f, rule, p)
  <2>1. Contracts(p) => rule.freq = Freq(p)
    BY <1>c, <1>f DEF Walked, ClockOfDay, Freq, Rule
  <2>2. f.last[p] = IF rule.freq # Freq(p) /\ ~Contracts(p) THEN f.by[p][1] ELSE start[p]
    BY <1>2, FirstTimeIsTime
  <2>3. f.at[p] = 1 /\ p \in Fields
    BY <1>a, <1>f
  <2>4. CASE Has(p) \/ Contracts(p)
    <3>1. f.by[p] = rule.by[p]
      BY <1>b, <2>3, <2>4
    <3>2. Ascending(f.by[p])
      BY <1>w, <3>1
    <3>3. f.by[p] = <<>> => rule.freq = Freq(p)
      BY <2>1, <2>4, <3>1 DEF Has
    <3>4. f.by[p] # <<>> => 1 \in 1..Len(f.by[p])
      BY <1>l, <2>3
    <3>5. rule.freq = Freq(p) /\ f.by[p] # <<>> => start[p] = f.by[p][1]
      BY <1>w, <3>1
    <3>6. f.by[p] # <<>> => f.last[p] = f.by[p][1]
      <4>1. CASE rule.freq = Freq(p)
        BY <2>2, <3>5, <4>1
      <4>2. CASE rule.freq # Freq(p)
        BY <2>1, <2>2, <4>2
      <4> QED BY <4>1, <4>2
    <3> QED BY <2>3, <3>2, <3>3, <3>4, <3>6 DEF InList
  <2>5. CASE ~(Has(p) \/ Contracts(p))
    <3>1. PICK l : l = <<start[p]>>
      OBVIOUS
    <3>2. f.by[p] = l
      BY <1>b, <2>3, <2>5, <3>1
    <3>3. l # <<>> /\ DOMAIN l = {1} /\ l[1] = start[p] /\ 1 \in 1..Len(l)
      BY <3>1
    <3>4. Ascending(l)
      BY <3>3 DEF Ascending
    <3>5. f.last[p] = l[1]
      BY <2>2, <3>2, <3>3
    <3> QED BY <2>3, <3>2, <3>3, <3>4, <3>5 DEF InList
  <2> QED BY <2>4, <2>5
<1>7. ASSUME "day" \in Walked(rule)
      PROVE  /\ InList(f, rule, "day") /\ \A k \in DOMAIN f.by.day : f.by.day[k] > 0
             /\ rule.freq = "MONTHLY" /\ f.by.day[1] \in 1..start.day
  <2>1. rule.freq = "MONTHLY" /\ Has("day")
    BY <1>7 DEF Walked, Has
  <2>2. f.by["day"] = rule.by["day"] /\ f.by["day"] # <<>> /\ f.at["day"] = 1
    BY <1>a, <1>b, <1>f, <2>1 DEF Has
  <2>3. f.last["day"] = f.by["day"][1]
    BY <1>2, <2>1, FirstTimeIsTime
  <2>4. Ascending(f.by["day"]) /\ 1 \in 1..Len(f.by["day"])
    BY <1>7, <1>f, <1>l, <1>w, <2>2
  <2>5. f.by["day"][1] \in 1..start.day
    BY <1>7, <2>2 DEF Advances
  <2>6. PICK l : l = f.by["day"]
    OBVIOUS
  <2>7. l \in Seq(Int)
    BY <1>2, <2>6, DefaultLists DEF ByLists
  <2>8. \A k \in DOMAIN l : l[k] > 0
    <3> TAKE k \in DOMAIN l
    <3>1. 1 \in DOMAIN l /\ k \in Nat /\ k >= 1 /\ l[1] \in Int /\ l[1] >= 1 /\ l[k] \in Int
      <4>1. start.day \in Int
        BY DEF StartsWell, Times
      <4> QED BY <2>4, <2>5, <2>6, <2>7, <4>1
    <3>2. 1 < k => l[1] < l[k]
      BY <2>4, <2>6, <3>1 DEF Ascending
    <3> QED BY <3>1, <3>2
  <2> QED BY <2>1, <2>2, <2>3, <2>4, <2>5, <2>6, <2>8 DEF InList
<1>8. \A p \in Walked(rule) : InList(f, rule, p)
  <2>1. \A p \in Walked(rule) : p \in ClockOfDay \/ p = "month" \/ p = "day"
    BY DEF Walked, ClockOfDay
  <2> QED BY <1>5, <1>6, <1>7, <2>1
<1> QED BY <1>1, <1>2, <1>4, <1>7, <1>8 DEF OnPath

\* So is the iterator the constructor returns.
LEMMA BuiltIsOnPath ==
  ASSUME StartsWell, Advances(rule, start), NEW j \in Built
  PROVE  OnPath(j, rule)
<1>1. PICK f : f = Fresh
  OBVIOUS
<1>2. OnPath(f, rule) /\ f.last = FirstTime /\ IterFits(f) /\ Rule
  BY <1>1, FreshIsOnPath DEF OnPath, IterFits, StartsWell, Walked
<1>3. PICK t : t = FirstTime
  OBVIOUS
<1>4. /\ t \in Times /\ t.year = start.year /\ t.month = start.month
      /\ t.day = IF rule.freq = "MONTHLY" THEN Defaults["day"][1] ELSE start.day
  BY <1>3, FirstTimeIsTime
<1>5. CASE rule.freq = "MONTHLY" /\ Has("weekday")
  <2>1. PICK days : days = {n \in MonthOf(f) : Matches(f.by.weekday[1], On(f, n))}
    OBVIOUS
  <2>2. days # {} /\ j = [f EXCEPT !.last.day = Least(days)]
    <3>1. days = {n \in MonthOf(Fresh) : Matches(Fresh.by.weekday[1], On(Fresh, n))}
      BY <1>1, <2>1
    <3>2. Built = IF days = {} THEN {} ELSE {[Fresh EXCEPT !.last.day = Least(days)]}
      BY <1>5, <3>1 DEF Built
    <3> QED BY <1>1, <3>2
  <2>3. PICK d : d = Least(days)
    OBVIOUS
  <2>4. d \in Int
    <3>1. days \in SUBSET Nat
      BY <2>1 DEF MonthOf
    <3>2. \E x \in days : \A y \in days : x <= y
      BY <2>2, <3>1, LeastNumber
    <3>3. d \in days
      BY <2>3, <3>2 DEF Least
    <3> QED BY <3>1, <3>3
  <2>5. PICK u : u = [t EXCEPT !.day = d]
    OBVIOUS
  <2>6. j = [f EXCEPT !.last = u]
    BY <1>2, <1>3, <2>2, <2>3, <2>5, FitsFields
  <2>7. Is(u, t.year, t.month, d, t.hour, t.minute, t.second)
    BY <1>4, <2>4, <2>5, DayMoved
  <2>8. u \in Times /\ u.month = f.last.month
    BY <1>2, <1>3, <2>7 DEF Is
  <2>9. IterFits(j) /\ j.last = u /\ j.by = f.by /\ j.at = f.at
    BY <1>2, <2>6, <2>8, FitsAnother
  <2>10. Walked(rule) = ClockOfDay \cup {"month"} /\ "day" \notin Walked(rule)
    BY <1>2, <1>5, WalkedParts DEF ClockOfDay
  <2>11. \A p \in ClockOfDay : PartKept(f, j, p)
    BY <1>2, <1>3, <2>7, <2>9 DEF PartKept, ClockOfDay, Is
  <2>12. \A p \in ClockOfDay : InList(j, rule, p)
    BY <1>2, <2>10, <2>11, KeptInList DEF OnPath
  <2> QED BY <2>9, <2>10, <2>12 DEF OnPath, IterFits
<1>6. CASE ~(rule.freq = "MONTHLY" /\ Has("weekday"))
  <2>1. j = IF Has("day") THEN [f EXCEPT !.last = Normalize(@)] ELSE f
    <3>1. rule.freq # "WEEKLY" /\ rule.freq # "YEARLY"
      BY DEF StartsWell, Rule
    <3>2. Built = {Settled(Fresh)}
      BY <1>6, <3>1 DEF Built
    <3> QED BY <1>1, <3>2 DEF Settled
  <2>2. Has("day") => Normalize(t) = t
    <3> SUFFICES ASSUME Has("day") PROVE t.day \in 1..DaysInMonth(t.month, t.year)
      BY <1>4, NormalizeIsSame
    <3>1. start.day \in 1..DaysInMonth(start.month, start.year)
      BY DEF StartsWell
    <3>2. t.day \in 1..start.day
      <4>1. CASE rule.freq = "MONTHLY"
        <5>1. "day" \in Walked(rule)
          BY <1>6, <4>1 DEF Walked, Has
        <5>2. rule.by.day[1] \in 1..start.day
          BY <5>1 DEF Advances
        <5>3. Defaults["day"] = rule.by["day"]
          BY DefaultLists DEF Fields
        <5> QED BY <1>4, <4>1, <5>2, <5>3
      <4>2. CASE rule.freq # "MONTHLY"
        BY <1>4, <3>1, <4>2
      <4> QED BY <4>1, <4>2
    <3>3. DaysInMonth(start.month, start.year) \in Int /\ start.day \in Int
      BY <1>4, DaysInMonthType, TimeFields DEF StartsWell
    <3> QED BY <1>4, <3>1, <3>2, <3>3
  <2>4. f \in Iterators
    BY <1>2, FitsFields
  <2>3. j = [f EXCEPT !.last = t]
    BY <1>2, <1>3, <2>1, <2>2, <2>4 DEF Iterators
  <2>5. j = f
    BY <1>2, <1>3, <2>3, <2>4 DEF Iterators
  <2> QED BY <1>2, <2>5
<1> QED BY <1>5, <1>6

\* The number of times that were given out is not looked at.
LEMMA CountedOnPath ==
  ASSUME NEW r, NEW i, OnPath(i, r), NEW n \in Nat
  PROVE  OnPath([i EXCEPT !.no = n], r) /\ [i EXCEPT !.no = n].last = i.last
<1>1. PICK j : j = [i EXCEPT !.no = n]
  OBVIOUS
<1>2. i \in Iterators
  BY DEF OnPath, Iterator
<1>3. j \in Iterators /\ j.last = i.last /\ j.by = i.by /\ j.at = i.at
  BY <1>1, <1>2 DEF Iterators
<1>4. Iterator(j, r)
  BY <1>3 DEF OnPath, Iterator
<1>5. \A p \in Walked(r) : InList(j, r, p)
  BY <1>3 DEF OnPath, InList
<1>6. OnPath(j, r)
  BY <1>3, <1>4, <1>5 DEF OnPath
<1> QED BY <1>1, <1>3, <1>6

\* While its next time is looked for, an iterator is in all of its lists.
PathInv ==
  /\ StartsWell /\ Advances(rule, start)
  /\ phase \in {"idle", "looping"} => OnPath(it, rule)

\* A pass that moves on from a state of the invariant ends in one.
LEMMA PassOnPath ==
  ASSUME PathInv, phase = "looping", UNCHANGED <<rule, start>>, NEW valid,
         NEW next, OnPath(next, rule), Before(it.last, next.last), Pass(next, valid)
  PROVE  PathInv' /\ Earlier(it.last, it'.last)
<1>1. next.no + 1 \in Nat
  BY DEF OnPath, Iterator, Iterators
<1>2. it' = next \/ it' = [next EXCEPT !.no = @ + 1]
  BY DEF Pass
<1>3. OnPath(it', rule) /\ it'.last = next.last
  <2>1. CASE it' = next
    BY <2>1
  <2>2. CASE it' = [next EXCEPT !.no = @ + 1]
    <3>1. it' = [next EXCEPT !.no = next.no + 1]
      BY <2>2
    <3> QED BY <1>1, <3>1, CountedOnPath
  <2> QED BY <1>2, <2>1, <2>2
<1>4. it.last \in Times /\ next.last \in Times
  BY DEF PathInv, OnPath, Iterator, Iterators
<1>5. Earlier(it.last, it'.last)
  BY <1>3, <1>4, BeforeIsEarlier
<1>6. StartsWell' /\ Advances(rule, start)'
  BY DEF PathInv, StartsWell, Rule
<1> QED BY <1>3, <1>5, <1>6 DEF PathInv

\* Every step keeps the invariant, and every pass of the loop moves on.
LEMMA PathStep ==
  ASSUME PathInv, RecurNext
  PROVE  PathInv' /\ (phase = "looping" => Earlier(it.last, it'.last))
<1>i. Rule
  BY DEF PathInv, StartsWell
<1>1. CASE New
  <2>1. phase # "looping" /\ UNCHANGED <<rule, start>>
    BY <1>1 DEF New
  <2>2. StartsWell' /\ Advances(rule, start)'
    BY <2>1 DEF PathInv, StartsWell, Rule
  <2>3. phase' = "refused" \/ it' \in Built
    BY <1>1 DEF New
  <2>4. phase' \in {"idle", "looping"} => OnPath(it', rule)
    BY <2>3, BuiltIsOnPath DEF PathInv
  <2> QED BY <2>1, <2>2, <2>4 DEF PathInv
<1>2. CASE Call
  <2>1. phase = "idle" /\ UNCHANGED <<rule, start>>
    BY <1>2 DEF Call
  <2>2. StartsWell' /\ Advances(rule, start)'
    BY <2>1 DEF PathInv, StartsWell, Rule
  <2>3. it' = it \/ it' = [it EXCEPT !.no = 1]
    BY <1>2 DEF Call
  <2>4. OnPath(it, rule)
    BY <2>1 DEF PathInv
  <2>5. OnPath(it', rule)
    BY <2>3, <2>4, CountedOnPath
  <2> QED BY <2>1, <2>2, <2>5 DEF PathInv
<1>3. CASE phase = "looping"
  <2>0. OnPath(it, rule)
    BY <1>3 DEF PathInv
  <2>1. CASE Secondly
    <3>1. rule.freq = "SECONDLY" /\ UNCHANGED <<rule, start>> /\ Pass(NextSecond(it).it, TRUE)
      BY <2>1 DEF Secondly, Loops
    <3>2. OnPath(NextSecond(it).it, rule) /\ Before(it.last, NextSecond(it).it.last)
      BY <1>i, <2>0, <3>1, SecondlyMoves
    <3> QED BY <1>3, <3>1, <3>2, PassOnPath
  <2>2. CASE Minutely
    <3>1. rule.freq = "MINUTELY" /\ UNCHANGED <<rule, start>> /\ Pass(NextMinute(it).it, TRUE)
      BY <2>2 DEF Minutely, Loops
    <3>2. OnPath(NextMinute(it).it, rule) /\ Before(it.last, NextMinute(it).it.last)
      BY <1>i, <2>0, <3>1, MinutelyMoves
    <3> QED BY <1>3, <3>1, <3>2, PassOnPath
  <2>3. CASE Hourly
    <3>1. rule.freq = "HOURLY" /\ UNCHANGED <<rule, start>> /\ Pass(NextHour(it).it, TRUE)
      BY <2>3 DEF Hourly, Loops
    <3>2. OnPath(NextHour(it).it, rule) /\ Before(it.last, NextHour(it).it.last)
      BY <1>i, <2>0, <3>1, HourlyMoves
    <3> QED BY <1>3, <3>1, <3>2, PassOnPath
  <2>4. CASE Daily
    <3>1. rule.freq = "DAILY" /\ UNCHANGED <<rule, start>> /\ Pass(NextDay(it), TRUE)
      BY <2>4 DEF Daily, Loops
    <3>2. OnPath(NextDay(it), rule) /\ Before(it.last, NextDay(it).last)
      BY <1>i, <2>0, <3>1, DailyMoves
    <3> QED BY <1>3, <3>1, <3>2, PassOnPath
  <2>5. CASE Monthly
    <3>1. rule.freq = "MONTHLY" /\ UNCHANGED <<rule, start>>
          /\ Pass(NextMonth(it).it, NextMonth(it).valid)
      BY <2>5 DEF Monthly, Loops
    <3>2. OnPath(NextMonth(it).it, rule) /\ Before(it.last, NextMonth(it).it.last)
      BY <1>i, <2>0, <3>1, MonthlyMoves
    <3> QED BY <1>3, <3>1, <3>2, PassOnPath
  <2>6. ~Weekly /\ ~Yearly
    BY <1>i DEF Weekly, Yearly, Loops, Rule
  <2>7. ~New /\ ~Call
    BY <1>3 DEF New, Call
  <2> QED BY <2>1, <2>2, <2>3, <2>4, <2>5, <2>6, <2>7 DEF RecurNext
<1>4. CASE phase # "looping"
  <2>1. New \/ Call
    BY <1>4 DEF RecurNext, Secondly, Minutely, Hourly, Daily, Weekly, Monthly, Yearly, Loops
  <2> QED BY <1>1, <1>2, <2>1
<1> QED BY <1>3, <1>4

\* Each pass of the loop of icalrecur_iterator_next takes the iterator further: of
\* any rule of seconds, minutes, hours, days or months with sorted lists (whatever
\* interval, end and contracting lists it has), from any start with the first of
\* the values the indices begin at.
THEOREM PassesMoveOn == Advances(rule, start) /\ RecurSpec => PassMovesOn
<1>1. Advances(rule, start) /\ RecurInit => PathInv
  <2> SUFFICES ASSUME Advances(rule, start), RecurInit PROVE PathInv
    OBVIOUS
  <2>1. phase = "new"
    BY DEF RecurInit
  <2>2. Rule
    BY DEF Advances, InRange, Rule
  <2>3. StartsWell
    BY <2>2 DEF Advances, InRange, StartsWell
  <2> QED BY <2>1, <2>3 DEF PathInv
<1>2. PathInv /\ [RecurNext]_recurVars
        => PathInv' /\ [phase = "looping" => Earlier(it.last, it'.last)]_recurVars
  <2> SUFFICES ASSUME PathInv, [RecurNext]_recurVars
               PROVE  PathInv' /\ [phase = "looping" => Earlier(it.last, it'.last)]_recurVars
    OBVIOUS
  <2>1. CASE RecurNext
    BY <2>1, PathStep
  <2>2. CASE UNCHANGED recurVars
    <3>1. StartsWell' /\ Advances(rule, start)'
      BY <2>2 DEF recurVars, PathInv, StartsWell, Rule
    <3> QED BY <2>2, <3>1 DEF recurVars, PathInv
  <2> QED BY <2>1, <2>2
<1> QED BY <1>1, <1>2, PTL DEF RecurSpec, PassMovesOn
=============================================================================
