------------------------------- MODULE Induction -------------------------------
(***************************************************************************)
(* Induction in a form the provers can use, and what recursive definitions *)
(* of the models rest on.  The library's induction theorems speak of a     *)
(* predicate, which would have to be guessed; these speak of the SET of    *)
(* those for which it holds.  They follow from the least-number principle, *)
(* which is what the library's WFMin says of < on Nat.                     *)
(***************************************************************************)
EXTENDS Integers, SequencesExt, SequenceTheorems, WellFoundedInduction, TLAPS

\* A set of numbers that is not empty has a least one.
LEMMA LeastNumber ==
  ASSUME NEW T \in SUBSET Nat, T # {}
  PROVE  \E x \in T : \A y \in T : x <= y
<1> DEFINE R == OpToRel(<, Nat)
<1>1. IsWellFoundedOn(R, Nat)
  BY NatLessThanWellFounded
<1>2. \E x \in T : \A y \in T : ~(<<y, x>> \in R)
  <2> HIDE DEF R
  <2> QED BY <1>1, WFMin, Zenon
<1>3. PICK x \in T : \A y \in T : ~(<<y, x>> \in R)
  BY <1>2
<1>4. ASSUME NEW y \in T PROVE x <= y
  <2>1. x \in Nat /\ y \in Nat OBVIOUS
  <2>2. ~(<<y, x>> \in R) BY <1>3
  <2>3. y < x => <<y, x>> \in R
    BY <2>1 DEF OpToRel
  <2> HIDE DEF R
  <2>4. ~(y < x)
    BY <2>2, <2>3
  <2> QED BY <2>1, <2>4
<1> HIDE DEF R
<1> QED BY <1>4

\* A set that has 0 and with each number the next has all numbers.
THEOREM InductionOnNat ==
  ASSUME NEW S, 0 \in S, \A n \in Nat : n \in S => n + 1 \in S
  PROVE  Nat \subseteq S
<1> DEFINE T == Nat \ S
<1> SUFFICES ASSUME T # {} PROVE FALSE
  OBVIOUS
<1>1. PICK x \in T : \A y \in T : x <= y
  BY LeastNumber
<1>2. x \in Nat /\ x # 0
  OBVIOUS
<1>3. x - 1 \in Nat /\ x - 1 < x
  BY <1>2
<1>4. x - 1 \in S
  BY <1>1, <1>3
<1> QED BY <1>2, <1>3, <1>4

\* A set that has the empty sequence and with each sequence those that are one
\* element longer has all sequences.
THEOREM InductionOnSeq ==
  ASSUME NEW A, NEW S, <<>> \in S,
         \A s \in Seq(A), a \in A : s \in S => Append(s, a) \in S
  PROVE  Seq(A) \subseteq S
<1> DEFINE T == {n \in Nat : \A s \in Seq(A) : Len(s) = n => s \in S}
<1>1. 0 \in T
  <2>1. \A s \in Seq(A) : Len(s) = 0 => s = <<>>
    BY EmptySeq
  <2> QED BY <2>1
<1>2. ASSUME NEW n \in Nat, n \in T PROVE n + 1 \in T
  <2>1. ASSUME NEW s \in Seq(A), Len(s) = n + 1 PROVE s \in S
    <3>1. s # <<>>
      BY <2>1, EmptySeq
    <3>2. PICK t \in Seq(A), a \in A : s = Append(t, a)
      BY <3>1, SequenceEmptyOrAppend
    <3>3. Len(t) = n
      <4>1. Len(t) \in Nat /\ Len(s) = Len(t) + 1
        BY <3>2, AppendProperties, LenProperties
      <4> QED BY <2>1, <4>1
    <3> QED BY <1>2, <3>2, <3>3
  <2> QED BY <2>1
<1> HIDE DEF T
<1>3. Nat \subseteq T
  BY <1>1, <1>2, InductionOnNat
<1> QED BY <1>3, LenProperties DEF T

----------------------------------------------------------------------------
(* Recursive functions on a prefix of the numbers.                         *)

\* How to go from the value at i - 1 to the one at i.
Steps(V, n) == [1..n -> [V -> V]]

\* From v0 on, each value is what the step makes of the one before.
Follows(g, V, v0, n, T) == /\ \A i \in 0..n : g[i] \in V
                           /\ g[0] = v0
                           /\ \A i \in 1..n : g[i] = T[i][g[i - 1]]

\* There are such values, wherever they start and whatever the steps are.
THEOREM PrefixRecursion ==
  ASSUME NEW V, NEW v0 \in V, NEW n \in Nat, NEW T \in Steps(V, n)
  PROVE  \E g : Follows(g, V, v0, n, T)
<1> USE DEF Follows, Steps
<1> DEFINE Is(g, m) == /\ \A i \in 0..m : g[i] \in V
                       /\ g[0] = v0
                       /\ \A i \in 1..m : g[i] = T[i][g[i - 1]]
           S == {m \in Nat : m <= n => \E g : Is(g, m)}
<1>1. 0 \in S
  <2> DEFINE g == [i \in 0..0 |-> v0]
  <2>1. Is(g, 0)
    OBVIOUS
  <2> QED BY <2>1
<1>2. ASSUME NEW m \in Nat, m \in S PROVE m + 1 \in S
  <2> SUFFICES ASSUME m + 1 <= n PROVE \E g : Is(g, m + 1)
    OBVIOUS
  <2>1. PICK g : Is(g, m)
    BY <1>2
  <2> DEFINE h == [i \in 0..m + 1 |-> IF i <= m THEN g[i] ELSE T[m + 1][g[m]]]
  <2>2. m + 1 \in 1..n /\ m \in 0..m
    OBVIOUS
  <2>3. \A i \in 0..m + 1 : h[i] \in V
    BY <2>1, <2>2
  <2>4. ASSUME NEW i \in 1..m + 1 PROVE h[i] = T[i][h[i - 1]]
    <3>1. CASE i <= m
      <4>1. i \in 1..m /\ i - 1 \in 0..m
        BY <3>1
      <4> QED BY <2>1, <3>1, <4>1
    <3>2. CASE i = m + 1
      BY <3>2
    <3> QED BY <3>1, <3>2
  <2>5. h[0] = v0
    BY <2>1
  <2> HIDE DEF h
  <2> QED BY <2>3, <2>4, <2>5
<1> HIDE DEF S
<1>3. n \in S
  BY <1>1, <1>2, InductionOnNat
<1> QED BY <1>3 DEF S

----------------------------------------------------------------------------
(* FlattenSeq of the community modules.                                    *)

\* A row of n sequences over A, and what is got by adding one after the other.
IsRow(ss, A, n) == Len(ss) = n /\ \A i \in 1..n : ss[i] \in Seq(A)

Gathers(g, ss, A, n) == /\ \A i \in 1..n : g[i] \in Seq(A)
                        /\ g[1] = ss[1]
                        /\ \A i \in 2..n : g[i] = g[i - 1] \o ss[i]

\* The recursive definition of FlattenSeq has a solution, and that is what it
\* says.
LEMMA FlattenDef ==
  ASSUME NEW A, NEW ss, NEW n \in Nat \ {0}, IsRow(ss, A, n)
  PROVE  \E g : Gathers(g, ss, A, n) /\ FlattenSeq(ss) = g[n]
<1> USE DEF IsRow, Gathers
<1> DEFINE Is(g) == g = [i \in 1..n |-> IF i = 1 THEN ss[i] ELSE g[i - 1] \o ss[i]]
<1>1. \A i \in 1..n : ss[i] \in Seq(A)
  OBVIOUS
<1>2. PICK V : V = Seq(A)
  OBVIOUS
<1>t. PICK T : T = [i \in 1..n |-> [v \in V |-> IF i = 1 THEN ss[1] ELSE v \o ss[i]]]
  OBVIOUS
<1>u. T \in Steps(V, n)
  <2>1. \A i \in 1..n, v \in V : (IF i = 1 THEN ss[1] ELSE v \o ss[i]) \in V
    BY <1>1, <1>2, ConcatProperties
  <2> QED BY <1>t, <2>1 DEF Steps
<1>3. PICK f : Follows(f, V, <<>>, n, T)
  <2>1. <<>> \in V /\ n \in Nat
    BY <1>2, EmptySeq
  <2> QED BY <1>u, <2>1, PrefixRecursion
<1>4. \E g : Is(g)
  <2> DEFINE h == [i \in 1..n |-> f[i]]
  <2>1. ASSUME NEW i \in 1..n
        PROVE  h[i] = IF i = 1 THEN ss[i] ELSE h[i - 1] \o ss[i]
    <3>1. f[i] = IF i = 1 THEN ss[1] ELSE f[i - 1] \o ss[i]
      <4>1. f[i - 1] \in V
        BY <1>3 DEF Follows
      <4> QED BY <1>3, <1>t, <4>1 DEF Follows
    <3>2. CASE i = 1
      BY <3>1, <3>2
    <3>3. CASE i # 1
      <4>1. i - 1 \in 1..n
        BY <1>1, <3>3
      <4> QED BY <3>1, <3>3, <4>1
    <3> QED BY <3>2, <3>3
  <2>2. Is(h)
    BY <2>1
  <2> HIDE DEF h, Is
  <2> QED BY <2>2
<1> DEFINE g == CHOOSE g : Is(g)
<1>5. Is(g)
  BY <1>4
<1>6. FlattenSeq(ss) = g[n]
  BY DEF FlattenSeq
<1> HIDE DEF g
<1>7. /\ g[1] = ss[1]
      /\ \A i \in 2..n : g[i] = g[i - 1] \o ss[i]
  <2>1. \A i \in 1..n : g[i] = IF i = 1 THEN ss[i] ELSE g[i - 1] \o ss[i]
    BY <1>5, Zenon
  <2>2. 1 \in 1..n /\ \A i \in 2..n : i \in 1..n /\ i # 1
    OBVIOUS
  <2> HIDE DEF Is
  <2>3. g[1] = ss[1]
    BY <2>1, <2>2
  <2>4. \A i \in 2..n : g[i] = g[i - 1] \o ss[i]
    BY <2>1, <2>2, Zenon
  <2> QED BY <2>3, <2>4
<1>8. \A i \in 1..n : g[i] \in Seq(A)
  <2> DEFINE S == {m \in Nat : m + 1 <= n => g[m + 1] \in Seq(A)}
  <2>1. 0 \in S
    BY <1>1, <1>7
  <2>2. ASSUME NEW m \in Nat, m \in S PROVE m + 1 \in S
    <3> SUFFICES ASSUME (m + 1) + 1 <= n PROVE g[(m + 1) + 1] \in Seq(A)
      OBVIOUS
    <3>1. g[m + 1] \in Seq(A)
      BY <1>1, <2>2
    <3>2. (m + 1) + 1 \in 2..n /\ ((m + 1) + 1) - 1 = m + 1
      BY <1>1
    <3>3. g[(m + 1) + 1] = g[m + 1] \o ss[(m + 1) + 1]
      BY <1>7, <3>2
    <3>4. ss[(m + 1) + 1] \in Seq(A)
      BY <1>1
    <3> QED BY <3>1, <3>3, <3>4, ConcatProperties
  <2> HIDE DEF S
  <2>3. Nat \subseteq S
    BY <2>1, <2>2, InductionOnNat
  <2>4. ASSUME NEW i \in 1..n PROVE g[i] \in Seq(A)
    <3>1. i - 1 \in Nat /\ (i - 1) + 1 = i
      BY <1>1
    <3>2. i - 1 \in S
      BY <2>3, <3>1
    <3> QED BY <3>1, <3>2 DEF S
  <2> QED BY <2>4
<1> QED BY <1>6, <1>7, <1>8

\* Flattened, a sequence of sequences with one more is the flattened ones and then
\* that one.
THEOREM FlattenAppend ==
  ASSUME NEW A, NEW ss \in Seq(Seq(A)), NEW s \in Seq(A)
  PROVE  /\ FlattenSeq(<<>>) = <<>>
         /\ FlattenSeq(ss) \in Seq(A)
         /\ FlattenSeq(Append(ss, s)) = FlattenSeq(ss) \o s
<1>1. FlattenSeq(<<>>) = <<>>
  BY EmptySeq DEF FlattenSeq
<1>2. FlattenSeq(ss) \in Seq(A)
  <2>1. CASE ss = <<>>
    BY <1>1, <2>1, EmptySeq
  <2>2. CASE ss # <<>>
    <3>1. PICK n \in Nat \ {0} : IsRow(ss, A, n)
      BY <2>2, EmptySeq, ElementOfSeq DEF IsRow
    <3>2. n \in 1..n
      OBVIOUS
    <3>3. PICK g : Gathers(g, ss, A, n) /\ FlattenSeq(ss) = g[n]
      BY <3>1, FlattenDef
    <3> QED BY <3>2, <3>3 DEF Gathers
  <2> QED BY <2>1, <2>2
<1>t. PICK late : late = Append(ss, s)
  OBVIOUS
<1>3. PICK n \in Nat : n = Len(ss)
  BY LenProperties
<1>4. /\ late \in Seq(Seq(A)) /\ late # <<>> /\ Len(late) = n + 1
      /\ \A i \in 1..n : late[i] = ss[i]
      /\ late[n + 1] = s
  BY <1>3, <1>t, AppendProperties
<1>5. PICK h : Gathers(h, late, A, n + 1) /\ FlattenSeq(late) = h[n + 1]
  <2>1. n + 1 \in Nat \ {0} /\ IsRow(late, A, n + 1)
    BY <1>4, ElementOfSeq DEF IsRow
  <2> QED BY <2>1, FlattenDef
<1>6. CASE n = 0
  <2>1. ss = <<>>
    BY <1>3, <1>6, EmptySeq
  <2> QED BY <1>1, <1>4, <1>5, <1>6, <2>1, <1>t, <1>2, ConcatEmptySeq DEF Gathers
<1>7. CASE n # 0
  <2>1. PICK g : Gathers(g, ss, A, n) /\ FlattenSeq(ss) = g[n]
    <3>1. n \in Nat \ {0} /\ IsRow(ss, A, n)
      BY <1>3, <1>7, ElementOfSeq DEF IsRow
    <3> QED BY <3>1, FlattenDef
  <2> USE DEF Gathers
  <2> DEFINE S == {m \in Nat : m + 1 <= n => h[m + 1] = g[m + 1]}
  <2>2. 0 \in S
    <3>1. 1 \in 1..n
      BY <1>7
    <3> QED BY <1>4, <1>5, <2>1, <3>1
  <2>3. ASSUME NEW m \in Nat, m \in S PROVE m + 1 \in S
    <3> SUFFICES ASSUME (m + 1) + 1 <= n PROVE h[(m + 1) + 1] = g[(m + 1) + 1]
      OBVIOUS
    <3> DEFINE i == (m + 1) + 1
    <3>1. i \in 2..n /\ i \in 2..n + 1 /\ i \in 1..n /\ i - 1 = m + 1
      OBVIOUS
    <3>2. h[m + 1] = g[m + 1]
      BY <2>3
    <3> HIDE DEF i
    <3>3. h[i] = h[i - 1] \o late[i] /\ g[i] = g[i - 1] \o ss[i] /\ late[i] = ss[i]
      BY <1>4, <1>5, <2>1, <3>1
    <3>4. h[i] = g[i]
      BY <3>1, <3>2, <3>3
    <3> QED BY <3>4 DEF i
  <2> HIDE DEF S
  <2>4. n - 1 \in S
    <3>1. n - 1 \in Nat
      BY <1>7
    <3> QED BY <2>2, <2>3, <3>1, InductionOnNat
  <2>5. h[n] = g[n]
    <3>1. (n - 1) + 1 = n
      OBVIOUS
    <3> QED BY <2>4, <3>1 DEF S
  <2>6. h[n + 1] = h[n] \o s
    <3>1. n + 1 \in 2..n + 1 /\ (n + 1) - 1 = n
      BY <1>7
    <3> QED BY <1>4, <1>5, <3>1
  <2> QED BY <1>1, <1>2, <1>5, <1>t, <2>1, <2>5, <2>6
<1> QED BY <1>6, <1>7

----------------------------------------------------------------------------
(* InsertAt and RemoveAt of the community modules.                         *)

\* What is in a sequence with one element more in its k-th place.
THEOREM InsertAtProperties ==
  ASSUME NEW A, NEW s \in Seq(A), NEW e \in A, NEW k \in 1..Len(s) + 1
  PROVE  /\ InsertAt(s, k, e) \in Seq(A)
         /\ Len(InsertAt(s, k, e)) = Len(s) + 1
         /\ \A i \in 1..Len(s) + 1 :
              InsertAt(s, k, e)[i] = IF i < k THEN s[i] ELSE IF i = k THEN e ELSE s[i - 1]
<1>1. PICK n, w : n = Len(s) /\ w = InsertAt(s, k, e)
  OBVIOUS
<1>2. n \in Nat /\ k \in 1..n + 1 /\ \A i \in 1..n : s[i] \in A
  BY <1>1
<1>3. PICK a, b, c : a = SubSeq(s, 1, k - 1) /\ b = SubSeq(s, k, n) /\ c = <<e>>
  OBVIOUS
<1>4. /\ a \in Seq(A) /\ Len(a) = k - 1
      /\ \A i \in 1..k - 1 : a[i] = s[i]
  <2>1. 1 \in Int /\ k - 1 \in Int /\ \A i \in 1..k - 1 : s[i] \in A
    BY <1>2
  <2>2. /\ a \in Seq(A) /\ Len(a) = IF 1 <= k - 1 THEN (k - 1) - 1 + 1 ELSE 0
        /\ \A i \in 1..(k - 1) - 1 + 1 : a[i] = s[1 + i - 1]
    BY <1>3, <2>1, SubSeqProperties
  <2> QED BY <1>2, <2>2
<1>5. /\ b \in Seq(A) /\ Len(b) = n - k + 1
      /\ \A i \in 1..n - k + 1 : b[i] = s[k + i - 1]
  <2>1. k \in Int /\ n \in Int /\ \A i \in k..n : s[i] \in A
    BY <1>2
  <2>2. /\ b \in Seq(A) /\ Len(b) = IF k <= n THEN n - k + 1 ELSE 0
        /\ \A i \in 1..n - k + 1 : b[i] = s[k + i - 1]
    BY <1>3, <2>1, SubSeqProperties
  <2> QED BY <1>2, <2>2
<1>6. c \in Seq(A) /\ Len(c) = 1 /\ c[1] = e
  BY <1>3
<1>7. PICK d : d = a \o c
  OBVIOUS
<1>8. /\ d \in Seq(A) /\ Len(d) = k
      /\ \A i \in 1..k : d[i] = IF i < k THEN s[i] ELSE e
  <2>1. /\ d \in Seq(A) /\ Len(d) = Len(a) + Len(c)
        /\ \A i \in 1..Len(a) + Len(c) : d[i] = IF i <= Len(a) THEN a[i] ELSE c[i - Len(a)]
    BY <1>4, <1>6, <1>7, ConcatProperties
  <2>2. ASSUME NEW i \in 1..k PROVE d[i] = IF i < k THEN s[i] ELSE e
    <3>1. CASE i < k
      <4>1. i \in 1..k - 1 /\ i \in 1..Len(a) + Len(c) /\ i <= Len(a)
        BY <1>2, <1>4, <1>6, <3>1
      <4> QED BY <1>4, <2>1, <3>1, <4>1
    <3>2. CASE i = k
      <4>1. i \in 1..Len(a) + Len(c) /\ ~(i <= Len(a)) /\ i - Len(a) = 1
        BY <1>2, <1>4, <1>6, <3>2
      <4> QED BY <1>6, <2>1, <3>2, <4>1
    <3> QED BY <1>2, <3>1, <3>2
  <2> QED BY <1>2, <1>4, <1>6, <2>1, <2>2
<1>9. w = d \o b
  BY <1>1, <1>3, <1>7 DEF InsertAt
<1>10. /\ w \in Seq(A) /\ Len(w) = Len(d) + Len(b)
       /\ \A i \in 1..Len(d) + Len(b) : w[i] = IF i <= Len(d) THEN d[i] ELSE b[i - Len(d)]
  BY <1>5, <1>8, <1>9, ConcatProperties
<1>11. ASSUME NEW i \in 1..n + 1
       PROVE  w[i] = IF i < k THEN s[i] ELSE IF i = k THEN e ELSE s[i - 1]
  <2>1. i \in 1..Len(d) + Len(b)
    BY <1>2, <1>5, <1>8
  <2>2. CASE i <= k
    BY <1>2, <1>8, <1>10, <2>1, <2>2
  <2>3. CASE ~(i <= k)
    <3>1. i - k \in 1..n - k + 1 /\ k + (i - k) - 1 = i - 1
      BY <1>2, <2>3
    <3>2. w[i] = b[i - k] /\ b[i - k] = s[k + (i - k) - 1]
      BY <1>5, <1>8, <1>10, <2>1, <2>3, <3>1
    <3> QED BY <1>2, <2>3, <3>1, <3>2
  <2> QED BY <2>2, <2>3
<1> QED BY <1>1, <1>2, <1>5, <1>8, <1>10, <1>11

\* What is in a sequence without its k-th element.
THEOREM RemoveAtProperties ==
  ASSUME NEW A, NEW s \in Seq(A), NEW k \in 1..Len(s)
  PROVE  /\ RemoveAt(s, k) \in Seq(A)
         /\ Len(RemoveAt(s, k)) = Len(s) - 1
         /\ \A i \in 1..Len(s) - 1 :
              RemoveAt(s, k)[i] = IF i < k THEN s[i] ELSE s[i + 1]
<1>1. PICK n, w : n = Len(s) /\ w = RemoveAt(s, k)
  OBVIOUS
<1>3. n \in Nat /\ k \in 1..n /\ \A i \in 1..n : s[i] \in A
  BY <1>1
<1>5. PICK a, b : a = SubSeq(s, 1, k - 1) /\ b = SubSeq(s, k + 1, n)
  OBVIOUS
<1>6. /\ a \in Seq(A) /\ Len(a) = k - 1
      /\ \A i \in 1..k - 1 : a[i] = s[i]
  <2>1. 1 \in Int /\ k - 1 \in Int /\ \A i \in 1..k - 1 : s[i] \in A
    BY <1>3
  <2>2. /\ a \in Seq(A) /\ Len(a) = IF 1 <= k - 1 THEN (k - 1) - 1 + 1 ELSE 0
        /\ \A i \in 1..(k - 1) - 1 + 1 : a[i] = s[1 + i - 1]
    BY <1>5, <2>1, SubSeqProperties
  <2>3. Len(a) = k - 1
    BY <1>3, <2>2
  <2>4. ASSUME NEW i \in 1..k - 1 PROVE a[i] = s[i]
    <3>1. i \in 1..(k - 1) - 1 + 1 /\ 1 + i - 1 = i
      BY <1>3
    <3> QED BY ONLY <2>2, <3>1
  <2> QED BY ONLY <2>2, <2>3, <2>4
<1>7. /\ b \in Seq(A) /\ Len(b) = n - k
      /\ \A i \in 1..n - k : b[i] = s[k + i]
  <2>1. k + 1 \in Int /\ n \in Int /\ \A i \in k + 1..n : s[i] \in A
    BY <1>3
  <2>2. /\ b \in Seq(A) /\ Len(b) = IF k + 1 <= n THEN n - (k + 1) + 1 ELSE 0
        /\ \A i \in 1..n - (k + 1) + 1 : b[i] = s[(k + 1) + i - 1]
    BY <1>5, <2>1, SubSeqProperties
  <2> QED BY <1>3, <2>2
<1>8. w = a \o b
  BY <1>1, <1>5 DEF RemoveAt
<1>9. /\ w \in Seq(A) /\ Len(w) = Len(a) + Len(b)
      /\ \A i \in 1..Len(a) + Len(b) : w[i] = IF i <= Len(a) THEN a[i] ELSE b[i - Len(a)]
  BY <1>6, <1>7, <1>8, ConcatProperties
<1>10. ASSUME NEW i \in 1..n - 1 PROVE w[i] = IF i < k THEN s[i] ELSE s[i + 1]
  <2>1. CASE i < k
    BY <1>3, <1>6, <1>7, <1>9, <2>1
  <2>2. CASE ~(i < k)
    <3>1. PICK j : j = i - (k - 1)
      OBVIOUS
    <3>2. j \in 1..n - k /\ k + j = i + 1
      BY <1>3, <2>2, <3>1
    <3>3. w[i] = b[j]
      <4>1. i \in 1..Len(a) + Len(b) /\ ~(i <= Len(a)) /\ i - Len(a) = j
        BY <1>3, <1>6, <1>7, <2>2, <3>1
      <4> QED BY <1>9, <4>1
    <3>4. b[j] = s[k + j]
      BY <1>7, <3>2
    <3> QED BY <2>2, <3>2, <3>3, <3>4
  <2> QED BY <2>1, <2>2
<1> QED BY <1>1, <1>3, <1>6, <1>7, <1>9, <1>10

-----------------------------------------------------------------------------
(* Loops, as tail-recursive functions.                                     *)

\* A loop as a tail-recursive function: while a place is not one where it is done
\* the function goes on at the next, and the measure, at most M, gets smaller.
Descends(D, M, mu, done, next) ==
  /\ mu \in [D -> 0..M]
  /\ \A x \in D : x \notin done => next[x] \in D /\ mu[next[x]] < mu[x]

Loop(f, D, done, val, next) ==
  f = [x \in D |-> IF x \in done THEN val[x] ELSE f[next[x]]]

\* There is such a function.
THEOREM TailRecursion ==
  ASSUME NEW D, NEW M \in Nat, NEW mu, NEW done, NEW val, NEW next,
         Descends(D, M, mu, done, next)
  PROVE  \E f : Loop(f, D, done, val, next)
<1> DEFINE Upto(n) == {x \in D : mu[x] < n}
           S == {n \in Nat : \E f : Loop(f, Upto(n), done, val, next)}
<1>0. \A x \in D : mu[x] \in 0..M
  BY DEF Descends
<1>1. 0 \in S
  <2>1. Upto(0) = {}
    BY <1>0
  <2> DEFINE f == [x \in {} |-> x]
  <2>2. Loop(f, {}, done, val, next)
    BY DEF Loop
  <2> HIDE DEF f
  <2>3. \E g : Loop(g, Upto(0), done, val, next)
    BY <2>1, <2>2, Zenon
  <2> QED BY <2>3
<1>2. ASSUME NEW n \in Nat, n \in S PROVE n + 1 \in S
  <2>1. PICK f : Loop(f, Upto(n), done, val, next)
    BY <1>2
  <2> DEFINE h == [x \in Upto(n + 1) |-> IF x \in done THEN val[x] ELSE f[next[x]]]
  <2>2. \A x \in Upto(n) : x \in Upto(n + 1)
    BY <1>0
  <2>3. ASSUME NEW x \in Upto(n) PROVE f[x] = h[x]
    BY <2>1, <2>2 DEF Loop
  <2>4. ASSUME NEW x \in Upto(n + 1), x \notin done PROVE next[x] \in Upto(n)
    <3>1. x \in D /\ next[x] \in D /\ mu[next[x]] < mu[x] /\ mu[x] < n + 1
      BY <2>4 DEF Descends
    <3> QED BY <1>0, <3>1
  <2>5. ASSUME NEW x \in Upto(n + 1)
        PROVE  h[x] = IF x \in done THEN val[x] ELSE h[next[x]]
    BY <2>3, <2>4
  <2>6. h = [x \in Upto(n + 1) |-> h[x]]
    OBVIOUS
  <2>7. PICK g : g = h
    OBVIOUS
  <2> HIDE DEF h, Upto
  <2>8. Loop(g, Upto(n + 1), done, val, next)
    BY <2>5, <2>6, <2>7 DEF Loop
  <2> QED BY <2>8
<1>3. Upto(M + 1) = D
  BY <1>0
<1> HIDE DEF S
<1>4. M + 1 \in S
  BY <1>1, <1>2, InductionOnNat
<1> HIDE DEF Upto
<1> QED BY <1>3, <1>4 DEF S

\* The loop does not leave G, and where it is done there its value is in R.
LoopKeeps(G, R, done, val, next) ==
  \A x \in G : IF x \in done THEN val[x] \in R ELSE next[x] \in G

\* What holds of its values where it is done holds of its values at all places
\* the loop does not leave.
THEOREM TailValues ==
  ASSUME NEW D, NEW M \in Nat, NEW mu, NEW done, NEW val, NEW next,
         Descends(D, M, mu, done, next),
         NEW f, Loop(f, D, done, val, next),
         NEW G, G \subseteq D, NEW R, LoopKeeps(G, R, done, val, next)
  PROVE  \A x \in G : f[x] \in R
<1> DEFINE S == {n \in Nat : \A x \in G : mu[x] < n => f[x] \in R}
<1>0. \A x \in D : mu[x] \in 0..M
  BY DEF Descends
<1>1. 0 \in S
  BY <1>0
<1>2. ASSUME NEW n \in Nat, n \in S PROVE n + 1 \in S
  <2> SUFFICES ASSUME NEW x \in G, mu[x] < n + 1 PROVE f[x] \in R
    OBVIOUS
  <2>1. f[x] = IF x \in done THEN val[x] ELSE f[next[x]]
    BY DEF Loop
  <2>2. CASE x \in done
    BY <2>1, <2>2 DEF LoopKeeps
  <2>3. CASE x \notin done
    <3>1. next[x] \in G /\ next[x] \in D /\ mu[next[x]] < mu[x]
      BY <2>3 DEF Descends, LoopKeeps
    <3>2. mu[next[x]] < n
      BY <1>0, <3>1
    <3> QED BY <1>2, <2>1, <2>3, <3>1, <3>2
  <2> QED BY <2>2, <2>3
<1> HIDE DEF S
<1>3. Nat \subseteq S
  BY <1>1, <1>2, InductionOnNat
<1>4. ASSUME NEW x \in G PROVE f[x] \in R
  <2>1. M + 1 \in S /\ mu[x] < M + 1
    BY <1>0, <1>3
  <2> QED BY <2>1 DEF S
<1> QED BY <1>4

----------------------------------------------------------------------------
(* FoldLeft of the community modules, as steps one after the other.        *)

\* A set of numbers up to n has a greatest one, and it is the one Max chooses.
LEMMA MaxProperties ==
  ASSUME NEW n \in Nat, NEW S \in SUBSET (1..n), S # {}
  PROVE  Max(S) \in S /\ \A y \in S : Max(S) >= y
<1> DEFINE T == {n - x : x \in S}
<1>1. T \in SUBSET Nat /\ T # {}
  <2>1. \A x \in S : n - x \in Nat
    OBVIOUS
  <2>2. \E x \in S : n - x \in T
    OBVIOUS
  <2> QED BY <2>1, <2>2
<1>2. PICK t \in T : \A y \in T : t <= y
  BY <1>1, LeastNumber
<1>3. PICK x \in S : t = n - x
  BY <1>2
<1>4. ASSUME NEW y \in S PROVE x >= y
  <2>1. n - y \in T
    OBVIOUS
  <2>2. n - x <= n - y
    BY <1>2, <1>3, <2>1
  <2> QED BY <2>2
<1> QED BY <1>4 DEF Max

\* Of the numbers from 1 to n it is n.
LEMMA MaxOfInterval ==
  ASSUME NEW n \in Nat \ {0}
  PROVE  Max(1..n) = n /\ (1..n) \ {n} = 1..n - 1
<1>1. 1..n \in SUBSET (1..n) /\ 1..n # {}
  OBVIOUS
<1>2. PICK m : m = Max(1..n)
  OBVIOUS
<1>3. m \in 1..n /\ \A y \in 1..n : m >= y
  BY <1>1, <1>2, MaxProperties
<1> QED BY <1>2, <1>3

\* What a fold over the indices up to n is by its definition: g of a set of them.
FoldsOver(g, V, v0, n, T) ==
  \A S \in SUBSET (1..n) :
    /\ g[S] \in V
    /\ g[S] = IF S = {} THEN v0 ELSE T[Max(S)][g[S \ {Max(S)}]]

\* There is such a g, wherever it starts and whatever the steps are.
LEMMA FoldRecursion ==
  ASSUME NEW V, NEW v0 \in V, NEW n \in Nat, NEW T \in Steps(V, n)
  PROVE  \E g : FoldsOver(g, V, v0, n, T)
<1> DEFINE N == {m \in Nat : m <= n => \E g : FoldsOver(g, V, v0, m, T)}
<1>1. 0 \in N
  <2> DEFINE g == [S \in SUBSET (1..0) |-> v0]
  <2>1. \A S \in SUBSET (1..0) : S = {}
    OBVIOUS
  <2>2. FoldsOver(g, V, v0, 0, T)
    BY <2>1 DEF FoldsOver
  <2> HIDE DEF g
  <2> QED BY <2>2
<1>2. ASSUME NEW m \in Nat, m \in N PROVE m + 1 \in N
  <2> SUFFICES ASSUME m + 1 <= n PROVE \E g : FoldsOver(g, V, v0, m + 1, T)
    OBVIOUS
  <2>1. PICK g : FoldsOver(g, V, v0, m, T)
    BY <1>2
  <2> DEFINE h == [S \in SUBSET (1..m + 1) |->
                     IF S \in SUBSET (1..m) THEN g[S] ELSE T[m + 1][g[S \ {m + 1}]]]
  <2>2. T[m + 1] \in [V -> V]
    BY DEF Steps
  <2>3. ASSUME NEW S \in SUBSET (1..m + 1)
        PROVE  /\ h[S] \in V
               /\ h[S] = IF S = {} THEN v0 ELSE T[Max(S)][h[S \ {Max(S)}]]
    <3>1. CASE S \in SUBSET (1..m)
      <4>1. S \ {Max(S)} \in SUBSET (1..m) /\ S \ {Max(S)} \in SUBSET (1..m + 1)
        BY <3>1
      <4> QED BY <2>1, <3>1, <4>1 DEF FoldsOver
    <3>2. CASE S \notin SUBSET (1..m)
      <4>1. m + 1 \in S /\ S # {} /\ S \ {m + 1} \in SUBSET (1..m)
            /\ S \ {m + 1} \in SUBSET (1..m + 1)
        BY <3>2
      <4>2. Max(S) = m + 1
        <5>1. PICK x : x = Max(S)
          OBVIOUS
        <5>2. x \in S /\ \A y \in S : x >= y
          BY <4>1, <5>1, MaxProperties
        <5> QED BY <4>1, <5>1, <5>2
      <4>3. g[S \ {m + 1}] \in V
        BY <2>1, <4>1 DEF FoldsOver
      <4>4. h[S] = T[m + 1][g[S \ {m + 1}]] /\ h[S \ {m + 1}] = g[S \ {m + 1}]
        BY <3>2, <4>1
      <4> HIDE DEF h
      <4>5. h[S] \in V
        BY <2>2, <4>3, <4>4
      <4> QED BY <4>1, <4>2, <4>4, <4>5
    <3> QED BY <3>1, <3>2
  <2> HIDE DEF h
  <2>4. FoldsOver(h, V, v0, m + 1, T)
    BY <2>3 DEF FoldsOver
  <2> QED BY <2>4
<1> HIDE DEF N
<1>3. n \in N
  BY <1>1, <1>2, InductionOnNat
<1> QED BY <1>3 DEF N
=============================================================================
