----------------------------- MODULE PvlProofs -----------------------------
(***************************************************************************)
(* The list of Pvl, for any number of elements.                            *)
(*                                                                         *)
(* Its links: no pointer leads to a freed element, next and prior are      *)
(* inverse, the ends are where they should be and the count is never too   *)
(* small (IInv).                                                           *)
(*                                                                         *)
(* Its order: there is always a sequence of all elements along which the   *)
(* pointers lead (Chain).  Every routine puts an element into one place of *)
(* that sequence, takes the one of a place out, or leaves it alone.  From  *)
(* this follow that every element is reached, that the list is an ItemList *)
(* and that pvl_insert_ordered keeps the order.                            *)
(***************************************************************************)
EXTENDS Pvl, Induction, FiniteSetTheorems

\* The parts of TypeOK the links are about.
HeapOK ==
  /\ alive \subseteq Elem
  /\ next \in [Elem -> Pointer]
  /\ prior \in [Elem -> Pointer]
  /\ data \in [Elem -> Data \cup {Null}]
  /\ head \in Pointer /\ tail \in Pointer

LinksOK == HeapOK /\ Linked /\ EndsMatch

\* The inductive invariant.
IInv == TypeOK /\ Linked /\ EndsMatch /\ CountNeverShort /\ ClearFollowsHead

----------------------------------------------------------------------------

\* A new element in front of the list leaves it well linked.
LEMMA FrontKeepsLinks ==
  ASSUME LinksOK, NEW e \in Elem, NEW d \in Data, LinkFront(e, d)
  PROVE  LinksOK'
<1> USE NullIsNoElem
<1>1. HeapOK'
  BY DEF LinksOK, HeapOK, LinkFront, NewElement, Pointer
<1>2. Linked'
  BY DEF LinksOK, HeapOK, Linked, EndsMatch, LinkFront, NewElement, Pointer
<1>3. EndsMatch'
  BY DEF LinksOK, HeapOK, Linked, EndsMatch, LinkFront, NewElement, Pointer
<1> QED
  BY <1>1, <1>2, <1>3 DEF LinksOK

\* A new element at the end leaves it well linked.
LEMMA BackKeepsLinks ==
  ASSUME LinksOK, NEW e \in Elem, NEW d \in Data, LinkBack(e, d)
  PROVE  LinksOK'
<1> USE NullIsNoElem
<1>1. HeapOK'
  BY DEF LinksOK, HeapOK, LinkBack, NewElement, Pointer
<1>2. Linked'
  BY DEF LinksOK, HeapOK, Linked, EndsMatch, LinkBack, NewElement, Pointer
<1>3. EndsMatch'
  BY DEF LinksOK, HeapOK, Linked, EndsMatch, LinkBack, NewElement, Pointer
<1> QED
  BY <1>1, <1>2, <1>3 DEF LinksOK

\* A new element behind another one leaves it well linked.
LEMMA AfterKeepsLinks ==
  ASSUME LinksOK, NEW at \in alive, NEW e \in Elem, NEW d \in Data,
         LinkAfter(at, e, d)
  PROVE  LinksOK'
<1> USE NullIsNoElem
<1>1. HeapOK'
  BY DEF LinksOK, HeapOK, LinkAfter, NewElement, Pointer
<1>2. Linked'
  BY DEF LinksOK, HeapOK, Linked, EndsMatch, LinkAfter, NewElement, Pointer
<1>3. EndsMatch'
  BY DEF LinksOK, HeapOK, Linked, EndsMatch, LinkAfter, NewElement, Pointer
<1> QED
  BY <1>1, <1>2, <1>3 DEF LinksOK

\* A new element before another one leaves it well linked.
LEMMA BeforeKeepsLinks ==
  ASSUME LinksOK, NEW at \in alive, NEW e \in Elem, NEW d \in Data,
         LinkBefore(at, e, d)
  PROVE  LinksOK'
<1> USE NullIsNoElem
<1>1. HeapOK'
  BY DEF LinksOK, HeapOK, LinkBefore, NewElement, Pointer
<1>2. Linked'
  BY DEF LinksOK, HeapOK, Linked, EndsMatch, LinkBefore, NewElement, Pointer
<1>3. EndsMatch'
  BY DEF LinksOK, HeapOK, Linked, EndsMatch, LinkBefore, NewElement, Pointer
<1> QED
  BY <1>1, <1>2, <1>3 DEF LinksOK

\* Taking an element out closes the gap, wherever the element was.
LEMMA UnlinkKeepsLinks ==
  ASSUME LinksOK, NEW e \in alive, Unlink(e)
  PROVE  LinksOK'
<1> USE NullIsNoElem
<1>1. HeapOK'
  BY DEF LinksOK, HeapOK, Unlink, Pointer
<1>2. Linked'
  BY DEF LinksOK, HeapOK, Linked, EndsMatch, Unlink, Pointer
<1>3. EndsMatch'
  BY DEF LinksOK, HeapOK, Linked, EndsMatch, Unlink, Pointer
<1> QED
  BY <1>1, <1>2, <1>3 DEF LinksOK

----------------------------------------------------------------------------

\* An addition of one element that is counted once or twice.
LEMMA AdditionKeeps ==
  ASSUME IInv, LinksOK', NEW n \in {1, 2}, Adds(n),
         NEW e \in Elem, NEW d \in Data, NewElement(e, d)
  PROVE  IInv'
<1>1. TypeOK'
  BY DEF IInv, TypeOK, LinksOK, HeapOK, Adds
<1>2. CountNeverShort'
  <2>1. alive \subseteq Elem /\ count \in Int /\ count >= Cardinality(alive)
    BY DEF IInv, TypeOK, CountNeverShort
  <2>2. IsFiniteSet(alive)
    BY <2>1, ElemIsFinite, FS_Subset
  <2>3. Cardinality(alive \cup {e}) = Cardinality(alive) + 1
        /\ Cardinality(alive) \in Nat
    BY <2>2, FS_AddElement, FS_CardinalityType DEF NewElement
  <2>4. alive' = alive \cup {e} /\ count' = count + n
    BY DEF NewElement, Adds
  <2> QED
    BY <2>1, <2>3, <2>4 DEF CountNeverShort
<1>3. ClearFollowsHead'
  BY DEF Adds, Idle, ClearFollowsHead
<1> QED
  BY <1>1, <1>2, <1>3 DEF IInv, LinksOK

\* A removal that is counted once.
LEMMA RemovalKeeps ==
  ASSUME IInv, NEW e \in alive, Unlink(e), count' = count - 1,
         UNCHANGED <<p, found>>,
         cursor' = Null \/ cursor' = head'
  PROVE  IInv'
<1>1. LinksOK
  BY DEF IInv, LinksOK, HeapOK, TypeOK
<1>2. LinksOK'
  BY <1>1, UnlinkKeepsLinks
<1>3. TypeOK'
  BY <1>2 DEF IInv, TypeOK, LinksOK, HeapOK, Pointer
<1>4. CountNeverShort'
  <2>1. alive \subseteq Elem /\ count \in Int /\ count >= Cardinality(alive)
    BY DEF IInv, TypeOK, CountNeverShort
  <2>2. IsFiniteSet(alive)
    BY <2>1, ElemIsFinite, FS_Subset
  <2>3. Cardinality(alive \ {e}) = Cardinality(alive) - 1
        /\ Cardinality(alive) \in Nat
    BY <2>2, FS_RemoveElement, FS_CardinalityType
  <2>4. alive' = alive \ {e}
    BY DEF Unlink
  <2> QED
    BY <2>1, <2>3, <2>4 DEF CountNeverShort
<1>5. ClearFollowsHead'
  BY DEF ClearFollowsHead
<1> QED
  BY <1>2, <1>3, <1>4, <1>5 DEF IInv, LinksOK

\* A new list is empty and well linked.
LEMMA InitInv == Init => IInv
<1> SUFFICES ASSUME Init PROVE IInv
  OBVIOUS
<1>1. TypeOK /\ Linked /\ EndsMatch /\ ClearFollowsHead
  BY NullIsNoElem DEF Init, TypeOK, Linked, EndsMatch, ClearFollowsHead,
                      Pointer
<1>2. CountNeverShort
  BY FS_EmptySet DEF Init, CountNeverShort
<1> QED
  BY <1>1, <1>2 DEF IInv

\* Every routine keeps the invariant.
LEMMA NextKeeps == IInv /\ [Next]_vars => IInv'
<1> SUFFICES ASSUME IInv, [Next]_vars PROVE IInv'
  OBVIOUS
<1> USE NullIsNoElem
<1>1. LinksOK
  BY DEF IInv, LinksOK, HeapOK, TypeOK
<1>2. ASSUME NEW n \in {1, 2}, Adds(n), NEW d \in Data,
             \E e \in Elem : LinkFront(e, d)
      PROVE  IInv'
  <2> PICK e \in Elem : LinkFront(e, d)
    BY <1>2
  <2>1. LinksOK' /\ NewElement(e, d)
    BY <1>1, FrontKeepsLinks DEF LinkFront
  <2> QED
    BY <1>2, <2>1, AdditionKeeps
<1>3. ASSUME NEW n \in {1, 2}, Adds(n), NEW d \in Data,
             \E e \in Elem : LinkBack(e, d)
      PROVE  IInv'
  <2> PICK e \in Elem : LinkBack(e, d)
    BY <1>3
  <2>1. LinksOK' /\ NewElement(e, d)
    BY <1>1, BackKeepsLinks DEF LinkBack
  <2> QED
    BY <1>3, <2>1, AdditionKeeps
<1>4. ASSUME NEW n \in {1, 2}, Adds(n), NEW d \in Data, NEW at \in alive,
             \E e \in Elem : LinkBefore(at, e, d)
      PROVE  IInv'
  <2> PICK e \in Elem : LinkBefore(at, e, d)
    BY <1>4
  <2>1. LinksOK' /\ NewElement(e, d)
    BY <1>1, BeforeKeepsLinks DEF LinkBefore
  <2> QED
    BY <1>4, <2>1, AdditionKeeps
<1>5. ASSUME NEW d \in Data, Unshift(d) \/ InsertNowhere(d) PROVE IInv'
  BY <1>2, <1>5 DEF Unshift, InsertNowhere
<1>6. ASSUME NEW d \in Data, Push(d) PROVE IInv'
  BY <1>3, <1>6 DEF Push
<1>7. ASSUME NEW d \in Data, InsertOrdered(d) PROVE IInv'
  <2>1. Adds(2)
    BY <1>7 DEF InsertOrdered
  <2>2. CASE \E e \in Elem : LinkFront(e, d)
    BY <1>2, <2>1, <2>2
  <2>3. CASE \E e \in Elem : LinkBack(e, d)
    BY <1>3, <2>1, <2>3
  <2>4. CASE \E at \in NotSmaller(d) : \E e \in Elem : LinkBefore(at, e, d)
    BY <1>4, <2>1, <2>4 DEF NotSmaller
  <2> QED
    BY <1>7, <2>2, <2>3, <2>4 DEF InsertOrdered
<1>8. ASSUME NEW at \in alive, NEW d \in Data, InsertAfter(at, d) PROVE IInv'
  <2> PICK e \in Elem : LinkAfter(at, e, d)
    BY <1>8 DEF InsertAfter
  <2>1. LinksOK' /\ NewElement(e, d)
    BY <1>1, AfterKeepsLinks DEF LinkAfter
  <2>2. Adds(1)
    BY <1>8 DEF InsertAfter
  <2> QED
    BY <2>1, <2>2, AdditionKeeps
<1>9. ASSUME NEW at \in alive, NEW d \in Data, InsertBefore(at, d) PROVE IInv'
  BY <1>4, <1>9 DEF InsertBefore
<1>10. ASSUME NEW e \in alive, RemoveElem(e) PROVE IInv'
  BY <1>10, RemovalKeeps DEF RemoveElem, Idle
<1>11. CASE Shift \/ Pop
  <2>1. (Shift => head \in alive) /\ (Pop => tail \in alive)
    BY DEF IInv, EndsMatch, Shift, Pop
  <2> QED
    BY <1>10, <1>11, <2>1 DEF Shift, Pop
<1>12. ASSUME NEW d \in Data, Find(d) \/ FindNext(d) PROVE IInv'
  <2>1. FindFirst(d)
    BY <1>12 DEF Find, FindNext
  <2>2. p' \in Pointer /\ found' \in Pointer
    BY <2>1 DEF FindFirst, IInv, TypeOK, Matching, Pointer
  <2>3. UNCHANGED <<heap, head, tail, count, cursor>>
    BY <2>1 DEF FindFirst
  <2> QED
    BY <2>2, <2>3 DEF IInv, TypeOK, Linked, EndsMatch, CountNeverShort,
                      ClearFollowsHead, heap
<1>13. CASE ClearBegins
  BY <1>13 DEF ClearBegins, IInv, TypeOK, Linked, EndsMatch, CountNeverShort,
               ClearFollowsHead, heap, Pointer
<1>14. CASE ClearContinues
  <2>1. cursor = head /\ head \in alive
    BY <1>14 DEF ClearContinues, IInv, ClearFollowsHead, EndsMatch
  <2>2. Unlink(head) /\ count' = count - 1 /\ UNCHANGED <<p, found>>
    BY <1>14, <2>1 DEF ClearContinues
  <2>3. head' = next[head] /\ cursor' = next[head]
    BY <1>14, <2>1 DEF ClearContinues, Unlink
  <2> PICK e \in alive : e = head
    BY <2>1
  <2> QED
    BY <2>2, <2>3, RemovalKeeps
<1>15. CASE UNCHANGED vars
  BY <1>15 DEF vars, heap, IInv, TypeOK, Linked, EndsMatch, CountNeverShort,
               ClearFollowsHead
<1> QED
  BY <1>5, <1>6, <1>7, <1>8, <1>9, <1>10, <1>11, <1>12, <1>13, <1>14, <1>15
  DEF Next

\* The invariant holds of every list.
THEOREM Invariance == Spec => []IInv
BY InitInv, NextKeeps, PTL DEF Spec

\* Every field and pointer keeps its type.
THEOREM TypeCorrect == Spec => []TypeOK
<1>1. IInv => TypeOK
  BY DEF IInv
<1> QED
  BY <1>1, Invariance, PTL

\* No pointer of the list leads to a freed element; next and prior are
\* inverse; head and tail are the ends.
THEOREM ListIsLinked == Spec => [](Linked /\ EndsMatch)
<1>1. IInv => Linked /\ EndsMatch
  BY DEF IInv
<1> QED
  BY <1>1, Invariance, PTL

\* pvl_count is never smaller than the length, and pvl_clear never visits a
\* freed element.
THEOREM CountAndClear == Spec => [](CountNeverShort /\ ClearFollowsHead)
<1>1. IInv => CountNeverShort /\ ClearFollowsHead
  BY DEF IInv
<1> QED
  BY <1>1, Invariance, PTL

----------------------------------------------------------------------------
(* The list as a sequence.                                                 *)

\* The addresses in s, each once, are al, and the pointers lead along them.
IsChain(s, al, hd, tl, nx, pr) ==
  /\ s \in Seq(Elem)
  /\ \A i, j \in 1..Len(s) : s[i] = s[j] => i = j
  /\ \A i \in 1..Len(s) : s[i] \in al
  /\ \A e \in al : \E i \in 1..Len(s) : e = s[i]
  /\ Len(s) = Cardinality(al) /\ IsFiniteSet(al)
  /\ hd = IF Len(s) = 0 THEN Null ELSE s[1]
  /\ tl = IF Len(s) = 0 THEN Null ELSE s[Len(s)]
  /\ \A i \in 1..Len(s) : nx[s[i]] = IF i = Len(s) THEN Null ELSE s[i + 1]
  /\ \A i \in 1..Len(s) : pr[s[i]] = IF i = 1 THEN Null ELSE s[i - 1]

Chain(s) == IsChain(s, alive, head, tail, next, prior)

\* The pointers after an element was put into the k-th place.
Inserted(s, k, e, hd, tl, nx, pr, hd2, tl2, nx2, pr2) ==
  /\ hd2 = IF k = 1 THEN e ELSE hd
  /\ tl2 = IF k = Len(s) + 1 THEN e ELSE tl
  /\ \A x \in Elem : nx2[x] = IF x = e THEN (IF k = Len(s) + 1 THEN Null ELSE s[k])
                              ELSE IF k > 1 /\ x = s[k - 1] THEN e ELSE nx[x]
  /\ \A x \in Elem : pr2[x] = IF x = e THEN (IF k = 1 THEN Null ELSE s[k - 1])
                              ELSE IF k <= Len(s) /\ x = s[k] THEN e ELSE pr[x]

\* With an element in its k-th place the sequence is the list's again.
LEMMA ChainWithOneMore ==
  ASSUME NEW s, NEW al, NEW hd, NEW tl, NEW nx, NEW pr,
         IsChain(s, al, hd, tl, nx, pr),
         NEW e \in Elem, e \notin al, NEW k \in 1..Len(s) + 1,
         NEW hd2, NEW tl2, NEW nx2, NEW pr2,
         Inserted(s, k, e, hd, tl, nx, pr, hd2, tl2, nx2, pr2)
  PROVE  IsChain(InsertAt(s, k, e), al \cup {e}, hd2, tl2, nx2, pr2)
<1>1. PICK n, t : n = Len(s) /\ t = InsertAt(s, k, e)
  OBVIOUS
<1>2. /\ s \in Seq(Elem) /\ n \in Nat /\ k \in 1..n + 1
      /\ \A i \in 1..n : s[i] \in Elem /\ s[i] \in al /\ s[i] # e
      /\ \A i, j \in 1..n : s[i] = s[j] => i = j
  BY <1>1 DEF IsChain
<1>3. /\ t \in Seq(Elem) /\ Len(t) = n + 1
      /\ \A i \in 1..n + 1 : t[i] = IF i < k THEN s[i] ELSE IF i = k THEN e ELSE s[i - 1]
  <2>1. s \in Seq(Elem) /\ k \in 1..Len(s) + 1
    BY <1>2
  <2>2. /\ InsertAt(s, k, e) \in Seq(Elem)
        /\ Len(InsertAt(s, k, e)) = Len(s) + 1
        /\ \A i \in 1..Len(s) + 1 :
             InsertAt(s, k, e)[i] = IF i < k THEN s[i] ELSE IF i = k THEN e ELSE s[i - 1]
    BY <2>1, InsertAtProperties
  <2> QED BY <1>1, <2>2
<1>4. \A i, j \in 1..n + 1 : t[i] = t[j] => i = j
  <2>1. PICK f : f = [i \in 1..n + 1 |-> IF i < k THEN i ELSE i - 1]
    OBVIOUS
  <2>2. \A i \in 1..n + 1 : i # k => f[i] \in 1..n /\ t[i] = s[f[i]]
    BY <1>2, <1>3, <2>1
  <2>3. \A i, j \in 1..n + 1 : i # k /\ j # k /\ f[i] = f[j] => i = j
    BY <1>2, <2>1
  <2>4. t[k] = e
    BY SMTT(30), <1>2, <1>3
  <2>5. \A i \in 1..n + 1 : i # k => t[i] # e
    BY <1>2, <2>2
  <2>6. \A i, j \in 1..n + 1 : i # k /\ j # k /\ t[i] = t[j] => i = j
    BY <1>2, <2>2, <2>3
  <2> QED BY <1>2, <2>4, <2>5, <2>6
<1>5. \A i \in 1..n + 1 : t[i] \in al \cup {e}
  <2>1. ASSUME NEW i \in 1..n + 1 PROVE t[i] \in al \cup {e}
    <3>1. i < k => i \in 1..n
      BY <1>2
    <3>2. i > k => i - 1 \in 1..n
      BY <1>2
    <3> QED BY <1>2, <1>3, <3>1, <3>2
  <2> QED BY <2>1
<1>6. ASSUME NEW x \in al \cup {e} PROVE \E i \in 1..n + 1 : x = t[i]
  <2>1. CASE x = e
    BY <1>2, <1>3, <2>1
  <2>2. CASE x \in al
    <3>1. PICK j \in 1..n : x = s[j]
      BY <1>1, <2>2 DEF IsChain
    <3>2. CASE j < k
      <4>1. j \in 1..n + 1
        BY <1>2
      <4> QED BY <1>3, <3>1, <3>2, <4>1
    <3>3. CASE ~(j < k)
      <4>1. j + 1 \in 1..n + 1 /\ ~(j + 1 < k) /\ j + 1 # k /\ (j + 1) - 1 = j
        BY <1>2, <3>3
      <4> QED BY <1>3, <3>1, <4>1
    <3> QED BY <3>2, <3>3
  <2> QED BY <2>1, <2>2
<1>7. Cardinality(al \cup {e}) = n + 1 /\ IsFiniteSet(al \cup {e})
  BY <1>1, FS_AddElement DEF IsChain
<1>8. hd2 = t[1]
  BY <1>1, <1>2, <1>3 DEF Inserted, IsChain
<1>9. tl2 = t[n + 1]
  <2>1. CASE k = n + 1
    BY <1>1, <1>2, <1>3, <2>1 DEF Inserted
  <2>2. CASE k # n + 1
    <3>1. tl2 = tl /\ n # 0 /\ tl = s[n]
      BY <1>1, <1>2, <2>2 DEF Inserted, IsChain
    <3>2. t[n + 1] = s[(n + 1) - 1]
      <4>1. n + 1 \in 1..n + 1 /\ ~(n + 1 < k) /\ n + 1 # k
        BY <1>2, <2>2
      <4> QED BY <1>3, <4>1
    <3> QED BY <1>2, <3>1, <3>2
  <2> QED BY <2>1, <2>2
<1>10. ASSUME NEW i \in 1..n + 1 PROVE nx2[t[i]] = IF i = n + 1 THEN Null ELSE t[i + 1]
  <2>1. CASE i = k
    <3>1. t[i] = e /\ nx2[e] = IF k = n + 1 THEN Null ELSE s[k]
      BY <1>1, <1>3, <2>1 DEF Inserted
    <3>2. k # n + 1 => t[k + 1] = s[k]
      <4>1. k # n + 1 => k + 1 \in 1..n + 1 /\ ~(k + 1 < k) /\ k + 1 # k /\ (k + 1) - 1 = k
        BY <1>2
      <4> QED BY <1>3, <4>1
    <3> QED BY <2>1, <3>1, <3>2
  <2>2. CASE i < k
    <3>1. i \in 1..n /\ t[i] = s[i] /\ i + 1 \in 1..n + 1
      BY <1>2, <1>3, <2>2
    <3>2. nx2[s[i]] = IF k > 1 /\ s[i] = s[k - 1] THEN e ELSE nx[s[i]]
      BY <1>1, <1>2, <3>1 DEF Inserted
    <3>3. CASE i = k - 1
      <4>1. nx2[s[i]] = e
        BY <1>2, <3>1, <3>2, <3>3
      <4>2. i + 1 = k /\ i # n + 1
        BY <1>2, <3>1, <3>3
      <4> QED BY <1>3, <3>1, <4>1, <4>2
    <3>4. CASE i # k - 1
      <4>1. i + 1 < k /\ i # n /\ i # n + 1 /\ k - 1 \in 1..n
        BY <1>2, <2>2, <3>4
      <4>2. s[i] # s[k - 1]
        BY <1>2, <3>1, <3>4, <4>1
      <4>3. nx[s[i]] = s[i + 1]
        BY <1>1, <3>1, <4>1 DEF IsChain
      <4>4. t[i + 1] = s[i + 1]
        BY <1>3, <3>1, <4>1
      <4> QED BY <3>1, <3>2, <4>1, <4>2, <4>3, <4>4
    <3> QED BY <3>3, <3>4
  <2>3. CASE i > k
    <3>1. i - 1 \in 1..n /\ t[i] = s[i - 1] /\ i - 1 # k - 1 /\ (k > 1 => k - 1 \in 1..n)
      BY <1>2, <1>3, <2>3
    <3>2. nx2[s[i - 1]] = IF k > 1 /\ s[i - 1] = s[k - 1] THEN e ELSE nx[s[i - 1]]
      BY <1>1, <1>2, <2>3, <3>1 DEF Inserted
    <3>3. nx2[s[i - 1]] = nx[s[i - 1]]
      BY <1>2, <3>1, <3>2
    <3>4. nx[s[i - 1]] = IF i - 1 = n THEN Null ELSE s[(i - 1) + 1]
      BY <1>1, <3>1 DEF IsChain
    <3>5. i # n + 1 => t[i + 1] = s[i]
      <4>1. i # n + 1 => i + 1 \in 1..n + 1 /\ ~(i + 1 < k) /\ i + 1 # k /\ (i + 1) - 1 = i
        BY <1>2, <2>3
      <4> QED BY <1>3, <4>1
    <3>6. (i - 1 = n) <=> (i = n + 1)
      BY <1>2
    <3>7. (i - 1) + 1 = i
      BY <1>2
    <3> QED BY <3>1, <3>3, <3>4, <3>5, <3>6, <3>7
  <2> QED BY <1>2, <2>1, <2>2, <2>3
<1>11. ASSUME NEW i \in 1..n + 1 PROVE pr2[t[i]] = IF i = 1 THEN Null ELSE t[i - 1]
  <2>1. CASE i = k
    <3>1. t[i] = e /\ pr2[e] = IF k = 1 THEN Null ELSE s[k - 1]
      BY <1>1, <1>3, <2>1 DEF Inserted
    <3>2. k # 1 => t[k - 1] = s[k - 1]
      <4>1. k # 1 => k - 1 \in 1..n + 1 /\ k - 1 < k
        BY <1>2
      <4> QED BY <1>3, <4>1
    <3> QED BY <2>1, <3>1, <3>2
  <2>2. CASE i < k
    <3>1. i \in 1..n /\ t[i] = s[i] /\ (k <= n => k \in 1..n) /\ i # k
      BY <1>2, <1>3, <2>2
    <3>2. pr2[s[i]] = IF k <= n /\ s[i] = s[k] THEN e ELSE pr[s[i]]
      BY <1>1, <1>2, <3>1 DEF Inserted
    <3>3. pr2[s[i]] = pr[s[i]]
      BY <1>2, <3>1, <3>2
    <3>4. pr[s[i]] = IF i = 1 THEN Null ELSE s[i - 1]
      BY <1>1, <3>1 DEF IsChain
    <3>5. i # 1 => t[i - 1] = s[i - 1]
      <4>1. i # 1 => i - 1 \in 1..n + 1 /\ i - 1 < k
        BY <1>2, <2>2
      <4> QED BY <1>3, <4>1
    <3> QED BY <3>1, <3>3, <3>4, <3>5
  <2>3. CASE i > k
    <3>1. i - 1 \in 1..n /\ t[i] = s[i - 1] /\ k \in 1..n /\ k <= n /\ i # 1
      BY <1>2, <1>3, <2>3
    <3>2. pr2[s[i - 1]] = IF k <= n /\ s[i - 1] = s[k] THEN e ELSE pr[s[i - 1]]
      BY <1>1, <1>2, <3>1 DEF Inserted
    <3>3. CASE i - 1 = k
      BY <1>2, <1>3, <3>1, <3>2, <3>3
    <3>4. CASE i - 1 # k
      <4>1. pr2[s[i - 1]] = pr[s[i - 1]]
        BY <1>2, <3>1, <3>2, <3>4
      <4>2. pr[s[i - 1]] = IF i - 1 = 1 THEN Null ELSE s[(i - 1) - 1]
        BY <1>1, <3>1 DEF IsChain
      <4>3. i - 1 # 1 /\ i - 1 \in 1..n + 1 /\ ~(i - 1 < k)
        BY <1>2, <2>3, <3>1, <3>4
      <4>4. t[i - 1] = s[(i - 1) - 1]
        BY <1>3, <3>4, <4>3
      <4> QED BY <3>1, <4>1, <4>2, <4>3, <4>4
    <3> QED BY <3>3, <3>4
  <2> QED BY <1>2, <2>1, <2>2, <2>3
<1>12. Len(t) # 0 /\ Len(t) \in Nat
  BY <1>2, <1>3
<1>13. PICK m : m = n + 1
  OBVIOUS
<1> HIDE DEF Inserted
<1>14. IsChain(t, al \cup {e}, hd2, tl2, nx2, pr2)
  BY <1>3, <1>4, <1>5, <1>6, <1>7, <1>8, <1>9, <1>10, <1>11, <1>12, <1>13 DEF IsChain
<1> QED BY <1>1, <1>14

\* The pointers after the element in the k-th place was taken out.
Removed(s, k, hd, tl, nx, pr, hd2, tl2, nx2, pr2) ==
  /\ hd2 = IF k = 1 THEN (IF Len(s) = 1 THEN Null ELSE s[2]) ELSE hd
  /\ tl2 = IF k = Len(s) THEN (IF k = 1 THEN Null ELSE s[k - 1]) ELSE tl
  /\ \A i \in 1..Len(s) : i # k =>
       /\ nx2[s[i]] = IF i = k - 1 THEN (IF k = Len(s) THEN Null ELSE s[k + 1]) ELSE nx[s[i]]
       /\ pr2[s[i]] = IF i = k + 1 THEN (IF k = 1 THEN Null ELSE s[k - 1]) ELSE pr[s[i]]

\* Without its k-th element the sequence is the list's again.
LEMMA ChainWithOneLess ==
  ASSUME NEW s, NEW al, NEW hd, NEW tl, NEW nx, NEW pr,
         IsChain(s, al, hd, tl, nx, pr),
         NEW k \in 1..Len(s),
         NEW hd2, NEW tl2, NEW nx2, NEW pr2,
         Removed(s, k, hd, tl, nx, pr, hd2, tl2, nx2, pr2)
  PROVE  IsChain(RemoveAt(s, k), al \ {s[k]}, hd2, tl2, nx2, pr2)
<1>1. PICK n, t, e : n = Len(s) /\ t = RemoveAt(s, k) /\ e = s[k]
  OBVIOUS
<1>2. /\ s \in Seq(Elem) /\ n \in Nat /\ k \in 1..n /\ e \in al
      /\ \A i \in 1..n : s[i] \in Elem /\ s[i] \in al
      /\ \A i, j \in 1..n : s[i] = s[j] => i = j
  BY <1>1 DEF IsChain
<1>3. /\ t \in Seq(Elem) /\ Len(t) = n - 1
      /\ \A i \in 1..n - 1 : t[i] = IF i < k THEN s[i] ELSE s[i + 1]
  <2>1. s \in Seq(Elem) /\ k \in 1..Len(s)
    BY <1>2
  <2>2. /\ RemoveAt(s, k) \in Seq(Elem)
        /\ Len(RemoveAt(s, k)) = Len(s) - 1
        /\ \A i \in 1..Len(s) - 1 :
             RemoveAt(s, k)[i] = IF i < k THEN s[i] ELSE s[i + 1]
    BY <2>1, RemoveAtProperties
  <2> QED BY <1>1, <2>2
<1>4. PICK f : f = [i \in 1..n - 1 |-> IF i < k THEN i ELSE i + 1]
  OBVIOUS
<1>5. /\ \A i \in 1..n - 1 : f[i] \in 1..n /\ f[i] # k /\ t[i] = s[f[i]]
      /\ \A i, j \in 1..n - 1 : f[i] = f[j] => i = j
      /\ \A j \in 1..n : j # k => \E i \in 1..n - 1 : f[i] = j
  <2>1. \A i \in 1..n - 1 : f[i] \in 1..n /\ f[i] # k /\ t[i] = s[f[i]]
    BY <1>2, <1>3, <1>4
  <2>2. \A i, j \in 1..n - 1 : f[i] = f[j] => i = j
    BY <1>2, <1>4
  <2>3. ASSUME NEW j \in 1..n, j # k PROVE \E i \in 1..n - 1 : f[i] = j
    <3>1. CASE j < k
      <4>1. j \in 1..n - 1
        BY <1>2, <3>1
      <4> QED BY <1>4, <3>1, <4>1
    <3>2. CASE ~(j < k)
      <4>1. j - 1 \in 1..n - 1 /\ ~(j - 1 < k) /\ (j - 1) + 1 = j
        BY <1>2, <2>3, <3>2
      <4> QED BY <1>4, <4>1
    <3> QED BY <3>1, <3>2
  <2> QED BY <2>1, <2>2, <2>3
<1>6. \A i, j \in 1..n - 1 : t[i] = t[j] => i = j
  BY SMTT(30), <1>2, <1>5
<1>7. ASSUME NEW i \in 1..n - 1 PROVE t[i] \in al \ {e}
  <2>1. PICK j : j = f[i]
    OBVIOUS
  <2>2. j \in 1..n /\ j # k /\ t[i] = s[j]
    BY <1>5, <2>1
  <2>3. s[j] # s[k] /\ s[j] \in al
    BY <1>2, <2>2
  <2> QED BY <1>1, <2>2, <2>3
<1>8. ASSUME NEW x \in al \ {e} PROVE \E i \in 1..n - 1 : x = t[i]
  <2>1. PICK j \in 1..n : x = s[j]
    BY <1>1, <1>8 DEF IsChain
  <2>2. j # k
    BY <1>1, <1>8, <2>1
  <2>3. PICK i \in 1..n - 1 : f[i] = j
    BY <1>5, <2>2
  <2> QED BY <1>5, <2>1, <2>3
<1>9. Cardinality(al \ {e}) = n - 1 /\ IsFiniteSet(al \ {e})
  BY <1>1, <1>2, FS_RemoveElement DEF IsChain
<1>10. ASSUME n - 1 = 0 PROVE hd2 = Null /\ tl2 = Null
  <2>1. n = 1
    BY <1>2, <1>10
  <2>2. k = 1 /\ Len(s) = 1
    BY <1>1, <1>2, <2>1
  <2> QED BY <2>2 DEF Removed
<1>11. n - 1 # 0 => hd2 = t[1] /\ tl2 = t[n - 1]
  <2> SUFFICES ASSUME n # 1 PROVE hd2 = t[1] /\ tl2 = t[n - 1]
    BY <1>2
  <2>1. hd = s[1] /\ tl = s[n] /\ 1 \in 1..n - 1 /\ n - 1 \in 1..n - 1
    BY <1>1, <1>2 DEF IsChain
  <2>2. hd2 = t[1]
    <3>1. CASE k = 1
      BY <1>1, <1>3, <2>1, <3>1 DEF Removed
    <3>2. CASE k # 1
      <4>1. 1 < k
        BY <1>2, <3>2
      <4> QED BY <1>1, <1>3, <2>1, <3>2, <4>1 DEF Removed
    <3> QED BY <3>1, <3>2
  <2>3. tl2 = t[n - 1]
    <3>1. CASE k = n
      <4>1. n - 1 < k /\ k # 1
        BY <1>2, <3>1
      <4> QED BY <1>1, <1>3, <2>1, <3>1, <4>1 DEF Removed
    <3>2. CASE k # n
      <4>1. ~(n - 1 < k) /\ (n - 1) + 1 = n
        BY <1>2, <3>2
      <4> QED BY <1>1, <1>3, <2>1, <3>2, <4>1 DEF Removed
    <3> QED BY <3>1, <3>2
  <2> QED BY <2>2, <2>3
<1>12. ASSUME NEW i \in 1..n - 1 PROVE nx2[t[i]] = IF i = n - 1 THEN Null ELSE t[i + 1]
  <2>1. PICK j : j = f[i]
    OBVIOUS
  <2>2. j \in 1..n /\ j # k /\ t[i] = s[j] /\ j = IF i < k THEN i ELSE i + 1
    BY <1>4, <1>5, <2>1
  <2>3. /\ nx2[s[j]] = IF j = k - 1 THEN (IF k = n THEN Null ELSE s[k + 1]) ELSE nx[s[j]]
        /\ nx[s[j]] = IF j = n THEN Null ELSE s[j + 1]
    BY <1>1, <2>2 DEF Removed, IsChain
  <2>4. i # n - 1 => t[i + 1] = IF i + 1 < k THEN s[i + 1] ELSE s[(i + 1) + 1]
    <3>1. i # n - 1 => i + 1 \in 1..n - 1
      BY <1>2
    <3> QED BY <1>3, <3>1
  <2>5. CASE i < k - 1
    <3>1. j = i /\ j # k - 1 /\ j # n /\ i + 1 < k /\ i # n - 1
      BY <1>2, <2>2, <2>5
    <3> QED BY <2>2, <2>3, <2>4, <3>1
  <2>6. CASE i = k - 1
    <3>1. j = k - 1 /\ (k = n <=> i = n - 1) /\ ~(i + 1 < k) /\ (i + 1) + 1 = k + 1
      BY <1>2, <2>2, <2>6
    <3> QED BY <2>2, <2>3, <2>4, <3>1
  <2>7. CASE i > k - 1
    <3>1. j = i + 1 /\ j # k - 1 /\ (j = n <=> i = n - 1) /\ ~(i + 1 < k)
      BY <1>2, <2>2, <2>7
    <3> QED BY <2>2, <2>3, <2>4, <3>1
  <2> QED BY <1>2, <2>5, <2>6, <2>7
<1>13. ASSUME NEW i \in 1..n - 1 PROVE pr2[t[i]] = IF i = 1 THEN Null ELSE t[i - 1]
  <2>1. PICK j : j = f[i]
    OBVIOUS
  <2>2. j \in 1..n /\ j # k /\ t[i] = s[j] /\ j = IF i < k THEN i ELSE i + 1
    BY <1>4, <1>5, <2>1
  <2>3. /\ pr2[s[j]] = IF j = k + 1 THEN (IF k = 1 THEN Null ELSE s[k - 1]) ELSE pr[s[j]]
        /\ pr[s[j]] = IF j = 1 THEN Null ELSE s[j - 1]
    BY <1>1, <2>2 DEF Removed, IsChain
  <2>4. i # 1 => t[i - 1] = IF i - 1 < k THEN s[i - 1] ELSE s[(i - 1) + 1]
    <3>1. i # 1 => i - 1 \in 1..n - 1
      BY <1>2
    <3> QED BY <1>3, <3>1
  <2>5. CASE i < k
    <3>1. j = i /\ j # k + 1 /\ i - 1 < k
      BY <1>2, <2>2, <2>5
    <3> QED BY <2>2, <2>3, <2>4, <3>1
  <2>6. CASE i = k
    <3>1. j = k + 1 /\ (k = 1 <=> i = 1) /\ i - 1 < k /\ i - 1 = k - 1
      BY <1>2, <2>2, <2>6
    <3> QED BY <2>2, <2>3, <2>4, <3>1
  <2>7. CASE i > k
    <3>1. j = i + 1 /\ j # k + 1 /\ j # 1 /\ i # 1 /\ ~(i - 1 < k) /\ (i - 1) + 1 = i /\ j - 1 = i
      BY <1>2, <2>2, <2>7
    <3> QED BY <2>2, <2>3, <2>4, <3>1
  <2> QED BY <1>2, <2>5, <2>6, <2>7
<1>14. PICK a : a = al \ {e}
  OBVIOUS
<1>15. IsChain(t, a, hd2, tl2, nx2, pr2)
  BY <1>2, <1>3, <1>6, <1>7, <1>8, <1>9, <1>10, <1>11, <1>12, <1>13, <1>14 DEF IsChain
<1> QED BY <1>1, <1>14, <1>15

----------------------------------------------------------------------------
(* What the operators do to the sequence.                                  *)

\* pvl_unshift puts its element into the first place.
LEMMA LinkFrontInserts ==
  ASSUME HeapOK, NEW s, Chain(s), NEW e \in Elem, NEW d, LinkFront(e, d)
  PROVE  Chain(InsertAt(s, 1, e))'
<1>1. s \in Seq(Elem) /\ 1 \in 1..Len(s) + 1 /\ e \notin alive /\ alive' = alive \cup {e}
  BY DEF Chain, IsChain, LinkFront, NewElement
<1>2. Inserted(s, 1, e, head, tail, next, prior, head', tail', next', prior')
  <2>1. head' = e
    BY DEF LinkFront
  <2>2. tail' = IF 1 = Len(s) + 1 THEN e ELSE tail
    BY <1>1, NullIsNoElem DEF LinkFront, Chain, IsChain
  <2>3. \A x \in Elem : next'[x] = IF x = e THEN head ELSE next[x]
    BY DEF LinkFront, HeapOK
  <2>4. head = IF 1 = Len(s) + 1 THEN Null ELSE s[1]
    BY <1>1 DEF Chain, IsChain
  <2>5. \A x \in Elem : prior'[x] = IF x = e THEN Null ELSE IF x = head THEN e ELSE prior[x]
    BY DEF LinkFront
  <2>6. \A x \in Elem : x = head <=> (1 <= Len(s) /\ x = s[1])
    BY <1>1, <2>4, NullIsNoElem
  <2> QED BY <2>1, <2>2, <2>3, <2>4, <2>5, <2>6 DEF Inserted
<1> QED BY <1>1, <1>2, ChainWithOneMore DEF Chain

\* pvl_push puts its element into the last place.
LEMMA LinkBackInserts ==
  ASSUME HeapOK, NEW s, Chain(s), NEW e \in Elem, NEW d, LinkBack(e, d)
  PROVE  Chain(InsertAt(s, Len(s) + 1, e))'
<1>1. PICK n, k : n = Len(s) /\ k = n + 1
  OBVIOUS
<1>2. /\ s \in Seq(Elem) /\ n \in Nat /\ k \in 1..n + 1 /\ e \notin alive
      /\ alive' = alive \cup {e}
  BY <1>1 DEF Chain, IsChain, LinkBack, NewElement
<1>3. tail = IF k = 1 THEN Null ELSE s[k - 1]
  <2>1. tail = IF n = 0 THEN Null ELSE s[n]
    BY <1>1 DEF Chain, IsChain
  <2>2. (k = 1 <=> n = 0) /\ k - 1 = n
    BY <1>1, <1>2
  <2> QED BY <2>1, <2>2
<1>4. \A i \in 1..n : s[i] \in Elem
  BY <1>1, <1>2
<1>5. Inserted(s, k, e, head, tail, next, prior, head', tail', next', prior')
  <2>1. tail' = e
    BY DEF LinkBack
  <2>2. head' = IF k = 1 THEN e ELSE head
    <3>1. head = IF n = 0 THEN Null ELSE s[1]
      BY <1>1 DEF Chain, IsChain
    <3>2. (k = 1 <=> n = 0) /\ (n # 0 => 1 \in 1..n)
      BY <1>1, <1>2
    <3> QED BY <1>4, <3>1, <3>2, NullIsNoElem DEF LinkBack
  <2>3. \A x \in Elem : prior'[x] = IF x = e THEN tail ELSE prior[x]
    BY DEF LinkBack, HeapOK
  <2>4. \A x \in Elem : next'[x] = IF x = e THEN Null ELSE IF x = tail THEN e ELSE next[x]
    BY DEF LinkBack
  <2>5. \A x \in Elem : x = tail <=> (k > 1 /\ x = s[k - 1])
    BY <1>1, <1>2, <1>3, NullIsNoElem
  <2>6. k = Len(s) + 1 /\ ~(k <= Len(s))
    BY <1>1, <1>2
  <2> QED BY <1>3, <2>1, <2>2, <2>3, <2>4, <2>5, <2>6 DEF Inserted
<1>6. k \in 1..Len(s) + 1
  BY <1>1, <1>2
<1> QED BY <1>1, <1>2, <1>5, <1>6, ChainWithOneMore DEF Chain

\* The neighbours of the k-th element.
\* Which places of the sequence are its ends.
LEMMA Neighbours ==
  ASSUME NEW s, Chain(s), NEW k \in 1..Len(s)
  PROVE  /\ Len(s) \in Nat /\ s \in Seq(Elem)
         /\ \A i \in 1..Len(s) : s[i] \in Elem /\ s[i] # Null
         /\ \A i \in 1..Len(s) : s[i] = s[k] <=> i = k
         /\ s[k] = head <=> k = 1
         /\ s[k] = tail <=> k = Len(s)
         /\ next[s[k]] = IF k = Len(s) THEN Null ELSE s[k + 1]
         /\ prior[s[k]] = IF k = 1 THEN Null ELSE s[k - 1]
         /\ head = s[1] /\ tail = s[Len(s)]
<1>1. /\ s \in Seq(Elem) /\ Len(s) \in Nat /\ Len(s) # 0
      /\ \A i, j \in 1..Len(s) : s[i] = s[j] => i = j
  BY DEF Chain, IsChain
<1>2. \A i \in 1..Len(s) : s[i] \in Elem /\ s[i] # Null
  BY <1>1, NullIsNoElem
<1>3. 1 \in 1..Len(s) /\ Len(s) \in 1..Len(s)
  BY <1>1
<1>4. head = s[1] /\ tail = s[Len(s)]
  BY <1>1 DEF Chain, IsChain
<1>5. \A i, j \in 1..Len(s) : s[i] = s[j] <=> i = j
  BY <1>1
<1> QED BY <1>1, <1>2, <1>3, <1>4, <1>5 DEF Chain, IsChain

\* pvl_insert_after puts its element into the place behind another one's.
LEMMA LinkAfterInserts ==
  ASSUME HeapOK, NEW s, Chain(s), NEW k \in 1..Len(s), NEW e \in Elem, NEW d,
         LinkAfter(s[k], e, d)
  PROVE  Chain(InsertAt(s, k + 1, e))'
<1>1. PICK n, at : n = Len(s) /\ at = s[k]
  OBVIOUS
<1>2. /\ s \in Seq(Elem) /\ n \in Nat /\ k \in 1..n /\ at \in Elem
      /\ \A i \in 1..n : s[i] \in Elem
      /\ at = tail <=> k = n
      /\ next[at] = IF k = n THEN Null ELSE s[k + 1]
  BY <1>1, Neighbours
<1>3. e \notin alive /\ alive' = alive \cup {e} /\ at \in alive /\ at # e
  BY <1>1 DEF LinkAfter, NewElement, Chain, IsChain
<1>4. /\ \A x \in Elem : next'[x] = IF x = at THEN e
                                    ELSE IF x = e THEN (IF at = tail THEN Null ELSE next[at])
                                    ELSE next[x]
      /\ \A x \in Elem : prior'[x] = IF x = e THEN at
                                     ELSE IF at # tail /\ x = next[at] THEN e ELSE prior[x]
      /\ tail' = IF at = tail THEN e ELSE tail
      /\ head' = head
  BY <1>1 DEF LinkAfter, HeapOK
<1>5. PICK m : m = k + 1
  OBVIOUS
<1>6. /\ m \in 1..n + 1 /\ m - 1 = k /\ m # 1 /\ m > 1 /\ (m = n + 1 <=> k = n)
      /\ (m <= n <=> k # n)
  BY <1>2, <1>5
<1>7. Inserted(s, m, e, head, tail, next, prior, head', tail', next', prior')
  <2>1. \A x \in Elem : next'[x] = IF x = e THEN (IF m = n + 1 THEN Null ELSE s[m])
                                   ELSE IF m > 1 /\ x = s[m - 1] THEN e ELSE next[x]
    BY <1>1, <1>2, <1>3, <1>4, <1>5, <1>6
  <2>2. \A x \in Elem : prior'[x] = IF x = e THEN (IF m = 1 THEN Null ELSE s[m - 1])
                                    ELSE IF m <= n /\ x = s[m] THEN e ELSE prior[x]
    BY <1>1, <1>2, <1>3, <1>4, <1>5, <1>6
  <2> QED BY <1>1, <1>2, <1>4, <1>6, <2>1, <2>2 DEF Inserted
<1> QED BY <1>1, <1>3, <1>5, <1>6, <1>7, ChainWithOneMore DEF Chain

\* pvl_insert_before puts its element into the place of another one.
LEMMA LinkBeforeInserts ==
  ASSUME HeapOK, NEW s, Chain(s), NEW k \in 1..Len(s), NEW e \in Elem, NEW d,
         LinkBefore(s[k], e, d)
  PROVE  Chain(InsertAt(s, k, e))'
<1>1. PICK n, at : n = Len(s) /\ at = s[k]
  OBVIOUS
<1>2. /\ s \in Seq(Elem) /\ n \in Nat /\ k \in 1..n /\ at \in Elem
      /\ \A i \in 1..n : s[i] \in Elem
      /\ at = head <=> k = 1
      /\ prior[at] = IF k = 1 THEN Null ELSE s[k - 1]
  BY <1>1, Neighbours
<1>3. e \notin alive /\ alive' = alive \cup {e} /\ at \in alive /\ at # e
  BY <1>1 DEF LinkBefore, NewElement, Chain, IsChain
<1>4. /\ \A x \in Elem : prior'[x] = IF x = at THEN e
                                     ELSE IF x = e THEN (IF at = head THEN Null ELSE prior[at])
                                     ELSE prior[x]
      /\ \A x \in Elem : next'[x] = IF x = e THEN at
                                    ELSE IF at # head /\ x = prior[at] THEN e ELSE next[x]
      /\ head' = IF at = head THEN e ELSE head
      /\ tail' = tail
  BY <1>1 DEF LinkBefore, HeapOK
<1>5. /\ k \in 1..n + 1 /\ k # n + 1 /\ k <= n /\ (k > 1 <=> k # 1)
  BY <1>2
<1>6. Inserted(s, k, e, head, tail, next, prior, head', tail', next', prior')
  <2>1. \A x \in Elem : next'[x] = IF x = e THEN (IF k = n + 1 THEN Null ELSE s[k])
                                   ELSE IF k > 1 /\ x = s[k - 1] THEN e ELSE next[x]
    BY <1>1, <1>2, <1>3, <1>4, <1>5
  <2>2. \A x \in Elem : prior'[x] = IF x = e THEN (IF k = 1 THEN Null ELSE s[k - 1])
                                    ELSE IF k <= n /\ x = s[k] THEN e ELSE prior[x]
    BY <1>1, <1>2, <1>3, <1>4, <1>5
  <2> QED BY <1>1, <1>2, <1>4, <1>5, <2>1, <2>2 DEF Inserted
<1> QED BY <1>1, <1>3, <1>5, <1>6, ChainWithOneMore DEF Chain

\* pvl_remove takes one element out of the sequence.
LEMMA UnlinkRemoves ==
  ASSUME HeapOK, NEW s, Chain(s), NEW k \in 1..Len(s), Unlink(s[k])
  PROVE  Chain(RemoveAt(s, k))'
<1>1. PICK n, e : n = Len(s) /\ e = s[k]
  OBVIOUS
<1>2. /\ s \in Seq(Elem) /\ n \in Nat /\ k \in 1..n /\ e \in Elem
      /\ \A i \in 1..n : s[i] \in Elem /\ s[i] # Null
      /\ \A i \in 1..n : s[i] = e <=> i = k
      /\ e = head <=> k = 1
      /\ e = tail <=> k = n
      /\ next[e] = IF k = n THEN Null ELSE s[k + 1]
      /\ prior[e] = IF k = 1 THEN Null ELSE s[k - 1]
      /\ \A i, j \in 1..n : s[i] = s[j] => i = j
  BY ZenonT(30), <1>1, Neighbours DEF Chain, IsChain
<1>3. /\ \A x \in Elem : next'[x] = IF x = e THEN Null
                                    ELSE IF e # head /\ x = prior[e] THEN next[e]
                                    ELSE next[x]
      /\ \A x \in Elem : prior'[x] = IF x = e THEN Null
                              ELSE IF (e = head \/ e # tail) /\ x = next[e]
                                     THEN IF e = head THEN Null ELSE prior[e]
                              ELSE prior[x]
      /\ head' = IF e = head THEN next[e] ELSE head
      /\ tail' = IF e = head THEN IF next[e] = Null THEN Null ELSE tail
                 ELSE IF e = tail THEN prior[e] ELSE tail
      /\ alive' = alive \ {e}
  BY <1>1 DEF Unlink
<1>4. ASSUME NEW i \in 1..n, i # k
      PROVE  /\ next'[s[i]] = IF i = k - 1 THEN (IF k = n THEN Null ELSE s[k + 1])
                                           ELSE next[s[i]]
             /\ prior'[s[i]] = IF i = k + 1 THEN (IF k = 1 THEN Null ELSE s[k - 1])
                                            ELSE prior[s[i]]
  <2>1. s[i] # e /\ s[i] \in Elem /\ s[i] # Null
    BY <1>2, <1>4
  <2>2. e # head /\ s[i] = prior[e] <=> i = k - 1
    <3>1. k # 1 => k - 1 \in 1..n
      BY <1>2
    <3>2. i = k - 1 => k # 1
      BY <1>2
    <3> QED BY <1>2, <3>1, <3>2
  <2>3. (e = head \/ e # tail) /\ s[i] = next[e] <=> i = k + 1
    <3>1. k # n => k + 1 \in 1..n
      BY <1>2
    <3>2. i = k + 1 => k # n
      BY <1>2
    <3> QED BY <1>2, <2>1, <3>1, <3>2
  <2> QED BY <1>2, <1>3, <2>1, <2>2, <2>3
<1>5. Removed(s, k, head, tail, next, prior, head', tail', next', prior')
  <2>1. head' = IF k = 1 THEN (IF n = 1 THEN Null ELSE s[2]) ELSE head
    BY <1>2, <1>3
  <2>2. tail' = IF k = n THEN (IF k = 1 THEN Null ELSE s[k - 1]) ELSE tail
    <3>1. k # n => k + 1 \in 1..n
      BY <1>2
    <3> QED BY <1>2, <1>3, <3>1
  <2> QED BY <1>1, <1>4, <2>1, <2>2 DEF Removed
<1> QED BY <1>1, <1>3, <1>5, ChainWithOneLess DEF Chain

----------------------------------------------------------------------------
(* The walks along the list.                                               *)

\* A field leads along a sequence from its first element.
Leads(first, field, s) ==
  /\ s \in Seq(Elem) /\ Len(s) <= Cardinality(Elem)
  /\ first = IF Len(s) = 0 THEN Null ELSE s[1]
  /\ \A i \in 1..Len(s) : field[s[i]] = IF i = Len(s) THEN Null ELSE s[i + 1]

\* The walk from the first element of the sequence is the sequence.
LEMMA WalkIsSequence ==
  ASSUME NEW first, NEW field, NEW s, Leads(first, field, s)
  PROVE  Walk(first, field) = s
<1>1. PICK n, N : n = Len(s) /\ N = Cardinality(Elem)
  OBVIOUS
<1>2. n \in Nat /\ N \in Nat /\ n <= N /\ s \in Seq(Elem) /\ \A i \in 1..n : s[i] \in Elem
  BY <1>1, ElemIsFinite, FS_CardinalityType DEF Leads
<1>3. PICK follow : follow = [e \in Pointer |-> IF e = Null THEN Null ELSE field[e]]
  OBVIOUS
<1> DEFINE Is(f) == f = [i \in 0..N |-> IF i = 0 THEN first ELSE follow[f[i - 1]]]
<1>4. PICK w : w = [i \in 0..N |-> IF i < n THEN s[i + 1] ELSE Null]
  OBVIOUS
<1>5. follow[Null] = Null /\ \A i \in 1..n : follow[s[i]] = IF i = n THEN Null ELSE s[i + 1]
  <2>1. \A i \in 1..n : s[i] \in Pointer /\ s[i] # Null
    BY <1>2, NullIsNoElem DEF Pointer
  <2>2. \A i \in 1..n : field[s[i]] = IF i = n THEN Null ELSE s[i + 1]
    BY <1>1 DEF Leads
  <2>3. Null \in Pointer
    BY DEF Pointer
  <2> QED BY <1>3, <2>1, <2>2, <2>3
<1>6. w[0] = first
  <2>1. first = IF n = 0 THEN Null ELSE s[1]
    BY <1>1 DEF Leads
  <2>2. w[0] = IF 0 < n THEN s[0 + 1] ELSE Null
    BY <1>2, <1>4
  <2> QED BY <1>2, <2>1, <2>2
<1>7. ASSUME NEW i \in 1..N PROVE w[i] = follow[w[i - 1]]
  <2>1. /\ w[i - 1] = IF i - 1 < n THEN s[(i - 1) + 1] ELSE Null
        /\ w[i] = IF i < n THEN s[i + 1] ELSE Null
    <3>1. i - 1 \in 0..N /\ i \in 0..N
      BY <1>2
    <3> QED BY <1>4, <3>1
  <2>2. (i - 1) + 1 = i /\ (i - 1 < n => i \in 1..n) /\ (i < n => i - 1 < n /\ i # n)
        /\ (i - 1 < n /\ ~(i < n) => i = n)
    BY <1>2
  <2> QED BY <1>5, <2>1, <2>2
<1>8. Is(w)
  <2>1. \A i \in 0..N : w[i] = IF i = 0 THEN first ELSE follow[w[i - 1]]
    <3>1. \A i \in 0..N : i # 0 => i \in 1..N
      BY <1>2
    <3> QED BY <1>6, <1>7, <3>1
  <2>2. w = [i \in 0..N |-> w[i]]
    BY <1>4
  <2> QED BY <2>1, <2>2
<1> HIDE DEF Is
<1>9. PICK at : at = Trail(first, field) /\ Is(at)
  <2>1. \E f : Is(f)
    BY <1>8
  <2> DEFINE g == CHOOSE f : Is(f)
  <2>2. Is(g)
    BY <2>1
  <2>3. g = Trail(first, field)
    BY <1>1, <1>3 DEF Trail, Is
  <2> HIDE DEF g
  <2> QED BY <2>2, <2>3
<1>10. /\ DOMAIN at = 0..N
       /\ \A i \in 0..N : at[i] = IF i = 0 THEN first ELSE follow[at[i - 1]]
  <2>1. at = [i \in 0..N |-> IF i = 0 THEN first ELSE follow[at[i - 1]]]
    BY <1>9 DEF Is
  <2>2. DOMAIN at = 0..N
    BY <2>1, Zenon
  <2>3. \A i \in 0..N : at[i] = IF i = 0 THEN first ELSE follow[at[i - 1]]
    BY <2>1, Zenon
  <2> QED BY <2>2, <2>3
<1>11. \A i \in 0..N : at[i] = w[i]
  <2> DEFINE S == {m \in Nat : m <= N => at[m] = w[m]}
  <2>1. 0 \in S
    BY <1>2, <1>6, <1>10
  <2>2. ASSUME NEW m \in Nat, m \in S PROVE m + 1 \in S
    <3> SUFFICES ASSUME m + 1 <= N PROVE at[m + 1] = w[m + 1]
      OBVIOUS
    <3>1. m + 1 \in 1..N /\ m + 1 \in 0..N /\ m + 1 # 0 /\ (m + 1) - 1 = m /\ m <= N
      BY <1>2
    <3>2. at[m] = w[m]
      BY <2>2, <3>1
    <3>3. at[m + 1] = follow[at[m]]
      BY <1>10, <3>1
    <3>4. w[m + 1] = follow[w[m]]
      BY <1>7, <3>1
    <3> QED BY <3>2, <3>3, <3>4
  <2> HIDE DEF S
  <2>3. Nat \subseteq S
    BY <2>1, <2>2, InductionOnNat
  <2>4. \A i \in 0..N : i \in Nat /\ i <= N
    BY <1>2
  <2> QED BY <2>3, <2>4 DEF S
<1>12. {j \in DOMAIN at : at[j] # Null} = 0..n - 1
  <2>1. \A i \in 0..N : at[i] # Null <=> i < n
    <3>1. ASSUME NEW i \in 0..N PROVE at[i] # Null <=> i < n
      <4>1. at[i] = IF i < n THEN s[i + 1] ELSE Null
        BY <1>4, <1>11
      <4>2. i < n => i + 1 \in 1..n
        BY <1>2
      <4>3. i < n => s[i + 1] # Null
        BY <1>2, <4>2, NullIsNoElem
      <4> QED BY <4>1, <4>3
    <3> QED BY <3>1
  <2>2. \A i : i \in 0..n - 1 <=> i \in 0..N /\ i < n
    BY <1>2
  <2> QED BY <1>10, <2>1, <2>2
<1>13. Cardinality(0..n - 1) = n
  <2>1. 0 \in Int /\ n - 1 \in Int
    BY <1>2
  <2>2. Cardinality(0..n - 1) = IF 0 > n - 1 THEN 0 ELSE (n - 1) - 0 + 1
    BY <2>1, FS_Interval
  <2> QED BY <1>2, <2>2
<1>14. Walk(first, field) = [i \in 1..n |-> at[i - 1]]
  BY <1>9, <1>12, <1>13 DEF Walk
<1>15. \A i \in 1..n : at[i - 1] = s[i]
  <2>1. ASSUME NEW i \in 1..n PROVE at[i - 1] = s[i]
    <3>1. i - 1 \in 0..N /\ i - 1 < n /\ (i - 1) + 1 = i
      BY <1>2
    <3>2. w[i - 1] = s[(i - 1) + 1]
      BY <1>4, <3>1
    <3> QED BY <1>11, <3>1, <3>2
  <2> QED BY <2>1
<1>16. s = [i \in 1..n |-> s[i]]
  BY <1>1, <1>2
<1> QED BY <1>14, <1>15, <1>16

\* From both ends the list is the sequence.
LEMMA WalksOfChain ==
  ASSUME HeapOK, NEW s, Chain(s)
  PROVE  Forward = s /\ Backward = Reverse(s)
<1>1. PICK n, r : n = Len(s) /\ r = Reverse(s)
  OBVIOUS
<1>2. n \in Nat /\ s \in Seq(Elem) /\ n <= Cardinality(Elem) /\ \A i \in 1..n : s[i] \in Elem
  <2>1. n \in Nat /\ s \in Seq(Elem) /\ n = Cardinality(alive) /\ \A i \in 1..n : s[i] \in Elem
    BY <1>1 DEF Chain, IsChain
  <2>2. alive \subseteq Elem
    BY DEF HeapOK
  <2>3. Cardinality(alive) <= Cardinality(Elem)
    BY <2>2, ElemIsFinite, FS_Subset
  <2> QED BY <2>1, <2>3
<1>3. Leads(head, next, s)
  BY <1>1, <1>2 DEF Leads, Chain, IsChain
<1>4. Forward = s
  BY <1>3, WalkIsSequence DEF Forward
<1>5. /\ r \in Seq(Elem) /\ Len(r) = n
      /\ \A i \in 1..n : r[i] = s[n - i + 1]
  <2>1. r = [i \in 1..n |-> s[n - i + 1]]
    BY <1>1 DEF Reverse
  <2>2. \A i \in 1..n : n - i + 1 \in 1..n
    BY <1>2
  <2>3. \A i \in 1..n : s[n - i + 1] \in Elem
    BY <1>2, <2>2
  <2>4. r \in [1..n -> Elem]
    BY <2>1, <2>3
  <2>5. r \in Seq(Elem) /\ Len(r) = n
    BY <1>2, <2>4
  <2> QED BY <2>1, <2>5
<1>6. Leads(tail, prior, r)
  <2>1. tail = IF n = 0 THEN Null ELSE s[n]
    BY <1>1 DEF Chain, IsChain
  <2>2. n # 0 => r[1] = s[n]
    BY <1>2, <1>5
  <2>3. ASSUME NEW i \in 1..n PROVE prior[r[i]] = IF i = n THEN Null ELSE r[i + 1]
    <3>1. PICK j : j = n - i + 1
      OBVIOUS
    <3>2. j \in 1..n /\ (j = 1 <=> i = n) /\ (i # n => i + 1 \in 1..n /\ n - (i + 1) + 1 = j - 1)
      BY <1>2, <3>1
    <3>3. r[i] = s[j]
      BY <1>5, <3>1
    <3>4. prior[s[j]] = IF j = 1 THEN Null ELSE s[j - 1]
      BY <1>1, <3>2 DEF Chain, IsChain
    <3>5. i # n => r[i + 1] = s[j - 1]
      BY <1>5, <3>2
    <3> QED BY <3>2, <3>3, <3>4, <3>5
  <2> QED BY <1>2, <1>5, <2>1, <2>2, <2>3 DEF Leads
<1>7. Backward = r
  BY <1>6, WalkIsSequence DEF Backward
<1> QED BY <1>1, <1>4, <1>7

----------------------------------------------------------------------------
(* What a step does to the sequence.                                       *)

TypeOfData == \A e \in alive : data[e] \in Data

\* A step puts an item into the k-th place, takes that of the k-th place, or
\* leaves the sequence as it is.
Grows(s, k, e, d) == /\ k \in 1..Len(s) + 1 /\ e \in Elem \ alive /\ d \in Data
                     /\ Chain(InsertAt(s, k, e))'
                     /\ alive' = alive \cup {e}
                     /\ data' = [data EXCEPT ![e] = d]

Shrinks(s, k) == /\ k \in 1..Len(s)
                 /\ Chain(RemoveAt(s, k))'
                 /\ alive' = alive \ {s[k]}
                 /\ data' = [data EXCEPT ![s[k]] = Null]

Stays(s) == Chain(s)' /\ alive' = alive /\ data' = data

\* A new list is the empty sequence.
LEMMA EmptyChain == Init => HeapOK /\ Chain(<<>>)
<1> SUFFICES ASSUME Init PROVE HeapOK /\ Chain(<<>>)
  OBVIOUS
<1>1. HeapOK
  BY DEF Init, HeapOK, Pointer
<1>2. <<>> \in Seq(Elem) /\ Len(<<>>) = 0 /\ 1..0 = {}
  OBVIOUS
<1>3. alive = {} /\ Cardinality({}) = 0 /\ IsFiniteSet({}) /\ head = Null /\ tail = Null
  BY FS_EmptySet DEF Init
<1> QED BY <1>1, <1>2, <1>3 DEF Chain, IsChain

\* An addition to the front is one to the first place.
LEMMA FrontGrows ==
  ASSUME HeapOK, NEW s, Chain(s), NEW d \in Data, \E e \in Elem : LinkFront(e, d)
  PROVE  \E e : Grows(s, 1, e, d)
<1>1. PICK e \in Elem : LinkFront(e, d)
  OBVIOUS
<1>2. Chain(InsertAt(s, 1, e))'
  BY <1>1, LinkFrontInserts
<1>3. 1 \in 1..Len(s) + 1
  BY DEF Chain, IsChain
<1> QED BY <1>1, <1>2, <1>3 DEF Grows, LinkFront, NewElement

\* An addition to the end is one to the last place.
LEMMA BackGrows ==
  ASSUME HeapOK, NEW s, Chain(s), NEW d \in Data, \E e \in Elem : LinkBack(e, d)
  PROVE  \E e : Grows(s, Len(s) + 1, e, d)
<1>1. PICK e \in Elem : LinkBack(e, d)
  OBVIOUS
<1>2. Chain(InsertAt(s, Len(s) + 1, e))'
  BY <1>1, LinkBackInserts
<1>3. Len(s) + 1 \in 1..Len(s) + 1
  BY DEF Chain, IsChain
<1> QED BY <1>1, <1>2, <1>3 DEF Grows, LinkBack, NewElement

\* An addition behind an element is one to the place behind its place.
LEMMA AfterGrows ==
  ASSUME HeapOK, NEW s, Chain(s), NEW k \in 1..Len(s), NEW d \in Data,
         \E e \in Elem : LinkAfter(s[k], e, d)
  PROVE  \E e : Grows(s, k + 1, e, d)
<1>1. PICK e \in Elem : LinkAfter(s[k], e, d)
  OBVIOUS
<1>2. Chain(InsertAt(s, k + 1, e))'
  BY <1>1, LinkAfterInserts
<1>3. k + 1 \in 1..Len(s) + 1
  BY DEF Chain, IsChain
<1> QED BY <1>1, <1>2, <1>3 DEF Grows, LinkAfter, NewElement

\* An addition before an element is one to its place.
LEMMA BeforeGrows ==
  ASSUME HeapOK, NEW s, Chain(s), NEW k \in 1..Len(s), NEW d \in Data,
         \E e \in Elem : LinkBefore(s[k], e, d)
  PROVE  \E e : Grows(s, k, e, d)
<1>1. PICK e \in Elem : LinkBefore(s[k], e, d)
  OBVIOUS
<1>2. Chain(InsertAt(s, k, e))'
  BY <1>1, LinkBeforeInserts
<1>3. k \in 1..Len(s) + 1
  BY DEF Chain, IsChain
<1> QED BY <1>1, <1>2, <1>3 DEF Grows, LinkBefore, NewElement

\* Whatever element is removed had a place.
LEMMA UnlinkShrinks ==
  ASSUME HeapOK, NEW s, Chain(s), NEW e \in alive, Unlink(e)
  PROVE  \E k : Shrinks(s, k)
<1>1. PICK k \in 1..Len(s) : e = s[k]
  BY DEF Chain, IsChain
<1>2. Unlink(s[k])
  BY <1>1
<1>3. Chain(RemoveAt(s, k))'
  BY <1>2, UnlinkRemoves
<1> QED BY <1>2, <1>3 DEF Shrinks, Unlink

\* A step that changes no link leaves the sequence as it is.
LEMMA SameStays ==
  ASSUME NEW s, Chain(s), UNCHANGED <<heap, head, tail>>
  PROVE  Stays(s)
BY DEF Stays, heap, Chain

\* Where an ordered insertion puts its item.
InOrder(s, k, d) ==
  /\ k > 1 => data[s[k - 1]] <= d
  /\ k <= Len(s) => d <= data[s[k]]

\* An ordered addition finds a place with nothing larger before and nothing
\* smaller behind it.
LEMMA OrderedGrows ==
  ASSUME HeapOK, NEW s, Chain(s), TypeOfData, NEW d \in Data, InsertOrdered(d)
  PROVE  \E k, e : Grows(s, k, e, d) /\ InOrder(s, k, d)
<1>1. PICK n : n = Len(s)
  OBVIOUS
<1>2. n \in Nat /\ d \in Int /\ \A i \in 1..n : s[i] \in alive /\ data[s[i]] \in Int
  <2>1. s \in Seq(Elem) /\ \A i \in 1..n : s[i] \in alive
    BY <1>1 DEF Chain, IsChain
  <2>2. n \in Nat
    BY <1>1, <2>1
  <2>3. \A i \in 1..n : data[s[i]] \in Data
    BY <2>1 DEF TypeOfData
  <2> QED BY <2>1, <2>2, <2>3, DataIsOrdered
<1>3. /\ head = IF n = 0 THEN Null ELSE s[1]
      /\ tail = IF n = 0 THEN Null ELSE s[n]
  BY <1>1 DEF Chain, IsChain
<1>4. CASE BelongsFirst(d) /\ \E e \in Elem : LinkFront(e, d)
  <2>1. PICK e : Grows(s, 1, e, d)
    BY <1>4, FrontGrows
  <2>2. 1 <= n => n # 0 /\ 1 \in 1..n
    BY <1>2
  <2>3. 1 <= n => head = s[1] /\ s[1] # Null
    BY <1>2, <1>3, <2>2, NullIsNoElem DEF HeapOK
  <2>4. 1 <= n => d <= data[s[1]]
    BY <1>4, <2>3 DEF BelongsFirst
  <2>5. InOrder(s, 1, d)
    BY <1>1, <2>4 DEF InOrder
  <2> QED BY <2>1, <2>5
<1>5. CASE BelongsLast(d) /\ \E e \in Elem : LinkBack(e, d)
  <2>1. PICK e : Grows(s, Len(s) + 1, e, d)
    BY <1>5, BackGrows
  <2>2. tail # Null /\ d >= data[tail]
    BY <1>5 DEF BelongsLast
  <2>3. n # 0 /\ tail = s[n] /\ n \in 1..n
    BY <1>2, <1>3, <2>2
  <2>4. data[s[n]] <= d
    BY <1>2, <2>2, <2>3
  <2>5. (n + 1) - 1 = n /\ ~(n + 1 <= n)
    BY <1>2
  <2>6. InOrder(s, Len(s) + 1, d)
    BY <1>1, <2>4, <2>5 DEF InOrder
  <2> QED BY <2>1, <2>6
<1>6. ASSUME NEW at \in NotSmaller(d), IsFirst(at, NotSmaller(d)),
             \E e \in Elem : LinkBefore(at, e, d)
      PROVE  \E k, e : Grows(s, k, e, d) /\ InOrder(s, k, d)
  <2>1. Forward = s /\ DOMAIN s = 1..n
    <3>1. Forward = s
      BY WalksOfChain
    <3>2. s \in Seq(Elem)
      BY DEF Chain, IsChain
    <3> QED BY <1>1, <3>1, <3>2
  <2>2. PICK k \in 1..n : s[k] = at /\ \A j \in 1..k - 1 : s[j] \notin NotSmaller(d)
    BY <1>6, <2>1 DEF IsFirst
  <2>3. PICK e : Grows(s, k, e, d)
    BY <1>1, <1>6, <2>2, BeforeGrows
  <2>4. data[s[k]] >= d
    BY <2>2 DEF NotSmaller
  <2>5. k > 1 => k - 1 \in 1..n /\ k - 1 \in 1..k - 1
    BY <1>2
  <2>6. k > 1 => ~(data[s[k - 1]] >= d)
    BY <1>2, <2>2, <2>5 DEF NotSmaller
  <2>7. k > 1 => data[s[k - 1]] <= d
    BY <1>2, <2>5, <2>6
  <2>8. d <= data[s[k]]
    BY <1>2, <2>4
  <2> QED BY <2>3, <2>7, <2>8 DEF InOrder
<1> QED BY <1>4, <1>5, <1>6 DEF InsertOrdered

\* What any step does to the sequence.
LEMMA StepsOfChain ==
  ASSUME IInv, TypeOfData, NEW s, Chain(s), [Next]_vars
  PROVE  \/ Stays(s)
         \/ \E k, e, d : Grows(s, k, e, d)
         \/ \E k : Shrinks(s, k)
<1>1. HeapOK
  BY DEF IInv, TypeOK, HeapOK
<1>2. \A e \in alive : \E k \in 1..Len(s) : e = s[k]
  BY DEF Chain, IsChain
<1>3. ASSUME NEW d \in Data, Unshift(d) \/ InsertNowhere(d)
      PROVE  \E k, e : Grows(s, k, e, d)
  BY <1>1, <1>3, FrontGrows DEF Unshift, InsertNowhere
<1>4. ASSUME NEW d \in Data, Push(d) PROVE \E k, e : Grows(s, k, e, d)
  BY <1>1, <1>4, BackGrows DEF Push
<1>5. ASSUME NEW d \in Data, InsertOrdered(d) PROVE \E k, e : Grows(s, k, e, d)
  BY <1>1, <1>5, OrderedGrows
<1>6. ASSUME NEW at \in alive, NEW d \in Data, InsertAfter(at, d)
      PROVE \E k, e : Grows(s, k, e, d)
  <2>1. PICK k \in 1..Len(s) : at = s[k]
    BY <1>2
  <2> QED BY <1>1, <1>6, <2>1, AfterGrows DEF InsertAfter
<1>7. ASSUME NEW at \in alive, NEW d \in Data, InsertBefore(at, d)
      PROVE \E k, e : Grows(s, k, e, d)
  <2>1. PICK k \in 1..Len(s) : at = s[k]
    BY <1>2
  <2> QED BY <1>1, <1>7, <2>1, BeforeGrows DEF InsertBefore
<1>8. ASSUME NEW e \in alive, RemoveElem(e) PROVE \E k : Shrinks(s, k)
  BY <1>1, <1>8, UnlinkShrinks DEF RemoveElem
<1>9. CASE Shift \/ Pop
  BY <1>8, <1>9 DEF Shift, Pop, RemoveElem
<1>10. CASE ClearContinues
  <2>1. cursor \in alive
    BY <1>10 DEF ClearContinues, IInv, ClearFollowsHead, EndsMatch
  <2> QED BY <1>1, <1>10, <2>1, UnlinkShrinks DEF ClearContinues
<1>11. ASSUME NEW d \in Data, Find(d) \/ FindNext(d) PROVE Stays(s)
  BY <1>11, SameStays DEF Find, FindNext, FindFirst
<1>12. CASE ClearBegins
  BY <1>12, SameStays DEF ClearBegins
<1>13. CASE UNCHANGED vars
  BY <1>13, SameStays DEF vars
<1> QED
  BY <1>3, <1>4, <1>5, <1>6, <1>7, <1>8, <1>9, <1>10, <1>11, <1>12, <1>13 DEF Next

----------------------------------------------------------------------------
(* Every element is reached.                                              *)

\* The inductive invariant, with the sequence.
CInv == IInv /\ TypeOfData /\ \E s : Chain(s)

\* A new list is a sequence.
LEMMA InitChained == Init => CInv
<1> SUFFICES ASSUME Init PROVE CInv
  OBVIOUS
<1>1. TypeOfData
  BY DEF Init, TypeOfData
<1> QED BY <1>1, InitInv, EmptyChain DEF CInv

\* After each step the list is a sequence.
LEMMA NextChained == CInv /\ [Next]_vars => CInv'
<1> SUFFICES ASSUME CInv, [Next]_vars PROVE CInv'
  OBVIOUS
<1>1. IInv'
  BY NextKeeps DEF CInv
<1>2. PICK s : Chain(s)
  BY DEF CInv
<1>3. HeapOK
  BY DEF CInv, IInv, TypeOK, HeapOK
<1>4. Stays(s) \/ (\E k, e, d : Grows(s, k, e, d)) \/ \E k : Shrinks(s, k)
  BY <1>2, StepsOfChain DEF CInv
<1>5. TypeOfData'
  BY <1>3, <1>4 DEF CInv, TypeOfData, HeapOK, Stays, Grows, Shrinks
<1>6. (\E t : Chain(t))'
  BY <1>4 DEF Stays, Grows, Shrinks
<1> QED BY <1>1, <1>5, <1>6 DEF CInv

\* The list is a sequence of all its elements at any time.
THEOREM AlwaysChained == Spec => []CInv
BY InitChained, NextChained, PTL DEF Spec

\* In a list that is a sequence every element is reached from both ends.
LEMMA ChainIsReached == CInv => AllReached
<1> SUFFICES ASSUME CInv PROVE AllReached
  OBVIOUS
<1>1. PICK s : Chain(s)
  BY DEF CInv
<1>2. Forward = s /\ Backward = Reverse(s)
  BY <1>1, WalksOfChain DEF CInv, IInv, TypeOK, HeapOK
<1>3. ToSet(s) = alive /\ Len(s) = Cardinality(alive)
  BY <1>1 DEF Chain, IsChain, ToSet
<1> QED BY <1>2, <1>3 DEF AllReached

\* Every element that is not freed is reached from the head and, in the opposite
\* order, from the tail: no routine of pvl.c leaks one or closes a circle.
THEOREM NothingIsLost == Spec => []AllReached
BY AlwaysChained, ChainIsReached, PTL

----------------------------------------------------------------------------
(* The items, and the list pvl.h promises.                                 *)

\* What the elements of a sequence hold.
Held(s, dt) == [i \in 1..Len(s) |-> dt[s[i]]]

\* The items are what the elements of the sequence hold.
LEMMA ItemsAreHeld ==
  ASSUME NEW s, NEW al, NEW hd, NEW tl, NEW nx, NEW pr,
         IsChain(s, al, hd, tl, nx, pr), al \subseteq Elem
  PROVE  Walk(hd, nx) = s /\ DOMAIN s = 1..Len(s)
<1>1. s \in Seq(Elem) /\ Len(s) = Cardinality(al)
  BY DEF IsChain
<1>2. Cardinality(al) <= Cardinality(Elem)
  BY ElemIsFinite, FS_Subset
<1>3. Leads(hd, nx, s)
  BY <1>1, <1>2 DEF IsChain, Leads
<1> QED BY <1>1, <1>3, WalkIsSequence

\* An element more in the k-th place is an item more there.
LEMMA HeldWithOneMore ==
  ASSUME NEW s \in Seq(Elem), NEW dt \in [Elem -> Data \cup {Null}],
         \A i \in 1..Len(s) : dt[s[i]] \in Data,
         NEW k \in 1..Len(s) + 1, NEW e \in Elem, NEW d \in Data,
         \A i \in 1..Len(s) : s[i] # e
  PROVE  Held(InsertAt(s, k, e), [dt EXCEPT ![e] = d]) = InsertAt(Held(s, dt), k, d)
<1>1. PICK n, t, h, u : n = Len(s) /\ t = InsertAt(s, k, e) /\ h = Held(s, dt)
                        /\ u = InsertAt(h, k, d)
  OBVIOUS
<1>2. n \in Nat /\ k \in 1..n + 1 /\ \A i \in 1..n : s[i] \in Elem /\ s[i] # e
  BY <1>1
<1>3. h \in Seq(Data) /\ Len(h) = n /\ \A i \in 1..n : h[i] = dt[s[i]]
  <2>1. h = [i \in 1..n |-> dt[s[i]]]
    BY <1>1 DEF Held
  <2>2. h \in [1..n -> Data]
    BY <1>1, <2>1
  <2> QED BY <1>2, <2>1, <2>2
<1>4. /\ t \in Seq(Elem) /\ Len(t) = n + 1
      /\ \A i \in 1..n + 1 : t[i] = IF i < k THEN s[i] ELSE IF i = k THEN e ELSE s[i - 1]
  <2>1. /\ InsertAt(s, k, e) \in Seq(Elem)
        /\ Len(InsertAt(s, k, e)) = Len(s) + 1
        /\ \A i \in 1..Len(s) + 1 :
             InsertAt(s, k, e)[i] = IF i < k THEN s[i] ELSE IF i = k THEN e ELSE s[i - 1]
    BY InsertAtProperties
  <2> QED BY <1>1, <2>1
<1>5. /\ u \in Seq(Data) /\ Len(u) = n + 1
      /\ \A i \in 1..n + 1 : u[i] = IF i < k THEN h[i] ELSE IF i = k THEN d ELSE h[i - 1]
  <2>1. h \in Seq(Data) /\ d \in Data /\ k \in 1..Len(h) + 1
    BY <1>1, <1>3
  <2>2. /\ InsertAt(h, k, d) \in Seq(Data)
        /\ Len(InsertAt(h, k, d)) = Len(h) + 1
        /\ \A i \in 1..Len(h) + 1 :
             InsertAt(h, k, d)[i] = IF i < k THEN h[i] ELSE IF i = k THEN d ELSE h[i - 1]
    BY ONLY <2>1, InsertAtProperties
  <2> QED BY <1>1, <1>3, <2>2
<1>6. PICK dt2 : dt2 = [dt EXCEPT ![e] = d]
  OBVIOUS
<1>7. dt2[e] = d /\ \A i \in 1..n : dt2[s[i]] = dt[s[i]]
  BY <1>2, <1>6
<1>8. ASSUME NEW i \in 1..n + 1 PROVE dt2[t[i]] = u[i]
  <2>1. CASE i < k
    <3>1. i \in 1..n
      BY <1>2, <2>1
    <3> QED BY <1>3, <1>4, <1>5, <1>7, <2>1, <3>1
  <2>2. CASE i = k
    <3>1. ~(i < k)
      BY <1>2, <2>2
    <3> QED BY <1>4, <1>5, <1>7, <2>2, <3>1
  <2>3. CASE i > k
    <3>1. i - 1 \in 1..n /\ ~(i < k) /\ i # k
      BY <1>2, <2>3
    <3>2. t[i] = s[i - 1] /\ u[i] = h[i - 1]
      BY <1>4, <1>5, <3>1
    <3> QED BY <1>3, <1>7, <3>1, <3>2
  <2> QED BY <1>2, <2>1, <2>2, <2>3
<1>9. Held(t, dt2) = [i \in 1..n + 1 |-> u[i]]
  BY <1>4, <1>8 DEF Held
<1>10. u = [i \in 1..n + 1 |-> u[i]]
  BY <1>5
<1> QED BY <1>1, <1>6, <1>9, <1>10

\* An element less in the k-th place is an item less there.
LEMMA HeldWithOneLess ==
  ASSUME NEW s \in Seq(Elem), NEW dt \in [Elem -> Data \cup {Null}],
         \A i \in 1..Len(s) : dt[s[i]] \in Data,
         NEW k \in 1..Len(s),
         \A i, j \in 1..Len(s) : s[i] = s[j] => i = j
  PROVE  Held(RemoveAt(s, k), [dt EXCEPT ![s[k]] = Null]) = RemoveAt(Held(s, dt), k)
<1>1. PICK n, t, h, u : n = Len(s) /\ t = RemoveAt(s, k) /\ h = Held(s, dt)
                        /\ u = RemoveAt(h, k)
  OBVIOUS
<1>2. n \in Nat /\ k \in 1..n /\ \A i \in 1..n : s[i] \in Elem
  BY <1>1
<1>3. h \in Seq(Data) /\ Len(h) = n /\ \A i \in 1..n : h[i] = dt[s[i]]
  <2>1. h = [i \in 1..n |-> dt[s[i]]]
    BY <1>1 DEF Held
  <2>2. h \in [1..n -> Data]
    BY <1>1, <2>1
  <2> QED BY <1>2, <2>1, <2>2
<1>4. /\ t \in Seq(Elem) /\ Len(t) = n - 1
      /\ \A i \in 1..n - 1 : t[i] = IF i < k THEN s[i] ELSE s[i + 1]
  <2>1. /\ RemoveAt(s, k) \in Seq(Elem)
        /\ Len(RemoveAt(s, k)) = Len(s) - 1
        /\ \A i \in 1..Len(s) - 1 : RemoveAt(s, k)[i] = IF i < k THEN s[i] ELSE s[i + 1]
    BY RemoveAtProperties
  <2> QED BY <1>1, <2>1
<1>5. /\ u \in Seq(Data) /\ Len(u) = n - 1
      /\ \A i \in 1..n - 1 : u[i] = IF i < k THEN h[i] ELSE h[i + 1]
  <2>1. k \in 1..Len(h)
    BY <1>1, <1>3
  <2>2. /\ RemoveAt(h, k) \in Seq(Data)
        /\ Len(RemoveAt(h, k)) = Len(h) - 1
        /\ \A i \in 1..Len(h) - 1 : RemoveAt(h, k)[i] = IF i < k THEN h[i] ELSE h[i + 1]
    BY ZenonT(30), <1>3, <2>1, RemoveAtProperties
  <2> QED BY <1>1, <1>3, <2>2
<1>6. PICK dt2 : dt2 = [dt EXCEPT ![s[k]] = Null]
  OBVIOUS
<1>7. \A i \in 1..n : i # k => dt2[s[i]] = dt[s[i]]
  <2>1. \A i \in 1..n : i # k => s[i] # s[k]
    BY <1>1, <1>2
  <2> QED BY <1>2, <1>6, <2>1
<1>8. ASSUME NEW i \in 1..n - 1 PROVE dt2[t[i]] = u[i]
  <2>1. CASE i < k
    <3>1. i \in 1..n /\ i # k
      BY <1>2, <2>1
    <3> QED BY <1>3, <1>4, <1>5, <1>7, <2>1, <3>1
  <2>2. CASE ~(i < k)
    <3>1. i + 1 \in 1..n /\ i + 1 # k
      BY <1>2, <2>2
    <3>2. t[i] = s[i + 1] /\ u[i] = h[i + 1]
      BY <1>4, <1>5, <2>2
    <3> QED BY <1>3, <1>7, <3>1, <3>2
  <2> QED BY <2>1, <2>2
<1>9. Held(t, dt2) = [i \in 1..n - 1 |-> u[i]]
  BY <1>4, <1>8 DEF Held
<1>10. u = [i \in 1..n - 1 |-> u[i]]
  BY <1>5
<1> QED BY <1>1, <1>6, <1>9, <1>10

\* What any step does to the items.
LEMMA StepOfItems ==
  ASSUME CInv, NEW s, Chain(s), [Next]_vars
  PROVE  /\ Items = Held(s, data)
         /\ Stays(s) => Items' = Items
         /\ \A k, e, d : Grows(s, k, e, d) => Items' = InsertAt(Items, k, d)
         /\ \A k : Shrinks(s, k) => Items' = RemoveAt(Items, k)
<1>1. HeapOK /\ TypeOfData /\ alive \subseteq Elem /\ data \in [Elem -> Data \cup {Null}]
  BY DEF CInv, IInv, TypeOK, HeapOK
<1>2. (alive \subseteq Elem)'
  BY NextChained DEF CInv, IInv, TypeOK
<1>3. /\ s \in Seq(Elem) /\ \A i \in 1..Len(s) : s[i] \in alive
      /\ \A i, j \in 1..Len(s) : s[i] = s[j] => i = j
  BY DEF Chain, IsChain
<1>4. \A i \in 1..Len(s) : data[s[i]] \in Data
  BY <1>1, <1>3 DEF TypeOfData
<1>5. Walk(head, next) = s /\ DOMAIN s = 1..Len(s)
  BY <1>1, ItemsAreHeld DEF Chain
<1>6. Items = Held(s, data)
  BY <1>5 DEF Items, Forward, Held
<1>7. ASSUME NEW t, Chain(t)' PROVE Items' = Held(t, data')
  <2>1. Walk(head', next') = t /\ DOMAIN t = 1..Len(t)
    BY <1>2, <1>7, ItemsAreHeld DEF Chain
  <2> QED BY <2>1 DEF Items, Forward, Held
<1>8. Stays(s) => Items' = Items
  BY <1>6, <1>7 DEF Stays
<1>9. ASSUME NEW k, NEW e, NEW d, Grows(s, k, e, d) PROVE Items' = InsertAt(Items, k, d)
  <2>1. /\ k \in 1..Len(s) + 1 /\ e \in Elem /\ e \notin alive /\ d \in Data
        /\ Chain(InsertAt(s, k, e))' /\ data' = [data EXCEPT ![e] = d]
    BY <1>9 DEF Grows
  <2>2. \A i \in 1..Len(s) : s[i] # e
    BY <1>3, <2>1
  <2>3. Held(InsertAt(s, k, e), [data EXCEPT ![e] = d]) = InsertAt(Held(s, data), k, d)
    <3>1. PICK dt : dt = data
      OBVIOUS
    <3>2. /\ s \in Seq(Elem) /\ dt \in [Elem -> Data \cup {Null}]
          /\ \A i \in 1..Len(s) : dt[s[i]] \in Data
          /\ k \in 1..Len(s) + 1 /\ e \in Elem /\ d \in Data
          /\ \A i \in 1..Len(s) : s[i] # e
      BY <1>1, <1>3, <1>4, <2>1, <2>2, <3>1
    <3>3. Held(InsertAt(s, k, e), [dt EXCEPT ![e] = d]) = InsertAt(Held(s, dt), k, d)
      BY ONLY <3>2, HeldWithOneMore
    <3> QED BY <3>1, <3>3
  <2> QED BY <1>6, <1>7, <2>1, <2>3
<1>10. ASSUME NEW k, Shrinks(s, k) PROVE Items' = RemoveAt(Items, k)
  <2>1. /\ k \in 1..Len(s)
        /\ Chain(RemoveAt(s, k))' /\ data' = [data EXCEPT ![s[k]] = Null]
    BY <1>10 DEF Shrinks
  <2>2. Held(RemoveAt(s, k), [data EXCEPT ![s[k]] = Null]) = RemoveAt(Held(s, data), k)
    BY <1>1, <1>3, <1>4, <2>1, HeldWithOneLess
  <2> QED BY <1>6, <1>7, <2>1, <2>2
<1> QED BY <1>6, <1>8, <1>9, <1>10

\* The list is the list of items pvl.h promises: each routine adds one item,
\* takes one, or changes none, and all others keep their order.
THEOREM ListIsImplemented == Spec => ImplementsItemList
<1>1. Init => List!Init
  <2> SUFFICES ASSUME Init PROVE Items = <<>>
    BY DEF List!Init
  <2>1. Walk(head, next) = <<>>
    <3>1. IsChain(<<>>, alive, head, tail, next, prior)
      BY EmptyChain DEF Chain
    <3>2. alive \subseteq Elem
      BY DEF Init
    <3> QED BY <3>1, <3>2, ItemsAreHeld
  <2> QED BY <2>1 DEF Items, Forward
<1>2. CInv /\ [Next]_vars => [List!Next]_Items
  <2> SUFFICES ASSUME CInv, [Next]_vars PROVE List!Next \/ Items' = Items
    OBVIOUS
  <2>1. PICK s : Chain(s)
    BY DEF CInv
  <2>2. Stays(s) \/ (\E k, e, d : Grows(s, k, e, d)) \/ \E k : Shrinks(s, k)
    BY <2>1, StepsOfChain DEF CInv
  <2>3. Len(Items) = Len(s)
    <3>1. Items = Held(s, data) /\ s \in Seq(Elem)
      BY <2>1, StepOfItems DEF Chain, IsChain
    <3>2. Len(s) \in Nat
      BY <3>1
    <3> QED BY <3>1, <3>2 DEF Held
  <2>4. CASE Stays(s)
    BY <2>1, <2>4, StepOfItems
  <2>5. ASSUME NEW k, NEW e, NEW d, Grows(s, k, e, d) PROVE List!Next
    <3>1. Items' = InsertAt(Items, k, d)
      BY <2>1, <2>5, StepOfItems
    <3>2. k \in 1..Len(Items) + 1 /\ d \in Data
      BY <2>3, <2>5 DEF Grows
    <3> QED BY <3>1, <3>2 DEF List!Next, List!Insert, List!InsertAt, InsertAt
  <2>6. ASSUME NEW k, Shrinks(s, k) PROVE List!Next
    <3>1. Items' = RemoveAt(Items, k)
      BY <2>1, <2>6, StepOfItems
    <3>2. k \in 1..Len(Items)
      BY <2>3, <2>6 DEF Shrinks
    <3> QED BY <3>1, <3>2 DEF List!Next, List!Take, List!RemoveAt, RemoveAt
  <2> QED BY <2>2, <2>4, <2>5, <2>6
<1> QED BY <1>1, <1>2, AlwaysChained, PTL DEF Spec, ImplementsItemList, List!Spec

\* pvl_insert_ordered leaves an ordered list ordered.
THEOREM OrderIsKept == Spec => KeepsOrder
<1>1. CInv /\ [Next]_vars => [(\E d \in Data : InsertOrdered(d)) /\ Sorted => Sorted']_vars
  <2> SUFFICES ASSUME CInv, Next, NEW d \in Data, InsertOrdered(d), Sorted PROVE Sorted'
    OBVIOUS
  <2>1. PICK s : Chain(s)
    BY DEF CInv
  <2>2. HeapOK /\ TypeOfData
    BY DEF CInv, IInv, TypeOK, HeapOK
  <2>3. PICK k, e : Grows(s, k, e, d) /\ InOrder(s, k, d)
    BY <2>1, <2>2, OrderedGrows
  <2>4. PICK n, h, u : n = Len(s) /\ h = Items /\ u = Items'
    OBVIOUS
  <2>5. /\ h = Held(s, data) /\ u = InsertAt(h, k, d)
        /\ k \in 1..n + 1 /\ d \in Data
    BY <2>1, <2>3, <2>4, StepOfItems DEF Grows
  <2>6. n \in Nat /\ h \in Seq(Data) /\ Len(h) = n /\ \A i \in 1..n : h[i] = data[s[i]]
    <3>1. s \in Seq(Elem) /\ \A i \in 1..n : s[i] \in alive
      BY <2>1, <2>4 DEF Chain, IsChain
    <3>2. n \in Nat
      BY <2>4, <3>1
    <3>3. \A i \in 1..n : data[s[i]] \in Data
      BY <2>2, <3>1 DEF TypeOfData
    <3>4. h = [i \in 1..n |-> data[s[i]]]
      BY <2>4, <2>5 DEF Held
    <3>5. h \in [1..n -> Data]
      BY <3>3, <3>4
    <3> QED BY <3>2, <3>4, <3>5
  <2>7. /\ Len(u) = n + 1
        /\ \A i \in 1..n + 1 : u[i] = IF i < k THEN h[i] ELSE IF i = k THEN d ELSE h[i - 1]
    <3>1. h \in Seq(Data) /\ d \in Data /\ k \in 1..Len(h) + 1
      BY <2>5, <2>6
    <3>2. /\ Len(InsertAt(h, k, d)) = Len(h) + 1
          /\ \A i \in 1..Len(h) + 1 :
               InsertAt(h, k, d)[i] = IF i < k THEN h[i] ELSE IF i = k THEN d ELSE h[i - 1]
      BY ONLY <3>1, InsertAtProperties
    <3> QED BY <2>5, <2>6, <3>2
  <2>8. \A i \in 1..n - 1 : h[i] <= h[i + 1]
    BY <2>4, <2>6 DEF Sorted
  <2>9. /\ k > 1 => h[k - 1] <= d
        /\ k <= n => d <= h[k]
    <3>1. k > 1 => k - 1 \in 1..n
      BY <2>5, <2>6
    <3>2. k <= n => k \in 1..n
      BY <2>5, <2>6
    <3> QED BY <2>3, <2>4, <2>6, <3>1, <3>2 DEF InOrder
  <2>10. ASSUME NEW i \in 1..n PROVE u[i] <= u[i + 1]
    <3>1. i \in 1..n + 1 /\ i + 1 \in 1..n + 1
      BY <2>6
    <3>2. CASE i + 1 < k
      <4>1. i < k /\ i \in 1..n - 1
        BY <2>5, <2>6, <3>2
      <4> QED BY <2>7, <2>8, <3>1, <3>2, <4>1
    <3>3. CASE i + 1 = k
      <4>1. i < k /\ k > 1 /\ i = k - 1 /\ ~(i + 1 < k)
        BY <2>5, <2>6, <3>3
      <4> QED BY <2>7, <2>9, <3>1, <3>3, <4>1
    <3>4. CASE i = k
      <4>1. ~(i < k) /\ k <= n /\ ~(i + 1 < k) /\ i + 1 # k /\ (i + 1) - 1 = k
        BY <2>5, <2>6, <3>4
      <4> QED BY <2>7, <2>9, <3>1, <3>4, <4>1
    <3>5. CASE i > k
      <4>1. ~(i < k) /\ i # k /\ ~(i + 1 < k) /\ i + 1 # k /\ (i + 1) - 1 = (i - 1) + 1
            /\ i - 1 \in 1..n - 1
        BY <2>5, <2>6, <3>5
      <4>2. u[i] = h[i - 1] /\ u[i + 1] = h[(i + 1) - 1]
        BY <2>7, <3>1, <4>1
      <4> QED BY <2>8, <4>1, <4>2
    <3> QED BY <2>5, <2>6, <3>2, <3>3, <3>4, <3>5
  <2>11. Len(u) - 1 = n
    BY <2>6, <2>7
  <2> QED BY <2>4, <2>10, <2>11 DEF Sorted
<1> QED BY <1>1, AlwaysChained, PTL DEF Spec, KeepsOrder
=============================================================================
