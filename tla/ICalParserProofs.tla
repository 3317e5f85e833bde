-------------------------- MODULE ICalParserProofs --------------------------
(***************************************************************************)
(* The line parser for every input: any number of lines, BEGINs and ENDs   *)
(* in any order.                                                           *)
(*                                                                         *)
(* The stack is never lower than the level (StackOK).  The heap is sound   *)
(* (OInv): lists of children and parent pointers agree, and the components *)
(* on the stack, the one closed last and the root are different and have   *)
(* no parent.  So no component has two owners, and the trees the parser    *)
(* frees have nothing in common with the one it returned.                  *)
(*                                                                         *)
(* While no END comes before its BEGIN, the stack lists the open           *)
(* components, each with what its lines left in it (NestInv).  What the    *)
(* lines say is stated of any sequence of lines, so that lemmas can        *)
(* compare the input with the input and one line more.                     *)
(***************************************************************************)
EXTENDS ICalParser, Induction, FiniteSetTheorems


\* The invariant: what is on the stack needs no more than to be counted.
StackOK == /\ stack \in Seq(Int)
           /\ level \in Int
           /\ input \in Seq(Lines)
           /\ StackCoversLevel /\ ParserIsClear

\* An END takes one component off a stack that has one.
LEMMA BelowIsShorter ==
  ASSUME stack \in Seq(Int)
  PROVE  /\ Below \in Seq(Int)
         /\ stack # <<>> => Len(Below) = Len(stack) - 1
         /\ stack = <<>> => Len(Below) = 0
<1>1. CASE stack = <<>>
  BY <1>1 DEF Below
<1>2. CASE stack # <<>>
  <2>1. PICK n \in Nat : Len(stack) = n + 1
    <3>1. Len(stack) \in Nat /\ Len(stack) # 0
      BY <1>2
    <3> QED BY <3>1
  <2>2. Below = SubSeq(stack, 1, n)
    BY <1>2, <2>1 DEF Below, Front
  <2>3. SubSeq(stack, 1, n) \in Seq(Int) /\ Len(SubSeq(stack, 1, n)) = n
    BY <2>1
  <2> QED BY <1>2, <2>1, <2>2, <2>3
<1> QED BY <1>1, <1>2

\* StackOK is inductive.  An END that is one too many finds both the stack
\* empty and the level at most 0, and lowers only the level.
LEMMA StepKeepsStack ==
  ASSUME StackOK, [Next]_vars
  PROVE  StackOK'
<1> USE DEF StackOK, StackCoversLevel, ParserIsClear
<1>1. ASSUME NEW line \in Lines, Begin(line) PROVE StackOK'
  <2>1. /\ input' = Append(input, line)
        /\ level' = level + 1
        /\ stack' = Append(stack, Len(input')) /\ state' = "BEGIN_COMP"
    BY <1>1 DEF Begin, Reads
  <2>2. Len(input') \in Int
    BY <2>1
  <2> QED BY <2>1, <2>2
<1>2. ASSUME NEW line \in Lines, Property(line) PROVE StackOK'
  <2>1. /\ input' = Append(input, line)
        /\ state' # "SUCCESS"
        /\ UNCHANGED <<level, stack>>
    BY <1>2 DEF Property, Reads
  <2> QED BY <2>1
<1>3. ASSUME EndInner, "end" \in Lines PROVE StackOK'
  BY <1>3, BelowIsShorter DEF EndInner, Reads
<1>4. ASSUME EndOuter, "end" \in Lines PROVE StackOK'
  BY <1>4 DEF EndOuter, Reads
<1>5. ASSUME FreeParser PROVE StackOK'
  BY <1>5 DEF FreeParser
<1>6. ASSUME UNCHANGED vars PROVE StackOK'
  BY <1>6 DEF vars
<1> QED BY <1>1, <1>2, <1>3, <1>4, <1>5, <1>6 DEF Next

\* However many lines there are and however the ENDs stand among the BEGINs,
\* an END that leads back to level 0 finds a component to return
\* (icalparser.c:784).
THEOREM LevelIsCovered == Spec => []StackCoversLevel
<1>1. Init => StackOK
  BY DEF Init, StackOK, StackCoversLevel, ParserIsClear
<1>2. StackOK /\ [Next]_vars => StackOK'
  BY StepKeepsStack
<1>3. StackOK => StackCoversLevel
  BY DEF StackOK
<1> QED BY <1>1, <1>2, <1>3, PTL DEF Spec

\* The assertions of icalparser_parse hold for every input: when it is handed
\* a component, the parser has no other one left (icalparser.c:627).
THEOREM ParserEndsClear == Spec => []ParserIsClear
<1>1. Init => StackOK
  BY DEF Init, StackOK, StackCoversLevel, ParserIsClear
<1>2. StackOK /\ [Next]_vars => StackOK'
  BY StepKeepsStack
<1>3. StackOK => ParserIsClear
  BY DEF StackOK
<1> QED BY <1>1, <1>2, <1>3, PTL DEF Spec

----------------------------------------------------------------------------
(* Owners.                                                                 *)

\* The kinds of a component.
Kinds == {"none", "VEVENT", "VTIMEZONE", "NO_COMPONENT", "XROOT"}
\* What a property is told apart by.
Marks == {"value", "empty", "error"}
\* A component.
Node == [kind : Kinds, parent : Ids \cup {Null}, props : Seq(Marks), kids : Seq(Ids)]

\* The lists of children are without doubles and agree with the parents.
OwnedBy(p, ks, h) ==
  /\ \A i, j \in 1..Len(ks) : ks[i] = ks[j] => i = j
  /\ \A i \in 1..Len(ks) : h[ks[i]].parent = p
  /\ \A c \in Ids : h[c].parent = p => \E i \in 1..Len(ks) : ks[i] = c

Owned(h) == \A p \in Ids : OwnedBy(p, h[p].kids, h)

\* A place on the heap that no component has yet.
Unused(h, i) == h[i].parent = Null /\ h[i].kids = <<>>

\* A heap with components 1 to n and a root.
Sound(h, n, r) ==
  /\ h \in [Ids -> Node]
  /\ Owned(h)
  /\ \A i \in Ids : i > n /\ i # r => Unused(h, i)
  /\ r # Null => h[r].parent = Null
  /\ r = XRoot => h[r].kind = "XROOT"

\* The parser's components are at most those on the stack and the one that was closed
\* last, and the caller's is none of them.
OInv ==
  /\ input \in Seq(Lines) /\ Len(input) <= MaxLines
  /\ root \in 1..Len(input) \cup {XRoot, Null}
  /\ Sound(comp, Len(input), root)
  /\ stack \in Seq(1..Len(input))
  /\ \A i, j \in 1..Len(stack) : stack[i] = stack[j] => i = j
  /\ \A i \in 1..Len(stack) : comp[stack[i]].parent = Null /\ stack[i] # root
  /\ current \in 1..Len(input) \cup {Null}
  /\ current # Null => current # root

\* What icalcomponent_add_component does to each component.
Longer(h, p, c) == IF h[c].kind = "VTIMEZONE" THEN <<c>> \o h[p].kids
                                              ELSE Append(h[p].kids, c)

\* Heap g is heap h with c added to p.
Attached(g, h, p, c) ==
  /\ g \in [Ids -> Node]
  /\ \A i \in Ids : /\ g[i].kind = h[i].kind /\ g[i].props = h[i].props
                    /\ g[i].parent = IF i = c THEN p ELSE h[i].parent
                    /\ g[i].kids = IF i = p THEN Longer(h, p, c) ELSE h[i].kids

\* A sequence with an element more, the order of the others left open.
Places(f, t, ks, n, c) ==
  /\ f \in [1..n + 1 -> 0..n]
  /\ \A i \in 1..n + 1 : t[i] = IF f[i] = 0 THEN c ELSE ks[f[i]]
  /\ \A i, j \in 1..n + 1 : f[i] = f[j] => i = j
  /\ \A k \in 0..n : \E i \in 1..n + 1 : f[i] = k

\* Sequence t has the n elements of ks and c.
HasMore(t, ks, n, c) == /\ t \in Seq(Ids) /\ Len(t) = n + 1
                        /\ \E f : Places(f, t, ks, n, c)

\* At the front or at the end, it is a child more.
LEMMA LongerKids ==
  ASSUME NEW h \in [Ids -> Node], NEW p \in Ids, NEW c \in Ids
  PROVE  HasMore(Longer(h, p, c), h[p].kids, Len(h[p].kids), c)
<1>1. PICK ks, n, t : ks = h[p].kids /\ n = Len(ks) /\ t = Longer(h, p, c)
  OBVIOUS
<1>2. ks \in Seq(Ids) /\ n \in Nat
  BY <1>1 DEF Node
<1>3. CASE h[c].kind = "VTIMEZONE"
  <2>1. PICK b : b = <<c>>
    OBVIOUS
  <2>2. b \in Seq(Ids) /\ Len(b) = 1 /\ b[1] = c
    BY <2>1
  <2>3. t = b \o ks
    BY <1>1, <1>3, <2>1 DEF Longer
  <2>4. /\ t \in Seq(Ids) /\ Len(t) = Len(b) + Len(ks)
        /\ \A i \in 1..Len(b) + Len(ks) : t[i] = IF i <= Len(b) THEN b[i] ELSE ks[i - Len(b)]
    BY <1>2, <2>2, <2>3, ConcatProperties
  <2>5. PICK f : f = [i \in 1..n + 1 |-> i - 1]
    OBVIOUS
  <2>6. f \in [1..n + 1 -> 0..n]
    BY <1>2, <2>5
  <2>7. ASSUME NEW i \in 1..n + 1 PROVE t[i] = IF f[i] = 0 THEN c ELSE ks[f[i]]
    <3>1. i \in 1..Len(b) + Len(ks) /\ f[i] = i - 1
      BY <1>1, <1>2, <2>2, <2>5
    <3>2. t[i] = IF i <= 1 THEN b[i] ELSE ks[i - 1]
      BY <2>2, <2>4, <3>1
    <3>3. i <= 1 <=> i = 1
      BY <1>2
    <3> QED BY <1>2, <2>2, <3>1, <3>2, <3>3
  <2>8. \A i, j \in 1..n + 1 : f[i] = f[j] => i = j
    BY <1>2, <2>5
  <2>9. ASSUME NEW k \in 0..n PROVE \E i \in 1..n + 1 : f[i] = k
    <3>1. k + 1 \in 1..n + 1 /\ (k + 1) - 1 = k
      BY <1>2
    <3> QED BY <2>5, <3>1
  <2>10. Len(t) = n + 1
    BY <1>1, <1>2, <2>2, <2>4
  <2>11. Places(f, t, ks, n, c)
    BY <2>6, <2>7, <2>8, <2>9 DEF Places
  <2> QED BY <1>1, <2>4, <2>10, <2>11 DEF HasMore
<1>4. CASE h[c].kind # "VTIMEZONE"
  <2>1. t = Append(ks, c)
    BY <1>1, <1>4 DEF Longer
  <2>2. /\ t \in Seq(Ids) /\ Len(t) = n + 1
        /\ \A i \in 1..n : t[i] = ks[i]
        /\ t[n + 1] = c
    BY <1>1, <1>2, <2>1, AppendProperties
  <2>3. PICK f : f = [i \in 1..n + 1 |-> IF i = n + 1 THEN 0 ELSE i]
    OBVIOUS
  <2>4. f \in [1..n + 1 -> 0..n]
    BY <1>2, <2>3
  <2>5. ASSUME NEW i \in 1..n + 1 PROVE t[i] = IF f[i] = 0 THEN c ELSE ks[f[i]]
    <3>1. CASE i = n + 1
      BY <1>2, <2>2, <2>3, <3>1
    <3>2. CASE i # n + 1
      <4>1. i \in 1..n /\ f[i] = i /\ i # 0
        BY <1>2, <2>3, <3>2
      <4> QED BY <2>2, <4>1
    <3> QED BY <3>1, <3>2
  <2>6. \A i, j \in 1..n + 1 : f[i] = f[j] => i = j
    BY <1>2, <2>3
  <2>7. ASSUME NEW k \in 0..n PROVE \E i \in 1..n + 1 : f[i] = k
    <3>1. CASE k = 0
      BY <1>2, <2>3, <3>1
    <3>2. CASE k # 0
      <4>1. k \in 1..n + 1 /\ k # n + 1
        BY <1>2, <3>2
      <4> QED BY <2>3, <4>1
    <3> QED BY <3>1, <3>2
  <2>8. Places(f, t, ks, n, c)
    BY <2>4, <2>5, <2>6, <2>7 DEF Places
  <2> QED BY <1>1, <2>2, <2>8 DEF HasMore
<1> QED BY <1>3, <1>4

\* What icalcomponent_add_component changes.
LEMMA AttachDoes ==
  ASSUME NEW h \in [Ids -> Node], NEW p \in Ids, NEW c \in Ids
  PROVE  Attached(Attach(h, p, c), h, p, c)
<1>1. PICK l : l = Longer(h, p, c)
  OBVIOUS
<1>2. l \in Seq(Ids)
  BY <1>1, LongerKids DEF HasMore
<1>3. PICK g : g = [h EXCEPT ![c].parent = p, ![p].kids = l]
  OBVIOUS
<1>4. Attach(h, p, c) = g
  BY <1>1, <1>3 DEF Attach, Longer
<1>5. g \in [Ids -> Node]
  BY <1>2, <1>3 DEF Node
<1>6. \A i \in Ids : /\ g[i].kind = h[i].kind /\ g[i].props = h[i].props
                     /\ g[i].parent = IF i = c THEN p ELSE h[i].parent
                     /\ g[i].kids = IF i = p THEN l ELSE h[i].kids
  BY <1>2, <1>3 DEF Node
<1> QED BY <1>1, <1>4, <1>5, <1>6 DEF Attached

\* A component without a parent may be added to any other one.
LEMMA AttachKeepsSound ==
  ASSUME NEW h, NEW n \in 0..MaxLines, NEW r \in 1..n \cup {XRoot, Null}, Sound(h, n, r),
         NEW p \in Ids, p <= n \/ p = r, NEW c \in 1..n, c # r, h[c].parent = Null
  PROVE  Sound(Attach(h, p, c), n, r)
<1>1. PICK g : g = Attach(h, p, c)
  OBVIOUS
<1>2. MaxLines \in Nat /\ c \in Ids /\ h \in [Ids -> Node] /\ p # Null
  BY MaxLinesAssumption, NullIsNoNumber DEF Sound, Ids, XRoot
<1>3. Attached(g, h, p, c)
  BY <1>1, <1>2, AttachDoes
<1>4. \A i \in Ids : i # c => g[i].parent = h[i].parent
  BY <1>3 DEF Attached
<1>5. g[c].parent = p
  BY <1>2, <1>3 DEF Attached
<1>6. \A i \in Ids : i # p => g[i].kids = h[i].kids
  BY <1>3 DEF Attached
<1>7. PICK ks, m, l : ks = h[p].kids /\ m = Len(ks) /\ l = g[p].kids
  OBVIOUS
<1>8. l \in Seq(Ids) /\ Len(l) = m + 1 /\ \E f : Places(f, l, ks, m, c)
  <2>1. l = Longer(h, p, c)
    BY <1>3, <1>7 DEF Attached
  <2>2. HasMore(l, ks, m, c)
    BY <1>2, <1>7, <2>1, LongerKids
  <2> QED BY <2>2 DEF HasMore
<1>f. PICK f : Places(f, l, ks, m, c)
  BY <1>8
<1>e. /\ f \in [1..m + 1 -> 0..m]
      /\ \A i \in 1..m + 1 : l[i] = IF f[i] = 0 THEN c ELSE ks[f[i]]
      /\ \A i, j \in 1..m + 1 : f[i] = f[j] => i = j
      /\ \A k \in 0..m : \E i \in 1..m + 1 : f[i] = k
  BY <1>f DEF Places
<1>o. OwnedBy(p, ks, h)
  BY <1>2, <1>7 DEF Sound, Owned
<1>9. m \in Nat /\ \A i \in 1..m : ks[i] \in Ids
  BY <1>2, <1>7 DEF Node
<1>10. \A k \in 1..m : ks[k] # c
  BY <1>2, <1>7, <1>o, NullIsNoNumber DEF OwnedBy
<1>11. Owned(g)
  <2>1. ASSUME NEW q \in Ids, q # p PROVE OwnedBy(q, g[q].kids, g)
    <3>1. PICK qs : qs = h[q].kids
      OBVIOUS
    <3>2. g[q].kids = qs /\ qs \in Seq(Ids)
      BY <1>2, <1>6, <2>1, <3>1 DEF Node
    <3>3. OwnedBy(q, qs, h)
      BY <3>1 DEF Sound, Owned
    <3>4. q # Null
      BY <1>2, NullIsNoNumber DEF Ids, XRoot
    <3>5. \A i \in 1..Len(qs) : qs[i] \in Ids /\ qs[i] # c
      BY <3>2, <3>3, <3>4 DEF OwnedBy
    <3>6. \A i \in 1..Len(qs) : g[qs[i]].parent = q
      BY <1>4, <3>3, <3>5 DEF OwnedBy
    <3>7. \A d \in Ids : g[d].parent = q => h[d].parent = q
      BY <1>4, <1>5, <2>1
    <3>8. OwnedBy(q, qs, g)
      BY <3>3, <3>6, <3>7 DEF OwnedBy
    <3> QED BY <3>2, <3>8
  <2>2. \A i, j \in 1..m + 1 : l[i] = l[j] => i = j
    <3>1. \A i \in 1..m + 1 : f[i] # 0 => f[i] \in 1..m
      BY <1>9, <1>e
    <3>2. ASSUME NEW i \in 1..m + 1, NEW j \in 1..m + 1, f[i] # 0, f[j] # 0, l[i] = l[j]
          PROVE  f[i] = f[j]
      <4>1. f[i] \in 1..m /\ f[j] \in 1..m /\ ks[f[i]] = ks[f[j]]
        BY <1>e, <3>1, <3>2
      <4> QED BY <1>7, <1>o, <4>1 DEF OwnedBy
    <3>3. \A i, j \in 1..m + 1 : f[i] = 0 /\ f[j] # 0 => l[i] # l[j]
      BY <1>e, <1>10, <3>1
    <3>4. ASSUME NEW i \in 1..m + 1, NEW j \in 1..m + 1, l[i] = l[j] PROVE f[i] = f[j]
      BY <3>2, <3>3, <3>4
    <3> QED BY <1>e, <3>4
  <2>3. ASSUME NEW i \in 1..m + 1 PROVE g[l[i]].parent = p
    <3>1. CASE f[i] = 0
      BY <1>5, <1>e, <3>1
    <3>2. CASE f[i] # 0
      <4>1. f[i] \in 1..m
        BY <1>9, <1>e, <3>2
      <4>2. l[i] = ks[f[i]] /\ ks[f[i]] # c /\ ks[f[i]] \in Ids
        BY <1>e, <1>9, <1>10, <3>2, <4>1
      <4>3. h[ks[f[i]]].parent = p
        BY <1>7, <1>o, <4>1 DEF OwnedBy
      <4> QED BY <1>4, <4>2, <4>3
    <3> QED BY <3>1, <3>2
  <2>4. ASSUME NEW d \in Ids, g[d].parent = p PROVE \E i \in 1..m + 1 : l[i] = d
    <3>1. CASE d = c
      <4>1. 0 \in 0..m
        BY <1>9
      <4>2. PICK i \in 1..m + 1 : f[i] = 0
        BY <1>e, <4>1
      <4> QED BY <1>e, <3>1, <4>2
    <3>2. CASE d # c
      <4>1. h[d].parent = p
        BY <1>4, <2>4, <3>2
      <4>2. PICK k \in 1..m : ks[k] = d
        BY <1>7, <1>o, <4>1 DEF OwnedBy
      <4>3. k \in 0..m /\ k # 0
        BY <1>9
      <4>4. PICK i \in 1..m + 1 : f[i] = k
        BY <1>e, <4>3
      <4> QED BY <1>e, <4>2, <4>3, <4>4
    <3> QED BY <3>1, <3>2
  <2>5. OwnedBy(p, l, g)
    BY <1>8, <2>2, <2>3, <2>4 DEF OwnedBy
  <2> QED BY <1>7, <2>1, <2>5 DEF Owned
<1>12. ASSUME NEW i \in Ids, i > n, i # r PROVE Unused(g, i)
  <2>1. i # p
    BY <1>2, <1>12 DEF Ids, XRoot
  <2>2. i # c
    BY <1>2, <1>12
  <2>3. Unused(h, i)
    BY <1>12 DEF Sound
  <2> QED BY <1>4, <1>6, <2>1, <2>2, <2>3 DEF Unused
<1>13. r # Null => r \in Ids
  BY <1>2 DEF Ids, XRoot
<1>14. r # Null => g[r].parent = Null
  BY <1>4, <1>13 DEF Sound
<1>15. r = XRoot => g[r].kind = "XROOT"
  <2>1. XRoot \in Ids /\ (r = XRoot => h[XRoot].kind = "XROOT")
    BY <1>2 DEF Ids, XRoot, Sound
  <2> QED BY <1>3, <2>1 DEF Attached
<1>16. g \in [Ids -> Node]
  BY <1>3 DEF Attached
<1> QED BY <1>1, <1>11, <1>12, <1>14, <1>15, <1>16 DEF Sound

\* Adding properties changes no list of children.
LEMMA MarkKeepsSound ==
  ASSUME NEW h, NEW n \in 0..MaxLines, NEW r \in 1..n \cup {XRoot, Null}, Sound(h, n, r),
         NEW c \in 1..n, NEW ms \in Seq(Marks)
  PROVE  /\ Sound(WithProps(h, c, ms), n, r)
         /\ \A i \in Ids : WithProps(h, c, ms)[i].parent = h[i].parent
<1>1. PICK g : g = WithProps(h, c, ms)
  OBVIOUS
<1>2. MaxLines \in Nat /\ c \in Ids /\ h \in [Ids -> Node]
  BY MaxLinesAssumption DEF Sound, Ids, XRoot
<1>3. h[c].props \o ms \in Seq(Marks)
  BY <1>2, ConcatProperties DEF Node
<1>4. g \in [Ids -> Node]
  BY <1>1, <1>2, <1>3 DEF WithProps, Node
<1>5. \A i \in Ids : g[i].parent = h[i].parent /\ g[i].kids = h[i].kids /\ g[i].kind = h[i].kind
  BY <1>1, <1>2 DEF WithProps, Node
<1>6. Owned(g)
  <2>1. ASSUME NEW p \in Ids PROVE OwnedBy(p, g[p].kids, g)
    <3>1. PICK ks : ks = h[p].kids
      OBVIOUS
    <3>2. OwnedBy(p, ks, h) /\ ks \in Seq(Ids)
      BY <1>2, <3>1 DEF Sound, Owned, Node
    <3>3. \A i \in 1..Len(ks) : ks[i] \in Ids
      BY <3>2
    <3>4. OwnedBy(p, ks, g)
      BY <1>5, <3>2, <3>3 DEF OwnedBy
    <3> QED BY <1>5, <3>1, <3>4
  <2> QED BY <2>1 DEF Owned
<1>7. \A i \in Ids : i > n /\ i # r => Unused(g, i)
  BY <1>5 DEF Sound, Unused
<1>8. r # Null => r \in Ids
  BY <1>2 DEF Ids, XRoot
<1>9. r # Null => g[r].parent = Null
  BY <1>5, <1>8 DEF Sound
<1>10. r = XRoot => g[r].kind = "XROOT"
  <2>1. XRoot \in Ids
    BY <1>2 DEF Ids, XRoot
  <2> QED BY <1>5, <2>1 DEF Sound
<1> QED BY <1>1, <1>4, <1>5, <1>6, <1>7, <1>9, <1>10 DEF Sound

\* A set of heaps that each step of icalparser_clean stays in has what comes out.
LEMMA CleanStays ==
  ASSUME NEW V, NEW heap \in V, NEW s \in Seq(Ids),
         \A h \in V : \A i \in 1..Len(s) : CloseOne(h, s, i) \in V
  PROVE  Clean(heap, s) \in V
<1>1. PICK n : n = Len(s)
  OBVIOUS
<1>2. n \in Nat
  BY <1>1
<1>3. PICK T : T = [k \in 1..n |-> [h \in V |-> CloseOne(h, s, n + 1 - k)]]
  OBVIOUS
<1>4. T \in Steps(V, n)
  <2>1. \A k \in 1..n : n + 1 - k \in 1..n
    BY <1>2
  <2>2. \A k \in 1..n, h \in V : CloseOne(h, s, n + 1 - k) \in V
    BY <1>1, <2>1
  <2> QED BY <1>3, <2>2 DEF Steps
<1>5. PICK f : Follows(f, V, heap, n, T)
  BY <1>2, <1>4, PrefixRecursion
<1> DEFINE Is(g) == g = [k \in 0..n |-> IF k = 0 THEN heap ELSE CloseOne(g[k - 1], s, n + 1 - k)]
<1>6. \E g : Is(g)
  <2>1. PICK w : w = [k \in 0..n |-> f[k]]
    OBVIOUS
  <2>2. ASSUME NEW k \in 0..n
        PROVE  w[k] = IF k = 0 THEN heap ELSE CloseOne(w[k - 1], s, n + 1 - k)
    <3>1. CASE k = 0
      BY <1>5, <2>1, <3>1 DEF Follows
    <3>2. CASE k # 0
      <4>1. k \in 1..n /\ k - 1 \in 0..n
        BY <1>2, <3>2
      <4>2. f[k] = T[k][f[k - 1]] /\ f[k - 1] \in V
        BY <1>5, <4>1 DEF Follows
      <4>3. T[k][f[k - 1]] = CloseOne(f[k - 1], s, n + 1 - k)
        BY <1>3, <4>1, <4>2
      <4> QED BY <2>1, <3>2, <4>1, <4>2, <4>3
    <3> QED BY <3>1, <3>2
  <2>3. w = [k \in 0..n |-> w[k]]
    BY <2>1
  <2>4. Is(w)
    BY <2>2, <2>3
  <2> QED BY <2>4
<1> HIDE DEF Is
<1>7. PICK g : g[n] = Clean(heap, s) /\ Is(g)
  <2> DEFINE g == CHOOSE g : Is(g)
  <2>1. Is(g)
    BY <1>6
  <2>2. g[n] = Clean(heap, s)
    BY <1>1 DEF Clean, Is
  <2> HIDE DEF g
  <2> QED BY <2>1, <2>2
<1>8. \A k \in 0..n : g[k] = IF k = 0 THEN heap ELSE CloseOne(g[k - 1], s, n + 1 - k)
  <2>1. g = [k \in 0..n |-> IF k = 0 THEN heap ELSE CloseOne(g[k - 1], s, n + 1 - k)]
    BY <1>7 DEF Is
  <2> QED BY <2>1, Zenon
<1> DEFINE S == {m \in Nat : m <= n => g[m] \in V}
<1>9. 0 \in S
  BY <1>2, <1>8
<1>10. ASSUME NEW m \in Nat, m \in S PROVE m + 1 \in S
  <2> SUFFICES ASSUME m + 1 <= n PROVE g[m + 1] \in V
    OBVIOUS
  <2>1. m + 1 \in 0..n /\ m + 1 # 0 /\ (m + 1) - 1 = m /\ m <= n /\ n + 1 - (m + 1) \in 1..n
    BY <1>2
  <2>2. g[m] \in V
    BY <1>10, <2>1
  <2>3. g[m + 1] = CloseOne(g[m], s, n + 1 - (m + 1))
    BY <1>8, <2>1
  <2> QED BY <1>1, <2>1, <2>2, <2>3
<1> HIDE DEF S
<1>11. n \in S
  BY <1>2, <1>9, <1>10, InductionOnNat
<1> QED BY <1>2, <1>7, <1>11 DEF S

\* icalparser_clean leaves the tree sound and the lowest component to its caller.
LEMMA CleanKeepsSound ==
  ASSUME NEW h, NEW n \in 0..MaxLines, NEW r \in 1..n \cup {XRoot, Null}, Sound(h, n, r),
         NEW s \in Seq(1..n), s # <<>>, h[s[1]].parent = Null,
         \A i, j \in 1..Len(s) : s[i] = s[j] => i = j,
         \A i \in 1..Len(s) : s[i] # r
  PROVE  Sound(Clean(h, s), n, r) /\ Clean(h, s)[s[1]].parent = Null
<1>1. PICK m, c : m = Len(s) /\ c = s[1]
  OBVIOUS
<1>2. /\ m \in Nat /\ m # 0 /\ 1 \in 1..m /\ s \in Seq(Ids) /\ MaxLines \in Nat /\ c \in Ids
      /\ \A i \in 1..m : s[i] \in 1..n /\ s[i] \in Ids /\ s[i] # r
      /\ \A i \in 1..m : i # 1 => s[i] # c
  <2>1. MaxLines \in Nat
    BY MaxLinesAssumption
  <2>2. 1..n \subseteq Ids
    BY <2>1 DEF Ids, XRoot
  <2>3. m \in Nat /\ m # 0
    BY <1>1
  <2>4. 1 \in 1..m /\ \A i \in 1..m : s[i] \in 1..n
    BY <1>1, <2>3
  <2>5. s \in Seq(Ids)
    BY <2>2
  <2> QED BY <1>1, <2>1, <2>2, <2>3, <2>4, <2>5
<1>3. PICK V : V = {g \in [Ids -> Node] : Sound(g, n, r) /\ g[c].parent = Null}
  OBVIOUS
<1>4. h \in V
  BY <1>1, <1>3 DEF Sound
<1>5. ASSUME NEW g \in V, NEW i \in 1..m PROVE CloseOne(g, s, i) \in V
  <2>1. Sound(g, n, r) /\ g[c].parent = Null
    BY <1>3
  <2>2. PICK k : k = WithProps(g, s[i], <<"error">>)
    OBVIOUS
  <2>3. /\ Sound(k, n, r)
        /\ \A j \in Ids : k[j].parent = g[j].parent
    <3>1. <<"error">> \in Seq(Marks)
      BY DEF Marks
    <3> QED BY ZenonT(30), <1>2, <2>1, <2>2, <3>1, MarkKeepsSound
  <2>4. k \in [Ids -> Node] /\ k[c].parent = Null
    BY <1>2, <2>1, <2>3 DEF Sound
  <2>5. CASE i = 1 \/ k[s[i]].parent # Null
    <3>1. CloseOne(g, s, i) = k
      BY <2>2, <2>5 DEF CloseOne
    <3> QED BY <1>3, <2>3, <2>4, <3>1
  <2>6. CASE ~(i = 1 \/ k[s[i]].parent # Null)
    <3>1. PICK p, d, a : p = s[i - 1] /\ d = s[i] /\ a = Attach(k, p, d)
      OBVIOUS
    <3>2. CloseOne(g, s, i) = a
      BY <2>2, <2>6, <3>1 DEF CloseOne
    <3>3. i - 1 \in 1..m
      BY <1>2, <2>6
    <3>4. /\ p \in Ids /\ p \in 1..n /\ d \in 1..n /\ d \in Ids /\ d # r /\ d # c
          /\ k[d].parent = Null
      BY <1>2, <2>6, <3>1, <3>3
    <3>5. p <= n
      BY <3>4
    <3>6. Sound(a, n, r)
      BY <2>3, <3>1, <3>4, <3>5, AttachKeepsSound
    <3>7. Attached(a, k, p, d)
      BY <2>4, <3>1, <3>4, AttachDoes
    <3>8. a \in [Ids -> Node] /\ a[c].parent = Null
      BY <1>2, <2>4, <3>4, <3>7 DEF Attached
    <3> QED BY <1>3, <3>2, <3>6, <3>8
  <2> QED BY <2>5, <2>6
<1>6. Clean(h, s) \in V
  BY <1>1, <1>2, <1>4, <1>5, CleanStays
<1> QED BY <1>1, <1>3, <1>6

----------------------------------------------------------------------------
(* What each line does to them.                                            *)

\* What the stack is after an END.
LEMMA BelowIs ==
  ASSUME NEW S, stack \in Seq(S), stack # <<>>
  PROVE  /\ Len(stack) \in Nat /\ Len(stack) # 0
         /\ Top(stack) = stack[Len(stack)]
         /\ Below \in Seq(S) /\ Len(Below) = Len(stack) - 1
         /\ \A i \in 1..Len(stack) - 1 : Below[i] = stack[i]
         /\ Below = <<>> <=> Len(stack) = 1
         /\ Below # <<>> => Last(Below) = stack[Len(stack) - 1]
<1>1. PICK n : n = Len(stack)
  OBVIOUS
<1>2. n \in Nat /\ n # 0 /\ \A i \in 1..n : stack[i] \in S
  BY <1>1
<1>3. Top(stack) = stack[n]
  BY <1>1 DEF Top, Last
<1>4. Below = SubSeq(stack, 1, n - 1)
  BY <1>1 DEF Below, Front
<1>5. Below \in Seq(S) /\ Len(Below) = n - 1 /\ \A i \in 1..n - 1 : Below[i] = stack[i]
  <2>1. 1 \in Int /\ n - 1 \in Int /\ \A i \in 1..n - 1 : stack[i] \in S
    BY <1>2
  <2>2. /\ SubSeq(stack, 1, n - 1) \in Seq(S)
        /\ Len(SubSeq(stack, 1, n - 1)) = IF 1 <= n - 1 THEN n - 1 - 1 + 1 ELSE 0
        /\ \A i \in 1..n - 1 - 1 + 1 : SubSeq(stack, 1, n - 1)[i] = stack[1 + i - 1]
    BY <2>1, SubSeqProperties
  <2> QED BY <1>2, <1>4, <2>2
<1>6. Below = <<>> <=> n = 1
  BY <1>2, <1>5, EmptySeq
<1>7. Below # <<>> => Last(Below) = stack[n - 1]
  <2>1. Below # <<>> => n - 1 \in 1..n - 1
    BY <1>2, <1>6
  <2> QED BY <1>5, <2>1 DEF Last
<1> QED BY <1>1, <1>2, <1>3, <1>5, <1>6, <1>7

\* A component made anew.
Renewed(g, h, i, kind) ==
  /\ g \in [Ids -> Node] /\ Owned(g)
  /\ \A j \in Ids : /\ g[j].parent = h[j].parent /\ g[j].kids = h[j].kids
                    /\ g[j].kind = IF j = i THEN kind ELSE h[j].kind

\* An unused place may get a component.
LEMMA NewKeepsOwned ==
  ASSUME NEW h \in [Ids -> Node], Owned(h), NEW i \in Ids, Unused(h, i), NEW kind \in Kinds
  PROVE  Renewed([h EXCEPT ![i] = New(kind)], h, i, kind)
<1>1. PICK g, e : g = [h EXCEPT ![i] = e] /\ e = New(kind)
  OBVIOUS
<1>2. e.parent = Null /\ e.kids = <<>> /\ e.kind = kind /\ e \in Node
  BY <1>1, EmptySeq DEF New, Node
<1>3. g \in [Ids -> Node] /\ \A j \in Ids : g[j] = IF j = i THEN e ELSE h[j]
  BY <1>1, <1>2
<1>4. \A j \in Ids : /\ g[j].parent = h[j].parent /\ g[j].kids = h[j].kids
                     /\ g[j].kind = IF j = i THEN kind ELSE h[j].kind
  BY <1>2, <1>3 DEF Unused
<1>5. ASSUME NEW p \in Ids PROVE OwnedBy(p, g[p].kids, g)
  <2>1. PICK ks : ks = h[p].kids
    OBVIOUS
  <2>2. OwnedBy(p, ks, h) /\ ks \in Seq(Ids)
    BY <2>1 DEF Owned, Node
  <2>3. \A k \in 1..Len(ks) : ks[k] \in Ids
    BY <2>2
  <2>4. OwnedBy(p, ks, g)
    BY <1>4, <2>2, <2>3 DEF OwnedBy
  <2> QED BY <1>4, <2>1, <2>4
<1>6. Owned(g)
  BY <1>5 DEF Owned
<1> QED BY <1>1, <1>3, <1>4, <1>6 DEF Renewed

\* A line without a component leaves the heap sound.
LEMMA LaterIsSound ==
  ASSUME NEW h, NEW n \in Nat, NEW r, Sound(h, n, r)
  PROVE  Sound(h, n + 1, r)
<1>1. \A i \in Ids : i > n + 1 => i > n
  BY DEF Ids
<1> QED BY <1>1 DEF Sound

\* What icalparser_parse makes of a component.
LEMMA CollectKeepsSound ==
  ASSUME NEW h, NEW n \in 0..MaxLines, root \in 1..n \cup {XRoot, Null}, Sound(h, n, root),
         NEW c \in 1..n, c # root, h[c].parent = Null
  PROVE  /\ Container(h, c) \in 1..n \cup {XRoot}
         /\ Sound(Collect(h, c), n, Container(h, c))
<1>1. /\ MaxLines \in Nat /\ XRoot \in Ids /\ 1..n \subseteq Ids /\ XRoot \notin 1..n
      /\ Null \notin Ids /\ h \in [Ids -> Node] /\ n \in Nat /\ XRoot # Null
  BY MaxLinesAssumption, NullIsNoNumber DEF Ids, XRoot, Sound
<1>2. CASE root = Null
  <2>1. Container(h, c) = c /\ Collect(h, c) = h
    BY <1>2 DEF Container, Collect
  <2>2. Sound(h, n, c)
    BY <1>1, <1>2 DEF Sound
  <2> QED BY <2>1, <2>2
<1>3. CASE root # Null /\ h[root].kind = "XROOT"
  <2>1. Container(h, c) = root /\ Collect(h, c) = Attach(h, root, c)
    BY <1>3 DEF Container, Collect
  <2>2. root \in Ids
    BY <1>1, <1>3
  <2>3. Sound(Attach(h, root, c), n, root)
    BY <2>2, AttachKeepsSound
  <2> QED BY <1>3, <2>1, <2>3
<1>4. CASE root # Null /\ h[root].kind # "XROOT"
  <2>1. PICK h0, h1 : h0 = [h EXCEPT ![XRoot] = New("XROOT")] /\ h1 = Attach(h0, XRoot, root)
    OBVIOUS
  <2>2. Container(h, c) = XRoot /\ Collect(h, c) = Attach(h1, XRoot, c)
    BY <1>4, <2>1 DEF Container, Collect
  <2>3. root \in 1..n /\ root # XRoot /\ XRoot > n
    <3>1. root # XRoot
      BY <1>4 DEF Sound
    <3>2. XRoot > n
      BY <1>1 DEF XRoot
    <3> QED BY <1>4, <3>1, <3>2
  <2>4. Unused(h, XRoot)
    BY <1>1, <2>3 DEF Sound
  <2>5. /\ h0 \in [Ids -> Node] /\ Owned(h0)
        /\ \A j \in Ids : /\ h0[j].parent = h[j].parent /\ h0[j].kids = h[j].kids
                          /\ h0[j].kind = IF j = XRoot THEN "XROOT" ELSE h[j].kind
    <3>1. "XROOT" \in Kinds /\ Owned(h)
      BY DEF Kinds, Sound
    <3>2. Renewed(h0, h, XRoot, "XROOT")
      BY <1>1, <2>1, <2>4, <3>1, NewKeepsOwned
    <3> QED BY <3>2 DEF Renewed
  <2>6. Sound(h0, n, XRoot)
    <3>1. \A i \in Ids : i > n /\ i # XRoot => Unused(h0, i)
      <4>1. \A i \in Ids : i > n /\ i # XRoot => i # root
        BY <1>1, <2>3
      <4> QED BY <2>5, <4>1 DEF Sound, Unused
    <3>2. h0[XRoot].parent = Null /\ h0[XRoot].kind = "XROOT"
      BY <1>1, <2>4, <2>5 DEF Unused
    <3> QED BY <2>5, <3>1, <3>2 DEF Sound
  <2>7. h0[root].parent = Null /\ h0[c].parent = Null
    BY <1>1, <1>4, <2>3, <2>5 DEF Sound
  <2>8. Sound(h1, n, XRoot) /\ h1[c].parent = Null
    <3>1. Sound(h1, n, XRoot)
      BY <1>1, <2>1, <2>3, <2>6, <2>7, AttachKeepsSound
    <3>2. Attached(h1, h0, XRoot, root)
      BY <1>1, <2>1, <2>3, <2>5, AttachDoes
    <3> QED BY <1>1, <2>7, <3>1, <3>2 DEF Attached
  <2>9. c # XRoot
    BY <1>1
  <2>10. Sound(Attach(h1, XRoot, c), n, XRoot)
    BY <1>1, <2>8, <2>9, AttachKeepsSound
  <2> QED BY <2>2, <2>10
<1> QED BY <1>2, <1>3, <1>4

\* Before the first line there is nothing.
LEMMA InitOwned == Init => OInv
<1> SUFFICES ASSUME Init PROVE OInv
  OBVIOUS
<1>1. MaxLines \in Nat /\ Null \notin Ids /\ XRoot # Null
  BY MaxLinesAssumption, NullIsNoNumber DEF Ids, XRoot
<1>2. /\ input = <<>> /\ input \in Seq(Lines) /\ Len(input) = 0 /\ stack = <<>> /\ Len(stack) = 0
      /\ root = Null /\ current = Null
  BY DEF Init
<1>3. PICK e : e = New("none")
  OBVIOUS
<1>4. e \in Node /\ e.parent = Null /\ e.kids = <<>> /\ Len(e.kids) = 0
  BY <1>3, EmptySeq DEF New, Node, Kinds
<1>5. comp = [i \in Ids |-> e]
  BY <1>3 DEF Init
<1>6. comp \in [Ids -> Node] /\ \A i \in Ids : comp[i] = e
  BY <1>4, <1>5
<1>7. ASSUME NEW p \in Ids PROVE OwnedBy(p, comp[p].kids, comp)
  <2>1. p # Null
    BY <1>1
  <2> QED BY <1>4, <1>6, <2>1 DEF OwnedBy
<1>8. Sound(comp, 0, Null)
  BY <1>1, <1>4, <1>6, <1>7 DEF Sound, Owned, Unused
<1>9. stack \in Seq(1..0)
  BY <1>2, EmptySeq
<1> QED BY <1>1, <1>2, <1>8, <1>9 DEF OInv

\* A line is one more.
LEMMA LineIsRead ==
  ASSUME OInv, NEW line \in Lines, Reads(line),
         NEW n, n = Len(input), NEW m, m = n + 1
  PROVE  /\ input' = Append(input, line) /\ input' \in Seq(Lines) /\ Len(input') = m
         /\ n \in 0..MaxLines /\ n \in Nat /\ m \in 1..MaxLines /\ m <= MaxLines
         /\ XRoot \in Ids /\ m \in Ids /\ 1..m \subseteq Ids /\ 1..n \subseteq 1..m
         /\ 1..n \subseteq Ids
         /\ m \notin 1..n \cup {XRoot, Null} /\ Null \notin 1..m
<1>1. /\ input \in Seq(Lines) /\ input' = Append(input, line) /\ Len(input) < MaxLines
      /\ MaxLines \in Nat
  BY MaxLinesAssumption DEF OInv, Reads
<1>2. n \in Nat /\ input' \in Seq(Lines) /\ Len(input') = m
  BY <1>1
<1>3. Null \notin Nat
  BY NullIsNoNumber
<1> QED BY <1>1, <1>2, <1>3 DEF Ids, XRoot

\* A BEGIN puts a component nobody has onto the stack.
LEMMA BeginKeepsOwned ==
  ASSUME OInv, NEW line \in Lines, Begin(line)
  PROVE  OInv'
<1>1. PICK n, m : n = Len(input) /\ m = n + 1
  OBVIOUS
<1>2. /\ input' \in Seq(Lines) /\ Len(input') = m
      /\ n \in 0..MaxLines /\ n \in Nat /\ m \in 1..MaxLines /\ m <= MaxLines
      /\ XRoot \in Ids /\ m \in Ids /\ 1..m \subseteq Ids /\ 1..n \subseteq 1..m
      /\ m \notin 1..n \cup {XRoot, Null}
  BY <1>1, LineIsRead DEF Begin
<1>3. PICK k : k = KindOf(line)
  OBVIOUS
<1>4. k \in Kinds
  BY <1>3 DEF Begin, KindOf, Kinds
<1>5. /\ comp' = [comp EXCEPT ![m] = New(k)] /\ stack' = Append(stack, m)
      /\ current' = current /\ root' = root
  BY <1>2, <1>3 DEF Begin
<1>6. Sound(comp, n, root) /\ root \in 1..n \cup {XRoot, Null}
  BY <1>1 DEF OInv
<1>7. Unused(comp, m)
  BY <1>1, <1>2, <1>6 DEF Sound
<1>8. /\ comp' \in [Ids -> Node] /\ Owned(comp')
      /\ \A j \in Ids : /\ comp'[j].parent = comp[j].parent /\ comp'[j].kids = comp[j].kids
                        /\ comp'[j].kind = IF j = m THEN k ELSE comp[j].kind
  <2>1. comp \in [Ids -> Node] /\ Owned(comp)
    BY <1>6 DEF Sound
  <2>2. m \in Ids
    BY <1>2
  <2>3. Renewed([comp EXCEPT ![m] = New(k)], comp, m, k)
    BY <1>4, <1>7, <2>1, <2>2, NewKeepsOwned
  <2> QED BY <1>5, <2>3 DEF Renewed
<1>9. Sound(comp', m, root)
  <2>1. \A i \in Ids : i > m /\ i # root => Unused(comp', i)
    <3>1. \A i \in Ids : i > m => i > n
      BY <1>1, <1>2 DEF Ids
    <3> QED BY <1>6, <1>8, <3>1 DEF Sound, Unused
  <2>2. root # Null => root \in Ids
    BY <1>2, <1>6
  <2>3. root # Null => comp'[root].parent = Null
    BY <1>6, <1>8, <2>2 DEF Sound
  <2>4. root = XRoot => comp'[root].kind = "XROOT"
    BY <1>2, <1>6, <1>8, <2>2 DEF Sound
  <2> QED BY <1>8, <2>1, <2>3, <2>4 DEF Sound
<1>10. PICK l, t : l = Len(stack) /\ t = stack'
  OBVIOUS
<1>11. /\ stack \in Seq(1..n) /\ l \in Nat /\ \A i \in 1..l : stack[i] \in 1..n
       /\ \A i, j \in 1..l : stack[i] = stack[j] => i = j
       /\ \A i \in 1..l : comp[stack[i]].parent = Null /\ stack[i] # root
  BY <1>1, <1>10 DEF OInv
<1>12. /\ t \in Seq(1..m) /\ Len(t) = l + 1 /\ t[l + 1] = m
       /\ \A i \in 1..l : t[i] = stack[i]
  <2>1. stack \in Seq(1..m) /\ m \in 1..m
    BY <1>2, <1>11
  <2> QED BY <1>5, <1>10, <2>1, AppendProperties
<1>13. \A i, j \in 1..l + 1 : t[i] = t[j] => i = j
  BY SMTT(30), <1>2, <1>11, <1>12
<1>14. ASSUME NEW i \in 1..l + 1 PROVE comp'[t[i]].parent = Null /\ t[i] # root
  <2>1. CASE i = l + 1
    BY <1>2, <1>6, <1>7, <1>8, <1>12, <2>1 DEF Unused
  <2>2. CASE i # l + 1
    <3>1. i \in 1..l
      BY <1>11, <2>2
    <3>2. t[i] = stack[i] /\ stack[i] \in Ids
      BY <1>2, <1>11, <1>12, <3>1
    <3> QED BY <1>8, <1>11, <3>1, <3>2
  <2> QED BY <2>1, <2>2
<1>15. /\ current' \in 1..m \cup {Null} /\ (current' # Null => current' # root')
       /\ root' \in 1..m \cup {XRoot, Null}
  BY <1>1, <1>2, <1>5, <1>6 DEF OInv
<1>16. m <= MaxLines
  BY <1>2
<1>17. /\ stack' \in Seq(1..m)
       /\ \A i, j \in 1..Len(stack') : stack'[i] = stack'[j] => i = j
       /\ \A i \in 1..Len(stack') : comp'[stack'[i]].parent = Null /\ stack'[i] # root'
  BY <1>5, <1>10, <1>12, <1>13, <1>14
<1>18. Sound(comp', m, root')
  BY <1>5, <1>9
<1> QED BY <1>2, <1>15, <1>16, <1>17, <1>18 DEF OInv

\* What is known of the heap and the stack.
LEMMA OwnedNow ==
  ASSUME OInv, NEW n, n = Len(input)
  PROVE  /\ Sound(comp, n, root) /\ root \in 1..n \cup {XRoot, Null} /\ stack \in Seq(1..n)
         /\ \A i, j \in 1..Len(stack) : stack[i] = stack[j] => i = j
         /\ \A i \in 1..Len(stack) : stack[i] \in 1..n
         /\ \A i \in 1..Len(stack) : comp[stack[i]].parent = Null /\ stack[i] # root
         /\ current \in 1..n \cup {Null}
         /\ current # Null => current # root
<1>1. stack \in Seq(1..n)
  BY DEF OInv
<1>2. \A i \in 1..Len(stack) : stack[i] \in 1..n
  BY <1>1
<1>3. Sound(comp, n, root) /\ root \in 1..n \cup {XRoot, Null}
  BY DEF OInv
<1>4. /\ \A i, j \in 1..Len(stack) : stack[i] = stack[j] => i = j
      /\ \A i \in 1..Len(stack) : comp[stack[i]].parent = Null /\ stack[i] # root
      /\ current \in 1..n \cup {Null}
      /\ current # Null => current # root
  BY DEF OInv
<1> QED BY <1>1, <1>2, <1>3, <1>4

\* An END hands the component to the one below it.
LEMMA InnerKeepsOwned ==
  ASSUME OInv, EndInner, "end" \in Lines
  PROVE  OInv'
<1>1. PICK n, m : n = Len(input) /\ m = n + 1
  OBVIOUS
<1>2. /\ input' \in Seq(Lines) /\ Len(input') = m /\ m <= MaxLines
      /\ n \in 0..MaxLines /\ 1..n \subseteq 1..m /\ 1..n \subseteq Ids /\ n \in Nat
      /\ Null \notin 1..m
  BY <1>1, LineIsRead DEF EndInner
<1>3. stack' = Below /\ current' = Top(stack) /\ comp' = Handed /\ root' = root
  BY DEF EndInner
<1>4. /\ Sound(comp, n, root) /\ root \in 1..n \cup {XRoot, Null} /\ stack \in Seq(1..n)
      /\ \A i, j \in 1..Len(stack) : stack[i] = stack[j] => i = j
      /\ \A i \in 1..Len(stack) : stack[i] \in 1..n
      /\ \A i \in 1..Len(stack) : comp[stack[i]].parent = Null /\ stack[i] # root
  BY <1>1, OwnedNow
<1>5. root' \in 1..m \cup {XRoot, Null}
  BY <1>2, <1>3, <1>4
<1>6. CASE stack = <<>>
  <2>1. stack' = <<>> /\ comp' = comp /\ current' = Null
    BY <1>3, <1>6 DEF Below, Handed, Top
  <2>2. Sound(comp', m, root')
    BY <1>1, <1>2, <1>3, <1>4, <2>1, LaterIsSound
  <2>3. stack' \in Seq(1..m) /\ Len(stack') = 0
    BY <2>1, EmptySeq
  <2> QED BY <1>2, <1>5, <2>1, <2>2, <2>3 DEF OInv
<1>7. CASE stack # <<>>
  <2>1. PICK l, c, b : l = Len(stack) /\ c = Top(stack) /\ b = Below
    OBVIOUS
  <2>2. /\ l \in Nat /\ l # 0 /\ c = stack[l]
        /\ b \in Seq(1..n) /\ Len(b) = l - 1
        /\ \A i \in 1..l - 1 : b[i] = stack[i]
        /\ b = <<>> <=> l = 1
        /\ b # <<>> => Last(b) = stack[l - 1]
    BY <1>4, <1>7, <2>1, BelowIs
  <2>3. c \in 1..n /\ c # root /\ comp[c].parent = Null /\ c \in Ids
    <3>1. l \in 1..l
      BY <2>2
    <3> QED BY <1>2, <1>4, <2>1, <2>2, <3>1
  <2>4. /\ Sound(comp', n, root)
        /\ \A i \in Ids : i # c => comp'[i].parent = comp[i].parent
    <3>1. CASE b = <<>>
      <4>1. comp' = comp
        BY <1>3, <2>1, <3>1 DEF Handed
      <4> QED BY <1>4, <4>1
    <3>2. CASE b # <<>>
      <4>1. PICK p : p = stack[l - 1]
        OBVIOUS
      <4>2. comp' = Attach(comp, p, c)
        BY <1>3, <2>1, <2>2, <3>2, <4>1 DEF Handed
      <4>3. l - 1 \in 1..l
        BY <2>2, <3>2
      <4>4. p \in 1..n /\ p \in Ids /\ p <= n
        BY <1>2, <1>4, <2>1, <4>1, <4>3
      <4>5. Sound(comp', n, root)
        BY <1>2, <1>4, <2>3, <4>2, <4>4, AttachKeepsSound
      <4>6. Attached(comp', comp, p, c)
        BY <1>4, <2>3, <4>2, <4>4, AttachDoes DEF Sound
      <4> QED BY <4>5, <4>6 DEF Attached
    <3> QED BY <3>1, <3>2
  <2>5. Sound(comp', m, root')
    BY <1>1, <1>2, <1>3, <2>4, LaterIsSound
  <2>6. b \in Seq(1..m)
    BY <1>2, <2>2
  <2>7. ASSUME NEW i \in 1..l - 1
        PROVE  /\ b[i] = stack[i] /\ i \in 1..l /\ stack[i] # c
               /\ stack[i] \in Ids /\ comp[stack[i]].parent = Null /\ stack[i] # root
    <3>1. i \in 1..l /\ l \in 1..l /\ i # l
      BY <2>2
    <3>2. stack[i] # stack[l]
      BY <1>4, <2>1, <3>1
    <3>3. stack[i] \in Ids /\ comp[stack[i]].parent = Null /\ stack[i] # root
      BY <1>2, <1>4, <2>1, <3>1
    <3> QED BY <2>2, <3>1, <3>2, <3>3
  <2>8. ASSUME NEW i \in 1..l - 1, NEW j \in 1..l - 1, b[i] = b[j] PROVE i = j
    <3>1. i \in 1..l /\ j \in 1..l /\ stack[i] = stack[j]
      BY <2>7, <2>8
    <3> QED BY <1>4, <2>1, <3>1
  <2>9. \A i \in 1..l - 1 : comp'[b[i]].parent = Null /\ b[i] # root
    BY <2>4, <2>7
  <2>10. /\ stack' = b /\ Len(stack') = l - 1 /\ current' = c
    BY <1>3, <2>1, <2>2
  <2>11. current' \in 1..m \cup {Null} /\ current' # root'
    BY <1>2, <1>3, <2>3, <2>10
  <2>12. /\ stack' \in Seq(1..m)
         /\ \A i, j \in 1..Len(stack') : stack'[i] = stack'[j] => i = j
         /\ \A i \in 1..Len(stack') : comp'[stack'[i]].parent = Null /\ stack'[i] # root'
    BY <1>3, <2>6, <2>8, <2>9, <2>10
  <2> QED BY <1>2, <1>5, <2>5, <2>11, <2>12 DEF OInv
<1> QED BY <1>6, <1>7

\* The END that leads to level 0 hands it to icalparser_parse, however many
\* components are still open.
LEMMA OuterKeepsOwned ==
  ASSUME OInv, StackCoversLevel, EndOuter, "end" \in Lines
  PROVE  OInv'
<1>1. PICK n, m, c, h : /\ n = Len(input) /\ m = n + 1 /\ c = Head(stack)
                        /\ h = IF Below = <<>> THEN comp ELSE Clean(Handed, stack)
  OBVIOUS
<1>2. /\ input' \in Seq(Lines) /\ Len(input') = m /\ m <= MaxLines
      /\ n \in 0..MaxLines /\ 1..n \subseteq 1..m /\ 1..n \subseteq Ids /\ n \in Nat
      /\ Null \notin 1..m
  BY <1>1, LineIsRead DEF EndOuter
<1>3. stack' = <<>> /\ current' = Null /\ root' = Container(h, c) /\ comp' = Collect(h, c)
  BY <1>1 DEF EndOuter
<1>4. /\ Sound(comp, n, root) /\ root \in 1..n \cup {XRoot, Null} /\ stack \in Seq(1..n)
      /\ \A i, j \in 1..Len(stack) : stack[i] = stack[j] => i = j
      /\ \A i \in 1..Len(stack) : stack[i] \in 1..n
      /\ \A i \in 1..Len(stack) : comp[stack[i]].parent = Null /\ stack[i] # root
  BY <1>1, OwnedNow
<1>5. PICK l : l = Len(stack)
  OBVIOUS
<1>6. /\ stack # <<>> /\ l \in Nat /\ l # 0
      /\ Top(stack) = stack[l]
      /\ Below = <<>> <=> l = 1
      /\ Below # <<>> => Last(Below) = stack[l - 1]
  <2>1. Len(stack) >= 1
    BY DEF EndOuter, StackCoversLevel
  <2>2. stack # <<>>
    BY <2>1
  <2> QED BY <1>4, <1>5, <2>2, BelowIs
<1>7. c = stack[1] /\ c \in 1..n /\ c # root /\ comp[c].parent = Null /\ c \in Ids
  <2>1. 1 \in 1..l /\ c = stack[1]
    BY <1>1, <1>6
  <2> QED BY <1>2, <1>4, <1>5, <2>1
<1>8. Sound(h, n, root) /\ h[c].parent = Null
  <2>1. CASE Below = <<>>
    BY <1>1, <1>4, <1>7, <2>1
  <2>2. CASE Below # <<>>
    <3>1. PICK p, d, k : p = stack[l - 1] /\ d = stack[l] /\ k = Attach(comp, p, d)
      OBVIOUS
    <3>2. Handed = k /\ h = Clean(k, stack)
      BY <1>1, <1>6, <2>2, <3>1 DEF Handed
    <3>3. l - 1 \in 1..l /\ l \in 1..l /\ 1 \in 1..l /\ l # 1
      BY <1>6, <2>2
    <3>4. /\ p \in 1..n /\ p \in Ids /\ p <= n
          /\ d \in 1..n /\ d \in Ids /\ d # root /\ comp[d].parent = Null /\ d # c
      BY <1>2, <1>4, <1>5, <1>7, <3>1, <3>3
    <3>5. Sound(k, n, root)
      BY <1>2, <1>4, <3>1, <3>4, AttachKeepsSound
    <3>6. k[c].parent = Null
      <4>1. Attached(k, comp, p, d)
        BY <1>4, <3>1, <3>4, AttachDoes DEF Sound
      <4> QED BY <1>7, <3>4, <4>1 DEF Attached
    <3>7. Sound(Clean(k, stack), n, root) /\ Clean(k, stack)[stack[1]].parent = Null
      BY <1>2, <1>4, <1>6, <1>7, <3>5, <3>6, CleanKeepsSound
    <3> QED BY <1>7, <3>2, <3>7
  <2> QED BY <2>1, <2>2
<1>9. /\ Container(h, c) \in 1..n \cup {XRoot}
      /\ Sound(Collect(h, c), n, Container(h, c))
  BY <1>2, <1>4, <1>7, <1>8, CollectKeepsSound
<1>10. Sound(comp', m, root') /\ root' \in 1..m \cup {XRoot, Null}
  BY <1>1, <1>2, <1>3, <1>9, LaterIsSound
<1>11. stack' \in Seq(1..m) /\ Len(stack') = 0
  BY <1>3, EmptySeq
<1> QED BY <1>2, <1>3, <1>10, <1>11 DEF OInv

\* A property line leaves marks.
LEMMA LeavesMarks == \A line \in LineKinds \ BracketKinds : Leaves(line) \in Seq(Marks)
<1>1. /\ <<"value">> \in Seq(Marks) /\ <<"error">> \in Seq(Marks)
      /\ <<"value", "error">> \in Seq(Marks) /\ <<"empty", "error">> \in Seq(Marks)
      /\ <<"error", "error">> \in Seq(Marks) /\ <<"value", "error", "error">> \in Seq(Marks)
      /\ <<"empty", "error", "error">> \in Seq(Marks)
  BY DEF Marks
<1>2. ASSUME NEW line \in LineKinds \ BracketKinds
      PROVE  Leaves(line) \in {<<"value">>, <<"error">>, <<"value", "error">>, <<"empty", "error">>,
                              <<"error", "error">>, <<"value", "error", "error">>,
                              <<"empty", "error", "error">>}
  BY DEF Leaves, LineKinds, BracketKinds
<1> QED BY <1>1, <1>2

\* A property line changes no list of children.
LEMMA PropertyKeepsOwned ==
  ASSUME OInv, NEW line \in Lines, Property(line)
  PROVE  OInv'
<1>1. PICK n, m : n = Len(input) /\ m = n + 1
  OBVIOUS
<1>2. /\ input' \in Seq(Lines) /\ Len(input') = m /\ m <= MaxLines
      /\ n \in 0..MaxLines /\ 1..n \subseteq 1..m /\ 1..n \subseteq Ids /\ n \in Nat
      /\ Null \notin 1..m
  BY <1>1, LineIsRead DEF Property
<1>3. stack' = stack /\ current' = current /\ root' = root
  BY DEF Property
<1>4. /\ Sound(comp, n, root) /\ root \in 1..n \cup {XRoot, Null} /\ stack \in Seq(1..n)
      /\ \A i, j \in 1..Len(stack) : stack[i] = stack[j] => i = j
      /\ \A i \in 1..Len(stack) : stack[i] \in 1..n
      /\ \A i \in 1..Len(stack) : comp[stack[i]].parent = Null /\ stack[i] # root
      /\ current \in 1..n \cup {Null}
      /\ current # Null => current # root
  BY <1>1, OwnedNow
<1>5. /\ Sound(comp', n, root)
      /\ \A i \in Ids : comp'[i].parent = comp[i].parent
  <2>1. CASE stack = <<>>
    <3>1. comp' = comp
      BY <2>1 DEF Property
    <3> QED BY <1>4, <3>1
  <2>2. CASE stack # <<>>
    <3>1. PICK c, ms : c = Top(stack) /\ ms = Leaves(line)
      OBVIOUS
    <3>2. comp' = WithProps(comp, c, ms)
      BY <2>2, <3>1 DEF Property
    <3>3. c \in 1..n
      <4>1. Len(stack) \in Nat /\ Len(stack) # 0 /\ c = stack[Len(stack)]
        BY <1>4, <2>2, <3>1, BelowIs
      <4>2. Len(stack) \in 1..Len(stack)
        BY <4>1
      <4> QED BY <1>4, <4>1, <4>2
    <3>4. ms \in Seq(Marks)
      BY <3>1, LeavesMarks DEF Property
    <3>5. Sound(comp, n, root) /\ n \in 0..MaxLines /\ root \in 1..n \cup {XRoot, Null}
      BY <1>2, <1>4
    <3>6. /\ Sound(WithProps(comp, c, ms), n, root)
          /\ \A i \in Ids : WithProps(comp, c, ms)[i].parent = comp[i].parent
      BY ONLY <3>3, <3>4, <3>5, MarkKeepsSound
    <3> QED BY <3>2, <3>6
  <2> QED BY <2>1, <2>2
<1>6. Sound(comp', m, root')
  BY <1>1, <1>2, <1>3, <1>5, LaterIsSound
<1>7. \A i \in 1..Len(stack) : comp'[stack[i]].parent = Null
  BY <1>2, <1>4, <1>5
<1>8. stack \in Seq(1..m)
  BY <1>2, <1>4, SeqMonotonic
<1> QED BY <1>2, <1>3, <1>4, <1>6, <1>7, <1>8 DEF OInv

\* No step gives a component a second owner.
LEMMA StepKeepsOwned == StackOK /\ OInv /\ [Next]_vars => OInv'
<1> SUFFICES ASSUME StackOK, OInv, [Next]_vars PROVE OInv'
  OBVIOUS
<1>1. StackCoversLevel
  BY DEF StackOK
<1>2. ASSUME FreeParser \/ UNCHANGED vars PROVE OInv'
  <2>1. UNCHANGED <<input, comp, stack, current, root>>
    BY <1>2 DEF FreeParser, vars
  <2> QED BY <2>1 DEF OInv
<1> QED
  BY <1>1, <1>2, BeginKeepsOwned, PropertyKeepsOwned, InnerKeepsOwned, OuterKeepsOwned DEF Next

\* What is invariant.
HInv == StackOK /\ OInv

\* The stack covers the level and the heap is sound, at any time.
THEOREM AlwaysOwned == Spec => []HInv
<1>1. Init => HInv
  BY InitOwned DEF Init, HInv, StackOK, StackCoversLevel, ParserIsClear
<1>2. HInv /\ [Next]_vars => HInv'
  BY StepKeepsStack, StepKeepsOwned DEF HInv
<1> QED BY <1>1, <1>2, PTL DEF Spec

\* The list of children of p on heap h.
Ready(p, ks, h, c) == OwnedBy(p, ks, h) /\ ks \in Seq(Ids) /\ c \in Ids

\* A child has one place in the list, another component none.
LEMMA OnePlace ==
  ASSUME NEW p, NEW ks, NEW h, NEW c, Ready(p, ks, h, c)
  PROVE  Cardinality({i \in DOMAIN ks : ks[i] = c}) = IF h[c].parent = p THEN 1 ELSE 0
<1>1. PICK places : places = {i \in DOMAIN ks : ks[i] = c}
  OBVIOUS
<1> USE DEF Ready
<1>d. DOMAIN ks = 1..Len(ks)
  OBVIOUS
<1>e. \A i : i \in places <=> i \in 1..Len(ks) /\ ks[i] = c
  BY <1>1, <1>d
<1> SUFFICES Cardinality(places) = IF h[c].parent = p THEN 1 ELSE 0
  BY <1>1
<1>2. CASE h[c].parent = p
  <2>1. PICK k \in 1..Len(ks) : ks[k] = c
    BY <1>2 DEF OwnedBy
  <2>2. \A j \in 1..Len(ks) : ks[j] = ks[k] => j = k
    BY DEF OwnedBy
  <2>3. places = {k}
    BY <1>e, <2>1, <2>2
  <2>4. Cardinality(places) = 1
    BY <2>3, FS_Singleton
  <2> QED BY <1>2, <2>4
<1>3. CASE h[c].parent # p
  <2>1. places = {}
    BY <1>e, <1>3 DEF OwnedBy
  <2>2. Cardinality(places) = 0
    BY <2>1, FS_EmptySet
  <2> QED BY <1>3, <2>2
<1> QED BY <1>2, <1>3

\* That is what OneOwner says.
LEMMA OwnersFollow == OInv => OneOwner
<1> SUFFICES ASSUME OInv PROVE OneOwner
  OBVIOUS
<1>1. MaxLines \in Nat /\ Len(input) \in 0..MaxLines /\ 1..Len(input) \subseteq Ids
  BY MaxLinesAssumption DEF OInv, Ids, XRoot
<1>2. comp \in [Ids -> Node] /\ Owned(comp) /\ (root # Null => comp[root].parent = Null)
  BY DEF OInv, Sound
<1>3. stack \in Seq(1..Len(input)) /\ DOMAIN stack = 1..Len(stack)
  BY DEF OInv
<1>4. ASSUME NEW p \in Ids, NEW c \in Ids
      PROVE  Cardinality({i \in DOMAIN comp[p].kids : comp[p].kids[i] = c})
               = IF comp[c].parent = p THEN 1 ELSE 0
  <2>1. PICK ks : ks = comp[p].kids
    OBVIOUS
  <2>2. OwnedBy(p, ks, comp) /\ ks \in Seq(Ids)
    BY <1>2, <2>1 DEF Owned, Node
  <2>3. Cardinality({i \in DOMAIN ks : ks[i] = c}) = IF comp[c].parent = p THEN 1 ELSE 0
    <3>1. c \in Ids
      OBVIOUS
    <3>2. Ready(p, ks, comp, c)
      BY <2>2, <3>1 DEF Ready
    <3> QED BY ONLY <3>2, OnePlace
  <2> QED BY <2>1, <2>3
<1>5. ASSUME NEW c \in ToSet(stack) PROVE comp[c].parent = Null /\ c # root
  <2>1. PICK i \in 1..Len(stack) : c = stack[i]
    BY <1>3 DEF ToSet
  <2> QED BY <2>1 DEF OInv
<1>6. IsInjective(stack)
  BY <1>3 DEF OInv, IsInjective
<1> QED BY <1>2, <1>4, <1>5, <1>6 DEF OneOwner

\* For every input, whatever ENDs are missing or too many, the lists of children
\* agree with the parent pointers and no component is in two places
\* (icalcomponent.c:580, icalparser.c:775).
THEOREM ComponentsHaveOneOwner == Spec => []OneOwner
<1>1. HInv => OneOwner
  BY OwnersFollow DEF HInv
<1> QED BY <1>1, AlwaysOwned, PTL

----------------------------------------------------------------------------
(* What the parser frees.                                                  *)

\* The heaps of a tree, nearest first.
Reach(h, c, f) ==
  /\ f[0] = {c}
  /\ \A n \in Nat : n + 1 <= Cardinality(Ids)
       => f[n + 1] = f[n] \cup {d \in Ids : h[d].parent \in f[n]}

\* The recursion of Tree has a solution.
LEMMA TreeIs ==
  ASSUME NEW h, NEW c \in Ids
  PROVE  /\ Cardinality(Ids) \in Nat
         /\ \E f : Reach(h, c, f) /\ TreeIn(h, c) = f[Cardinality(Ids)]
<1>1. PICK n : n = Cardinality(Ids)
  OBVIOUS
<1>2. n \in Nat
  <2>1. IsFiniteSet(Ids)
    BY MaxLinesAssumption, FS_Interval DEF Ids, XRoot
  <2> QED BY <1>1, <2>1, FS_CardinalityType
<1>3. PICK V : V = SUBSET Ids
  OBVIOUS
<1>4. PICK T : T = [k \in 1..n |-> [u \in V |-> u \cup {d \in Ids : h[d].parent \in u}]]
  OBVIOUS
<1>5. T \in Steps(V, n)
  <2>1. \A u \in V : u \cup {d \in Ids : h[d].parent \in u} \in V
    BY <1>3
  <2> QED BY <1>4, <2>1 DEF Steps
<1>6. PICK f : Follows(f, V, {c}, n, T)
  <2>1. {c} \in V
    BY <1>3
  <2> QED BY <1>2, <1>5, <2>1, PrefixRecursion
<1> DEFINE Is(g) == g = [k \in 0..n |-> IF k = 0 THEN {c}
                          ELSE LET nearer == g[k - 1]
                               IN nearer \cup {d \in Ids : h[d].parent \in nearer}]
<1>7. \E g : Is(g)
  <2>1. PICK w : w = [k \in 0..n |-> f[k]]
    OBVIOUS
  <2>2. ASSUME NEW k \in 0..n
        PROVE  w[k] = IF k = 0 THEN {c} ELSE w[k - 1] \cup {d \in Ids : h[d].parent \in w[k - 1]}
    <3>1. CASE k = 0
      BY <1>6, <2>1, <3>1 DEF Follows
    <3>2. CASE k # 0
      <4>1. k \in 1..n /\ k - 1 \in 0..n
        BY <1>2, <3>2
      <4>2. f[k] = T[k][f[k - 1]] /\ f[k - 1] \in V
        BY <1>6, <4>1 DEF Follows
      <4>3. f[k] = f[k - 1] \cup {d \in Ids : h[d].parent \in f[k - 1]}
        BY <1>4, <4>1, <4>2
      <4>4. w[k] = f[k] /\ w[k - 1] = f[k - 1]
        BY <2>1, <4>1
      <4> QED BY <3>2, <4>3, <4>4
    <3> QED BY <3>1, <3>2
  <2>3. Is(w)
    BY <2>1, <2>2
  <2> QED BY <2>3
<1> DEFINE g == CHOOSE g : Is(g)
<1>8. Is(g)
  BY <1>7
<1>9. TreeIn(h, c) = g[n]
  BY <1>1 DEF TreeIn
<1> HIDE DEF g
<1>10. PICK w : w = g
  OBVIOUS
<1>11. \A k \in 0..n : w[k] = IF k = 0 THEN {c}
                         ELSE w[k - 1] \cup {d \in Ids : h[d].parent \in w[k - 1]}
  BY <1>8, <1>10
<1>12. Reach(h, c, w)
  <2>1. w[0] = {c}
    <3>1. 0 \in 0..n
      BY <1>2
    <3> QED BY <1>11, <3>1
  <2>2. ASSUME NEW k \in Nat, k + 1 <= n
        PROVE  w[k + 1] = w[k] \cup {d \in Ids : h[d].parent \in w[k]}
    <3>1. k + 1 \in 0..n /\ k + 1 # 0 /\ (k + 1) - 1 = k
      BY <1>2, <2>2
    <3> QED BY <1>11, <3>1
  <2> QED BY <1>1, <2>1, <2>2 DEF Reach
<1> QED BY <1>1, <1>2, <1>9, <1>10, <1>12

\* With a component, its parent is in the tree.
LEMMA TreeIsClosed ==
  ASSUME NEW h, NEW c \in Ids
  PROVE  /\ c \in TreeIn(h, c)
         /\ TreeIn(h, c) \subseteq Ids
         /\ \A d \in TreeIn(h, c) : d # c => h[d].parent \in TreeIn(h, c)
<1>1. PICK n : n = Cardinality(Ids)
  OBVIOUS
<1>2. n \in Nat
  BY <1>1, TreeIs
<1>3. PICK f : Reach(h, c, f) /\ TreeIn(h, c) = f[n]
  BY <1>1, TreeIs
<1>4. f[0] = {c} /\ \A k \in Nat : k + 1 <= n => f[k + 1] = f[k] \cup {d \in Ids : h[d].parent \in f[k]}
  BY <1>1, <1>3 DEF Reach
<1> DEFINE S == {k \in Nat : k <= n =>
                   /\ c \in f[k] /\ f[k] \subseteq Ids
                   /\ \A d \in f[k] : d # c => h[d].parent \in f[k]}
<1>5. 0 \in S
  BY <1>4
<1>6. ASSUME NEW k \in Nat, k \in S PROVE k + 1 \in S
  <2> SUFFICES ASSUME k + 1 <= n
               PROVE  /\ c \in f[k + 1] /\ f[k + 1] \subseteq Ids
                      /\ \A d \in f[k + 1] : d # c => h[d].parent \in f[k + 1]
    OBVIOUS
  <2>1. k <= n
    BY <1>2
  <2>2. f[k + 1] = f[k] \cup {d \in Ids : h[d].parent \in f[k]}
    BY <1>4
  <2> QED BY <1>6, <2>1, <2>2
<1> HIDE DEF S
<1>7. n \in S
  BY <1>2, <1>5, <1>6, InductionOnNat
<1> QED BY <1>2, <1>3, <1>7 DEF S

\* Two components without a parent have nothing in common.
LEMMA TreesAreApart ==
  ASSUME NEW h, NEW c \in Ids, NEW d \in Ids, c # d,
         h[c].parent = Null, h[d].parent = Null
  PROVE  TreeIn(h, c) \cap TreeIn(h, d) = {}
<1>1. PICK n, R : n = Cardinality(Ids) /\ R = TreeIn(h, c)
  OBVIOUS
<1>2. n \in Nat
  BY <1>1, TreeIs
<1>3. PICK f : Reach(h, d, f) /\ TreeIn(h, d) = f[n]
  BY <1>1, TreeIs
<1>4. f[0] = {d} /\ \A k \in Nat : k + 1 <= n => f[k + 1] = f[k] \cup {e \in Ids : h[e].parent \in f[k]}
  BY <1>1, <1>3 DEF Reach
<1>5. R \subseteq Ids /\ \A e \in R : e # c => h[e].parent \in R
  BY <1>1, TreeIsClosed
<1>6. Null \notin Ids
  BY NullIsNoNumber, MaxLinesAssumption DEF Ids, XRoot
<1>7. d \notin R
  BY <1>5, <1>6
<1> DEFINE S == {k \in Nat : k <= n => f[k] \subseteq Ids /\ f[k] \cap R = {}}
<1>8. 0 \in S
  BY <1>4, <1>7
<1>9. ASSUME NEW k \in Nat, k \in S PROVE k + 1 \in S
  <2> SUFFICES ASSUME k + 1 <= n
               PROVE  f[k + 1] \subseteq Ids /\ f[k + 1] \cap R = {}
    OBVIOUS
  <2>1. k <= n
    BY <1>2
  <2>2. f[k + 1] = f[k] \cup {e \in Ids : h[e].parent \in f[k]}
    BY <1>4
  <2>3. ASSUME NEW e \in Ids, h[e].parent \in f[k], e \in R PROVE FALSE
    <3>1. f[k] \subseteq Ids /\ f[k] \cap R = {}
      BY <1>9, <2>1
    <3>2. e # c
      BY <1>6, <2>3, <3>1
    <3> QED BY <1>5, <2>3, <3>1, <3>2
  <2> QED BY <1>9, <2>1, <2>2, <2>3
<1> HIDE DEF S
<1>10. n \in S
  BY <1>2, <1>8, <1>9, InductionOnNat
<1> QED BY <1>1, <1>2, <1>3, <1>10 DEF S

\* What icalcomponent_free frees is none of the caller's.
LEMMA FreeSparesRoot ==
  ASSUME OInv, root # Null, NEW c, c # Null => c \in Ids /\ c # root
  PROVE  Tree(root) \cap Frees(c) = {}
<1>1. MaxLines \in Nat /\ Len(input) \in 0..MaxLines /\ root \in Ids
  BY MaxLinesAssumption DEF OInv, Ids, XRoot
<1>2. comp[root].parent = Null
  BY DEF OInv, Sound
<1>3. CASE c = Null \/ comp[c].parent # Null
  BY <1>3 DEF Frees
<1>4. CASE c # Null /\ comp[c].parent = Null
  <2>1. TreeIn(comp, root) \cap TreeIn(comp, c) = {}
    BY <1>1, <1>2, <1>4, TreesAreApart
  <2> QED BY <1>4, <2>1 DEF Frees, Tree
<1> QED BY <1>3, <1>4

\* What holds before and after icalparser_free.
RInv == HInv /\ ResultSurvives

\* Only icalparser_free frees, and no line is read after it.
LEMMA StepKeepsResult == RInv /\ [Next]_vars => RInv'
<1> SUFFICES ASSUME HInv, ResultSurvives, [Next]_vars PROVE HInv' /\ ResultSurvives'
  BY DEF RInv
<1>1. HInv'
  BY StepKeepsStack, StepKeepsOwned DEF HInv
<1>2. CASE UNCHANGED vars
  BY <1>1, <1>2 DEF vars, ResultSurvives, Tree
<1>3. ASSUME NEW line \in Lines, Begin(line) \/ Property(line) PROVE ResultSurvives'
  BY <1>3 DEF Begin, Property, Reads, ResultSurvives
<1>4. ASSUME EndInner \/ EndOuter PROVE ResultSurvives'
  BY <1>4 DEF EndInner, EndOuter, Reads, ResultSurvives
<1>5. ASSUME FreeParser PROVE ResultSurvives'
  <2>1. /\ freed' = Frees(current) \cup UNION {Frees(c) : c \in ToSet(stack)}
        /\ comp' = comp /\ root' = root
    BY <1>5 DEF FreeParser
  <2> SUFFICES ASSUME root # Null PROVE Tree(root) \cap freed' = {}
    BY <2>1 DEF ResultSurvives, Tree
  <2>2. OInv /\ 1..Len(input) \subseteq Ids
    BY MaxLinesAssumption DEF HInv, OInv, Ids, XRoot
  <2>3. Tree(root) \cap Frees(current) = {}
    <3>1. current # Null => current \in Ids /\ current # root
      BY <2>2 DEF OInv
    <3> QED BY <2>2, <3>1, FreeSparesRoot
  <2>4. ASSUME NEW c \in ToSet(stack) PROVE Tree(root) \cap Frees(c) = {}
    <3>1. PICK i \in 1..Len(stack) : c = stack[i]
      BY DEF ToSet, OInv, HInv
    <3>2. stack[i] \in 1..Len(input) /\ stack[i] # root
      BY <2>2 DEF OInv
    <3>3. c \in Ids /\ c # root
      BY <2>2, <3>1, <3>2
    <3> QED BY <2>2, <3>3, FreeSparesRoot
  <2> QED BY <2>1, <2>3, <2>4
<1> QED BY <1>1, <1>2, <1>3, <1>4, <1>5 DEF Next

\* For every input, freeing the parser takes nothing from the tree it returned
\* (icalparser.c:146, 662).
THEOREM ResultIsSpared == Spec => []ResultSurvives
<1>1. Init => RInv
  BY InitOwned DEF Init, RInv, HInv, StackOK, StackCoversLevel, ParserIsClear, ResultSurvives
<1>2. RInv /\ [Next]_vars => RInv'
  BY StepKeepsResult
<1>3. RInv => ResultSurvives
  BY DEF RInv
<1> QED BY <1>1, <1>2, <1>3, PTL DEF Spec

\* Only components are freed.
LEMMA FreesAreIds ==
  ASSUME OInv, NEW c \in Ids \cup {Null}
  PROVE  Frees(c) \subseteq Ids
<1>1. CASE c = Null
  BY <1>1 DEF Frees
<1>2. CASE c \in Ids
  <2>1. TreeIn(comp, c) \subseteq Ids
    BY <1>2, TreeIsClosed
  <2> QED BY <2>1 DEF Frees, Tree
<1> QED BY <1>1, <1>2

\* With the types of the variables the stack and the heap do not tell.
TInv == HInv /\ freed \subseteq Ids /\ dropped \in Nat /\ done \in BOOLEAN

\* Every variable has its type at any time.
THEOREM TypesHold == Spec => []TypeOK
<1>1. ASSUME Init PROVE TInv
  <2>1. HInv
    BY <1>1, InitOwned DEF Init, HInv, StackOK, StackCoversLevel, ParserIsClear
  <2>2. freed \subseteq Ids /\ dropped \in Nat
    BY <1>1 DEF Init
  <2>3. done \in BOOLEAN
    BY <1>1, Zenon DEF Init
  <2> QED BY <2>1, <2>2, <2>3 DEF TInv
<1>2. TInv /\ [Next]_vars => TInv'
  <2> SUFFICES ASSUME TInv, [Next]_vars PROVE TInv'
    OBVIOUS
  <2>1. HInv'
    BY StepKeepsStack, StepKeepsOwned DEF HInv, TInv
  <2>2. OInv /\ 1..Len(input) \subseteq Ids /\ stack \in Seq(1..Len(input))
    BY MaxLinesAssumption DEF TInv, HInv, OInv, Ids, XRoot
  <2>3. CASE UNCHANGED vars
    BY <2>1, <2>3 DEF TInv, vars
  <2>4. ASSUME NEW line \in Lines, Begin(line) \/ Property(line) PROVE TInv'
    <3>1. dropped \in Nat /\ freed \subseteq Ids /\ done \in BOOLEAN
      BY DEF TInv
    <3>2. dropped' \in {dropped, dropped + 1} /\ freed' = freed /\ done' = done
      BY <2>4 DEF Begin, Property, Reads
    <3> QED BY <2>1, <3>1, <3>2 DEF TInv
  <2>5. CASE EndInner \/ EndOuter
    BY <2>1, <2>5 DEF TInv, EndInner, EndOuter, Reads
  <2>6. CASE FreeParser
    <3>1. /\ freed' = Frees(current) \cup UNION {Frees(c) : c \in ToSet(stack)}
          /\ dropped' = dropped /\ done' = TRUE
      BY <2>6 DEF FreeParser
    <3>2. Frees(current) \subseteq Ids
      <4>1. current \in Ids \cup {Null}
        BY <2>2 DEF OInv
      <4> QED BY <2>2, <4>1, FreesAreIds
    <3>3. ASSUME NEW c \in ToSet(stack) PROVE Frees(c) \subseteq Ids
      <4>1. c \in Ids \cup {Null}
        BY <2>2 DEF ToSet
      <4> QED BY <2>2, <4>1, FreesAreIds
    <3> QED BY <2>1, <3>1, <3>2, <3>3 DEF TInv
  <2> QED BY <2>3, <2>4, <2>5, <2>6 DEF Next
<1>3. TInv => TypeOK
  <2> SUFFICES ASSUME TInv PROVE TypeOK
    OBVIOUS
  <2>1. /\ input \in Seq(Lines) /\ comp \in [Ids -> Node]
        /\ stack \in Seq(1..Len(input)) /\ 1..Len(input) \subseteq Ids /\ XRoot \in Ids
    BY MaxLinesAssumption DEF TInv, HInv, OInv, Sound, Ids, XRoot
  <2>2. level \in Int
    BY DEF TInv, HInv, StackOK
  <2>3. current \in Ids \cup {Null} /\ root \in Ids \cup {Null}
    BY <2>1 DEF TInv, HInv, OInv
  <2>4. stack \in Seq(Ids)
    BY <2>1
  <2>5. \A i \in Ids : /\ comp[i].parent \in Ids \cup {Null}
                      /\ comp[i].props \in Seq({"value", "empty", "error"})
                      /\ comp[i].kids \in Seq(Ids)
    BY <2>1 DEF Node, Marks
  <2> QED BY <2>1, <2>2, <2>3, <2>4, <2>5 DEF TypeOK, TInv
<1> QED BY <1>1, <1>2, <1>3, PTL DEF Spec

----------------------------------------------------------------------------
(* Sets of numbers in their order.                                         *)

\* Sequence t has the numbers of S from the smallest to the largest.
Lists(t, S) ==
  /\ t \in Seq(Int)
  /\ \A i \in 1..Len(t) : t[i] \in S
  /\ \A x \in S : \E i \in 1..Len(t) : t[i] = x
  /\ \A i, j \in 1..Len(t) : i < j => t[i] < t[j]

\* How many numbers of S there are up to x.
UpTo(S, x) == Cardinality({y \in S : y <= x})

\* The k-th of the list has k numbers up to it.
LEMMA ListCounts ==
  ASSUME NEW S, NEW t, Lists(t, S), NEW k \in 1..Len(t)
  PROVE  UpTo(S, t[k]) = k
<1>1. Len(t) \in Nat /\ k \in Nat /\ \A i \in 1..Len(t) : t[i] \in Int
  BY DEF Lists
<1>2. PICK U, u : U = {y \in S : y <= t[k]} /\ u = [i \in 1..k |-> t[i]]
  OBVIOUS
<1>3. ASSUME NEW i \in 1..k PROVE u[i] \in U
  <2>1. i \in 1..Len(t) /\ (i < k \/ i = k) /\ u[i] = t[i]
    BY <1>1, <1>2
  <2>2. t[i] <= t[k] /\ t[i] \in S
    BY <1>1, <2>1 DEF Lists
  <2> QED BY <1>2, <2>1, <2>2
<1>4. ASSUME NEW i \in 1..k, NEW j \in 1..k, u[i] = u[j] PROVE i = j
  <2>1. /\ i \in 1..Len(t) /\ j \in 1..Len(t) /\ t[i] = t[j]
        /\ t[i] \in Int /\ i \in Int /\ j \in Int
    BY <1>1, <1>2, <1>4
  <2>2. ~(i < j) /\ ~(j < i)
    BY <2>1 DEF Lists
  <2> QED BY <2>1, <2>2
<1>5. ASSUME NEW y \in U PROVE \E i \in 1..k : u[i] = y
  <2>1. y \in S /\ y <= t[k]
    BY <1>2
  <2>2. PICK i \in 1..Len(t) : t[i] = y
    BY <2>1 DEF Lists
  <2>3. ~(k < i)
    BY <1>1, <2>1, <2>2 DEF Lists
  <2>4. i \in 1..k
    BY <1>1, <2>3
  <2> QED BY <1>2, <2>2, <2>4
<1>6. u \in Bijection(1..k, U)
  <2>1. u \in [1..k -> U]
    BY <1>2, <1>3
  <2> QED BY <1>4, <1>5, <2>1 DEF Bijection, Injection, Surjection, IsInjective
<1>7. Cardinality(U) = k
  BY <1>1, <1>6, FS_CountingElements DEF ExistsBijection
<1> QED BY <1>2, <1>7 DEF UpTo

\* A list is as long as its set is large.
LEMMA ListIsFinite ==
  ASSUME NEW S, NEW t, Lists(t, S)
  PROVE  IsFiniteSet(S) /\ Cardinality(S) = Len(t)
<1>1. Len(t) \in Nat /\ \A i \in 1..Len(t) : t[i] \in Int
  BY DEF Lists
<1>2. t \in [1..Len(t) -> S]
  BY DEF Lists
<1>3. ASSUME NEW i \in 1..Len(t), NEW j \in 1..Len(t), t[i] = t[j] PROVE i = j
  <2>1. ~(i < j) /\ ~(j < i)
    BY <1>1, <1>3 DEF Lists
  <2> QED BY <2>1
<1>4. \A x \in S : \E i \in 1..Len(t) : t[i] = x
  BY DEF Lists
<1>5. t \in Bijection(1..Len(t), S)
  BY <1>2, <1>3, <1>4 DEF Bijection, Injection, Surjection, IsInjective
<1>6. Cardinality(S) = Len(t)
  BY <1>1, <1>5, FS_CountingElements DEF ExistsBijection
<1>7. IsFiniteSet(S)
  BY <1>1, <1>5, FS_Interval, FS_Bijection DEF ExistsBijection
<1> QED BY <1>6, <1>7

\* InOrder is the list: a set has only one.
LEMMA InOrderIs ==
  ASSUME NEW S, NEW t, Lists(t, S)
  PROVE  InOrder(S) = t
<1>1. Len(t) \in Nat /\ Cardinality(S) = Len(t)
  <2>1. Cardinality(S) = Len(t)
    BY ListIsFinite
  <2> QED BY <2>1 DEF Lists
<1>2. ASSUME NEW k \in 1..Len(t)
      PROVE  (CHOOSE x \in S : UpTo(S, x) = k) = t[k]
  <2>1. t[k] \in S /\ UpTo(S, t[k]) = k
    BY ListCounts DEF Lists
  <2>2. ASSUME NEW x \in S, UpTo(S, x) = k PROVE x = t[k]
    <3>1. PICK i \in 1..Len(t) : t[i] = x
      BY DEF Lists
    <3>2. UpTo(S, t[i]) = i
      BY ListCounts
    <3> QED BY <2>2, <3>1, <3>2
  <2> QED BY <2>1, <2>2
<1>3. InOrder(S) = [k \in 1..Len(t) |-> CHOOSE x \in S : UpTo(S, x) = k]
  BY <1>1 DEF InOrder, UpTo
<1>4. InOrder(S) = [k \in 1..Len(t) |-> t[k]]
  BY <1>2, <1>3
<1>5. t = [k \in 1..Len(t) |-> t[k]]
  BY DEF Lists
<1> QED BY <1>4, <1>5

\* A larger number goes to the end of the list.
LEMMA ListGrows ==
  ASSUME NEW S, NEW t, Lists(t, S), NEW x \in Int, \A y \in S : y < x
  PROVE  Lists(Append(t, x), S \cup {x})
<1>1. PICK n, w : n = Len(t) /\ w = Append(t, x)
  OBVIOUS
<1>2. n \in Nat /\ t \in Seq(Int)
  BY <1>1 DEF Lists
<1>3. /\ w \in Seq(Int) /\ Len(w) = n + 1 /\ w[n + 1] = x
      /\ \A i \in 1..n : w[i] = t[i]
  BY <1>1, <1>2
<1>4. ASSUME NEW i \in 1..n + 1 PROVE w[i] \in S \cup {x}
  BY <1>1, <1>2, <1>3 DEF Lists
<1>5. ASSUME NEW y \in S \cup {x} PROVE \E i \in 1..n + 1 : w[i] = y
  <2>1. CASE y = x
    <3>1. n + 1 \in 1..n + 1
      BY <1>2
    <3> QED BY <1>3, <2>1, <3>1
  <2>2. CASE y \in S
    <3>1. PICK i \in 1..n : t[i] = y
      BY <1>1, <2>2 DEF Lists
    <3>2. i \in 1..n + 1
      BY <1>2
    <3> QED BY <1>3, <3>1, <3>2
  <2> QED BY <2>1, <2>2
<1>6. ASSUME NEW i \in 1..n + 1, NEW j \in 1..n + 1, i < j PROVE w[i] < w[j]
  <2>1. i \in 1..n /\ w[i] = t[i] /\ t[i] \in S
    BY <1>1, <1>2, <1>3, <1>6 DEF Lists
  <2>2. CASE j = n + 1
    BY <1>3, <2>1, <2>2
  <2>3. CASE j \in 1..n
    BY <1>1, <1>3, <1>6, <2>1, <2>3 DEF Lists
  <2> QED BY <1>2, <2>2, <2>3
<1> QED BY <1>1, <1>3, <1>4, <1>5, <1>6 DEF Lists

\* Without its last number, a list is one of the others.
LEMMA ListShrinks ==
  ASSUME NEW S, NEW t, Lists(t, S), t # <<>>, NEW x, x = t[Len(t)]
  PROVE  Lists(Front(t), S \ {x})
<1>1. PICK n : n = Len(t) /\ n \in Nat /\ n # 0
  <2>1. Len(t) \in Nat /\ Len(t) # 0
    BY DEF Lists
  <2> QED BY <2>1
<1>2. PICK w : w = Front(t)
  OBVIOUS
<1>3. w \in Seq(Int) /\ Len(w) = n - 1 /\ \A i \in 1..n - 1 : w[i] = t[i]
  <2>1. w = SubSeq(t, 1, n - 1) /\ t \in Seq(Int) /\ n - 1 \in Nat
    BY <1>1, <1>2 DEF Lists, Front
  <2> QED BY <1>1, <2>1
<1>4. n \in 1..n /\ \A i \in 1..n - 1 : i \in 1..n /\ i < n
  BY <1>1
<1>5. ASSUME NEW i \in 1..n - 1 PROVE w[i] \in S \ {x}
  <2>1. t[i] \in S /\ t[i] < t[n] /\ t[i] \in Int /\ t[n] \in Int
    BY <1>1, <1>4 DEF Lists
  <2> QED BY <1>1, <1>3, <2>1
<1>6. ASSUME NEW y \in S \ {x} PROVE \E i \in 1..n - 1 : w[i] = y
  <2>1. PICK i \in 1..n : t[i] = y
    BY <1>1 DEF Lists
  <2>2. i # n
    BY <1>1, <2>1
  <2>3. i \in 1..n - 1
    BY <1>1, <2>2
  <2> QED BY <1>3, <2>1, <2>3
<1>7. ASSUME NEW i \in 1..n - 1, NEW j \in 1..n - 1, i < j PROVE w[i] < w[j]
  BY <1>1, <1>3, <1>4, <1>7 DEF Lists
<1> QED BY <1>2, <1>3, <1>5, <1>6, <1>7 DEF Lists

\* Nothing is listed by the empty list.
LEMMA EmptyIsListed == Lists(<<>>, {}) /\ InOrder({}) = <<>>
<1>1. Lists(<<>>, {})
  BY DEF Lists
<1> QED BY <1>1, InOrderIs

----------------------------------------------------------------------------
(* What lines say, and what one line more changes.                         *)

\* What the lines of s say, by counting.
Opens == {"begin", "begin zone", "begin unknown"}

BeginsOf(s) == {i \in DOMAIN s : s[i] \in Opens}

DepthOf(s, i) == Cardinality({j \in BeginsOf(s) : j <= i})
                 - Cardinality({j \in 1..i : s[j] = "end"})

\* OpenAt.
OpenFrom(s, j, i) == j <= i /\ \A k \in j..i : DepthOf(s, k) >= DepthOf(s, j)

\* Open.
OpenOf(s) == {j \in BeginsOf(s) : OpenFrom(s, j, Len(s))}

\* What is around a component, and the outermost level.
OutOf(s, i) == {0} \cup {j \in BeginsOf(s) : j < i /\ OpenFrom(s, j, i - 1)}

\* Around.
AroundOf(s, i) == Max(OutOf(s, i))

\* ClosedIn.
ClosedOf(s, i) == {j \in BeginsOf(s) \ OpenOf(s) : AroundOf(s, j) = i}

\* Ordered.
OrderedIn(s) == \A i \in DOMAIN s : DepthOf(s, i) >= 0

\* Lines t are lines s and line x.
OneLine(s, x, t) == s \in Seq(LineKinds) /\ x \in LineKinds /\ t = Append(s, x)

\* What a line does to the depth.
Turn(x) == IF x \in Opens THEN 1 ELSE IF x = "end" THEN -1 ELSE 0

\* The lines before it stay where they are.
LEMMA LineIsAdded ==
  ASSUME NEW s, NEW x, NEW t, OneLine(s, x, t), NEW n, n = Len(s)
  PROVE  /\ n \in Nat /\ t \in Seq(LineKinds) /\ Len(t) = n + 1
         /\ DOMAIN s = 1..n /\ DOMAIN t = 1..n + 1
         /\ t[n + 1] = x /\ \A i \in 1..n : t[i] = s[i]
         /\ BeginsOf(s) \subseteq 1..n /\ BeginsOf(t) \subseteq 1..n + 1
         /\ \A i \in 1..n : i \in BeginsOf(t) <=> i \in BeginsOf(s)
         /\ n + 1 \in BeginsOf(t) <=> x \in Opens
<1>1. /\ n \in Nat /\ t \in Seq(LineKinds) /\ Len(t) = n + 1
      /\ t[n + 1] = x /\ \A i \in 1..n : t[i] = s[i]
  BY DEF OneLine
<1>2. DOMAIN s = 1..n /\ DOMAIN t = 1..n + 1
  BY <1>1 DEF OneLine
<1>3. n + 1 \in 1..n + 1 /\ 1..n \subseteq 1..n + 1
  BY <1>1
<1> QED BY <1>1, <1>2, <1>3 DEF BeginsOf

\* The depth counts finite sets.
LEMMA DepthIsInt ==
  ASSUME NEW s \in Seq(LineKinds), NEW i \in 0..Len(s)
  PROVE  /\ DepthOf(s, i) \in Int
         /\ IsFiniteSet({j \in BeginsOf(s) : j <= i}) /\ IsFiniteSet({j \in 1..i : s[j] = "end"})
<1>1. Len(s) \in Nat /\ IsFiniteSet(1..Len(s)) /\ IsFiniteSet(1..i)
  BY FS_Interval
<1>2. {j \in BeginsOf(s) : j <= i} \in SUBSET (1..Len(s)) /\ {j \in 1..i : s[j] = "end"} \in SUBSET (1..i)
  BY DEF BeginsOf
<1>3. IsFiniteSet({j \in BeginsOf(s) : j <= i}) /\ IsFiniteSet({j \in 1..i : s[j] = "end"})
  BY <1>1, <1>2, FS_Subset
<1>4. Cardinality({j \in BeginsOf(s) : j <= i}) \in Nat /\ Cardinality({j \in 1..i : s[j] = "end"}) \in Nat
  BY <1>3, FS_CardinalityType
<1> QED BY <1>3, <1>4 DEF DepthOf

\* Nothing is open before the first line.
LEMMA DepthStarts == \A s \in Seq(LineKinds) : DepthOf(s, 0) = 0
<1> SUFFICES ASSUME NEW s \in Seq(LineKinds) PROVE DepthOf(s, 0) = 0
  OBVIOUS
<1>1. {j \in BeginsOf(s) : j <= 0} = {} /\ {j \in 1..0 : s[j] = "end"} = {}
  BY DEF BeginsOf
<1>2. DepthOf(s, 0) = Cardinality({}) - Cardinality({})
  BY <1>1 DEF DepthOf
<1>3. Cardinality({}) = 0
  BY FS_EmptySet
<1> QED BY <1>2, <1>3

\* A line changes the depth after it and no other.
LEMMA DepthGrows ==
  ASSUME NEW s, NEW x, NEW t, OneLine(s, x, t), NEW n, n = Len(s)
  PROVE  /\ \A i \in 0..n : DepthOf(t, i) = DepthOf(s, i)
         /\ DepthOf(t, n + 1) = DepthOf(s, n) + Turn(x)
<1>a. /\ n \in Nat /\ t \in Seq(LineKinds) /\ Len(t) = n + 1
      /\ DOMAIN s = 1..n /\ DOMAIN t = 1..n + 1
      /\ t[n + 1] = x /\ \A i \in 1..n : t[i] = s[i]
      /\ BeginsOf(s) \subseteq 1..n /\ BeginsOf(t) \subseteq 1..n + 1
      /\ \A i \in 1..n : i \in BeginsOf(t) <=> i \in BeginsOf(s)
      /\ n + 1 \in BeginsOf(t) <=> x \in Opens
  BY LineIsAdded
<1>b. s \in Seq(LineKinds)
  BY DEF OneLine
<1>1. /\ n \in Nat /\ s \in Seq(LineKinds) /\ n = Len(s) /\ t \in Seq(LineKinds)
      /\ t[n + 1] = x /\ \A i \in 1..n : t[i] = s[i]
      /\ BeginsOf(s) \subseteq 1..n /\ BeginsOf(t) \subseteq 1..n + 1
      /\ \A i \in 1..n : i \in BeginsOf(t) <=> i \in BeginsOf(s)
      /\ n + 1 \in BeginsOf(t) <=> x \in Opens
  BY <1>a, <1>b
<1>2. ASSUME NEW i \in 0..n PROVE DepthOf(t, i) = DepthOf(s, i)
  <2>1. {j \in BeginsOf(t) : j <= i} = {j \in BeginsOf(s) : j <= i}
    <3>1. ASSUME NEW j, j <= i PROVE j \in BeginsOf(t) <=> j \in BeginsOf(s)
      <4>1. j \in 1..n + 1 => j \in 1..n
        BY <1>1, <3>1
      <4> QED BY <1>1, <4>1
    <3> QED BY <3>1
  <2>2. {j \in 1..i : t[j] = "end"} = {j \in 1..i : s[j] = "end"}
    <3>1. 1..i \subseteq 1..n
      BY <1>1
    <3> QED BY <1>1, <3>1
  <2> QED BY <2>1, <2>2 DEF DepthOf
<1>3. PICK B, E, C, F : /\ B = {j \in BeginsOf(s) : j <= n} /\ E = {j \in 1..n : s[j] = "end"}
                        /\ C = {j \in BeginsOf(t) : j <= n + 1} /\ F = {j \in 1..n + 1 : t[j] = "end"}
  OBVIOUS
<1>4. /\ IsFiniteSet(B) /\ IsFiniteSet(E) /\ n + 1 \notin B /\ n + 1 \notin E
      /\ Cardinality(B) \in Nat /\ Cardinality(E) \in Nat
  <2>1. n \in 0..n
    BY <1>1
  <2>2. IsFiniteSet(B) /\ IsFiniteSet(E)
    BY <1>1, <1>3, <2>1, DepthIsInt
  <2>3. n + 1 \notin B /\ n + 1 \notin E
    BY <1>1, <1>3
  <2> QED BY <2>2, <2>3, FS_CardinalityType
<1>5. C = IF x \in Opens THEN B \cup {n + 1} ELSE B
  <2>1. ASSUME NEW j PROVE j \in C <=> (j \in B \/ (j = n + 1 /\ x \in Opens))
    <3>1. j \in C <=> j \in 1..n + 1 /\ j \in BeginsOf(t)
      BY <1>1, <1>3
    <3>2. j \in B <=> j \in 1..n /\ j \in BeginsOf(s)
      BY <1>1, <1>3
    <3>3. j \in 1..n + 1 <=> j \in 1..n \/ j = n + 1
      BY <1>1
    <3>4. n + 1 \notin 1..n
      BY <1>1
    <3> QED BY <1>1, <3>1, <3>2, <3>3, <3>4
  <2> QED BY <2>1
<1>6. F = IF x = "end" THEN E \cup {n + 1} ELSE E
  <2>1. ASSUME NEW j PROVE j \in F <=> (j \in E \/ (j = n + 1 /\ x = "end"))
    <3>1. j \in 1..n + 1 <=> j \in 1..n \/ j = n + 1
      BY <1>1
    <3>2. n + 1 \notin 1..n
      BY <1>1
    <3> QED BY <1>1, <1>3, <3>1, <3>2
  <2> QED BY <2>1
<1>7. Cardinality(C) = IF x \in Opens THEN Cardinality(B) + 1 ELSE Cardinality(B)
  BY <1>4, <1>5, FS_AddElement
<1>8. Cardinality(F) = IF x = "end" THEN Cardinality(E) + 1 ELSE Cardinality(E)
  BY <1>4, <1>6, FS_AddElement
<1>9. DepthOf(t, n + 1) = Cardinality(C) - Cardinality(F) /\ DepthOf(s, n) = Cardinality(B) - Cardinality(E)
  BY <1>3 DEF DepthOf
<1>10. DepthOf(t, n + 1) = DepthOf(s, n) + Turn(x)
  <2>1. ~(x \in Opens /\ x = "end")
    BY DEF Opens
  <2> QED BY <1>4, <1>7, <1>8, <1>9, <2>1 DEF Turn
<1> QED BY <1>2, <1>10

\* What is open after a line was open before it, or began there.
LEMMA OpenGrows ==
  ASSUME NEW s, NEW x, NEW t, OneLine(s, x, t), NEW n, n = Len(s)
  PROVE  /\ \A j \in 1..n + 1, i \in 0..n : OpenFrom(t, j, i) <=> OpenFrom(s, j, i)
         /\ \A j \in 1..n : OpenFrom(t, j, n + 1)
                              <=> OpenFrom(s, j, n) /\ DepthOf(s, n) + Turn(x) >= DepthOf(s, j)
         /\ OpenFrom(t, n + 1, n + 1)
<1>1. n \in Nat /\ n = Len(s) /\ s \in Seq(LineKinds)
  BY DEF OneLine
<1>2. \A i \in 0..n : DepthOf(t, i) = DepthOf(s, i)
  BY DepthGrows
<1>3. DepthOf(t, n + 1) = DepthOf(s, n) + Turn(x)
  BY DepthGrows
<1>4. \A i \in 0..n : DepthOf(s, i) \in Int
  BY <1>1, DepthIsInt
<1>5. ASSUME NEW j \in 1..n + 1, NEW i \in 0..n PROVE OpenFrom(t, j, i) <=> OpenFrom(s, j, i)
  <2>1. CASE j > i
    BY <1>1, <2>1 DEF OpenFrom
  <2>2. CASE j <= i
    <3>1. j..i \subseteq 0..n /\ j \in 0..n
      BY <1>1, <2>2
    <3>2. \A k \in j..i : DepthOf(t, k) >= DepthOf(t, j) <=> DepthOf(s, k) >= DepthOf(s, j)
      BY <1>2, <3>1
    <3> QED BY <3>2 DEF OpenFrom
  <2> QED BY <1>1, <2>1, <2>2
<1>6. ASSUME NEW j \in 1..n
      PROVE  OpenFrom(t, j, n + 1) <=> OpenFrom(s, j, n) /\ DepthOf(s, n) + Turn(x) >= DepthOf(s, j)
  <2>1. j \in 0..n /\ j <= n /\ j <= n + 1 /\ n \in 0..n /\ n \in j..n
    BY <1>1
  <2>2. \A k : k \in j..n + 1 <=> k \in j..n \/ k = n + 1
    BY <1>1, <2>1
  <2>3. \A k \in j..n : k \in 0..n
    BY <1>1
  <2>4. \A k \in j..n : DepthOf(t, k) >= DepthOf(t, j) <=> DepthOf(s, k) >= DepthOf(s, j)
    BY <1>2, <2>1, <2>3
  <2>5. DepthOf(t, n + 1) >= DepthOf(t, j) <=> DepthOf(s, n) + Turn(x) >= DepthOf(s, j)
    BY <1>2, <1>3, <2>1
  <2> QED BY <2>1, <2>2, <2>4, <2>5 DEF OpenFrom
<1>7. OpenFrom(t, n + 1, n + 1)
  <2>1. n \in 0..n
    BY <1>1
  <2>2. DepthOf(t, n + 1) \in Int
    BY <1>3, <1>4, <2>1 DEF Turn
  <2>3. \A k \in n + 1..n + 1 : k = n + 1
    BY <1>1
  <2>4. n + 1 <= n + 1
    BY <1>1
  <2> QED BY <2>2, <2>3, <2>4 DEF OpenFrom
<1> QED BY <1>5, <1>6, <1>7

\* An open component is no deeper than the last line.
LEMMA OpenIsDeep ==
  ASSUME NEW s \in Seq(LineKinds), NEW j \in OpenOf(s)
  PROVE  /\ j \in 1..Len(s) /\ j \in BeginsOf(s) /\ OpenFrom(s, j, Len(s))
         /\ DepthOf(s, j) <= DepthOf(s, Len(s))
         /\ DepthOf(s, j) \in Int /\ DepthOf(s, Len(s)) \in Int
<1>1. j \in BeginsOf(s) /\ OpenFrom(s, j, Len(s))
  BY DEF OpenOf
<1>2. j \in 1..Len(s)
  BY <1>1 DEF BeginsOf
<1>3. Len(s) \in j..Len(s) /\ j \in 0..Len(s) /\ Len(s) \in 0..Len(s)
  BY <1>2
<1>4. DepthOf(s, j) \in Int /\ DepthOf(s, Len(s)) \in Int
  BY <1>3, DepthIsInt
<1>5. DepthOf(s, Len(s)) >= DepthOf(s, j)
  BY <1>1, <1>3 DEF OpenFrom
<1> QED BY <1>1, <1>2, <1>4, <1>5

\* A line leaves open what is not deeper than the lines now are.
LEMMA OpensGrow ==
  ASSUME NEW s, NEW x, NEW t, OneLine(s, x, t), NEW n, n = Len(s)
  PROVE  OpenOf(t) = {j \in OpenOf(s) : DepthOf(s, n) + Turn(x) >= DepthOf(s, j)}
                       \cup (IF x \in Opens THEN {n + 1} ELSE {})
<1>1. PICK m : m = n + 1
  OBVIOUS
<1>2. /\ n \in Nat /\ Len(t) = m
      /\ BeginsOf(s) \subseteq 1..n /\ BeginsOf(t) \subseteq 1..m
      /\ \A i \in 1..n : i \in BeginsOf(t) <=> i \in BeginsOf(s)
      /\ m \in BeginsOf(t) <=> x \in Opens
  BY <1>1, LineIsAdded
<1>3. /\ \A j \in 1..n : OpenFrom(t, j, m)
                           <=> OpenFrom(s, j, n) /\ DepthOf(s, n) + Turn(x) >= DepthOf(s, j)
      /\ OpenFrom(t, m, m)
  BY <1>1, OpenGrows
<1>4. \A j : j \in OpenOf(t) <=> j \in BeginsOf(t) /\ OpenFrom(t, j, m)
  BY <1>2 DEF OpenOf
<1>5. \A j : j \in OpenOf(s) <=> j \in BeginsOf(s) /\ OpenFrom(s, j, n)
  BY DEF OpenOf
<1>6. m \notin 1..n /\ \A j \in 1..m : j \in 1..n \/ j = m
  BY <1>1, <1>2
<1>7. ASSUME NEW j
      PROVE  j \in OpenOf(t) <=> \/ j \in OpenOf(s) /\ DepthOf(s, n) + Turn(x) >= DepthOf(s, j)
                                 \/ j = m /\ x \in Opens
  <2>1. CASE j \in 1..n
    BY <1>2, <1>3, <1>4, <1>5, <1>6, <2>1
  <2>2. CASE j = m
    BY <1>2, <1>3, <1>4, <1>5, <1>6, <2>2
  <2>3. CASE j \notin 1..m
    <3>1. j \notin 1..n /\ j # m
      BY <1>1, <1>2, <2>3
    <3> QED BY <1>2, <1>4, <1>5, <2>3, <3>1
  <2> QED BY <1>6, <2>1, <2>2, <2>3
<1> QED BY <1>1, <1>7

\* Max is the largest number of a bounded set.
LEMMA MaxIs ==
  ASSUME NEW n \in Nat, NEW S \in SUBSET (0..n), 0 \in S
  PROVE  Max(S) \in S /\ \A y \in S : y <= Max(S)
<1>1. PICK T : T = {k \in Nat : k <= n /\ n - k \in S}
  OBVIOUS
<1>2. n \in T /\ T \in SUBSET Nat /\ T # {}
  BY <1>1
<1>3. PICK k \in T : \A l \in T : k <= l
  BY <1>2, LeastNumber
<1>4. n - k \in S
  BY <1>1
<1>5. ASSUME NEW y \in S PROVE n - k >= y
  <2>1. n - y \in Nat /\ n - y <= n /\ n - (n - y) = y
    OBVIOUS
  <2>2. n - y \in T
    BY <1>1, <2>1
  <2>3. k <= n - y /\ k \in Nat
    BY <1>1, <1>3, <2>2
  <2> QED BY <2>3
<1>6. \E z \in S : \A y \in S : z >= y
  BY <1>4, <1>5
<1>7. Max(S) \in S /\ \A y \in S : Max(S) >= y
  BY <1>6 DEF Max
<1> QED BY <1>7

\* Around a component is the last one begun before it and still open.
LEMMA AroundIs ==
  ASSUME NEW s \in Seq(LineKinds), NEW i \in 1..Len(s) + 1
  PROVE  /\ AroundOf(s, i) \in OutOf(s, i) /\ AroundOf(s, i) \in 0..i - 1
         /\ \A j \in OutOf(s, i) : j <= AroundOf(s, i)
<1>1. i - 1 \in Nat
  OBVIOUS
<1>2. OutOf(s, i) \in SUBSET (0..i - 1) /\ 0 \in OutOf(s, i)
  <2>1. BeginsOf(s) \subseteq 1..Len(s)
    BY DEF BeginsOf
  <2>2. ASSUME NEW j \in 1..Len(s), j < i PROVE j \in 0..i - 1
    BY <2>2
  <2>3. 0 \in 0..i - 1
    BY <1>1
  <2> QED BY <2>1, <2>2, <2>3 DEF OutOf
<1>3. Max(OutOf(s, i)) \in OutOf(s, i) /\ \A j \in OutOf(s, i) : j <= Max(OutOf(s, i))
  BY <1>1, <1>2, MaxIs
<1> QED BY <1>2, <1>3 DEF AroundOf

\* What is around a component does not change any more.
LEMMA AroundGrows ==
  ASSUME NEW s, NEW x, NEW t, OneLine(s, x, t), NEW i \in 1..Len(s) + 1
  PROVE  AroundOf(t, i) = AroundOf(s, i)
<1>1. PICK n : n = Len(s)
  OBVIOUS
<1>2. n \in Nat /\ i \in 1..n + 1 /\ i - 1 \in 0..n
  BY <1>1 DEF OneLine
<1>3. /\ BeginsOf(s) \subseteq 1..n /\ BeginsOf(t) \subseteq 1..n + 1
      /\ \A j \in 1..n : j \in BeginsOf(t) <=> j \in BeginsOf(s)
  BY <1>1, LineIsAdded
<1>4. \A j \in 1..n + 1 : OpenFrom(t, j, i - 1) <=> OpenFrom(s, j, i - 1)
  BY <1>1, <1>2, OpenGrows
<1>5. \A j \in 1..n + 1 : j < i => j \in 1..n
  BY <1>2
<1>6. \A j \in 1..n : j \in 1..n + 1
  BY <1>2
<1>7. OutOf(t, i) = OutOf(s, i)
  <2>1. ASSUME NEW j
        PROVE  j \in BeginsOf(t) /\ j < i /\ OpenFrom(t, j, i - 1)
                 <=> j \in BeginsOf(s) /\ j < i /\ OpenFrom(s, j, i - 1)
    BY <1>3, <1>4, <1>5, <1>6
  <2> QED BY <2>1 DEF OutOf
<1> QED BY <1>7 DEF AroundOf

\* What stands beside an open component and is closed was begun before it.
LEMMA ClosedBefore ==
  ASSUME NEW s \in Seq(LineKinds), NEW c \in OpenOf(s), NEW j \in ClosedOf(s, AroundOf(s, c))
  PROVE  j < c
<1>1. j \in BeginsOf(s) /\ j \notin OpenOf(s) /\ AroundOf(s, j) = AroundOf(s, c)
  BY DEF ClosedOf
<1>2. c \in BeginsOf(s) /\ OpenFrom(s, c, Len(s))
  BY DEF OpenOf
<1>3. j \in 1..Len(s) /\ c \in 1..Len(s) /\ Len(s) \in Nat
  BY <1>1, <1>2 DEF BeginsOf
<1>4. SUFFICES ASSUME c < j PROVE FALSE
  <2>1. j # c
    BY <1>1
  <2> QED BY <1>3, <2>1
<1>5. OpenFrom(s, c, j - 1)
  <2>1. c <= j - 1
    BY <1>3, <1>4
  <2>2. \A k \in c..j - 1 : k \in c..Len(s)
    BY <1>3
  <2> QED BY <1>2, <2>1, <2>2 DEF OpenFrom
<1>6. c \in OutOf(s, j)
  BY <1>2, <1>4, <1>5 DEF OutOf
<1>7. j \in 1..Len(s) + 1 /\ c \in 1..Len(s) + 1
  BY <1>3
<1>8. c <= AroundOf(s, j)
  BY <1>6, <1>7, AroundIs
<1>9. AroundOf(s, c) \in 0..c - 1
  BY <1>7, AroundIs
<1> QED BY <1>1, <1>3, <1>8, <1>9

\* The components in D are open before line x and closed after it.
Closes(s, x, t, D) ==
  /\ D \subseteq OpenOf(s)
  /\ OpenOf(t) \cap BeginsOf(s) = OpenOf(s) \ D
  /\ x \in Opens => Len(s) + 1 \in OpenOf(t)

\* Closed are those that were, and those the line closes.
LEMMA ClosedGrows ==
  ASSUME NEW s, NEW x, NEW t, OneLine(s, x, t), NEW D, Closes(s, x, t, D), NEW i
  PROVE  \A j : j \in ClosedOf(t, i) <=> j \in ClosedOf(s, i) \/ (j \in D /\ AroundOf(s, j) = i)
<1> USE DEF Closes
<1>1. PICK n, m : n = Len(s) /\ m = n + 1
  OBVIOUS
<1>2. /\ n \in Nat /\ BeginsOf(s) \subseteq 1..n /\ BeginsOf(t) \subseteq 1..m
      /\ \A j \in 1..n : j \in BeginsOf(t) <=> j \in BeginsOf(s)
      /\ m \in BeginsOf(t) <=> x \in Opens
  BY <1>1, LineIsAdded
<1>3. \A j \in 1..n : AroundOf(t, j) = AroundOf(s, j)
  <2>1. \A j \in 1..n : j \in 1..Len(s) + 1
    BY <1>1, <1>2
  <2> QED BY <2>1, AroundGrows
<1>4. m \notin 1..n /\ \A j \in 1..m : j \in 1..n \/ j = m
  BY <1>1, <1>2
<1>5. D \subseteq BeginsOf(s)
  BY DEF OpenOf
<1>6. ASSUME NEW j
      PROVE  j \in ClosedOf(t, i) <=> j \in ClosedOf(s, i) \/ (j \in D /\ AroundOf(s, j) = i)
  <2>1. CASE j \in 1..n
    BY <1>2, <1>3, <1>5, <2>1 DEF ClosedOf
  <2>2. CASE j = m
    BY <1>1, <1>2, <1>4, <1>5, <2>2 DEF ClosedOf
  <2>3. CASE j \notin 1..n /\ j # m
    BY <1>2, <1>4, <1>5, <2>3 DEF ClosedOf
  <2> QED BY <2>1, <2>2, <2>3
<1> QED BY <1>6

----------------------------------------------------------------------------
(* Children in their order.                                                *)

\* Every bounded set has a list.
LEMMA ListExists ==
  ASSUME NEW n \in Nat, NEW S \in SUBSET (1..n)
  PROVE  \E t : Lists(t, S)
<1> DEFINE T == {k \in Nat : \E t : Lists(t, S \cap (1..k))}
<1>1. 0 \in T
  <2>1. S \cap (1..0) = {}
    OBVIOUS
  <2> QED BY <2>1, EmptyIsListed
<1>2. ASSUME NEW k \in Nat, k \in T PROVE k + 1 \in T
  <2>1. PICK t : Lists(t, S \cap (1..k))
    BY <1>2
  <2>2. CASE k + 1 \in S
    <3>1. (S \cap (1..k)) \cup {k + 1} = S \cap (1..k + 1)
      BY <2>2
    <3>2. k + 1 \in Int /\ \A y \in S \cap (1..k) : y < k + 1
      OBVIOUS
    <3>3. Lists(Append(t, k + 1), (S \cap (1..k)) \cup {k + 1})
      BY <2>1, <3>2, ListGrows
    <3> QED BY <3>1, <3>3
  <2>3. CASE k + 1 \notin S
    <3>1. S \cap (1..k) = S \cap (1..k + 1)
      BY <2>3
    <3> QED BY <2>1, <3>1
  <2> QED BY <2>2, <2>3
<1> HIDE DEF T
<1>3. n \in T
  BY <1>1, <1>2, InductionOnNat
<1>4. S \cap (1..n) = S
  OBVIOUS
<1> QED BY <1>3, <1>4 DEF T

\* A larger number goes to the end of InOrder.
LEMMA InOrderGrows ==
  ASSUME NEW n \in Nat, NEW S \in SUBSET (1..n), NEW x \in Int, \A y \in S : y < x
  PROVE  /\ InOrder(S) \in Seq(Int) /\ Lists(InOrder(S), S)
         /\ InOrder(S \cup {x}) = Append(InOrder(S), x)
<1>1. PICK t : Lists(t, S)
  BY ListExists
<1>2. InOrder(S) = t
  BY <1>1, InOrderIs
<1>3. Lists(Append(t, x), S \cup {x})
  BY <1>1, ListGrows
<1>4. InOrder(S \cup {x}) = Append(t, x)
  BY <1>3, InOrderIs
<1> QED BY <1>1, <1>2, <1>4 DEF Lists

\* What is appended comes first in reverse.
LEMMA ReverseOfAppend ==
  ASSUME NEW t \in Seq(Int), NEW x \in Int
  PROVE  Reverse(t) \in Seq(Int) /\ Reverse(Append(t, x)) = <<x>> \o Reverse(t)
<1>1. PICK n, w, b, r, v : /\ n = Len(t) /\ w = Append(t, x) /\ b = <<x>>
                           /\ r = Reverse(t) /\ v = Reverse(w)
  OBVIOUS
<1>2. /\ n \in Nat /\ Len(w) = n + 1 /\ w[n + 1] = x /\ \A i \in 1..n : w[i] = t[i]
      /\ w \in Seq(Int) /\ b \in Seq(Int) /\ Len(b) = 1 /\ b[1] = x
  BY <1>1
<1>3. r = [i \in 1..n |-> t[(n - i) + 1]]
  BY <1>1 DEF Reverse
<1>4. \A i \in 1..n : (n - i) + 1 \in 1..n
  BY <1>2
<1>5. r \in Seq(Int) /\ Len(r) = n /\ \A i \in 1..n : r[i] = t[(n - i) + 1]
  <2>1. \A i \in 1..n : t[(n - i) + 1] \in Int
    BY <1>1, <1>4
  <2> QED BY <1>2, <1>3, <2>1
<1>6. v = [i \in 1..n + 1 |-> w[((n + 1) - i) + 1]]
  BY <1>1, <1>2 DEF Reverse
<1>7. \A i \in 1..n + 1 : ((n + 1) - i) + 1 \in 1..n + 1
  BY <1>2
<1>8. v \in Seq(Int) /\ Len(v) = n + 1 /\ \A i \in 1..n + 1 : v[i] = w[((n + 1) - i) + 1]
  <2>1. \A i \in 1..n + 1 : w[((n + 1) - i) + 1] \in Int
    BY <1>2, <1>7
  <2> QED BY <1>2, <1>6, <2>1
<1>9. PICK u : u = b \o r
  OBVIOUS
<1>10. /\ u \in Seq(Int) /\ Len(u) = n + 1
       /\ \A i \in 1..n + 1 : u[i] = IF i <= 1 THEN b[i] ELSE r[i - 1]
  <2>1. /\ u \in Seq(Int) /\ Len(u) = Len(b) + Len(r)
        /\ \A i \in 1..Len(b) + Len(r) : u[i] = IF i <= Len(b) THEN b[i] ELSE r[i - Len(b)]
    <3>1. /\ b \o r \in Seq(Int) /\ Len(b \o r) = Len(b) + Len(r)
          /\ \A i \in 1..Len(b) + Len(r) : (b \o r)[i] = IF i <= Len(b) THEN b[i] ELSE r[i - Len(b)]
      <4>1. b \in Seq(Int) /\ r \in Seq(Int)
        BY <1>2, <1>5
      <4> QED BY ONLY <4>1, ConcatProperties
    <3> QED BY <1>9, <3>1
  <2>2. Len(b) + Len(r) = n + 1
    BY <1>2, <1>5
  <2> QED BY <1>2, <2>1, <2>2
<1>11. ASSUME NEW i \in 1..n + 1 PROVE v[i] = u[i]
  <2>1. CASE i = 1
    <3>1. ((n + 1) - 1) + 1 = n + 1
      BY <1>2
    <3> QED BY <1>2, <1>8, <1>10, <2>1, <3>1
  <2>2. CASE i # 1
    <3>1. i - 1 \in 1..n /\ ~(i <= 1) /\ (n - (i - 1)) + 1 = ((n + 1) - i) + 1
      BY <1>2, <2>2
    <3>2. ((n + 1) - i) + 1 \in 1..n
      BY <1>2, <2>2
    <3>3. u[i] = t[(n - (i - 1)) + 1]
      BY <1>5, <1>10, <3>1
    <3>4. v[i] = t[((n + 1) - i) + 1]
      BY <1>2, <1>8, <3>2
    <3> QED BY <3>1, <3>3, <3>4
  <2> QED BY <2>1, <2>2
<1>12. v = u
  BY <1>2, <1>8, <1>10, <1>11
<1> QED BY <1>1, <1>5, <1>9, <1>12

\* Arranged.
ArrangedIn(s, ids) ==
  LET zones == {i \in ids : s[i] = "begin zone"}
  IN  Reverse(InOrder(zones)) \o InOrder(ids \ zones)

\* A component begun later comes last, a zone first:
\* icalcomponent_add_component.
LEMMA ArrangedGrows ==
  ASSUME NEW s, NEW n \in Nat, NEW ids \in SUBSET (1..n), NEW x \in Int, \A y \in ids : y < x
  PROVE  /\ ArrangedIn(s, ids) \in Seq(Int)
         /\ ArrangedIn(s, ids \cup {x}) = IF s[x] = "begin zone" THEN <<x>> \o ArrangedIn(s, ids)
                                                                 ELSE Append(ArrangedIn(s, ids), x)
<1>1. PICK z, o, zs, os : /\ z = {i \in ids : s[i] = "begin zone"} /\ o = ids \ z
                          /\ zs = InOrder(z) /\ os = InOrder(o)
  OBVIOUS
<1>2. z \in SUBSET (1..n) /\ o \in SUBSET (1..n) /\ x \notin ids
      /\ (\A y \in z : y < x) /\ (\A y \in o : y < x)
  <2>1. z \subseteq ids /\ o \subseteq ids
    BY <1>1
  <2>2. x \notin ids
    OBVIOUS
  <2> QED BY <2>1, <2>2
<1>3. zs \in Seq(Int) /\ InOrder(z \cup {x}) = Append(zs, x)
  BY <1>1, <1>2, InOrderGrows
<1>4. os \in Seq(Int) /\ InOrder(o \cup {x}) = Append(os, x)
  BY <1>1, <1>2, InOrderGrows
<1>5. Reverse(zs) \in Seq(Int) /\ Reverse(Append(zs, x)) = <<x>> \o Reverse(zs)
  BY <1>3, ReverseOfAppend
<1>6. PICK r : r = Reverse(zs)
  OBVIOUS
<1>7. ArrangedIn(s, ids) = r \o os
  BY <1>1, <1>6 DEF ArrangedIn
<1>8. r \o os \in Seq(Int)
  BY <1>4, <1>5, <1>6, ConcatProperties
<1>9. CASE s[x] = "begin zone"
  <2>1. {i \in ids \cup {x} : s[i] = "begin zone"} = z \cup {x}
    BY <1>1, <1>9
  <2>2. (ids \cup {x}) \ (z \cup {x}) = o
    BY <1>1, <1>2
  <2>3. ArrangedIn(s, ids \cup {x}) = Reverse(InOrder(z \cup {x})) \o InOrder(o)
    BY <2>1, <2>2 DEF ArrangedIn
  <2>4. ArrangedIn(s, ids \cup {x}) = (<<x>> \o r) \o os
    BY <1>1, <1>3, <1>5, <1>6, <2>3
  <2>5. <<x>> \in Seq(Int) /\ r \in Seq(Int)
    BY <1>5, <1>6
  <2>6. (<<x>> \o r) \o os = <<x>> \o (r \o os)
    BY <1>4, <2>5, ConcatAssociative
  <2> QED BY <1>7, <1>8, <1>9, <2>4, <2>6
<1>10. CASE s[x] # "begin zone"
  <2>1. {i \in ids \cup {x} : s[i] = "begin zone"} = z
    BY <1>1, <1>10
  <2>2. (ids \cup {x}) \ z = o \cup {x}
    BY <1>1, <1>2
  <2>3. ArrangedIn(s, ids \cup {x}) = Reverse(InOrder(z)) \o InOrder(o \cup {x})
    BY <2>1, <2>2 DEF ArrangedIn
  <2>4. ArrangedIn(s, ids \cup {x}) = r \o Append(os, x)
    BY <1>1, <1>4, <1>6, <2>3
  <2>5. r \o Append(os, x) = Append(r \o os, x)
    <3>1. r \in Seq(Int)
      BY <1>5, <1>6
    <3> QED BY <1>4, <3>1
  <2> QED BY <1>7, <1>8, <1>10, <2>4, <2>5
<1> QED BY <1>7, <1>8, <1>9, <1>10

\* No components, no children.
LEMMA EmptyIsArranged == \A s : ArrangedIn(s, {}) = <<>>
<1> SUFFICES ASSUME NEW s PROVE ArrangedIn(s, {}) = <<>>
  OBVIOUS
<1>1. {i \in {} : s[i] = "begin zone"} = {} /\ {} \ {} = {}
  OBVIOUS
<1>2. ArrangedIn(s, {}) = Reverse(<<>>) \o <<>>
  BY <1>1, EmptyIsListed DEF ArrangedIn
<1>3. Reverse(<<>>) = <<>>
  BY DEF Reverse
<1> QED BY <1>2, <1>3

\* Only the lines of the components themselves matter.
LEMMA ArrangedStays ==
  ASSUME NEW s, NEW t, NEW ids, \A i \in ids : t[i] = s[i]
  PROVE  ArrangedIn(t, ids) = ArrangedIn(s, ids)
<1>1. {i \in ids : t[i] = "begin zone"} = {i \in ids : s[i] = "begin zone"}
  OBVIOUS
<1> QED BY <1>1 DEF ArrangedIn

----------------------------------------------------------------------------
(* The stack.                                                              *)

\* The stack has the open components, the m-th one m levels deep and in the one before it.
Stacked(s, st) ==
  /\ Lists(st, OpenOf(s))
  /\ Len(st) = DepthOf(s, Len(s))
  /\ \A m \in 1..Len(st) : DepthOf(s, st[m]) = m
  /\ \A m \in 1..Len(st) : AroundOf(s, st[m]) = IF m = 1 THEN 0 ELSE st[m - 1]

\* The innermost open component, 0 for none.
TopOf(st) == IF st = <<>> THEN 0 ELSE st[Len(st)]

\* The stack has different components of the input.
LEMMA StackIs ==
  ASSUME NEW s \in Seq(LineKinds), NEW st, Stacked(s, st)
  PROVE  /\ st \in Seq(1..Len(s)) /\ Len(st) \in Nat
         /\ \A m \in 1..Len(st) : st[m] \in OpenOf(s) /\ st[m] \in BeginsOf(s) /\ st[m] \in 1..Len(s)
         /\ \A i, j \in 1..Len(st) : st[i] = st[j] => i = j
<1>1. st \in Seq(Int) /\ \A m \in 1..Len(st) : st[m] \in OpenOf(s)
  BY DEF Stacked, Lists
<1>2. \A j \in OpenOf(s) : j \in BeginsOf(s) /\ j \in 1..Len(s)
  BY OpenIsDeep
<1>3. \A i, j \in 1..Len(st) : i < j => st[i] < st[j]
  BY DEF Stacked, Lists
<1>4. \A m \in 1..Len(st) : st[m] \in 1..Len(s)
  BY <1>1, <1>2
<1>5. st \in Seq(1..Len(s))
  BY <1>1, <1>4
<1>6. ASSUME NEW i \in 1..Len(st), NEW j \in 1..Len(st), st[i] = st[j] PROVE i = j
  <2>1. ~(i < j) /\ ~(j < i)
    BY <1>1, <1>3, <1>6
  <2> QED BY <1>1, <2>1
<1> QED BY <1>1, <1>2, <1>5, <1>6

\* The top of the stack is what is around the next line.
LEMMA AroundTop ==
  ASSUME NEW s \in Seq(LineKinds), NEW st, Stacked(s, st)
  PROVE  AroundOf(s, Len(s) + 1) = TopOf(st)
<1>1. PICK n, l, a : n = Len(s) /\ l = Len(st) /\ a = AroundOf(s, n + 1)
  OBVIOUS
<1>2. n \in Nat /\ l \in Nat /\ \A m \in 1..l : st[m] \in OpenOf(s) /\ st[m] \in 1..n
  BY <1>1, StackIs
<1>3. OutOf(s, n + 1) = {0} \cup OpenOf(s)
  <2>1. (n + 1) - 1 = n
    BY <1>2
  <2>2. \A j \in BeginsOf(s) : j < n + 1
    BY <1>1, <1>2 DEF BeginsOf
  <2> QED BY <1>1, <2>1, <2>2 DEF OutOf, OpenOf
<1>4. a \in {0} \cup OpenOf(s) /\ \A j \in {0} \cup OpenOf(s) : j <= a
  <2>1. n + 1 \in 1..Len(s) + 1
    BY <1>1, <1>2
  <2> QED BY <1>1, <1>3, <2>1, AroundIs
<1>5. \A x \in OpenOf(s) : \E i \in 1..l : st[i] = x
  BY <1>1 DEF Stacked, Lists
<1>6. CASE st = <<>>
  <2>1. l = 0
    BY <1>1, <1>6
  <2> QED BY <1>1, <1>4, <1>5, <1>6, <2>1 DEF TopOf
<1>7. CASE st # <<>>
  <2>1. l # 0
    BY <1>1, <1>7 DEF Stacked, Lists
  <2>2. l \in 1..l /\ st[l] <= a /\ st[l] \in 1..n
    BY <1>2, <1>4, <2>1
  <2>3. a # 0
    BY <1>2, <2>2
  <2>4. PICK i \in 1..l : st[i] = a
    BY <1>4, <1>5, <2>3
  <2>5. ~(i < l)
    <3>1. i < l => st[i] < st[l]
      BY <1>1, <2>2, <2>4 DEF Stacked, Lists
    <3> QED BY <1>2, <2>2, <2>4, <3>1
  <2>6. i = l
    BY <1>2, <2>4, <2>5
  <2> QED BY <1>1, <1>7, <2>4, <2>6 DEF TopOf
<1> QED BY <1>6, <1>7

\* A BEGIN is one component more, the last.
LEMMA StackGrows ==
  ASSUME NEW s, NEW x, NEW t, OneLine(s, x, t), x \in Opens, NEW st, Stacked(s, st)
  PROVE  /\ Stacked(t, Append(st, Len(s) + 1))
         /\ OpenOf(t) = OpenOf(s) \cup {Len(s) + 1}
<1>1. PICK n, m, l, w : n = Len(s) /\ m = n + 1 /\ l = Len(st) /\ w = Append(st, m)
  OBVIOUS
<1>2. s \in Seq(LineKinds) /\ n \in Nat /\ l \in Nat /\ Len(t) = m
  BY <1>1, StackIs, LineIsAdded DEF OneLine
<1>3. /\ st \in Seq(Int) /\ \A i \in 1..l : st[i] \in OpenOf(s) /\ st[i] \in 1..n
  BY <1>1, <1>2, StackIs DEF Stacked, Lists
<1>4. l = DepthOf(s, n) /\ \A i \in 1..l : DepthOf(s, st[i]) = i /\ AroundOf(s, st[i]) = IF i = 1 THEN 0 ELSE st[i - 1]
  BY <1>1 DEF Stacked
<1>5. Turn(x) = 1
  BY DEF Turn
<1>6. DepthOf(t, m) = l + 1 /\ \A i \in 0..n : DepthOf(t, i) = DepthOf(s, i)
  BY <1>1, <1>4, <1>5, DepthGrows
<1>7. OpenOf(t) = OpenOf(s) \cup {m}
  <2>1. \A j \in OpenOf(s) : DepthOf(s, n) + Turn(x) >= DepthOf(s, j)
    <3>1. \A j \in OpenOf(s) : DepthOf(s, j) <= DepthOf(s, n) /\ DepthOf(s, j) \in Int /\ DepthOf(s, n) \in Int
      BY <1>1, <1>2, OpenIsDeep
    <3> QED BY <1>5, <3>1
  <2> QED BY <1>1, <2>1, OpensGrow
<1>8. Lists(w, OpenOf(t))
  <2>1. \A y \in OpenOf(s) : y < m
    <3>1. \A y \in OpenOf(s) : y \in 1..n
      BY <1>1, <1>2, OpenIsDeep
    <3> QED BY <1>1, <1>2, <3>1
  <2>2. m \in Int /\ Lists(st, OpenOf(s))
    BY <1>1, <1>2 DEF Stacked
  <2> QED BY <1>1, <1>7, <2>1, <2>2, ListGrows
<1>9. Len(w) = l + 1 /\ w[l + 1] = m /\ \A i \in 1..l : w[i] = st[i]
  BY <1>1, <1>2, <1>3
<1>10. \A i \in 1..l + 1 : DepthOf(t, w[i]) = i
  <2>1. \A i \in 1..l : DepthOf(t, st[i]) = i
    <3>1. \A i \in 1..l : st[i] \in 0..n
      BY <1>2, <1>3
    <3> QED BY <1>4, <1>6, <3>1
  <2> QED BY <1>2, <1>6, <1>9, <2>1
<1>11. ASSUME NEW i \in 1..l + 1 PROVE AroundOf(t, w[i]) = IF i = 1 THEN 0 ELSE w[i - 1]
  <2>1. CASE i \in 1..l
    <3>1. st[i] \in 1..Len(s) + 1
      BY <1>1, <1>2, <1>3, <2>1
    <3>2. AroundOf(t, st[i]) = AroundOf(s, st[i])
      BY <3>1, AroundGrows
    <3>3. i # 1 => i - 1 \in 1..l
      BY <1>2, <2>1
    <3> QED BY <1>4, <1>9, <2>1, <3>2, <3>3
  <2>2. CASE i = l + 1
    <3>1. m \in 1..Len(s) + 1
      BY <1>1, <1>2
    <3>2. AroundOf(t, m) = TopOf(st)
      BY <1>1, <1>2, <3>1, AroundGrows, AroundTop
    <3>3. st = <<>> <=> l = 0
      BY <1>1, <1>3
    <3>4. i # 1 => l \in 1..l /\ i - 1 = l
      BY <1>2, <2>2
    <3> QED BY <1>1, <1>2, <1>9, <2>2, <3>2, <3>3, <3>4 DEF TopOf
  <2> QED BY <1>2, <2>1, <2>2
<1> QED BY <1>1, <1>2, <1>6, <1>7, <1>8, <1>9, <1>10, <1>11 DEF Stacked

\* An END closes exactly the top of the stack.
LEMMA StackShrinks ==
  ASSUME NEW s, NEW t, OneLine(s, "end", t), NEW st, Stacked(s, st), DepthOf(t, Len(t)) >= 0
  PROVE  /\ st # <<>> /\ Stacked(t, Front(st))
         /\ OpenOf(t) = OpenOf(s) \ {st[Len(st)]}
<1>1. PICK n, m, l, w : n = Len(s) /\ m = n + 1 /\ l = Len(st) /\ w = Front(st)
  OBVIOUS
<1>2. s \in Seq(LineKinds) /\ n \in Nat /\ l \in Nat /\ Len(t) = m
  BY <1>1, StackIs, LineIsAdded DEF OneLine
<1>3. st \in Seq(Int) /\ (\A i \in 1..l : st[i] \in OpenOf(s) /\ st[i] \in 1..n)
      /\ \A i, j \in 1..l : st[i] = st[j] => i = j
  BY <1>1, <1>2, StackIs DEF Stacked, Lists
<1>4. l = DepthOf(s, n) /\ \A i \in 1..l : DepthOf(s, st[i]) = i /\ AroundOf(s, st[i]) = IF i = 1 THEN 0 ELSE st[i - 1]
  BY <1>1 DEF Stacked
<1>5. Turn("end") = -1
  BY DEF Turn, Opens
<1>6. DepthOf(t, m) = l - 1 /\ \A i \in 0..n : DepthOf(t, i) = DepthOf(s, i)
  <2>1. DepthOf(t, m) = l + -1 /\ \A i \in 0..n : DepthOf(t, i) = DepthOf(s, i)
    BY <1>1, <1>4, <1>5, DepthGrows
  <2> QED BY <1>2, <2>1
<1>7. l # 0 /\ st # <<>> /\ l \in 1..l
  BY <1>1, <1>2, <1>6
<1>8. OpenOf(t) = OpenOf(s) \ {st[l]}
  <2>1. ASSUME NEW j \in OpenOf(s) PROVE DepthOf(s, n) + Turn("end") >= DepthOf(s, j) <=> j # st[l]
    <3>1. PICK i \in 1..l : st[i] = j
      BY <1>1 DEF Stacked, Lists
    <3>2. DepthOf(s, j) = i
      BY <1>4, <3>1
    <3>3. j = st[l] <=> i = l
      BY <1>3, <1>7, <3>1
    <3> QED BY <1>2, <1>4, <1>5, <3>2, <3>3
  <2>2. "end" \notin Opens
    BY DEF Opens
  <2>3. OpenOf(t) = {j \in OpenOf(s) : DepthOf(s, n) + Turn("end") >= DepthOf(s, j)}
    BY <1>1, <2>2, OpensGrow
  <2> QED BY <2>1, <2>3
<1>9. Lists(w, OpenOf(t))
  <2>1. Lists(st, OpenOf(s))
    BY DEF Stacked
  <2> QED BY <1>1, <1>7, <1>8, <2>1, ListShrinks
<1>10. Len(w) = l - 1 /\ \A i \in 1..l - 1 : w[i] = st[i] /\ i \in 1..l
  <2>1. w = SubSeq(st, 1, l - 1) /\ l - 1 \in Nat
    BY <1>1, <1>2, <1>7 DEF Front
  <2> QED BY <1>1, <1>2, <1>3, <2>1
<1>11. ASSUME NEW i \in 1..l - 1
       PROVE  DepthOf(t, w[i]) = i /\ AroundOf(t, w[i]) = IF i = 1 THEN 0 ELSE w[i - 1]
  <2>1. i \in 1..l /\ w[i] = st[i] /\ st[i] \in 1..n
    BY <1>3, <1>10
  <2>2. st[i] \in 0..n /\ st[i] \in 1..Len(s) + 1
    BY <1>1, <1>2, <2>1
  <2>3. AroundOf(t, st[i]) = AroundOf(s, st[i])
    BY <2>2, AroundGrows
  <2>4. i # 1 => i - 1 \in 1..l - 1
    BY <1>2
  <2> QED BY <1>4, <1>6, <1>10, <2>1, <2>2, <2>3, <2>4
<1> QED BY <1>1, <1>2, <1>6, <1>7, <1>8, <1>9, <1>10, <1>11 DEF Stacked

\* Another line opens and closes nothing.
LEMMA StackStays ==
  ASSUME NEW s, NEW x, NEW t, OneLine(s, x, t), x \notin Opens, x # "end", NEW st, Stacked(s, st)
  PROVE  Stacked(t, st) /\ OpenOf(t) = OpenOf(s)
<1>1. PICK n, m, l : n = Len(s) /\ m = n + 1 /\ l = Len(st)
  OBVIOUS
<1>2. s \in Seq(LineKinds) /\ n \in Nat /\ l \in Nat /\ Len(t) = m
  BY <1>1, StackIs, LineIsAdded DEF OneLine
<1>3. \A i \in 1..l : st[i] \in 1..n
  BY <1>1, <1>2, StackIs
<1>4. l = DepthOf(s, n) /\ \A i \in 1..l : DepthOf(s, st[i]) = i /\ AroundOf(s, st[i]) = IF i = 1 THEN 0 ELSE st[i - 1]
  BY <1>1 DEF Stacked
<1>5. Turn(x) = 0
  BY DEF Turn
<1>6. DepthOf(t, m) = l /\ \A i \in 0..n : DepthOf(t, i) = DepthOf(s, i)
  <2>1. DepthOf(t, m) = l + 0 /\ \A i \in 0..n : DepthOf(t, i) = DepthOf(s, i)
    BY <1>1, <1>4, <1>5, DepthGrows
  <2> QED BY <1>2, <2>1
<1>7. OpenOf(t) = OpenOf(s)
  <2>1. \A j \in OpenOf(s) : DepthOf(s, n) + Turn(x) >= DepthOf(s, j)
    <3>1. \A j \in OpenOf(s) : DepthOf(s, j) <= DepthOf(s, n) /\ DepthOf(s, j) \in Int /\ DepthOf(s, n) \in Int
      BY <1>1, <1>2, OpenIsDeep
    <3> QED BY <1>5, <3>1
  <2> QED BY ZenonT(30), <1>1, <2>1, OpensGrow
<1>8. \A i \in 1..l : DepthOf(t, st[i]) = i /\ AroundOf(t, st[i]) = AroundOf(s, st[i])
  <2>1. \A i \in 1..l : st[i] \in 0..n /\ st[i] \in 1..Len(s) + 1
    BY <1>1, <1>2, <1>3
  <2>2. \A i \in 1..l : AroundOf(t, st[i]) = AroundOf(s, st[i])
    BY <2>1, AroundGrows
  <2> QED BY <1>4, <1>6, <2>1, <2>2
<1>9. Lists(st, OpenOf(t))
  BY <1>7 DEF Stacked
<1> QED BY <1>1, <1>2, <1>4, <1>6, <1>7, <1>8, <1>9 DEF Stacked

----------------------------------------------------------------------------
(* What is in a component.                                                 *)

\* Within.
WithinOf(s, i) == {k \in DOMAIN s : s[k] \notin BracketKinds /\ AroundOf(s, k) = i}

\* What property lines leave.
MarksIn(s, ids) ==
  LET order == InOrder(ids)
  IN  FlattenSeq([k \in DOMAIN order |-> Leaves(s[order[k]])])

\* No lines leave nothing.
LEMMA EmptyHasNoMarks == \A s : MarksIn(s, {}) = <<>>
<1> SUFFICES ASSUME NEW s PROVE MarksIn(s, {}) = <<>>
  OBVIOUS
<1>1. InOrder({}) = <<>>
  BY EmptyIsListed
<1>2. PICK e : e = <<>>
  OBVIOUS
<1>3. [k \in DOMAIN e |-> Leaves(s[e[k]])] = <<>>
  BY <1>2
<1>4. MarksIn(s, {}) = FlattenSeq(<<>>)
  BY <1>1, <1>2, <1>3 DEF MarksIn
<1>5. FlattenSeq(<<>>) = <<>>
  BY DEF FlattenSeq
<1> QED BY <1>4, <1>5

\* A later line leaves its marks after the others.
LEMMA MarksGrow ==
  ASSUME NEW s, NEW n \in Nat, NEW ids \in SUBSET (1..n), NEW x \in Int, \A y \in ids : y < x,
         \A y \in ids \cup {x} : s[y] \in LineKinds \ BracketKinds
  PROVE  MarksIn(s, ids) \in Seq(Marks) /\ MarksIn(s, ids \cup {x}) = MarksIn(s, ids) \o Leaves(s[x])
<1>1. PICK o, w, l : o = InOrder(ids) /\ w = InOrder(ids \cup {x}) /\ l = Len(o)
  OBVIOUS
<1>2. o \in Seq(Int) /\ Lists(o, ids) /\ w = Append(o, x)
  BY <1>1, InOrderGrows
<1>3. l \in Nat /\ (\A k \in 1..l : o[k] \in ids) /\ DOMAIN o = 1..l
  BY <1>1, <1>2 DEF Lists
<1>4. w \in Seq(Int) /\ Len(w) = l + 1 /\ w[l + 1] = x /\ (\A k \in 1..l : w[k] = o[k]) /\ DOMAIN w = 1..l + 1
  <2>1. o \in Seq(Int) /\ Len(o) = l /\ l \in Nat /\ w = Append(o, x) /\ x \in Int
    BY <1>1, <1>2, <1>3
  <2> QED BY ONLY <2>1
<1>5. PICK M, e : M = Seq(Marks) /\ e = Leaves(s[x])
  OBVIOUS
<1>6. PICK f, g : f = [k \in 1..l |-> Leaves(s[o[k]])] /\ g = [k \in 1..l + 1 |-> Leaves(s[w[k]])]
  OBVIOUS
<1>7. (\A k \in 1..l : Leaves(s[o[k]]) \in M) /\ e \in M
  BY <1>3, <1>5, LeavesMarks
<1>8. f \in Seq(M) /\ Len(f) = l /\ \A k \in 1..l : f[k] = Leaves(s[o[k]])
  BY <1>3, <1>6, <1>7
<1>9. \A k \in 1..l + 1 : g[k] = IF k \in 1..l THEN f[k] ELSE e
  <2>1. \A k \in 1..l + 1 : k \in 1..l \/ k = l + 1
    BY <1>3
  <2> QED BY <1>3, <1>4, <1>5, <1>6, <1>8, <2>1
<1>10. g = Append(f, e)
  <2>1. PICK a : a = Append(f, e)
    OBVIOUS
  <2>2. a \in Seq(M) /\ Len(a) = l + 1 /\ a[l + 1] = e /\ \A k \in 1..l : a[k] = f[k]
    BY <1>3, <1>7, <1>8, <2>1
  <2>3. g \in Seq(M) /\ Len(g) = l + 1
    <3>1. \A k \in 1..l + 1 : Leaves(s[w[k]]) \in M
      BY <1>6, <1>7, <1>8, <1>9
    <3> QED BY <1>3, <1>6, <3>1
  <2>4. \A k \in 1..l + 1 : a[k] = g[k]
    <3>1. \A k \in 1..l + 1 : k \in 1..l \/ k = l + 1
      BY <1>3
    <3>2. l + 1 \notin 1..l
      BY <1>3
    <3> QED BY <1>9, <2>2, <3>1, <3>2
  <2>5. a = g
    BY <1>3, <2>2, <2>3, <2>4
  <2> QED BY <2>1, <2>5
<1>11. MarksIn(s, ids) = FlattenSeq(f) /\ MarksIn(s, ids \cup {x}) = FlattenSeq(g)
  BY <1>1, <1>3, <1>4, <1>6 DEF MarksIn
<1>12. FlattenSeq(f) \in Seq(Marks) /\ FlattenSeq(Append(f, e)) = FlattenSeq(f) \o e
  <2>1. f \in Seq(Seq(Marks)) /\ e \in Seq(Marks)
    BY <1>5, <1>7, <1>8
  <2> QED BY ONLY <2>1, FlattenAppend
<1> QED BY <1>5, <1>10, <1>11, <1>12

\* Only the lines themselves matter.
LEMMA MarksStay ==
  ASSUME NEW s, NEW t, NEW n \in Nat, NEW ids \in SUBSET (1..n), \A i \in ids : t[i] = s[i]
  PROVE  MarksIn(t, ids) = MarksIn(s, ids)
<1>1. PICK o : o = InOrder(ids)
  OBVIOUS
<1>2. Lists(o, ids)
  <2>1. PICK l : Lists(l, ids)
    BY ListExists
  <2> QED BY <1>1, <2>1, InOrderIs
<1>3. \A k \in DOMAIN o : o[k] \in ids
  <2>1. DOMAIN o = 1..Len(o)
    BY <1>2 DEF Lists
  <2> QED BY <1>2, <2>1 DEF Lists
<1>4. [k \in DOMAIN o |-> Leaves(t[o[k]])] = [k \in DOMAIN o |-> Leaves(s[o[k]])]
  BY <1>3
<1> QED BY <1>1, <1>4 DEF MarksIn

\* A property line is one more in the component around it.
LEMMA WithinGrows ==
  ASSUME NEW s, NEW x, NEW t, OneLine(s, x, t), NEW i
  PROVE  WithinOf(t, i) = WithinOf(s, i)
           \cup (IF x \notin BracketKinds /\ AroundOf(s, Len(s) + 1) = i THEN {Len(s) + 1} ELSE {})
<1>1. PICK n, m : n = Len(s) /\ m = n + 1
  OBVIOUS
<1>2. /\ n \in Nat /\ DOMAIN s = 1..n /\ DOMAIN t = 1..m
      /\ t[m] = x /\ \A j \in 1..n : t[j] = s[j]
  BY <1>1, LineIsAdded
<1>3. \A j \in 1..m : AroundOf(t, j) = AroundOf(s, j)
  BY <1>1, AroundGrows
<1>4. m \notin 1..n /\ \A j : j \in 1..m <=> j \in 1..n \/ j = m
  BY <1>1, <1>2
<1>5. PICK A, B : A = WithinOf(t, i) /\ B = WithinOf(s, i)
  OBVIOUS
<1>6. \A j : j \in A <=> j \in 1..m /\ t[j] \notin BracketKinds /\ AroundOf(t, j) = i
  BY <1>2, <1>5 DEF WithinOf
<1>7. \A j : j \in B <=> j \in 1..n /\ s[j] \notin BracketKinds /\ AroundOf(s, j) = i
  BY <1>2, <1>5 DEF WithinOf
<1>8. \A j \in 1..n : j \in A <=> j \in B
  BY <1>2, <1>3, <1>4, <1>6, <1>7
<1>9. m \in A <=> x \notin BracketKinds /\ AroundOf(s, m) = i
  BY <1>2, <1>3, <1>4, <1>6
<1>10. \A j : j \in A <=> j \in B \/ (j = m /\ x \notin BracketKinds /\ AroundOf(s, m) = i)
  BY <1>4, <1>6, <1>7, <1>8, <1>9
<1>11. A = B \cup (IF x \notin BracketKinds /\ AroundOf(s, m) = i THEN {m} ELSE {})
  BY <1>10
<1> QED BY <1>1, <1>5, <1>11

\* What is in a component are lines that were read.
LEMMA InsideIsLater ==
  ASSUME NEW s \in Seq(LineKinds), NEW i
  PROVE  /\ ClosedOf(s, i) \in SUBSET (1..Len(s)) /\ WithinOf(s, i) \in SUBSET (1..Len(s))
         /\ \A k \in WithinOf(s, i) : s[k] \in LineKinds \ BracketKinds
         /\ i > Len(s) => ClosedOf(s, i) = {} /\ WithinOf(s, i) = {}
<1>1. Len(s) \in Nat /\ DOMAIN s = 1..Len(s) /\ \A j \in 1..Len(s) : s[j] \in LineKinds /\ j \in 1..Len(s) + 1
  OBVIOUS
<1>2. \A j \in 1..Len(s) : AroundOf(s, j) \in 0..j - 1
  BY <1>1, AroundIs
<1>3. BeginsOf(s) \subseteq 1..Len(s)
  BY <1>1 DEF BeginsOf
<1>4. ClosedOf(s, i) \in SUBSET (1..Len(s)) /\ WithinOf(s, i) \in SUBSET (1..Len(s))
  BY <1>1, <1>3 DEF ClosedOf, WithinOf
<1>5. \A k \in WithinOf(s, i) : s[k] \in LineKinds \ BracketKinds
  BY <1>1 DEF WithinOf
<1>6. ASSUME i > Len(s) PROVE ClosedOf(s, i) = {} /\ WithinOf(s, i) = {}
  <2>1. \A j \in 1..Len(s) : AroundOf(s, j) # i
    <3>1. ASSUME NEW j \in 1..Len(s), AroundOf(s, j) = i PROVE FALSE
      <4>1. i \in 0..j - 1
        BY <1>2, <3>1
      <4> QED BY <1>1, <1>6, <4>1
    <3> QED BY <3>1
  <2> QED BY <1>1, <1>3, <2>1 DEF ClosedOf, WithinOf
<1> QED BY <1>4, <1>5, <1>6

\* The children of i, as the lines say.
KidsIn(s, i) == ArrangedIn(s, ClosedOf(s, i))

\* They are the same while no other is closed.
LEMMA KidsStay ==
  ASSUME NEW s, NEW x, NEW t, OneLine(s, x, t), NEW i, ClosedOf(t, i) = ClosedOf(s, i)
  PROVE  KidsIn(t, i) = KidsIn(s, i)
<1>1. \A j \in 1..Len(s) : t[j] = s[j]
  <2>1. PICK n : n = Len(s)
    OBVIOUS
  <2>2. \A j \in 1..n : t[j] = s[j]
    BY <2>1, LineIsAdded
  <2> QED BY <2>1, <2>2
<1>2. ClosedOf(s, i) \subseteq 1..Len(s)
  BY InsideIsLater DEF OneLine
<1>3. ArrangedIn(t, ClosedOf(s, i)) = ArrangedIn(s, ClosedOf(s, i))
  BY <1>1, <1>2, ArrangedStays
<1> QED BY <1>3 DEF KidsIn

\* Only an END closes a component.
LEMMA NoneIsClosed ==
  ASSUME NEW s, NEW x, NEW t, OneLine(s, x, t), NEW st, Stacked(s, st), x # "end", NEW i
  PROVE  ClosedOf(t, i) = ClosedOf(s, i) /\ KidsIn(t, i) = KidsIn(s, i)
<1>1. OpenOf(t) \cap BeginsOf(s) = OpenOf(s) \ {} /\ (x \in Opens => Len(s) + 1 \in OpenOf(t))
  <2>1. OpenOf(s) \subseteq BeginsOf(s) /\ Len(s) + 1 \notin BeginsOf(s)
    <3>1. PICK n : n = Len(s)
      OBVIOUS
    <3>2. n \in Nat /\ BeginsOf(s) \subseteq 1..n
      BY <3>1, LineIsAdded
    <3> QED BY <3>1, <3>2 DEF OpenOf
  <2>2. CASE x \in Opens
    BY <2>1, <2>2, StackGrows
  <2>3. CASE x \notin Opens
    BY <2>1, <2>3, StackStays
  <2> QED BY <2>2, <2>3
<1>2. Closes(s, x, t, {})
  BY <1>1 DEF Closes
<1>3. \A j : j \in ClosedOf(t, i) <=> j \in ClosedOf(s, i) \/ (j \in {} /\ AroundOf(s, j) = i)
  BY <1>2, ClosedGrows
<1>4. ClosedOf(t, i) = ClosedOf(s, i)
  <2>1. PICK A, B : A = ClosedOf(t, i) /\ B = ClosedOf(s, i)
    OBVIOUS
  <2>2. A = B
    BY <1>3, <2>1
  <2> QED BY <2>1, <2>2
<1> QED BY <1>4, KidsStay

\* When c is closed, the one around it gets it, in front if it is a zone.
Gets(s, t, c, i, zone) ==
  IF AroundOf(s, c) = i
    THEN /\ ClosedOf(t, i) = ClosedOf(s, i) \cup {c} /\ c \notin ClosedOf(s, i)
         /\ KidsIn(t, i) = IF zone THEN <<c>> \o KidsIn(s, i) ELSE Append(KidsIn(s, i), c)
    ELSE ClosedOf(t, i) = ClosedOf(s, i) /\ KidsIn(t, i) = KidsIn(s, i)

\* An END closes component c.
Closing(s, t, st, c) ==
  OneLine(s, "end", t) /\ Stacked(s, st) /\ DepthOf(t, Len(t)) >= 0 /\ c = st[Len(st)]

\* An END closes the top of the stack into what is below it.
LEMMA OneIsClosed ==
  ASSUME NEW s, NEW t, NEW st, NEW c, Closing(s, t, st, c), NEW i
  PROVE  c \in OpenOf(s) /\ Gets(s, t, c, i, s[c] = "begin zone")
<1> USE DEF Closing
<1>1. s \in Seq(LineKinds) /\ Len(s) \in Nat /\ (\A j \in 1..Len(s) : t[j] = s[j])
  BY DEF OneLine
<1>2. OpenOf(t) = OpenOf(s) \ {c} /\ st # <<>>
  BY StackShrinks
<1>3. c \in OpenOf(s) /\ c \in 1..Len(s)
  <2>1. Len(st) \in 1..Len(st)
    BY <1>2 DEF Stacked, Lists
  <2> QED BY <1>1, <2>1, StackIs
<1>4. \A j : j \in ClosedOf(t, i) <=> j \in ClosedOf(s, i) \/ (j \in {c} /\ AroundOf(s, j) = i)
  <2>1. OpenOf(s) \subseteq BeginsOf(s) /\ "end" \notin Opens
    BY DEF OpenOf, Opens
  <2>2. OpenOf(t) \cap BeginsOf(s) = OpenOf(s) \ {c} /\ {c} \subseteq OpenOf(s)
    BY <1>2, <1>3, <2>1
  <2>3. Closes(s, "end", t, {c})
    BY <2>1, <2>2 DEF Closes
  <2> QED BY <2>3, ClosedGrows
<1>5. ASSUME AroundOf(s, c) # i PROVE ClosedOf(t, i) = ClosedOf(s, i) /\ KidsIn(t, i) = KidsIn(s, i)
  <2>1. PICK A, B : A = ClosedOf(t, i) /\ B = ClosedOf(s, i)
    OBVIOUS
  <2>2. A = B
    BY <1>4, <1>5, <2>1
  <2>3. ClosedOf(t, i) = ClosedOf(s, i)
    BY <2>1, <2>2
  <2> QED BY <2>3, KidsStay
<1>6. ASSUME AroundOf(s, c) = i
      PROVE  /\ ClosedOf(t, i) = ClosedOf(s, i) \cup {c} /\ c \notin ClosedOf(s, i)
             /\ KidsIn(t, i) = IF s[c] = "begin zone" THEN <<c>> \o KidsIn(s, i)
                                                      ELSE Append(KidsIn(s, i), c)
  <2>1. PICK ids : ids = ClosedOf(s, i)
    OBVIOUS
  <2>2. ClosedOf(t, i) = ids \cup {c}
    <3>1. PICK A : A = ClosedOf(t, i)
      OBVIOUS
    <3>2. A = ids \cup {c}
      BY <1>4, <1>6, <2>1, <3>1
    <3> QED BY <3>1, <3>2
  <2>3. ids \in SUBSET (1..Len(s)) /\ c \in Int /\ \A y \in ids : y < c
    BY <1>1, <1>3, <1>6, <2>1, InsideIsLater, ClosedBefore
  <2>4. c \notin ids
    BY <2>3
  <2>5. /\ ArrangedIn(s, ids) \in Seq(Int)
        /\ ArrangedIn(s, ids \cup {c}) = IF s[c] = "begin zone" THEN <<c>> \o ArrangedIn(s, ids)
                                                                ELSE Append(ArrangedIn(s, ids), c)
    BY <1>1, <2>3, ArrangedGrows
  <2>6. ArrangedIn(t, ids \cup {c}) = ArrangedIn(s, ids \cup {c})
    <3>1. \A y \in ids \cup {c} : t[y] = s[y]
      BY <1>1, <1>3, <2>3
    <3> QED BY <3>1, ArrangedStays
  <2> QED BY <2>1, <2>2, <2>4, <2>5, <2>6 DEF KidsIn
<1> QED BY <1>3, <1>5, <1>6 DEF Gets

\* Component i is as the lines say.
FilledAt(s, h, i) ==
  /\ h[i].kind = KindOf(s[i])
  /\ h[i].kids = KidsIn(s, i)
  /\ h[i].props = MarksIn(s, WithinOf(s, i))

\* Every component is.
Filled(s, h) == \A i \in BeginsOf(s) : FilledAt(s, h, i)

\* The caller has what was closed at the outermost level.
Rooted(s, h, r) ==
  LET outermost == ClosedOf(s, 0)
  IN  CASE outermost = {} -> r = Null
        [] Cardinality(outermost) = 1 -> {r} = outermost
        [] OTHER -> r = XRoot /\ h[XRoot].kids = KidsIn(s, 0)

\* What each step finds.
Reading(s, x, t, st, h) ==
  /\ OneLine(s, x, t) /\ Len(t) <= MaxLines
  /\ Stacked(s, st) /\ h \in [Ids -> Node] /\ Filled(s, h)

\* What that says in numbers.
LEMMA ReadingIs ==
  ASSUME NEW s, NEW x, NEW t, NEW st, NEW h, Reading(s, x, t, st, h), NEW n, n = Len(s)
  PROVE  /\ n \in Nat /\ s \in Seq(LineKinds) /\ t \in Seq(LineKinds) /\ Len(t) = n + 1
         /\ t[n + 1] = x /\ (\A i \in 1..n : t[i] = s[i])
         /\ BeginsOf(s) \subseteq 1..n /\ BeginsOf(t) \subseteq 1..n + 1
         /\ (\A i \in 1..n : i \in BeginsOf(t) <=> i \in BeginsOf(s))
         /\ (n + 1 \in BeginsOf(t) <=> x \in Opens)
         /\ 1..n \subseteq Ids /\ n + 1 \in Ids /\ XRoot \in Ids /\ XRoot \notin 1..n + 1
         /\ n + 1 \notin 1..n
<1>1. OneLine(s, x, t)
  BY DEF Reading
<1>2. /\ n \in Nat /\ t \in Seq(LineKinds) /\ Len(t) = n + 1
      /\ DOMAIN s = 1..n /\ DOMAIN t = 1..n + 1
      /\ t[n + 1] = x /\ \A i \in 1..n : t[i] = s[i]
      /\ BeginsOf(s) \subseteq 1..n /\ BeginsOf(t) \subseteq 1..n + 1
      /\ \A i \in 1..n : i \in BeginsOf(t) <=> i \in BeginsOf(s)
      /\ n + 1 \in BeginsOf(t) <=> x \in Opens
  BY SMTT(30), <1>1, LineIsAdded
<1>3. n + 1 <= MaxLines /\ MaxLines \in Nat
  BY <1>2, MaxLinesAssumption DEF Reading
<1>4. 1..n \subseteq Ids /\ n + 1 \in Ids /\ XRoot \in Ids /\ XRoot \notin 1..n + 1 /\ n + 1 \notin 1..n
  BY <1>2, <1>3 DEF Ids, XRoot
<1> QED BY <1>1, <1>2, <1>4 DEF OneLine

\* A line leaves nothing in components that are not around it.
LEMMA MarksOfOthers ==
  ASSUME NEW s, NEW x, NEW t, OneLine(s, x, t), NEW i,
         x \in BracketKinds \/ AroundOf(s, Len(s) + 1) # i
  PROVE  MarksIn(t, WithinOf(t, i)) = MarksIn(s, WithinOf(s, i))
<1>1. s \in Seq(LineKinds) /\ Len(s) \in Nat /\ (\A j \in 1..Len(s) : t[j] = s[j])
  BY DEF OneLine
<1>2. WithinOf(t, i) = WithinOf(s, i)
  <2>1. WithinOf(t, i) = WithinOf(s, i)
          \cup (IF x \notin BracketKinds /\ AroundOf(s, Len(s) + 1) = i THEN {Len(s) + 1} ELSE {})
    BY WithinGrows
  <2>2. ~(x \notin BracketKinds /\ AroundOf(s, Len(s) + 1) = i)
    OBVIOUS
  <2> QED BY ONLY <2>1, <2>2
<1>3. WithinOf(s, i) \in SUBSET (1..Len(s))
  BY <1>1, InsideIsLater
<1>4. PICK ids : ids = WithinOf(s, i)
  OBVIOUS
<1>5. MarksIn(t, ids) = MarksIn(s, ids)
  BY <1>1, <1>3, <1>4, MarksStay
<1> QED BY <1>2, <1>4, <1>5

\* It leaves its marks in the one that is.
LEMMA MarksOfTop ==
  ASSUME NEW s, NEW x, NEW t, OneLine(s, x, t), NEW i,
         x \notin BracketKinds, AroundOf(s, Len(s) + 1) = i
  PROVE  /\ MarksIn(s, WithinOf(s, i)) \in Seq(Marks)
         /\ MarksIn(t, WithinOf(t, i)) = MarksIn(s, WithinOf(s, i)) \o Leaves(x)
<1>1. PICK n, m, ids : n = Len(s) /\ m = n + 1 /\ ids = WithinOf(s, i)
  OBVIOUS
<1>2. s \in Seq(LineKinds) /\ n \in Nat /\ (\A j \in 1..n : t[j] = s[j]) /\ t[m] = x /\ x \in LineKinds
  BY <1>1 DEF OneLine
<1>3. WithinOf(t, i) = ids \cup {m}
  BY <1>1, WithinGrows
<1>4. ids \in SUBSET (1..n) /\ \A k \in ids : s[k] \in LineKinds \ BracketKinds
  BY <1>1, <1>2, InsideIsLater
<1>5. MarksIn(t, ids) = MarksIn(s, ids)
  BY <1>2, <1>4, MarksStay
<1>6. m \in Int /\ \A y \in ids : y < m
  BY <1>1, <1>2, <1>4
<1>7. \A y \in ids \cup {m} : t[y] \in LineKinds \ BracketKinds
  BY <1>2, <1>4
<1>8. /\ MarksIn(t, ids) \in Seq(Marks)
      /\ MarksIn(t, ids \cup {m}) = MarksIn(t, ids) \o Leaves(t[m])
  BY <1>2, <1>4, <1>6, <1>7, MarksGrow
<1> QED BY <1>1, <1>2, <1>3, <1>5, <1>8

\* Heap g is heap h after line m began a component.
Begun(g, h, m, x) == g = [h EXCEPT ![m] = New(KindOf(x))]

\* A BEGIN makes a component with nothing in it.
LEMMA BeginFills ==
  ASSUME NEW s, NEW x, NEW t, NEW st, NEW h, Reading(s, x, t, st, h), x \in Opens,
         NEW g, Begun(g, h, Len(t), x), NEW r, Rooted(s, h, r)
  PROVE  Filled(t, g) /\ Rooted(t, g, r)
<1>1. PICK n, m : n = Len(s) /\ m = n + 1
  OBVIOUS
<1>2. /\ n \in Nat /\ s \in Seq(LineKinds) /\ Len(t) = m
      /\ t[m] = x /\ (\A i \in 1..n : t[i] = s[i])
      /\ BeginsOf(s) \subseteq 1..n /\ BeginsOf(t) \subseteq 1..m
      /\ (\A i \in 1..n : i \in BeginsOf(t) <=> i \in BeginsOf(s))
      /\ 1..n \subseteq Ids /\ m \in Ids /\ XRoot \in Ids /\ XRoot \notin 1..m
      /\ m \notin 1..n
  BY <1>1, ReadingIs
<1>3. OneLine(s, x, t) /\ Stacked(s, st) /\ x # "end" /\ x \in BracketKinds /\ h \in [Ids -> Node]
  BY DEF Reading, Opens, BracketKinds
<1>4. \A i : ClosedOf(t, i) = ClosedOf(s, i) /\ KidsIn(t, i) = KidsIn(s, i)
  BY <1>3, NoneIsClosed
<1>5. \A i : MarksIn(t, WithinOf(t, i)) = MarksIn(s, WithinOf(s, i))
  BY <1>3, MarksOfOthers
<1>6. (\A i \in Ids : i # m => g[i] = h[i]) /\ g[m] = New(KindOf(x))
  BY <1>2, <1>3 DEF Begun
<1>7. ASSUME NEW i \in BeginsOf(t), i # m PROVE FilledAt(t, g, i)
  <2>1. i \in 1..n /\ i \in Ids /\ i \in BeginsOf(s)
    <3>1. i \in 1..n
      BY <1>1, <1>2, <1>7
    <3> QED BY <1>2, <3>1
  <2>2. FilledAt(s, h, i)
    BY <2>1 DEF Reading, Filled
  <2> QED BY <1>2, <1>4, <1>5, <1>6, <1>7, <2>1, <2>2 DEF FilledAt
<1>8. FilledAt(t, g, m)
  <2>1. m > Len(s)
    BY <1>1, <1>2
  <2>2. ClosedOf(s, m) = {} /\ WithinOf(s, m) = {}
    BY <1>2, <2>1, InsideIsLater
  <2>3. KidsIn(t, m) = <<>> /\ MarksIn(t, WithinOf(t, m)) = <<>>
    BY <1>4, <1>5, <2>2, EmptyIsArranged, EmptyHasNoMarks DEF KidsIn
  <2> QED BY <1>2, <1>6, <2>3 DEF FilledAt, New
<1>9. Rooted(t, g, r)
  <2>1. g[XRoot] = h[XRoot]
    <3>1. XRoot # m
      BY <1>1, <1>2
    <3> QED BY <1>2, <1>6, <3>1
  <2> QED BY <1>4, <2>1 DEF Rooted
<1> QED BY <1>7, <1>8, <1>9 DEF Filled

\* A property line fills the top of the stack.
LEMMA PropertyFills ==
  ASSUME NEW s, NEW x, NEW t, NEW st, NEW h, Reading(s, x, t, st, h), x \notin BracketKinds,
         NEW g, g = IF st = <<>> THEN h ELSE WithProps(h, TopOf(st), Leaves(x)),
         NEW r, Rooted(s, h, r)
  PROVE  Filled(t, g) /\ Rooted(t, g, r)
<1>1. PICK n, m, c : n = Len(s) /\ m = n + 1 /\ c = TopOf(st)
  OBVIOUS
<1>2. /\ n \in Nat /\ s \in Seq(LineKinds)
      /\ (\A i \in 1..n : t[i] = s[i])
      /\ BeginsOf(s) \subseteq 1..n /\ BeginsOf(t) \subseteq 1..m
      /\ (\A i \in 1..n : i \in BeginsOf(t) <=> i \in BeginsOf(s))
      /\ m \notin BeginsOf(t)
      /\ 1..n \subseteq Ids /\ XRoot \in Ids /\ XRoot \notin 1..m
  <2>1. x \notin Opens
    BY DEF Opens, BracketKinds
  <2> QED BY <1>1, <2>1, ReadingIs
<1>3. OneLine(s, x, t) /\ Stacked(s, st) /\ x # "end" /\ h \in [Ids -> Node]
  BY DEF Reading, BracketKinds
<1>4. \A i : ClosedOf(t, i) = ClosedOf(s, i) /\ KidsIn(t, i) = KidsIn(s, i)
  BY <1>3, NoneIsClosed
<1>5. AroundOf(s, Len(s) + 1) = c
  BY <1>1, <1>2, <1>3, AroundTop
<1>6. \A i : i # c => MarksIn(t, WithinOf(t, i)) = MarksIn(s, WithinOf(s, i))
  BY <1>3, <1>5, MarksOfOthers
<1>7. /\ MarksIn(s, WithinOf(s, c)) \in Seq(Marks)
      /\ MarksIn(t, WithinOf(t, c)) = MarksIn(s, WithinOf(s, c)) \o Leaves(x)
  BY <1>3, <1>5, MarksOfTop
<1>8. \A i \in Ids : /\ g[i].kind = h[i].kind /\ g[i].kids = h[i].kids
                     /\ i # c => g[i].props = h[i].props
  BY <1>1, <1>3 DEF WithProps, Node
<1>9. c \in 1..n => g[c].props = h[c].props \o Leaves(x)
  <2>1. c \in 1..n => st # <<>> /\ c \in Ids
    BY <1>1, <1>2 DEF TopOf
  <2> QED BY <1>1, <1>3, <2>1 DEF WithProps, Node
<1>10. ASSUME NEW i \in BeginsOf(t) PROVE FilledAt(t, g, i)
  <2>1. i \in 1..n /\ i \in Ids /\ i \in BeginsOf(s)
    <3>1. i \in 1..n
      BY <1>1, <1>2, <1>10
    <3> QED BY <1>2, <3>1
  <2>2. FilledAt(s, h, i)
    BY <2>1 DEF Reading, Filled
  <2>3. g[i].kind = KindOf(t[i]) /\ g[i].kids = KidsIn(t, i)
    BY <1>2, <1>4, <1>8, <2>1, <2>2 DEF FilledAt
  <2>4. g[i].props = MarksIn(t, WithinOf(t, i))
    <3>1. CASE i = c
      BY <1>7, <1>9, <2>1, <2>2, <3>1 DEF FilledAt
    <3>2. CASE i # c
      BY <1>6, <1>8, <2>1, <2>2, <3>2 DEF FilledAt
    <3> QED BY <3>1, <3>2
  <2> QED BY <2>3, <2>4 DEF FilledAt
<1>11. Rooted(t, g, r)
  BY <1>2, <1>4, <1>8 DEF Rooted
<1> QED BY <1>10, <1>11 DEF Filled

\* Zones are the components that go to the front.
LEMMA ZoneLeads ==
  ASSUME NEW x \in Opens
  PROVE  KindOf(x) \in {"VEVENT", "VTIMEZONE", "NO_COMPONENT"} /\ (KindOf(x) = "VTIMEZONE" <=> x = "begin zone")
BY DEF KindOf, Opens

\* An END comes that is not one too many.
Ending(s, t, st, h) == Reading(s, "end", t, st, h) /\ DepthOf(t, Len(t)) >= 0

\* What it finds.
LEMMA EndIs ==
  ASSUME NEW s, NEW t, NEW st, NEW h, Ending(s, t, st, h),
         NEW n, n = Len(s), NEW l, l = Len(st), NEW c, c = st[l]
  PROVE  /\ OneLine(s, "end", t) /\ Stacked(s, st) /\ h \in [Ids -> Node]
         /\ s \in Seq(LineKinds) /\ n \in Nat /\ l \in Nat /\ l # 0
         /\ (\A i \in 1..l : st[i] \in BeginsOf(s) /\ st[i] \in 1..n)
         /\ BeginsOf(t) = BeginsOf(s) /\ BeginsOf(s) \subseteq 1..n /\ 1..n \subseteq Ids
         /\ (\A i \in BeginsOf(s) : FilledAt(s, h, i) /\ s[i] \in Opens /\ t[i] = s[i])
         /\ XRoot \in Ids /\ XRoot \notin 1..n
         /\ AroundOf(s, c) = IF l = 1 THEN 0 ELSE st[l - 1]
         /\ (\A i : MarksIn(t, WithinOf(t, i)) = MarksIn(s, WithinOf(s, i)))
<1> USE DEF Ending
<1>1. OneLine(s, "end", t) /\ Stacked(s, st) /\ h \in [Ids -> Node] /\ s \in Seq(LineKinds)
  BY DEF Reading, OneLine
<1>2. "end" \notin Opens /\ "end" \in BracketKinds
  BY DEF Opens, BracketKinds
<1>3. PICK x : x = "end"
  OBVIOUS
<1>4. Reading(s, x, t, st, h)
  BY <1>3
<1>5. /\ n \in Nat /\ s \in Seq(LineKinds) /\ t \in Seq(LineKinds) /\ Len(t) = n + 1
      /\ t[n + 1] = x /\ (\A i \in 1..n : t[i] = s[i])
      /\ BeginsOf(s) \subseteq 1..n /\ BeginsOf(t) \subseteq 1..n + 1
      /\ (\A i \in 1..n : i \in BeginsOf(t) <=> i \in BeginsOf(s))
      /\ (n + 1 \in BeginsOf(t) <=> x \in Opens)
      /\ 1..n \subseteq Ids /\ n + 1 \in Ids /\ XRoot \in Ids /\ XRoot \notin 1..n + 1
      /\ n + 1 \notin 1..n
  <2>1. n = Len(s)
    OBVIOUS
  <2> QED BY ONLY SMTT(30), <1>4, <2>1, ReadingIs
<1>6. BeginsOf(t) = BeginsOf(s)
  <2>1. \A i \in 1..n + 1 : i \in 1..n \/ i = n + 1
    BY <1>5
  <2> QED BY <1>2, <1>3, <1>5, <2>1
<1>7. \A i \in BeginsOf(s) : FilledAt(s, h, i) /\ s[i] \in Opens /\ t[i] = s[i]
  BY <1>5 DEF Reading, Filled, BeginsOf
<1>8. st # <<>>
  BY <1>1, StackShrinks
<1>9. l \in Nat /\ l # 0 /\ \A i \in 1..l : st[i] \in BeginsOf(s) /\ st[i] \in 1..n
  <2>1. l \in Nat /\ \A i \in 1..l : st[i] \in BeginsOf(s) /\ st[i] \in 1..n
    BY <1>1, StackIs
  <2>2. l # 0
    BY <1>1, <1>8 DEF Stacked, Lists
  <2> QED BY <2>1, <2>2
<1>10. AroundOf(s, c) = IF l = 1 THEN 0 ELSE st[l - 1]
  <2>1. l \in 1..l
    BY <1>9
  <2> QED BY <1>1, <2>1 DEF Stacked
<1>11. \A i : MarksIn(t, WithinOf(t, i)) = MarksIn(s, WithinOf(s, i))
  <2>1. OneLine(s, x, t) /\ x \in BracketKinds
    BY <1>1, <1>2, <1>3
  <2> QED BY <2>1, MarksOfOthers
<1>12. XRoot \notin 1..n
  BY <1>5
<1> QED BY <1>1, <1>5, <1>6, <1>7, <1>9, <1>10, <1>11, <1>12

\* It gives the closed component to the one around it.
LEMMA KidsOfEnd ==
  ASSUME NEW s, NEW t, NEW st, NEW h, Ending(s, t, st, h), NEW c, c = st[Len(st)], NEW i
  PROVE  Gets(s, t, c, i, h[c].kind = "VTIMEZONE")
<1>1. PICK l : l = Len(st)
  OBVIOUS
<1>2. /\ OneLine(s, "end", t) /\ Stacked(s, st) /\ h \in [Ids -> Node]
      /\ s \in Seq(LineKinds) /\ Len(s) \in Nat /\ l \in Nat /\ l # 0
      /\ (\A k \in 1..l : st[k] \in BeginsOf(s) /\ st[k] \in 1..Len(s))
      /\ BeginsOf(t) = BeginsOf(s) /\ BeginsOf(s) \subseteq 1..Len(s) /\ 1..Len(s) \subseteq Ids
      /\ (\A k \in BeginsOf(s) : FilledAt(s, h, k) /\ s[k] \in Opens /\ t[k] = s[k])
      /\ XRoot \in Ids /\ XRoot \notin 1..Len(s)
      /\ AroundOf(s, st[l]) = IF l = 1 THEN 0 ELSE st[l - 1]
      /\ (\A k : MarksIn(t, WithinOf(t, k)) = MarksIn(s, WithinOf(s, k)))
  BY SMTT(30), <1>1, EndIs
<1>3. FilledAt(s, h, c) /\ s[c] \in Opens
  <2>1. l \in 1..l
    BY <1>2
  <2> QED BY <1>1, <1>2, <2>1
<1>4. h[c].kind = "VTIMEZONE" <=> s[c] = "begin zone"
  BY <1>3, ZoneLeads DEF FilledAt
<1>5. Closing(s, t, st, c)
  BY <1>2 DEF Closing, Ending
<1>6. Gets(s, t, c, i, s[c] = "begin zone")
  BY <1>5, OneIsClosed
<1> QED BY <1>4, <1>6 DEF Gets

\* An END inside a component hands its component to that one.
LEMMA InnerFills ==
  ASSUME NEW s, NEW t, NEW st, NEW h, Ending(s, t, st, h),
         Len(st) # 1, NEW g, g = Attach(h, st[Len(st) - 1], st[Len(st)]),
         NEW r, Rooted(s, h, r)
  PROVE  Filled(t, g) /\ Rooted(t, g, r)
<1>1. PICK n, l, c, p : n = Len(s) /\ l = Len(st) /\ c = st[l] /\ p = st[l - 1]
  OBVIOUS
<1>2. /\ OneLine(s, "end", t) /\ Stacked(s, st) /\ h \in [Ids -> Node]
      /\ s \in Seq(LineKinds) /\ n \in Nat /\ l \in Nat /\ l # 0
      /\ (\A i \in 1..l : st[i] \in BeginsOf(s) /\ st[i] \in 1..n)
      /\ BeginsOf(t) = BeginsOf(s) /\ BeginsOf(s) \subseteq 1..n /\ 1..n \subseteq Ids
      /\ (\A i \in BeginsOf(s) : FilledAt(s, h, i) /\ s[i] \in Opens /\ t[i] = s[i])
      /\ XRoot \in Ids /\ XRoot \notin 1..n
      /\ AroundOf(s, c) = IF l = 1 THEN 0 ELSE st[l - 1]
      /\ (\A i : MarksIn(t, WithinOf(t, i)) = MarksIn(s, WithinOf(s, i)))
  BY <1>1, EndIs
<1>3. l # 1 /\ l \in 1..l /\ l - 1 \in 1..l
  BY <1>1, <1>2
<1>4. /\ AroundOf(s, c) = p /\ p \in BeginsOf(s) /\ c \in BeginsOf(s)
      /\ p \in 1..n /\ p \in Ids /\ c \in Ids /\ p # 0 /\ p # XRoot
  <2>1. p \in 1..n /\ c \in 1..n /\ p \in BeginsOf(s) /\ c \in BeginsOf(s)
    BY <1>1, <1>2, <1>3
  <2> QED BY <1>1, <1>2, <1>3, <2>1
<1>5. Attached(g, h, p, c)
  BY <1>1, <1>2, <1>4, AttachDoes
<1>6. \A i \in Ids : /\ g[i].kind = h[i].kind /\ g[i].props = h[i].props
                     /\ g[i].kids = IF i = p THEN Longer(h, p, c) ELSE h[i].kids
  BY <1>5 DEF Attached
<1>k. \A i : Gets(s, t, c, i, h[c].kind = "VTIMEZONE")
  BY <1>1, KidsOfEnd
<1>7. \A i : i # p => ClosedOf(t, i) = ClosedOf(s, i) /\ KidsIn(t, i) = KidsIn(s, i)
  BY <1>4, <1>k DEF Gets
<1>8. KidsIn(t, p) = IF h[c].kind = "VTIMEZONE" THEN <<c>> \o KidsIn(s, p) ELSE Append(KidsIn(s, p), c)
  BY <1>4, <1>k DEF Gets
<1>9. ASSUME NEW i \in BeginsOf(t) PROVE FilledAt(t, g, i)
  <2>1. i \in BeginsOf(s) /\ i \in Ids /\ FilledAt(s, h, i) /\ t[i] = s[i]
    BY <1>2
  <2>2. g[i].kids = KidsIn(t, i)
    <3>1. CASE i = p
      BY <1>6, <1>8, <2>1, <3>1 DEF Longer, FilledAt
    <3>2. CASE i # p
      BY <1>6, <1>7, <2>1, <3>2 DEF FilledAt
    <3> QED BY <3>1, <3>2
  <2> QED BY <1>2, <1>6, <2>1, <2>2 DEF FilledAt
<1>10. Rooted(t, g, r)
  <2>1. ClosedOf(t, 0) = ClosedOf(s, 0) /\ KidsIn(t, 0) = KidsIn(s, 0)
    BY <1>4, <1>7
  <2>2. g[XRoot].kids = h[XRoot].kids
    BY <1>2, <1>4, <1>6
  <2> QED BY <2>1, <2>2 DEF Rooted
<1> QED BY <1>9, <1>10 DEF Filled

\* One component is a list of one.
LEMMA OneIsArranged ==
  ASSUME NEW s, NEW b \in Nat
  PROVE  ArrangedIn(s, {b}) = <<b>>
<1>1. PICK e, a : e = {} /\ a = <<>>
  OBVIOUS
<1>2. e \in SUBSET (1..0) /\ 0 \in Nat /\ \A y \in e : y < b
  BY <1>1
<1>3. ArrangedIn(s, e) = a
  BY <1>1, EmptyIsArranged
<1>4. ArrangedIn(s, e \cup {b}) = IF s[b] = "begin zone" THEN <<b>> \o ArrangedIn(s, e)
                                                         ELSE Append(ArrangedIn(s, e), b)
  <2>1. PICK z : z = 0 /\ z \in Nat /\ e \in SUBSET (1..z)
    BY <1>2
  <2>2. b \in Int
    OBVIOUS
  <2> QED BY ONLY ZenonT(30), <1>2, <2>1, <2>2, ArrangedGrows
<1>5. <<b>> \o a = <<b>> /\ Append(a, b) = <<b>>
  BY <1>1
<1>6. e \cup {b} = {b}
  BY <1>1
<1> QED BY <1>3, <1>4, <1>5, <1>6

\* The END at the outermost level hands it to the caller, below an XROOT if it is
\* not the first.
LEMMA OuterFills ==
  ASSUME NEW s, NEW t, NEW st, NEW h, Ending(s, t, st, h),
         Len(st) = 1, Rooted(s, h, root), root = XRoot => h[root].kind = "XROOT"
  PROVE  Filled(t, Collect(h, st[1])) /\ Rooted(t, Collect(h, st[1]), Container(h, st[1]))
<1>1. PICK n, l, c : n = Len(s) /\ l = Len(st) /\ c = st[l]
  OBVIOUS
<1>2. /\ OneLine(s, "end", t) /\ Stacked(s, st) /\ h \in [Ids -> Node]
      /\ s \in Seq(LineKinds) /\ n \in Nat /\ l \in Nat /\ l # 0
      /\ (\A i \in 1..l : st[i] \in BeginsOf(s) /\ st[i] \in 1..n)
      /\ BeginsOf(t) = BeginsOf(s) /\ BeginsOf(s) \subseteq 1..n /\ 1..n \subseteq Ids
      /\ (\A i \in BeginsOf(s) : FilledAt(s, h, i) /\ s[i] \in Opens /\ t[i] = s[i])
      /\ XRoot \in Ids /\ XRoot \notin 1..n
      /\ AroundOf(s, c) = IF l = 1 THEN 0 ELSE st[l - 1]
      /\ (\A i : MarksIn(t, WithinOf(t, i)) = MarksIn(s, WithinOf(s, i)))
  <2>1. Ending(s, t, st, h)
    OBVIOUS
  <2> QED BY ONLY <1>1, <2>1, EndIs
<1>g. PICK g, out, new : g = Collect(h, c) /\ out = ClosedOf(s, 0) /\ new = ClosedOf(t, 0)
  OBVIOUS
<1>3. l = 1 /\ c \in BeginsOf(s) /\ c \in 1..n /\ c \in Ids /\ c # XRoot
  BY <1>1, <1>2
<1>4. AroundOf(s, c) = 0 /\ c = st[Len(st)]
  BY <1>1, <1>g, <1>2, <1>3
<1>k. \A i : Gets(s, t, c, i, h[c].kind = "VTIMEZONE")
  BY <1>4, KidsOfEnd
<1>5. \A i : i # 0 => KidsIn(t, i) = KidsIn(s, i)
  BY <1>4, <1>k DEF Gets
<1>6. /\ new = out \cup {c} /\ c \notin out
      /\ KidsIn(t, 0) = IF h[c].kind = "VTIMEZONE" THEN <<c>> \o KidsIn(s, 0) ELSE Append(KidsIn(s, 0), c)
  BY <1>1, <1>g, <1>4, <1>k DEF Gets
<1>7. Null \notin Ids /\ 0 \notin 1..n
  BY NullIsNoNumber, MaxLinesAssumption DEF Ids, XRoot
<1>8. out \subseteq 1..n /\ out \subseteq BeginsOf(s) /\ IsFiniteSet(out) /\ Cardinality(out) \in Nat
  <2>1. out \subseteq BeginsOf(s)
    BY <1>1, <1>g DEF ClosedOf
  <2>2. IsFiniteSet(1..n)
    BY <1>2, FS_Interval
  <2>3. out \in SUBSET (1..n)
    BY <1>2, <2>1
  <2>4. IsFiniteSet(out)
    BY <2>2, <2>3, FS_Subset
  <2> QED BY <2>1, <2>3, <2>4, FS_CardinalityType
<1>9. Cardinality(new) = Cardinality(out) + 1
  BY <1>6, <1>8, FS_AddElement
<1>10. Cardinality(out) = 0 <=> out = {}
  BY <1>8, FS_EmptySet
<1>11. \A i \in BeginsOf(s) : h[i].kind # "XROOT"
  BY <1>2, ZoneLeads DEF FilledAt
<1>12. SUFFICES /\ \A i \in BeginsOf(s) : /\ g[i].kind = h[i].kind /\ g[i].kids = h[i].kids
                                          /\ g[i].props = h[i].props
                /\ Rooted(t, g, Container(h, c))
  <2>1. ASSUME \A i \in BeginsOf(s) : /\ g[i].kind = h[i].kind /\ g[i].kids = h[i].kids
                                      /\ g[i].props = h[i].props,
               NEW i \in BeginsOf(t)
        PROVE  FilledAt(t, g, i)
    <3>1. i \in BeginsOf(s) /\ i \in 1..n /\ FilledAt(s, h, i) /\ t[i] = s[i]
      BY <1>2
    <3>2. KidsIn(t, i) = KidsIn(s, i)
      BY <1>5, <1>7, <3>1
    <3> QED BY <1>2, <2>1, <3>1, <3>2 DEF FilledAt
  <2> QED BY <1>1, <1>g, <1>3, <2>1 DEF Filled
<1>13. CASE out = {}
  <2>1. root = Null
    BY <1>1, <1>g, <1>13 DEF Rooted
  <2>2. g = h /\ Container(h, c) = c
    BY <1>1, <1>g, <2>1 DEF Collect, Container
  <2>3. new = {c} /\ Cardinality(new) = 1
    BY <1>6, <1>9, <1>10, <1>13
  <2>4. Rooted(t, g, c)
    BY <1>1, <1>g, <2>3 DEF Rooted
  <2> QED BY <2>2, <2>4
<1>14. CASE Cardinality(out) = 1
  <2>1. out # {} /\ {root} = out
    BY <1>1, <1>g, <1>10, <1>14 DEF Rooted
  <2>2. root \in BeginsOf(s) /\ root \in Ids /\ root # Null /\ h[root].kind # "XROOT" /\ root # XRoot /\ root \in Nat
    <3>1. root \in BeginsOf(s) /\ root \in 1..n
      BY <1>8, <2>1
    <3> QED BY <1>2, <1>7, <1>11, <3>1
  <2>3. PICK x, a : x = [h EXCEPT ![XRoot] = New("XROOT")] /\ a = Attach(x, XRoot, root)
    OBVIOUS
  <2>4. g = Attach(a, XRoot, c) /\ Container(h, c) = XRoot
    BY <1>1, <1>g, <2>2, <2>3 DEF Collect, Container
  <2>5. /\ x \in [Ids -> Node] /\ x[XRoot].kids = <<>>
        /\ \A i \in Ids : i # XRoot => x[i] = h[i]
    <3>1. New("XROOT") \in Node /\ New("XROOT").kids = <<>>
      BY EmptySeq DEF New, Node, Kinds
    <3> QED BY <1>2, <2>3, <3>1
  <2>6. Attached(a, x, XRoot, root)
    BY <1>2, <2>2, <2>3, <2>5, AttachDoes
  <2>7. a \in [Ids -> Node]
    BY <2>6 DEF Attached
  <2>8. Attached(g, a, XRoot, c)
    BY <1>2, <1>3, <2>4, <2>7, AttachDoes
  <2>9. \A i \in Ids : i # XRoot => g[i].kind = h[i].kind /\ g[i].kids = h[i].kids /\ g[i].props = h[i].props
    BY <2>5, <2>6, <2>8 DEF Attached
  <2>10. a[XRoot].kids = <<root>>
    <3>1. a[XRoot].kids = Longer(x, XRoot, root)
      BY <1>2, <2>6 DEF Attached
    <3>2. PICK e : e = <<>> /\ e = x[XRoot].kids
      BY <2>5
    <3>3. <<root>> \o e = <<root>> /\ Append(e, root) = <<root>>
      BY <3>2
    <3> QED BY <3>1, <3>2, <3>3 DEF Longer
  <2>11. KidsIn(s, 0) = <<root>>
    BY <1>1, <1>g, <2>1, <2>2, OneIsArranged DEF KidsIn
  <2>12. a[c].kind = h[c].kind
    BY <1>3, <2>5, <2>6 DEF Attached
  <2>13. g[XRoot].kids = KidsIn(t, 0)
    <3>1. g[XRoot].kids = Longer(a, XRoot, c)
      BY <1>2, <2>8 DEF Attached
    <3> QED BY <1>6, <2>10, <2>11, <2>12, <3>1 DEF Longer
  <2>14. Rooted(t, g, XRoot)
    <3>1. Cardinality(new) = 2 /\ new # {}
      BY <1>6, <1>9, <1>14
    <3> QED BY <1>1, <1>g, <2>13, <3>1 DEF Rooted
  <2> QED BY <1>2, <2>4, <2>9, <2>14
<1>15. CASE out # {} /\ Cardinality(out) # 1
  <2>1. root = XRoot /\ h[XRoot].kids = KidsIn(s, 0)
    BY <1>1, <1>g, <1>15 DEF Rooted
  <2>2. root # Null /\ h[root].kind = "XROOT"
    BY <1>2, <1>7, <2>1
  <2>3. g = Attach(h, XRoot, c) /\ Container(h, c) = XRoot
    BY <1>1, <1>g, <2>1, <2>2 DEF Collect, Container
  <2>4. Attached(g, h, XRoot, c)
    BY <1>2, <1>3, <2>3, AttachDoes
  <2>5. \A i \in Ids : i # XRoot => g[i].kind = h[i].kind /\ g[i].kids = h[i].kids /\ g[i].props = h[i].props
    BY <2>4 DEF Attached
  <2>6. g[XRoot].kids = KidsIn(t, 0)
    <3>1. g[XRoot].kids = Longer(h, XRoot, c)
      BY <1>2, <2>4 DEF Attached
    <3> QED BY <1>6, <2>1, <3>1 DEF Longer
  <2>7. Rooted(t, g, XRoot)
    <3>1. new # {}
      BY <1>6
    <3>2. Cardinality(out) \in Nat /\ Cardinality(out) # 0
      BY <1>8, <1>10, <1>15
    <3>3. Cardinality(new) # 1
      BY <1>9, <3>2
    <3> QED BY <1>1, <1>g, <2>6, <3>1, <3>3 DEF Rooted
  <2> QED BY <1>2, <2>3, <2>5, <2>7
<1> QED BY <1>13, <1>14, <1>15

----------------------------------------------------------------------------
(* Nesting.                                                                *)

\* ENDs that are in order were so before.
LEMMA OrderShrinks ==
  ASSUME NEW s, NEW x, NEW t, OneLine(s, x, t), OrderedIn(t)
  PROVE  OrderedIn(s) /\ DepthOf(t, Len(t)) >= 0
<1>1. PICK n : n = Len(s)
  OBVIOUS
<1>2. /\ n \in Nat /\ Len(t) = n + 1
      /\ DOMAIN s = 1..n /\ DOMAIN t = 1..n + 1
  BY <1>1, LineIsAdded
<1>3. \A i \in 0..n : DepthOf(t, i) = DepthOf(s, i)
  BY <1>1, DepthGrows
<1>4. \A i \in 1..n + 1 : DepthOf(t, i) >= 0
  BY <1>2 DEF OrderedIn
<1>5. n + 1 \in 1..n + 1 /\ \A i \in 1..n : i \in 0..n /\ i \in 1..n + 1
  BY <1>2
<1> QED BY <1>2, <1>3, <1>4, <1>5 DEF OrderedIn

\* Where the stack and the heap have to be.
Kept(s, st, h, r) == OrderedIn(s) => Stacked(s, st) /\ Filled(s, h) /\ Rooted(s, h, r)

\* The level is the depth, and stack, heap and root are as the lines say.
NestInv == /\ HInv
           /\ level = DepthOf(input, Len(input))
           /\ Kept(input, stack, comp, root)

\* Nothing is open and nothing closed before the first line.
LEMMA StartIsKept == Init => NestInv
<1> SUFFICES ASSUME Init PROVE NestInv
  OBVIOUS
<1>1. HInv
  BY InitOwned DEF Init, HInv, StackOK, StackCoversLevel, ParserIsClear
<1>2. /\ input = <<>> /\ stack = <<>> /\ level = 0 /\ root = Null /\ Len(input) = 0
      /\ DOMAIN input = {} /\ Len(stack) = 0
  BY DEF Init
<1>3. input \in Seq(LineKinds)
  BY <1>2, EmptySeq
<1>4. DepthOf(input, 0) = 0
  BY <1>3, DepthStarts
<1>5. BeginsOf(input) = {}
  BY <1>2 DEF BeginsOf
<1>6. OpenOf(input) = {} /\ ClosedOf(input, 0) = {}
  BY <1>5 DEF OpenOf, ClosedOf
<1>7. Stacked(input, stack)
  <2>1. Lists(stack, OpenOf(input))
    BY <1>2, <1>6, EmptyIsListed
  <2> QED BY <1>2, <1>4, <2>1 DEF Stacked
<1>8. Filled(input, comp)
  BY <1>5 DEF Filled
<1>9. Rooted(input, comp, root)
  <2>1. PICK o : o = ClosedOf(input, 0)
    OBVIOUS
  <2>2. o = {} /\ Cardinality(o) # 1
    BY <1>6, <2>1, FS_EmptySet
  <2> QED BY <1>2, <2>1, <2>2 DEF Rooted
<1> QED BY <1>1, <1>2, <1>4, <1>7, <1>8, <1>9 DEF NestInv, Kept

\* What a line finds while the ENDs are in order.
LEMMA LineFinds ==
  ASSUME NestInv, NEW x \in Lines, Reads(x)
  PROVE  /\ OneLine(input, x, input')
         /\ DepthOf(input', Len(input')) = level + Turn(x)
         /\ OrderedIn(input') => Reading(input, x, input', stack, comp) /\ Rooted(input, comp, root)
                                 /\ DepthOf(input', Len(input')) >= 0
<1>1. PICK n, m : n = Len(input) /\ m = n + 1
  OBVIOUS
<1>2. OInv
  BY DEF NestInv, HInv
<1>3. /\ input' = Append(input, x) /\ input' \in Seq(Lines) /\ Len(input') = m /\ m <= MaxLines
  BY <1>1, <1>2, LineIsRead
<1>4. comp \in [Ids -> Node] /\ input \in Seq(Lines)
  BY <1>2 DEF OInv, Sound
<1>5. OneLine(input, x, input')
  <2>1. input \in Seq(LineKinds) /\ x \in LineKinds
    BY <1>4, LinesAreKnown, SeqMonotonic
  <2> QED BY <1>3, <2>1 DEF OneLine
<1>6. DepthOf(input', m) = level + Turn(x)
  <2>1. DepthOf(input', n + 1) = DepthOf(input, n) + Turn(x)
    BY <1>1, <1>5, DepthGrows
  <2> QED BY <1>1, <2>1 DEF NestInv
<1>7. OrderedIn(input') => Reading(input, x, input', stack, comp) /\ Rooted(input, comp, root)
  <2>1. OrderedIn(input') => OrderedIn(input)
    BY <1>5, OrderShrinks
  <2>2. OrderedIn(input) => Stacked(input, stack) /\ Filled(input, comp) /\ Rooted(input, comp, root)
    BY DEF NestInv, Kept
  <2> QED BY <1>3, <1>4, <1>5, <2>1, <2>2 DEF Reading
<1>8. OrderedIn(input') => DepthOf(input', Len(input')) >= 0
  BY <1>5, OrderShrinks
<1> QED BY <1>3, <1>5, <1>6, <1>7, <1>8

\* BEGIN.
LEMMA BeginIsKept ==
  ASSUME NestInv, NEW line \in Lines, Begin(line)
  PROVE  level' = DepthOf(input', Len(input')) /\ Kept(input', stack', comp', root')
<1>1. line \in Opens /\ Reads(line)
  BY DEF Begin, Opens
<1>2. Turn(line) = 1
  BY <1>1 DEF Turn
<1>3. /\ level' = level + 1 /\ comp' = [comp EXCEPT ![Len(input')] = New(KindOf(line))]
      /\ stack' = Append(stack, Len(input')) /\ root' = root
  BY DEF Begin
<1>4. /\ OneLine(input, line, input')
      /\ DepthOf(input', Len(input')) = level + Turn(line)
      /\ OrderedIn(input') => Reading(input, line, input', stack, comp) /\ Rooted(input, comp, root)
  BY <1>1, LineFinds
<1>5. Len(input') = Len(input) + 1
  <2>1. PICK n, t : n = Len(input) /\ t = input'
    OBVIOUS
  <2>2. OneLine(input, line, t)
    BY <1>4, <2>1
  <2>3. Len(t) = n + 1
    BY ONLY <2>1, <2>2, LineIsAdded
  <2> QED BY <2>1, <2>3
<1>6. ASSUME OrderedIn(input') PROVE Stacked(input', stack')
  <2>1. Stacked(input, stack)
    BY <1>4, <1>6 DEF Reading
  <2>2. Stacked(input', Append(stack, Len(input) + 1))
    BY <1>1, <1>4, <2>1, StackGrows
  <2> QED BY <1>3, <1>5, <2>2
<1>7. ASSUME OrderedIn(input') PROVE Filled(input', comp') /\ Rooted(input', comp', root')
  <2>1. PICK t, g, r : t = input' /\ g = comp' /\ r = root'
    OBVIOUS
  <2>2. Reading(input, line, t, stack, comp)
    BY <1>4, <1>7, <2>1
  <2>3. Rooted(input, comp, r)
    BY <1>3, <1>4, <1>7, <2>1
  <2>4. Begun(g, comp, Len(t), line)
    BY <1>3, <2>1 DEF Begun
  <2>5. line \in Opens
    BY <1>1
  <2>6. Filled(t, g) /\ Rooted(t, g, r)
    BY ONLY <2>2, <2>3, <2>4, <2>5, BeginFills
  <2> QED BY <2>1, <2>6
<1> QED BY <1>2, <1>3, <1>4, <1>6, <1>7 DEF Kept

\* A property line.
LEMMA PropertyIsKept ==
  ASSUME NestInv, NEW line \in Lines, Property(line)
  PROVE  level' = DepthOf(input', Len(input')) /\ Kept(input', stack', comp', root')
<1>1. line \notin Opens /\ line # "end" /\ line \notin BracketKinds /\ Reads(line)
  BY DEF Property, Opens, BracketKinds
<1>2. Turn(line) = 0
  BY <1>1 DEF Turn
<1>3. level' = level /\ stack' = stack /\ root' = root
  BY DEF Property
<1>4. /\ OneLine(input, line, input')
      /\ DepthOf(input', Len(input')) = level + Turn(line)
      /\ OrderedIn(input') => Reading(input, line, input', stack, comp) /\ Rooted(input, comp, root)
  BY <1>1, LineFinds
<1>5. comp' = IF stack = <<>> THEN comp ELSE WithProps(comp, TopOf(stack), Leaves(line))
  BY DEF Property, TopOf, Top, Last
<1>6. ASSUME OrderedIn(input') PROVE Stacked(input', stack')
  <2>1. Stacked(input, stack)
    BY <1>4, <1>6 DEF Reading
  <2> QED BY <1>1, <1>3, <1>4, <2>1, StackStays
<1>7. ASSUME OrderedIn(input') PROVE Filled(input', comp') /\ Rooted(input', comp', root')
  BY <1>1, <1>3, <1>4, <1>5, <1>7, PropertyFills
<1>8. level \in Int
  BY DEF NestInv, HInv, StackOK
<1> QED BY <1>2, <1>3, <1>4, <1>6, <1>7, <1>8 DEF Kept

\* What an END finds while the ENDs are in order.
LEMMA EndFinds ==
  ASSUME NestInv, Reads("end"), "end" \in Lines
  PROVE  /\ DepthOf(input', Len(input')) = level - 1
         /\ OrderedIn(input') => /\ Ending(input, input', stack, comp) /\ Rooted(input, comp, root)
                                 /\ stack # <<>> /\ Len(stack) = level
                                 /\ Stacked(input', Below)
                                 /\ Top(stack) = stack[Len(stack)]
                                 /\ Below = <<>> <=> Len(stack) = 1
                                 /\ Below # <<>> => Last(Below) = stack[Len(stack) - 1]
<1>1. Turn("end") = -1 /\ level \in Int
  BY DEF Turn, Opens, NestInv, HInv, StackOK
<1>2. /\ OneLine(input, "end", input')
      /\ DepthOf(input', Len(input')) = level + Turn("end")
      /\ OrderedIn(input') => Reading(input, "end", input', stack, comp) /\ Rooted(input, comp, root)
                              /\ DepthOf(input', Len(input')) >= 0
  BY LineFinds
<1>3. ASSUME OrderedIn(input')
      PROVE  /\ Ending(input, input', stack, comp)
             /\ stack # <<>> /\ Len(stack) = level
             /\ Stacked(input', Below)
             /\ Top(stack) = stack[Len(stack)]
             /\ Below = <<>> <=> Len(stack) = 1
             /\ Below # <<>> => Last(Below) = stack[Len(stack) - 1]
  <2>1. Stacked(input, stack) /\ Ending(input, input', stack, comp)
    BY <1>2, <1>3 DEF Reading, Ending
  <2>2. stack # <<>> /\ Stacked(input', Front(stack))
    BY <1>2, <1>3, <2>1, StackShrinks
  <2>3. Below = Front(stack)
    BY <2>2 DEF Below
  <2>4. PICK n : n = Len(input)
    OBVIOUS
  <2>5. stack \in Seq(1..n)
    BY <2>4 DEF NestInv, HInv, OInv
  <2>6. /\ Top(stack) = stack[Len(stack)]
        /\ Below = <<>> <=> Len(stack) = 1
        /\ Below # <<>> => Last(Below) = stack[Len(stack) - 1]
    BY <2>2, <2>5, BelowIs
  <2>7. Len(stack) = level
    BY <2>1 DEF Stacked, NestInv
  <2> QED BY <2>1, <2>2, <2>3, <2>6, <2>7
<1> QED BY <1>1, <1>2, <1>3

\* END, inside a component.
LEMMA InnerIsKept ==
  ASSUME NestInv, EndInner, "end" \in Lines
  PROVE  level' = DepthOf(input', Len(input')) /\ Kept(input', stack', comp', root')
<1>1. /\ Reads("end") /\ level # 1 /\ level' = level - 1 /\ stack' = Below
      /\ comp' = Handed /\ root' = root
  BY DEF EndInner
<1>2. level' = DepthOf(input', Len(input'))
  BY <1>1, EndFinds
<1>3. ASSUME OrderedIn(input')
      PROVE  Stacked(input', stack') /\ Filled(input', comp') /\ Rooted(input', comp', root')
  <2>1. /\ Ending(input, input', stack, comp) /\ Rooted(input, comp, root)
        /\ stack # <<>> /\ Len(stack) = level
        /\ Stacked(input', Below)
        /\ Top(stack) = stack[Len(stack)]
        /\ Below = <<>> <=> Len(stack) = 1
        /\ Below # <<>> => Last(Below) = stack[Len(stack) - 1]
    BY <1>1, <1>3, EndFinds
  <2>2. Len(stack) # 1 /\ comp' = Attach(comp, stack[Len(stack) - 1], stack[Len(stack)])
    BY <1>1, <2>1 DEF Handed
  <2>3. Filled(input', comp') /\ Rooted(input', comp', root)
    BY <2>1, <2>2, InnerFills
  <2> QED BY <1>1, <2>1, <2>3
<1> QED BY <1>2, <1>3 DEF Kept

\* END, at the outermost level: nothing is left to be cleaned up.
LEMMA OuterIsKept ==
  ASSUME NestInv, EndOuter, "end" \in Lines
  PROVE  level' = DepthOf(input', Len(input')) /\ Kept(input', stack', comp', root')
<1>1. Reads("end") /\ level = 1 /\ level' = 0 /\ stack' = <<>>
  BY DEF EndOuter
<1>2. level' = DepthOf(input', Len(input'))
  BY <1>1, EndFinds
<1>3. ASSUME OrderedIn(input')
      PROVE  Stacked(input', stack') /\ Filled(input', comp') /\ Rooted(input', comp', root')
  <2>1. /\ Ending(input, input', stack, comp) /\ Rooted(input, comp, root)
        /\ stack # <<>> /\ Len(stack) = level
        /\ Stacked(input', Below)
        /\ Below = <<>> <=> Len(stack) = 1
    BY <1>1, <1>3, EndFinds
  <2>2. Len(stack) = 1 /\ Below = <<>> /\ Head(stack) = stack[1]
    BY <1>1, <2>1
  <2>3. comp' = Collect(comp, stack[1]) /\ root' = Container(comp, stack[1])
    BY <2>2 DEF EndOuter
  <2>4. root = XRoot => comp[root].kind = "XROOT"
    BY DEF NestInv, HInv, OInv, Sound
  <2>5. /\ Filled(input', Collect(comp, stack[1]))
        /\ Rooted(input', Collect(comp, stack[1]), Container(comp, stack[1]))
    BY <2>1, <2>2, <2>4, OuterFills
  <2> QED BY <1>1, <2>1, <2>2, <2>3, <2>5
<1> QED BY <1>2, <1>3 DEF Kept

\* Every line keeps the nesting.
LEMMA StepIsKept == NestInv /\ [Next]_vars => NestInv'
<1> SUFFICES ASSUME NestInv, [Next]_vars PROVE NestInv'
  OBVIOUS
<1>1. HInv'
  BY StepKeepsStack, StepKeepsOwned DEF HInv, NestInv
<1>2. ASSUME FreeParser \/ UNCHANGED vars
      PROVE  level' = DepthOf(input', Len(input')) /\ Kept(input', stack', comp', root')
  <2>1. UNCHANGED <<input, comp, stack, level, root>>
    BY <1>2 DEF FreeParser, vars
  <2> QED BY <2>1 DEF NestInv
<1>3. level' = DepthOf(input', Len(input')) /\ Kept(input', stack', comp', root')
  BY <1>2, BeginIsKept, PropertyIsKept, InnerIsKept, OuterIsKept DEF Next
<1> QED BY <1>1, <1>3 DEF NestInv

\* Stack, heap and root are as the lines say, at any time.
THEOREM AlwaysNested == Spec => []NestInv
BY StartIsKept, StepIsKept, PTL DEF Spec

----------------------------------------------------------------------------
(* The properties.                                                         *)
\* These are the words of the properties.
LEMMA SameWords ==
  /\ Begins = BeginsOf(input)
  /\ \A i : Depth(i) = DepthOf(input, i)
  /\ Ordered <=> OrderedIn(input)
  /\ Open = OpenOf(input)
  /\ \A i : Around(i) = AroundOf(input, i)
  /\ \A i : ClosedIn(i) = ClosedOf(input, i)
  /\ \A ids : Arranged(ids) = ArrangedIn(input, ids)
  /\ \A i : Within(i) = WithinOf(input, i)
<1>1. Begins = BeginsOf(input)
  BY DEF Begins, BeginsOf, Opens
<1>2. \A i : Depth(i) = DepthOf(input, i)
  BY <1>1 DEF Depth, DepthOf
<1>3. Ordered <=> OrderedIn(input)
  BY <1>2 DEF Ordered, OrderedIn
<1>4. \A j, i : OpenAt(j, i) <=> OpenFrom(input, j, i)
  BY <1>2 DEF OpenAt, OpenFrom
<1>5. Open = OpenOf(input)
  BY <1>1, <1>4 DEF Open, OpenOf
<1>6. ASSUME NEW i PROVE Around(i) = AroundOf(input, i)
  <2>1. {0} \cup {j \in Begins : j < i /\ OpenAt(j, i - 1)} = OutOf(input, i)
    BY <1>1, <1>4 DEF OutOf
  <2> QED BY <2>1 DEF Around, AroundOf
<1>7. \A i : ClosedIn(i) = ClosedOf(input, i)
  BY <1>1, <1>5, <1>6 DEF ClosedIn, ClosedOf
<1>8. \A ids : Arranged(ids) = ArrangedIn(input, ids)
  BY DEF Arranged, ArrangedIn
<1>9. \A i : Within(i) = WithinOf(input, i)
  BY <1>6 DEF Within, WithinOf
<1> QED BY <1>1, <1>2, <1>3, <1>5, <1>6, <1>7, <1>8, <1>9

\* That is what NestingIsKept says.
LEMMA NestedMeansKept == NestInv => NestingIsKept
<1> SUFFICES ASSUME NestInv, OrderedIn(input) PROVE NestingIsKept
  BY SameWords DEF NestingIsKept
<1>1. Stacked(input, stack) /\ Filled(input, comp) /\ Rooted(input, comp, root)
  BY DEF NestInv, Kept
<1>2. stack = InOrder(Open)
  <2>1. Lists(stack, OpenOf(input))
    BY <1>1 DEF Stacked
  <2>2. InOrder(OpenOf(input)) = stack
    BY <2>1, InOrderIs
  <2> QED BY <2>2, SameWords
<1>3. \A i \in Begins : comp[i].kids = Arranged(ClosedIn(i))
  BY <1>1, SameWords DEF Filled, FilledAt, KidsIn
<1>4. PICK o : o = ClosedIn(0)
  OBVIOUS
<1>5. o = ClosedOf(input, 0) /\ KidsIn(input, 0) = Arranged(o)
  BY <1>4, SameWords DEF KidsIn
<1>6. (CASE o = {} -> root = Null
         [] Cardinality(o) = 1 -> {root} = o
         [] OTHER -> root = XRoot /\ comp[XRoot].kids = Arranged(o))
  BY <1>1, <1>5 DEF Rooted
<1> QED BY <1>2, <1>3, <1>4, <1>6 DEF NestingIsKept

\* For every input, while no END comes before its BEGIN, the stack holds exactly
\* the open components, every closed one is where its BEGIN stood, time zones
\* first, and the caller gets what was closed at the outermost level
\* (icalparser.c:662, 731, 775, icalcomponent.c:580).
THEOREM NestingHolds == Spec => []NestingIsKept
BY AlwaysNested, NestedMeansKept, PTL

\* And what PropertiesStay says.
LEMMA NestedMeansStay == NestInv => PropertiesStay
<1> SUFFICES ASSUME NestInv, OrderedIn(input), NEW i \in Begins
             PROVE  LET order == InOrder(Within(i))
                    IN  comp[i].props = FlattenSeq([n \in DOMAIN order |-> Leaves(input[order[n]])])
  BY SameWords DEF PropertiesStay
<1>1. comp[i].props = MarksIn(input, WithinOf(input, i))
  BY SameWords DEF NestInv, Kept, Filled, FilledAt
<1>2. Within(i) = WithinOf(input, i)
  BY SameWords
<1> QED BY <1>1, <1>2 DEF MarksIn

\* For every such input, what property lines leave, values and errors, stays with
\* the component they stand in, in their order (icalparser.c:846).
THEOREM PropertiesHold == Spec => []PropertiesStay
BY AlwaysNested, NestedMeansStay, PTL

----------------------------------------------------------------------------
(* Errors.                                                                 *)

\* Only lines that an input without errors has.
Plain(s) == \A k \in DOMAIN s : s[k] \in {"begin", "begin zone", "end", "property"}

\* The marks of such lines are values.
Quiet(s) == Plain(s) => \A i : MarksIn(s, WithinOf(s, i)) \in Seq({"value"})

\* Another line without an error leaves no other mark.
LEMMA QuietStays ==
  ASSUME NEW s, NEW x, NEW t, OneLine(s, x, t), Quiet(s)
  PROVE  Quiet(t)
<1>1. PICK n : n = Len(s)
  OBVIOUS
<1>2. /\ n \in Nat /\ DOMAIN s = 1..n /\ DOMAIN t = 1..n + 1
      /\ t[n + 1] = x /\ (\A i \in 1..n : t[i] = s[i])
  BY SMTT(30), <1>1, LineIsAdded
<1>3. SUFFICES ASSUME Plain(t), NEW i PROVE MarksIn(t, WithinOf(t, i)) \in Seq({"value"})
  BY DEF Quiet
<1>4. Plain(s) /\ x \in {"begin", "begin zone", "end", "property"}
  <2>1. n + 1 \in 1..n + 1 /\ \A k \in 1..n : k \in 1..n + 1
    BY <1>2
  <2> QED BY <1>2, <1>3, <2>1 DEF Plain
<1>5. MarksIn(s, WithinOf(s, i)) \in Seq({"value"})
  BY <1>4 DEF Quiet
<1>6. CASE x \in BracketKinds \/ AroundOf(s, Len(s) + 1) # i
  BY <1>5, <1>6, MarksOfOthers
<1>7. CASE x \notin BracketKinds /\ AroundOf(s, Len(s) + 1) = i
  <2>1. x = "property"
    BY <1>4, <1>7 DEF BracketKinds
  <2>2. PICK m, w : m = MarksIn(s, WithinOf(s, i)) /\ w = Leaves(x)
    OBVIOUS
  <2>3. w = <<"value">>
    BY <2>1, <2>2 DEF Leaves
  <2>4. MarksIn(t, WithinOf(t, i)) = m \o w
    BY <1>7, <2>2, MarksOfTop
  <2>5. m \in Seq({"value"}) /\ w \in Seq({"value"})
    BY <1>5, <2>2, <2>3
  <2>6. m \o w \in Seq({"value"})
    BY ONLY <2>5
  <2> QED BY <2>4, <2>6
<1> QED BY <1>6, <1>7

\* What is invariant.
AlarmInv == NestInv /\ Quiet(input)

\* Every step reads one line or none.
LEMMA AlarmStep == AlarmInv /\ [Next]_vars => AlarmInv'
<1> SUFFICES ASSUME AlarmInv, [Next]_vars PROVE AlarmInv'
  OBVIOUS
<1>1. NestInv'
  BY StepIsKept DEF AlarmInv
<1>2. ASSUME NEW x \in Lines, Reads(x) PROVE Quiet(input')
  <2>1. OneLine(input, x, input')
    BY <1>2, LineFinds DEF AlarmInv
  <2>2. Quiet(input)
    BY DEF AlarmInv
  <2> QED BY <2>1, <2>2, QuietStays
<1>3. (\E x \in Lines : Reads(x)) \/ input' = input
  BY DEF Next, Begin, Property, EndInner, EndOuter, FreeParser, vars
<1>4. Quiet(input')
  BY <1>2, <1>3 DEF AlarmInv
<1> QED BY <1>1, <1>4 DEF AlarmInv

\* Before the first line there are no marks.
LEMMA NoAlarmAtStart == Init => AlarmInv
<1> SUFFICES ASSUME Init PROVE AlarmInv
  OBVIOUS
<1>1. DOMAIN input = {} /\ <<>> \in Seq({"value"})
  BY DEF Init
<1>2. \A i : WithinOf(input, i) = {}
  BY <1>1 DEF WithinOf
<1>3. Quiet(input)
  BY <1>1, <1>2, EmptyHasNoMarks DEF Quiet
<1> QED BY <1>3, StartIsKept DEF AlarmInv

\* That is what NoFalseAlarm says.
LEMMA QuietMeansNoAlarm == AlarmInv => NoFalseAlarm
<1> SUFFICES ASSUME AlarmInv, WellFormed, NEW i \in Begins PROVE "error" \notin ToSet(comp[i].props)
  BY DEF NoFalseAlarm
<1>1. OrderedIn(input) /\ Plain(input)
  BY SameWords DEF WellFormed, Plain
<1>2. comp[i].props = MarksIn(input, WithinOf(input, i))
  BY <1>1, SameWords DEF AlarmInv, NestInv, Kept, Filled, FilledAt
<1>3. MarksIn(input, WithinOf(input, i)) \in Seq({"value"})
  BY <1>1 DEF AlarmInv, Quiet
<1> QED BY <1>2, <1>3 DEF ToSet

\* For every input without an error, nothing is reported as one
\* (icalparser.c:846, insert_error).
THEOREM NoAlarmIsFalse == Spec => []NoFalseAlarm
BY NoAlarmAtStart, AlarmStep, QuietMeansNoAlarm, PTL DEF Spec
=============================================================================
