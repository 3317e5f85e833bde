-------------------------- MODULE ICalFileSetProofs --------------------------
(***************************************************************************)
(* What holds of the processes with one file for any number of writers and *)
(* readers, any components and any contents.  Three invariants, each built *)
(* on the one before:                                                      *)
(*   IInv  the lock that icalfileset_init waits for is held until the file *)
(*         is closed, so writers exclude each other;                       *)
(*   DInv  while a writer saves, the file begins with the text of what it  *)
(*         has written so far;                                             *)
(*   AInv  what an open writer has and has not marked is what the file     *)
(*         has, and BInv: what is torn has a backup.                       *)
(* They need two facts of the text: what is saved is read back as it was   *)
(* (ParseOfImage), and a text that is put behind what a file begins with   *)
(* is there (OverWrites).  With them the set is a ComponentStore.          *)
(***************************************************************************)
EXTENDS ICalFileSet, Induction

(* The text of components.                                                 *)

\* What can be read, and what can be in a file.
Kept == Comps \cup {Mixed}
Blocks == [comp : Kept, part : {"whole", "head", "tail"}]

\* Where the parser can be.
States == [level : Int, open : Kept \cup {Nobody}, pure : BOOLEAN, out : Seq(Kept)]

\* A line takes the parser from where it can be to where it can be.
LEMMA LineTyped ==
  ASSUME NEW st \in States, NEW b \in Blocks
  PROVE  Line(st, b) \in States
<1>1. b.comp \in Kept /\ b.part \in {"whole", "head", "tail"} /\ Mixed \in Kept
  BY DEF Blocks, Kept
<1>2. /\ st.level \in Int /\ st.level + 1 \in Int /\ st.level - 1 \in Int
      /\ st.out \in Seq(Kept) /\ st.open \in Kept \cup {Nobody} /\ st.pure \in BOOLEAN
  BY DEF States
<1>3. \A c \in Kept : Append(st.out, c) \in Seq(Kept)
  BY <1>2, AppendProperties
<1>4. CASE b.part = "whole"
  BY <1>1, <1>2, <1>3, <1>4 DEF Line, States
<1>5. CASE b.part = "head"
  <2>1. [st EXCEPT !.level = 1, !.open = b.comp, !.pure = TRUE] \in States
    <3>1. [st EXCEPT !.level = 1] \in States
      BY DEF States
    <3>2. \A v \in States : [v EXCEPT !.open = b.comp] \in States
      BY <1>1 DEF States
    <3>3. \A v \in States : [v EXCEPT !.pure = TRUE] \in States
      BY DEF States
    <3> QED BY <3>1, <3>2, <3>3
  <2>2. [[st EXCEPT !.pure = FALSE] EXCEPT !.level = @ + 1] \in States
    BY <1>2 DEF States
  <2> QED BY <1>5, <2>1, <2>2 DEF Line
<1>6. CASE b.part = "tail"
  <2>1. [st EXCEPT !.level = @ - 1] \in States
    BY <1>2 DEF States
  <2>2. ASSUME NEW c \in Kept
        PROVE [[st EXCEPT !.level = @ - 1] EXCEPT !.out = Append(@, c)] \in States
    BY <1>2, <1>3 DEF States
  <2> QED BY <1>1, <1>6, <2>1, <2>2 DEF Line
<1> QED BY <1>1, <1>4, <1>5, <1>6

\* after is where the parser is after each of the blocks.
Reading(after, blocks) ==
  /\ \A i \in 0..Len(blocks) : after[i] \in States
  /\ after[0] = NothingRead
  /\ \A i \in 1..Len(blocks) : after[i] = Line(after[i - 1], blocks[i])

\* It starts there.
LEMMA NothingReadTyped == NothingRead \in States
BY EmptySeq DEF NothingRead, States

\* The recursive definition of Lines has a solution, and that is what it says.
LEMMA LinesDef ==
  ASSUME NEW blocks \in Seq(Blocks)
  PROVE  Reading(Lines(blocks), blocks)
<1>1. PICK n \in Nat : n = Len(blocks) /\ \A i \in 1..n : blocks[i] \in Blocks
  BY LenProperties, ElementOfSeq
<1>2. PICK V : V = States
  OBVIOUS
<1>3. PICK T : T = [i \in 1..n |-> [v \in V |-> Line(v, blocks[i])]]
  OBVIOUS
<1>4. T \in Steps(V, n)
  BY <1>1, <1>2, <1>3, LineTyped DEF Steps
<1>5. PICK g : Follows(g, V, NothingRead, n, T)
  BY <1>2, <1>4, NothingReadTyped, PrefixRecursion
<1>6. PICK h : h = [i \in 0..n |-> g[i]]
  OBVIOUS
<1>7. /\ \A i \in 0..n : h[i] \in States
      /\ h[0] = NothingRead
      /\ \A i \in 1..n : h[i] = Line(h[i - 1], blocks[i])
  <2>1. ASSUME NEW i \in 1..n PROVE h[i] = Line(h[i - 1], blocks[i])
    <3>1. g[i] = T[i][g[i - 1]] /\ g[i - 1] \in V
      BY <1>5 DEF Follows
    <3> QED BY <1>3, <1>6, <3>1
  <2>2. ASSUME NEW i \in 0..n PROVE h[i] \in States
    BY <1>2, <1>5, <1>6 DEF Follows
  <2>3. h[0] = NothingRead
    BY <1>5, <1>6 DEF Follows
  <2> QED BY <2>1, <2>2, <2>3
<1> DEFINE Is(f) == f = [i \in 0..n |-> IF i = 0 THEN NothingRead
                                       ELSE Line(f[i - 1], blocks[i])]
<1>8. \E f : Is(f)
  <2>1. \A i \in 0..n : h[i] = IF i = 0 THEN NothingRead ELSE Line(h[i - 1], blocks[i])
    BY <1>7
  <2>2. Is(h)
    BY <1>6, <2>1
  <2> HIDE DEF Is
  <2> QED BY <2>2
<1>9. PICK f : f = Lines(blocks) /\ Is(f)
  BY <1>1, <1>8 DEF Lines
<1>10. /\ f[0] = NothingRead
       /\ \A i \in 1..n : f[i] = Line(f[i - 1], blocks[i])
  BY <1>9
<1> DEFINE S == {m \in Nat : m <= n => f[m] \in States}
<1>11. 0 \in S
  BY <1>10, NothingReadTyped
<1>12. ASSUME NEW m \in Nat, m \in S PROVE m + 1 \in S
  <2> SUFFICES ASSUME m + 1 <= n PROVE f[m + 1] \in States
    OBVIOUS
  <2>1. f[m] \in States /\ m + 1 \in 1..n /\ (m + 1) - 1 = m
    BY <1>12
  <2> QED BY <1>1, <1>10, <2>1, LineTyped
<1> HIDE DEF S, Is
<1>13. Nat \subseteq S
  BY <1>11, <1>12, InductionOnNat
<1>14. \A i \in 0..n : f[i] \in States
  BY <1>13 DEF S
<1> QED BY <1>1, <1>9, <1>10, <1>14 DEF Reading

\* The parser does not look ahead.
LEMMA LinesConcat ==
  ASSUME NEW b \in Seq(Blocks), NEW t \in Seq(Blocks), NEW i \in 0..Len(b)
  PROVE  Lines(b \o t)[i] = Lines(b)[i]
<1>1. PICK f, g : f = Lines(b) /\ g = Lines(b \o t)
  OBVIOUS
<1>2. PICK n \in Nat : n = Len(b)
  BY LenProperties
<1>3. PICK m \in Nat : m = Len(t)
  BY LenProperties
<1>4. /\ b \o t \in Seq(Blocks) /\ Len(b \o t) = n + m
      /\ \A k \in 1..n : (b \o t)[k] = b[k]
  BY <1>2, <1>3, ConcatProperties
<1>5. Reading(f, b) /\ Reading(g, b \o t)
  BY <1>1, <1>4, LinesDef
<1> DEFINE S == {k \in Nat : k <= n => g[k] = f[k]}
<1>6. 0 \in S
  BY <1>5 DEF Reading
<1>7. ASSUME NEW k \in Nat, k \in S PROVE k + 1 \in S
  <2> SUFFICES ASSUME k + 1 <= n PROVE g[k + 1] = f[k + 1]
    OBVIOUS
  <2>1. g[k] = f[k] /\ k + 1 \in 1..n /\ k + 1 \in 1..n + m /\ (k + 1) - 1 = k
    BY <1>7
  <2>2. f[k + 1] = Line(f[k], b[k + 1])
    BY <1>2, <1>5, <2>1 DEF Reading
  <2>3. g[k + 1] = Line(g[k], (b \o t)[k + 1])
    BY <1>4, <1>5, <2>1 DEF Reading
  <2> QED BY <1>4, <2>1, <2>2, <2>3
<1> HIDE DEF S
<1>8. Nat \subseteq S
  BY <1>6, <1>7, InductionOnNat
<1> QED BY <1>1, <1>2, <1>8 DEF S

\* What is read from a file is components.
LEMMA ParseTyped ==
  ASSUME NEW blocks \in Seq(Blocks)
  PROVE  Parse(blocks) \in Seq(Kept)
<1>1. PICK n \in Nat : n = Len(blocks)
  BY LenProperties
<1>2. Lines(blocks)[n] \in States
  <2>1. n \in 0..Len(blocks)
    BY <1>1
  <2> QED BY <2>1, LinesDef DEF Reading
<1> QED BY <1>1, <1>2 DEF Parse, States

\* The text of a component is one block or two.
LEMMA TextTyped ==
  ASSUME NEW c \in Kept
  PROVE  Text(c) \in Seq(Blocks) /\ Len(Text(c)) \in {1, 2}
<1>1. \A p \in {"whole", "head", "tail"} : Block(c, p) \in Blocks
  BY DEF Block, Blocks
<1>2. \A p, q \in Blocks : <<p, q>> \in Seq(Blocks) /\ <<p>> \in Seq(Blocks)
  OBVIOUS
<1> QED BY <1>1, <1>2 DEF Text

\* The text of one component more is its text behind the text of the others.
LEMMA ImageAppend ==
  ASSUME NEW s \in Seq(Kept), NEW c \in Kept
  PROVE  /\ Image(<<>>) = <<>>
         /\ Image(s) \in Seq(Blocks)
         /\ Image(Append(s, c)) = Image(s) \o Text(c)
<1> DEFINE Texts(r) == [i \in DOMAIN r |-> Text(r[i])]
<1>1. PICK n \in Nat : n = Len(s) /\ DOMAIN s = 1..n /\ \A i \in 1..n : s[i] \in Kept
  BY LenProperties, ElementOfSeq
<1>2. Texts(s) \in Seq(Seq(Blocks)) /\ Len(Texts(s)) = n
  BY <1>1, TextTyped
<1>3. Texts(Append(s, c)) = Append(Texts(s), Text(c))
  <2>1. /\ Len(Append(s, c)) = n + 1 /\ DOMAIN Append(s, c) = 1..n + 1
        /\ \A i \in 1..n : Append(s, c)[i] = s[i]
        /\ Append(s, c)[n + 1] = c
    BY <1>1, AppendProperties, LenProperties
  <2>2. /\ DOMAIN Append(Texts(s), Text(c)) = 1..n + 1
        /\ \A i \in 1..n : Append(Texts(s), Text(c))[i] = Texts(s)[i]
        /\ Append(Texts(s), Text(c))[n + 1] = Text(c)
    BY <1>2, TextTyped, AppendProperties, LenProperties
  <2> QED BY <1>1, <2>1, <2>2
<1>4. Texts(<<>>) = <<>>
  OBVIOUS
<1>5. \A r : Image(r) = FlattenSeq(Texts(r))
  BY DEF Image
<1> HIDE DEF Texts
<1> QED BY <1>2, <1>3, <1>4, <1>5, TextTyped, FlattenAppend

\* What is read back from the text of a list of components is that list.
LEMMA ParseOfImage ==
  ASSUME NEW s \in Seq(Kept)
  PROVE  Parse(Image(s)) = s
<1> DEFINE End(b) == Lines(b)[Len(b)]
           S == {r \in Seq(Kept) : End(Image(r)).level = 0 /\ End(Image(r)).out = r}
<1>1. <<>> \in S
  <2>1. <<>> \in Seq(Kept) /\ Image(<<>>) = <<>> /\ <<>> \in Seq(Blocks)
    BY EmptySeq, ImageAppend DEF Kept
  <2>2. End(<<>>) = NothingRead
    BY <2>1, LinesDef, EmptySeq DEF Reading
  <2> QED BY <2>1, <2>2 DEF NothingRead
<1>2. ASSUME NEW r \in Seq(Kept), NEW c \in Kept, r \in S PROVE Append(r, c) \in S
  <2>1. PICK b, t : b = Image(r) /\ t = Text(c)
    OBVIOUS
  <2>2. b \in Seq(Blocks) /\ t \in Seq(Blocks) /\ Image(Append(r, c)) = b \o t
    BY <2>1, ImageAppend, TextTyped
  <2>3. PICK n \in Nat : n = Len(b)
    BY <2>2, LenProperties
  <2>4. PICK g : g = Lines(b \o t)
    OBVIOUS
  <2>5. /\ b \o t \in Seq(Blocks) /\ Len(b \o t) = n + Len(t)
        /\ \A k \in 1..Len(t) : (b \o t)[n + k] = t[k]
    <3>1. Len(t) \in Nat
      BY <2>2, LenProperties
    <3> QED BY <2>2, <2>3, <3>1, ConcatProperties
  <2>6. /\ g[n] \in States /\ g[n].level = 0 /\ g[n].out = r
    <3>1. n \in 0..Len(b)
      BY <2>3
    <3>2. g[n] = Lines(b)[n]
      BY <2>2, <2>4, <3>1, LinesConcat
    <3> QED BY <1>2, <2>1, <2>2, <2>3, <3>1, <3>2, LinesDef DEF Reading
  <2>7. ASSUME NEW k \in 1..Len(t)
        PROVE  g[n + k] = Line(g[(n + k) - 1], t[k])
    <3>1. Len(t) \in Nat
      BY <2>2, LenProperties
    <3>2. n + k \in 1..Len(b \o t)
      BY <2>5, <3>1
    <3> QED BY <2>4, <2>5, <3>2, LinesDef DEF Reading
  <2>8. g[n + Len(t)].level = 0 /\ g[n + Len(t)].out = Append(r, c)
    <3>1. CASE c \in Long \cup {Mixed}
      <4>1. /\ Len(t) = 2 /\ t[1] = Block(c, "head") /\ t[2] = Block(c, "tail")
        BY <2>1, <3>1 DEF Text
      <4>2. g[n + 1] = [g[n] EXCEPT !.level = 1, !.open = c, !.pure = TRUE]
        <5>1. 1 \in 1..Len(t) /\ (n + 1) - 1 = n
          BY <4>1
        <5>2. g[n + 1] = Line(g[n], Block(c, "head"))
          BY <2>7, <4>1, <5>1
        <5> QED BY <2>6, <5>2 DEF Line, Block
      <4>3. /\ g[n + 1].level = 1 /\ g[n + 1].open = c /\ g[n + 1].pure = TRUE
            /\ g[n + 1].out = r
        BY <2>6, <4>2 DEF States
      <4>4. g[n + 2] = Line(g[n + 1], Block(c, "tail"))
        <5>1. 2 \in 1..Len(t) /\ (n + 2) - 1 = n + 1
          BY <4>1
        <5> QED BY <2>7, <4>1, <5>1
      <4>5. g[n + 1] \in States
        <5>1. n + 1 \in 0..Len(b \o t)
          BY <2>5, <4>1
        <5> QED BY <2>4, <2>5, <5>1, LinesDef DEF Reading
      <4>6. PICK low : low = [g[n + 1] EXCEPT !.level = @ - 1]
        OBVIOUS
      <4>7. low \in States /\ low.level = 0 /\ low.out = r
        BY <4>3, <4>5, <4>6 DEF States
      <4>8. Line(g[n + 1], Block(c, "tail")) = [low EXCEPT !.out = Append(@, c)]
        BY <4>3, <4>6 DEF Line, Block
      <4>9. /\ Line(g[n + 1], Block(c, "tail")).level = 0
            /\ Line(g[n + 1], Block(c, "tail")).out = Append(r, c)
        BY <4>7, <4>8 DEF States
      <4> QED BY <4>1, <4>4, <4>9
    <3>2. CASE c \notin Long \cup {Mixed}
      <4>1. Len(t) = 1 /\ t[1] = Block(c, "whole")
        BY <2>1, <3>2 DEF Text
      <4>2. g[n + 1] = Line(g[n], Block(c, "whole"))
        <5>1. 1 \in 1..Len(t) /\ (n + 1) - 1 = n
          BY <4>1
        <5> QED BY <2>7, <4>1, <5>1
      <4>3. /\ Line(g[n], Block(c, "whole")).level = 0
            /\ Line(g[n], Block(c, "whole")).out = Append(r, c)
        BY <2>6 DEF Line, Block, States
      <4> QED BY <4>1, <4>2, <4>3
    <3> QED BY <3>1, <3>2
  <2> QED BY <2>2, <2>3, <2>4, <2>5, <2>8, AppendProperties
<1> HIDE DEF S
<1>3. Seq(Kept) \subseteq S
  BY <1>1, <1>2, InductionOnSeq
<1> QED BY <1>3 DEF S, Parse

----------------------------------------------------------------------------
(* Files that begin with a text.                                           *)

StartsWith(f, img) == Len(img) <= Len(f) /\ \A i \in 1..Len(img) : f[i] = img[i]

\* The first n of a sequence.
LEMMA FrontTyped ==
  ASSUME NEW B, NEW t \in Seq(B), NEW n \in 0..Len(t)
  PROVE  /\ SubSeq(t, 1, n) \in Seq(B)
         /\ Len(SubSeq(t, 1, n)) = n
         /\ \A i \in 1..n : SubSeq(t, 1, n)[i] = t[i]
<1>1. Len(t) \in Nat /\ n \in Int /\ \A i \in 1..n : t[i] \in B
  BY LenProperties, ElementOfSeq
<1> QED BY <1>1, SubSeqProperties

\* A text put behind what a file begins with.
LEMMA OverWrites ==
  ASSUME NEW f \in Seq(Blocks), NEW img \in Seq(Blocks), NEW t \in Seq(Blocks),
         StartsWith(f, img)
  PROVE  /\ Over(f, Len(img), t) \in Seq(Blocks)
         /\ StartsWith(Over(f, Len(img), t), img \o t)
         /\ f # <<>> => Over(f, Len(img), t) # <<>>
<1>1. PICK n, k, m \in Nat : n = Len(f) /\ k = Len(img) /\ m = Len(t)
  BY LenProperties
<1>2. k <= n /\ \A i \in 1..k : f[i] = img[i]
  BY <1>1 DEF StartsWith
<1>3. PICK a : a = SubSeq(f, 1, k)
  OBVIOUS
<1>4. a \in Seq(Blocks) /\ Len(a) = k /\ \A i \in 1..k : a[i] = img[i]
  BY <1>1, <1>2, <1>3, FrontTyped
<1>5. PICK z : z = SubSeq(f, k + m + 1, n)
  OBVIOUS
<1>6. z \in Seq(Blocks) /\ Len(z) = IF k + m + 1 <= n THEN n - (k + m) ELSE 0
  <2>1. k + m + 1 \in Int /\ n \in Int /\ \A i \in k + m + 1..n : f[i] \in Blocks
    BY <1>1, ElementOfSeq
  <2> QED BY <1>5, <2>1, SubSeqProperties
<1>7. /\ a \o t \in Seq(Blocks) /\ Len(a \o t) = k + m
      /\ \A i \in 1..k + m : (a \o t)[i] = (img \o t)[i]
  <2>a. a \in Seq(Blocks) /\ t \in Seq(Blocks) /\ Len(a) = k /\ Len(t) = m
    BY <1>1, <1>4
  <2>1. a \o t \in Seq(Blocks) /\ Len(a \o t) = k + m
    BY <2>a, ConcatProperties
  <2>2. ASSUME NEW i \in 1..k + m PROVE (a \o t)[i] = (img \o t)[i]
    <3>1. (a \o t)[i] = IF i <= k THEN a[i] ELSE t[i - k]
      BY <2>a, ConcatProperties
    <3>2. (img \o t)[i] = IF i <= k THEN img[i] ELSE t[i - k]
      BY <1>1, ConcatProperties
    <3>3. i <= k => i \in 1..k
      OBVIOUS
    <3> QED BY <1>4, <3>1, <3>2, <3>3
  <2> QED BY <2>1, <2>2
<1>8. img \o t \in Seq(Blocks) /\ Len(img \o t) = k + m
  BY <1>1, ConcatProperties
<1>9. PICK h : h = (a \o t) \o z
  OBVIOUS
<1>10. /\ h \in Seq(Blocks) /\ Len(h) = k + m + Len(z)
       /\ \A i \in 1..k + m : h[i] = (a \o t)[i]
  <2>1. Len(z) \in Nat
    BY <1>6, LenProperties
  <2>2. h \in Seq(Blocks) /\ Len(h) = k + m + Len(z)
    BY <1>6, <1>7, <1>9, <2>1, ConcatProperties
  <2>3. ASSUME NEW i \in 1..k + m PROVE h[i] = (a \o t)[i]
    <3>1. i \in 1..Len(a \o t) + Len(z) /\ i <= Len(a \o t)
      BY <1>7, <2>1
    <3> QED BY <1>6, <1>7, <1>9, <3>1, ConcatProperties
  <2> QED BY <2>2, <2>3
<1>11. h = Over(f, Len(img), t)
  BY <1>1, <1>3, <1>5, <1>9 DEF Over
<1>12. StartsWith(h, img \o t)
  BY SMTT(30), <1>6, <1>7, <1>8, <1>10 DEF StartsWith
<1>13. f # <<>> => h # <<>>
  <2>1. f # <<>> => n > 0
    BY <1>1, EmptySeq
  <2>2. n > 0 => Len(h) > 0
    BY <1>2, <1>6, <1>10
  <2> QED BY <2>1, <2>2, EmptySeq
<1> QED BY <1>10, <1>11, <1>12, <1>13

\* What ftruncate leaves.
LEMMA CutToText ==
  ASSUME NEW f \in Seq(Blocks), NEW img \in Seq(Blocks), StartsWith(f, img)
  PROVE  SubSeq(f, 1, Len(img)) = img
<1>1. Len(img) \in 0..Len(f)
  BY LenProperties DEF StartsWith
<1> QED BY <1>1, FrontTyped, SeqEqual DEF StartsWith

\* One more component.
LEMMA ImageOfMore ==
  ASSUME NEW s \in Seq(Kept), NEW k \in Nat, k < Len(s)
  PROVE  /\ SubSeq(s, 1, k) \in Seq(Kept)
         /\ Image(SubSeq(s, 1, k)) \in Seq(Blocks)
         /\ s[k + 1] \in Kept
         /\ Image(SubSeq(s, 1, k + 1)) = Image(SubSeq(s, 1, k)) \o Text(s[k + 1])
<1>1. Len(s) \in Nat /\ k \in 0..Len(s) /\ k + 1 \in 1..Len(s) /\ k + 1 \in 0..Len(s)
  BY LenProperties
<1>2. s[k + 1] \in Kept
  BY <1>1, ElementOfSeq
<1>3. SubSeq(s, 1, k) \in Seq(Kept)
  BY <1>1, FrontTyped
<1>4. SubSeq(s, 1, k + 1) = Append(SubSeq(s, 1, k), s[k + 1])
  <2>1. 1 \in 1..Len(s) /\ k + 1 \in 1..Len(s) /\ (k + 1) - 1 = k
    BY <1>1
  <2>2. SubSeq(s, 1, k + 1) = SubSeq(s, 1, k) \o <<s[k + 1]>>
    BY <1>1, <2>1, SubSeqRecursiveSecond
  <2> QED BY <1>2, <1>3, <2>2, AppendIsConcat
<1> QED BY <1>2, <1>3, <1>4, ImageAppend

----------------------------------------------------------------------------
(* The lock.                                                               *)

Calls == {"closed", "sized", "open", "backup", "write", "cut", "free"}

\* The inductive invariant.
IInv ==
  /\ pc \in [Sets -> Calls]
  /\ lock \in Writers \cup {Nobody}
  /\ \A w \in Writers : pc[w] \in {"closed", "sized"} <=> lock # w
  /\ \A s \in Sets : pc[s] = "backup" => s \in Writers

\* In the beginning every call is typed, and nobody has the lock.
LEMMA InitIsTyped == Init => IInv
BY WritersAreNotReaders DEF Init, IInv, Calls, Sets

\* A call that goes on with the lock as it was: into a part of the code that is
\* on the same side of the lock.
LEMMA GoingOnKeeps ==
  ASSUME IInv, NEW s \in Sets, NEW at \in Calls, UNCHANGED lock,
         pc' = [pc EXCEPT ![s] = at],
         pc[s] \in {"closed", "sized"} <=> at \in {"closed", "sized"},
         at = "backup" => s \in Writers
  PROVE  IInv'
BY DEF IInv, Sets

\* The file is closed, and the lock with it.
LEMMA ClosingKeeps ==
  ASSUME IInv, NEW s \in Sets, lock' = Unlocked(s),
         pc' = [pc EXCEPT ![s] = "closed"]
  PROVE  IInv'
<1>1. pc' \in [Sets -> Calls]
  BY DEF IInv, Calls
<1>2. CASE lock = s
  BY <1>1, <1>2, WritersAreNotReaders DEF IInv, Unlocked, Sets
<1>3. CASE lock # s
  BY <1>1, <1>3, WritersAreNotReaders DEF IInv, Unlocked, Sets
<1> QED BY <1>2, <1>3

\* Where a call is that returns.
LEMMA ReturningKeeps ==
  ASSUME IInv, NEW s \in Sets, Returns(s), UNCHANGED lock,
         pc[s] \in {"write", "cut"}
  PROVE  IInv'
BY GoingOnKeeps DEF Returns, Calls

\* Every step keeps the types of the calls and who has the lock.
LEMMA StepKeeps ==
  ASSUME IInv, [Next]_vars
  PROVE  IInv'
<1>1. ASSUME NEW s \in Sets, Size(s) PROVE IInv'
  BY <1>1, GoingOnKeeps DEF Size, Goes, Calls
<1>2. ASSUME NEW s \in Sets, OpenLocked(s) PROVE IInv'
  BY <1>2, WritersAreNotReaders DEF OpenLocked, Goes, IInv, Calls, Sets
<1>3. ASSUME NEW s \in Sets, OpenReader(s) PROVE IInv'
  BY <1>3, WritersAreNotReaders DEF OpenReader, Goes, IInv, Calls, Sets
<1>4. ASSUME NEW s \in Sets, NEW comps, Changes(s, comps) PROVE IInv'
  BY <1>4 DEF Changes, IInv
<1>5. ASSUME NEW s \in Sets, NEW frees \in BOOLEAN, Commit(s, frees) PROVE IInv'
  <2> DEFINE next == IF ~changed[s] THEN IF frees THEN "free" ELSE "open"
                     ELSE IF SafeSaves /\ s \in Writers THEN "backup" ELSE "write"
  <2>1. pc[s] = "open" /\ pc' = [pc EXCEPT ![s] = next] /\ UNCHANGED lock
    BY <1>5 DEF Commit, Goes
  <2>2. next \in Calls \ {"closed", "sized"} /\ (next = "backup" => s \in Writers)
    BY DEF Calls
  <2> HIDE DEF next
  <2> QED BY <2>1, <2>2, GoingOnKeeps
<1>6. ASSUME NEW s \in Sets, Saves(s) PROVE IInv'
  <2>1. CASE Backup(s)
    BY <2>1, GoingOnKeeps DEF Backup, Goes, Calls
  <2>2. CASE Write(s)
    BY <2>2 DEF Write, IInv
  <2>3. CASE Written(s)
    BY <2>3, GoingOnKeeps DEF Written, Goes, Calls
  <2>4. CASE Cut(s)
    BY <2>4, ReturningKeeps DEF Cut
  <2> QED BY <1>6, <2>1, <2>2, <2>3, <2>4 DEF Saves
<1>7. ASSUME NEW s \in Sets, WriteFails(s) PROVE IInv'
  BY <1>7, ReturningKeeps DEF WriteFails
<1>8. ASSUME NEW s \in Sets, Close(s) PROVE IInv'
  BY <1>8, ClosingKeeps DEF Close, Goes
<1>9. ASSUME NEW w \in Writers, Crash(w) PROVE IInv'
  BY <1>9, ClosingKeeps DEF Crash, Sets
<1>10. CASE UNCHANGED vars
  BY <1>10 DEF vars, IInv
<1>11. CASE Next
  BY <1>11, <1>1, <1>2, <1>3, <1>4, <1>5, <1>6, <1>7, <1>8, <1>9
     DEF Next, Opens, Add, RemoveOne, Mark
<1> QED BY <1>10, <1>11

\* One writer has the lock from its open to its close, so no two saves of a file
\* run at once (icalfileset.c:314).
THEOREM WritersExcludeEachOther == Spec => []OneSaves
<1>1. IInv => OneSaves
  BY DEF IInv, OneSaves, Saving
<1>2. Init => IInv
  BY InitIsTyped
<1>3. IInv /\ [Next]_vars => IInv'
  BY StepKeeps
<1> QED BY <1>1, <1>2, <1>3, PTL DEF Spec

\* The file and its backup change only in a save of the writer that has the
\* lock: no reader and no crash outside of a save touches them
\* (icalfileset.c:362).
THEOREM OnlyTheHolderWrites == Spec => OnlySavesWrite
<1> DEFINE Quiet == <<file, bak>>' = <<file, bak>>
           Holds == \E w \in Writers : lock = w /\ Saving(w)
<1>1. ASSUME NEW w \in Writers, IInv, Saving(w) PROVE Holds
  BY <1>1 DEF IInv, Saving
<1>2. ASSUME IInv, Next PROVE Quiet \/ Holds
  <2>1. ASSUME NEW s \in Sets, Size(s) \/ Opens(s) PROVE Quiet
    BY <2>1 DEF Size, Opens, OpenLocked, OpenReader, onDisk
  <2>2. ASSUME NEW s \in Sets, NEW comps, Changes(s, comps) PROVE Quiet
    BY <2>2 DEF Changes, onDisk
  <2>3. ASSUME NEW s \in Sets, NEW frees \in BOOLEAN, Commit(s, frees) PROVE Quiet
    BY <2>3 DEF Commit
  <2>4. ASSUME NEW s \in Sets, Saves(s) PROVE Quiet \/ Holds
    <3>1. CASE Backup(s)
      <4>1. pc[s] = "backup" /\ s \in Writers
        BY <1>2, <3>1 DEF Backup, Goes, IInv, Sets
      <4> QED BY <1>1, <1>2, <4>1 DEF Saving
    <3>2. CASE Write(s)
      BY <1>1, <1>2, <3>2 DEF Write, Saving
    <3>3. CASE Written(s)
      BY <3>3 DEF Written, onDisk
    <3>4. CASE Cut(s)
      <4>1. CASE s \in Writers
        BY <1>1, <1>2, <3>4, <4>1 DEF Cut, Saving
      <4>2. CASE s \notin Writers
        BY <3>4, <4>2 DEF Cut
      <4> QED BY <4>1, <4>2
    <3> QED BY <2>4, <3>1, <3>2, <3>3, <3>4 DEF Saves
  <2>5. ASSUME NEW s \in Sets, WriteFails(s) PROVE Quiet \/ Holds
    <3>1. CASE s \in Writers
      BY <1>1, <1>2, <2>5, <3>1 DEF WriteFails, Saving
    <3>2. CASE s \notin Writers
      BY <2>5, <3>2 DEF WriteFails
    <3> QED BY <3>1, <3>2
  <2>6. ASSUME NEW s \in Sets, Close(s) PROVE Quiet
    BY <2>6 DEF Close, onDisk
  <2>7. ASSUME NEW w \in Writers, Crash(w) PROVE Quiet \/ Holds
    <3>1. CASE pc[w] = "write"
      BY <1>1, <1>2, <3>1 DEF Saving
    <3>2. CASE pc[w] # "write"
      BY <2>7, <3>2 DEF Crash
    <3> QED BY <3>1, <3>2
  <2> HIDE DEF Quiet, Holds
  <2> QED BY <1>2, <2>1, <2>2, <2>3, <2>4, <2>5, <2>6, <2>7 DEF Next, Add, RemoveOne, Mark
<1>3. IInv /\ [Next]_vars => [<<file, bak>>' # <<file, bak>> => Holds]_vars
  BY <1>2
<1>4. Init => IInv
  BY InitIsTyped
<1>5. IInv /\ [Next]_vars => IInv'
  BY StepKeeps
<1> QED BY <1>3, <1>4, <1>5, PTL DEF Spec, OnlySavesWrite

----------------------------------------------------------------------------
(* What is in the file while it is written.                                *)

\* The text of the components that the commit has written.
Done(s) == Image(SubSeq(cluster[s], 1, written[s]))

\* While a writer writes, the file begins with what is written so far; then
\* with all of its copy.
Progress(s) ==
  /\ pc[s] = "backup" => written[s] = 0
  /\ pc[s] = "write" => written[s] <= Len(cluster[s])
  /\ s \in Writers /\ pc[s] = "write" => StartsWith(file, Done(s))
  /\ s \in Writers /\ pc[s] = "cut" => StartsWith(file, Image(cluster[s]))

FTypes == /\ file \in Seq(Blocks) /\ bak \in Seq(Blocks) /\ before \in Seq(Kept)
          /\ size \in [Sets -> BOOLEAN] /\ changed \in [Sets -> BOOLEAN]
          /\ freeing \in [Sets -> BOOLEAN] /\ written \in [Sets -> Nat]
          /\ cluster \in [Sets -> Seq(Kept)]
          /\ faults \in 0..MaxFaults

DInv == IInv /\ FTypes /\ \A s \in Sets : Progress(s)

\* What a step of one set leaves of another.
SameFor(s) == /\ pc'[s] = pc[s] /\ size'[s] = size[s] /\ cluster'[s] = cluster[s]
              /\ changed'[s] = changed[s] /\ written'[s] = written[s]
              /\ freeing'[s] = freeing[s]

\* A step of x: it changes x's part of the state, and the file only if x saves.
StepOf(x) == /\ \A s \in Sets \ {x} : SameFor(s)
             /\ file' = file \/ (x \in Writers /\ Saving(x))

\* No components have no text.
LEMMA EmptyTyped == <<>> \in Seq(Kept) /\ <<>> \in Seq(Blocks) /\ Image(<<>>) = <<>>
BY EmptySeq, ImageAppend DEF Kept

\* The others are where they were: if the file has changed, they do not save.
LEMMA OthersProgress ==
  ASSUME DInv, NEW x \in Sets, StepOf(x), NEW s \in Sets \ {x}
  PROVE  Progress(s)'
<1>1. SameFor(s) /\ Progress(s)
  BY DEF StepOf, DInv
<1>2. CASE file' = file
  BY <1>1, <1>2 DEF SameFor, Progress, Done
<1>3. CASE x \in Writers /\ Saving(x)
  <2>1. s \in Writers => ~Saving(s)
    BY <1>3 DEF DInv, IInv, Saving, Sets
  <2> QED BY <1>1, <2>1 DEF SameFor, Progress, Saving
<1> QED BY <1>2, <1>3 DEF StepOf

\* A writer that has written some of its components, and puts some of the next
\* one behind them.
LEMMA PutsBehind ==
  ASSUME DInv, NEW w \in Writers, pc[w] = "write", NEW n \in 0..Len(Rest(w)), Puts(w, n)
  PROVE  /\ file' \in Seq(Blocks)
         /\ file # <<>> => file' # <<>>
         /\ n = Len(Rest(w)) /\ Rest(w) # <<>> =>
              /\ written[w] + 1 <= Len(cluster[w])
              /\ StartsWith(file', Image(SubSeq(cluster[w], 1, written[w] + 1)))
<1>1. PICK c, k : c = cluster[w] /\ k = written[w]
  OBVIOUS
<1>2. /\ c \in Seq(Kept) /\ k \in Nat /\ k <= Len(c) /\ Len(c) \in Nat
      /\ StartsWith(file, Image(SubSeq(c, 1, k)))
      /\ file \in Seq(Blocks)
  <2>1. w \in Sets
    BY DEF Sets
  <2> QED BY <1>1, <2>1, LenProperties DEF DInv, FTypes, Progress, Done
<1>3. file' = Over(file, Len(Image(SubSeq(c, 1, k))), SubSeq(Rest(w), 1, n))
  BY <1>1 DEF Puts
<1>4. SubSeq(c, 1, k) \in Seq(Kept)
  <2>1. k \in 0..Len(c)
    BY <1>2
  <2> QED BY <1>2, <2>1, FrontTyped
<1>5. Image(SubSeq(c, 1, k)) \in Seq(Blocks)
  BY <1>4, ImageAppend DEF Kept
<1>6. Rest(w) \in Seq(Blocks) /\ Rest(w) = IF k < Len(c) THEN Text(c[k + 1]) ELSE <<>>
  <2>1. k < Len(c) => Text(c[k + 1]) \in Seq(Blocks)
    <3>1. k < Len(c) => k + 1 \in 1..Len(c)
      BY <1>2
    <3> QED BY <1>2, <3>1, ElementOfSeq, TextTyped
  <2> QED BY <1>1, <2>1, EmptyTyped DEF Rest
<1>7. SubSeq(Rest(w), 1, n) \in Seq(Blocks)
  BY <1>6, FrontTyped
<1>8. /\ file' \in Seq(Blocks) /\ (file # <<>> => file' # <<>>)
      /\ StartsWith(file', Image(SubSeq(c, 1, k)) \o SubSeq(Rest(w), 1, n))
  BY <1>2, <1>3, <1>5, <1>7, OverWrites
<1>9. ASSUME n = Len(Rest(w)), Rest(w) # <<>>
      PROVE  k + 1 <= Len(c) /\ StartsWith(file', Image(SubSeq(c, 1, k + 1)))
  <2>1. k < Len(c) /\ k + 1 <= Len(c)
    BY <1>2, <1>6, <1>9
  <2>2. SubSeq(Rest(w), 1, n) = Text(c[k + 1])
    BY <1>6, <1>9, <2>1, SubSeqFull
  <2> QED BY <1>2, <1>8, <2>1, <2>2, ImageOfMore
<1> QED BY <1>1, <1>8, <1>9

\* So only the set that makes the step is looked at.
LEMMA OneSetKeeps ==
  ASSUME DInv, NEW x \in Sets, IInv', FTypes', StepOf(x), Progress(x)'
  PROVE  DInv'
BY OthersProgress DEF DInv

\* Steps that leave the file, and what the set has, alone.
LEMMA OpeningKeeps ==
  ASSUME DInv, IInv', NEW x \in Sets, Size(x) \/ Opens(x)
  PROVE  StepOf(x) /\ DInv'
<1>1. FTypes /\ pc \in [Sets -> Calls] /\ Parse(file) \in Seq(Kept) /\ <<>> \in Seq(Kept)
  BY ParseTyped, EmptyTyped DEF DInv, IInv, FTypes
<1>2. CASE Size(x)
  <2>1. FTypes'
    BY <1>1, <1>2 DEF Size, onDisk, copies, FTypes
  <2>2. StepOf(x)
    BY <1>1, <1>2 DEF Size, Goes, onDisk, copies, FTypes, StepOf, SameFor
  <2>3. Progress(x)'
    BY <1>1, <1>2 DEF Size, Goes, FTypes, Progress
  <2> QED BY <2>1, <2>2, <2>3, OneSetKeeps
<1>3. CASE Opens(x)
  <2>1. /\ Goes(x, "sized", "open") /\ Reads(x)
        /\ UNCHANGED <<onDisk, size, changed, written, freeing>>
    BY <1>3 DEF Opens, OpenLocked, OpenReader
  <2>2. FTypes'
    BY <1>1, <2>1 DEF Reads, onDisk, FTypes
  <2>3. StepOf(x)
    BY <1>1, <2>1 DEF Reads, Goes, onDisk, FTypes, StepOf, SameFor
  <2>4. Progress(x)'
    BY <1>1, <2>1 DEF Goes, FTypes, Progress
  <2> QED BY <2>2, <2>3, <2>4, OneSetKeeps
<1> QED BY <1>2, <1>3

\* The copy is changed, and no part of a save begins.
LEMMA ChangingKeeps ==
  ASSUME DInv, IInv', NEW x \in Sets, NEW comps \in Seq(Kept), Changes(x, comps)
  PROVE  StepOf(x) /\ DInv'
<1>1. FTypes /\ pc \in [Sets -> Calls]
  BY DEF DInv, IInv
<1>2. FTypes'
  BY <1>1 DEF Changes, onDisk, FTypes
<1>3. StepOf(x)
  BY <1>1 DEF Changes, onDisk, FTypes, StepOf, SameFor
<1>4. Progress(x)'
  BY <1>1 DEF Changes, Progress
<1> QED BY <1>2, <1>3, <1>4, OneSetKeeps

\* A commit begins with no component written.
LEMMA CommitKeeps ==
  ASSUME DInv, IInv', NEW x \in Sets, NEW frees \in BOOLEAN, Commit(x, frees)
  PROVE  StepOf(x) /\ DInv'
<1>1. FTypes /\ pc \in [Sets -> Calls] /\ Parse(file) \in Seq(Kept)
  BY ParseTyped DEF DInv, IInv, FTypes
<1>2. PICK next : /\ Goes(x, "open", next)
                  /\ next \in {"open", "free", "backup", "write"}
  BY DEF Commit
<1>3. FTypes'
  BY <1>1 DEF Commit, FTypes
<1>4. StepOf(x)
  BY <1>1, <1>2 DEF Commit, Goes, FTypes, StepOf, SameFor
<1>5. Progress(x)'
  <2>1. /\ pc'[x] # "cut" /\ written'[x] = 0 /\ file' = file /\ cluster' = cluster
    BY <1>1, <1>2 DEF Commit, Goes, FTypes
  <2>2. SubSeq(cluster[x], 1, 0) = <<>> /\ Len(cluster[x]) \in Nat
    BY <1>1, SubSeqEmpty, LenProperties DEF FTypes
  <2>3. StartsWith(file, <<>>)
    BY <1>1, LenProperties, EmptySeq DEF FTypes, StartsWith
  <2>4. Done(x)' = <<>>
    BY <2>1, <2>2, EmptyTyped DEF Done
  <2>5. StartsWith(file, Done(x))'
    BY <2>1, <2>3, <2>4
  <2>6. 0 <= Len(cluster[x])'
    BY <2>1, <2>2, LenProperties, <1>1 DEF FTypes
  <2> QED BY <2>1, <2>5, <2>6 DEF Progress
<1> QED BY <1>3, <1>4, <1>5, OneSetKeeps

\* The backup is made, or not: the file is left alone.
LEMMA BackupKeeps ==
  ASSUME DInv, IInv', NEW x \in Sets, Backup(x)
  PROVE  StepOf(x) /\ DInv'
<1>1. FTypes /\ pc \in [Sets -> Calls]
  BY DEF DInv, IInv
<1>2. FTypes'
  BY <1>1, MaxFaultsAssumption DEF Backup, Fails, copies, FTypes
<1>3. StepOf(x)
  BY <1>1 DEF Backup, Goes, copies, FTypes, StepOf, SameFor
<1>4. Progress(x)'
  <2>1. /\ pc'[x] = "write" /\ written'[x] = 0 /\ file' = file /\ cluster' = cluster
    BY <1>1 DEF Backup, Goes, copies, DInv, Progress
  <2>2. SubSeq(cluster[x], 1, 0) = <<>> /\ Len(cluster[x]) \in Nat
    BY <1>1, SubSeqEmpty, LenProperties DEF FTypes
  <2>3. StartsWith(file, <<>>)
    BY <1>1, LenProperties, EmptySeq DEF FTypes, StartsWith
  <2>4. Done(x)' = <<>>
    BY <2>1, <2>2, EmptyTyped DEF Done
  <2>5. StartsWith(file, Done(x))'
    BY <2>1, <2>3, <2>4
  <2>6. 0 <= Len(cluster[x])'
    BY <2>1, <2>2, LenProperties, <1>1 DEF FTypes
  <2> QED BY <2>1, <2>5, <2>6 DEF Progress
<1> QED BY <1>2, <1>3, <1>4, OneSetKeeps

\* What is still to be written of a component, at most its text.
LEMMA RestLen ==
  ASSUME DInv, NEW w \in Sets
  PROVE  /\ Rest(w) \in Seq(Blocks) /\ Len(Rest(w)) \in Nat
         /\ Rest(w) # <<>> <=> Len(Rest(w)) > 0
         /\ Rest(w) # <<>> <=> written[w] < Len(cluster[w])
<1>1. cluster[w] \in Seq(Kept) /\ written[w] \in Nat /\ Len(cluster[w]) \in Nat
  BY LenProperties DEF DInv, FTypes
<1>2. CASE written[w] < Len(cluster[w])
  <2>1. cluster[w][written[w] + 1] \in Kept
    <3>1. written[w] + 1 \in 1..Len(cluster[w])
      BY <1>1, <1>2
    <3> QED BY <1>1, <3>1, ElementOfSeq
  <2>2. Rest(w) = Text(cluster[w][written[w] + 1])
    BY <1>2 DEF Rest
  <2>3. Rest(w) \in Seq(Blocks) /\ Len(Rest(w)) \in {1, 2}
    BY <2>1, <2>2, TextTyped
  <2>4. Rest(w) # <<>>
    BY <2>3, EmptySeq
  <2> QED BY ONLY <1>2, <2>3, <2>4
<1>3. CASE ~(written[w] < Len(cluster[w]))
  <2>1. Rest(w) = <<>>
    BY <1>3 DEF Rest
  <2>2. Rest(w) \in Seq(Blocks) /\ Len(Rest(w)) = 0
    BY <2>1, EmptyTyped, EmptySeq
  <2> QED BY ONLY <1>3, <2>1, <2>2
<1> QED BY ONLY <1>2, <1>3

\* One more component is in the file, behind those that were.
LEMMA WriteKeeps ==
  ASSUME DInv, IInv', NEW x \in Sets, Write(x)
  PROVE  StepOf(x) /\ DInv'
<1>1. FTypes /\ pc \in [Sets -> Calls]
  BY DEF DInv, IInv
<1>2. Len(Rest(x)) \in 0..Len(Rest(x))
  BY RestLen
<1>3. /\ file' \in Seq(Blocks)
      /\ written[x] + 1 <= Len(cluster[x])
      /\ StartsWith(file', Image(SubSeq(cluster[x], 1, written[x] + 1)))
  BY <1>2, PutsBehind DEF Write
<1>4. FTypes'
  BY <1>1, <1>3 DEF Write, FTypes
<1>5. StepOf(x)
  BY <1>1 DEF Write, FTypes, StepOf, SameFor, Saving
<1>6. Progress(x)'
  <2>1. /\ pc'[x] = "write" /\ written'[x] = written[x] + 1 /\ cluster' = cluster
    BY <1>1 DEF Write, FTypes
  <2> QED BY <1>3, <2>1 DEF Progress, Done
<1> QED BY <1>4, <1>5, <1>6, OneSetKeeps

\* A part of one is; the commit has given up.
LEMMA WriteFailsKeeps ==
  ASSUME DInv, IInv', NEW x \in Sets, WriteFails(x)
  PROVE  StepOf(x) /\ DInv'
<1>1. FTypes /\ pc \in [Sets -> Calls]
  BY DEF DInv, IInv
<1>2. file' \in Seq(Blocks) /\ faults' \in 0..MaxFaults
  <2>1. CASE x \in Writers
    <3>1. PICK n \in 0..Len(Rest(x)) - 1 : Puts(x, n)
      BY <2>1, WritersAreNotReaders DEF WriteFails
    <3>2. n \in 0..Len(Rest(x))
      BY RestLen
    <3>3. faults' \in 0..MaxFaults
      BY <1>1, <2>1, WritersAreNotReaders, MaxFaultsAssumption DEF WriteFails, Fails, FTypes
    <3> QED BY <2>1, <3>1, <3>2, <3>3, PutsBehind DEF WriteFails
  <2>2. CASE x \notin Writers
    BY <1>1, <2>2 DEF WriteFails, FTypes
  <2> QED BY <2>1, <2>2
<1>3. FTypes'
  BY <1>1, <1>2 DEF WriteFails, copies, FTypes
<1>4. StepOf(x)
  <2>1. \A s \in Sets \ {x} : SameFor(s)
    BY <1>1 DEF WriteFails, Returns, copies, FTypes, SameFor
  <2>2. file' = file \/ (x \in Writers /\ Saving(x))
    BY DEF WriteFails, Saving
  <2> QED BY <2>1, <2>2 DEF StepOf
<1>5. Progress(x)'
  BY <1>1 DEF WriteFails, Returns, Progress
<1> QED BY <1>3, <1>4, <1>5, OneSetKeeps

\* All are in the file, which may be longer.
LEMMA WrittenKeeps ==
  ASSUME DInv, IInv', NEW x \in Sets, Written(x)
  PROVE  StepOf(x) /\ DInv'
<1>1. FTypes /\ pc \in [Sets -> Calls]
  BY DEF DInv, IInv
<1>2. FTypes'
  BY <1>1 DEF Written, onDisk, FTypes
<1>3. StepOf(x)
  BY <1>1 DEF Written, Goes, onDisk, FTypes, StepOf, SameFor
<1>4. Progress(x)'
  <2>1. written[x] = Len(cluster[x])
    <3>1. written[x] \in Nat /\ Len(cluster[x]) \in Nat
      BY <1>1, LenProperties DEF FTypes
    <3>2. written[x] <= Len(cluster[x]) /\ ~(written[x] < Len(cluster[x]))
      BY RestLen DEF Written, Goes, DInv, Progress
    <3> QED BY <3>1, <3>2
  <2>2. SubSeq(cluster[x], 1, written[x]) = cluster[x]
    BY <1>1, <2>1, SubSeqFull DEF FTypes
  <2>3. x \in Writers => StartsWith(file, Image(cluster[x]))
    BY <2>2 DEF Written, Goes, DInv, Progress, Done
  <2> QED BY <1>1, <2>3 DEF Written, Goes, onDisk, Progress
<1> QED BY <1>2, <1>3, <1>4, OneSetKeeps

\* What the file is when a commit has ended well.
LEMMA CutLeaves ==
  ASSUME DInv, NEW w \in Writers, pc[w] = "cut"
  PROVE  /\ SubSeq(file, 1, Len(Image(cluster[w]))) = Image(cluster[w])
         /\ Image(cluster[w]) \in Seq(Blocks)
<1>1. /\ cluster[w] \in Seq(Kept) /\ file \in Seq(Blocks)
      /\ StartsWith(file, Image(cluster[w]))
  BY DEF DInv, FTypes, Progress, Sets
<1>2. Image(cluster[w]) \in Seq(Blocks)
  BY <1>1, ImageAppend DEF Kept
<1> QED BY <1>1, <1>2, CutToText

\* The file is cut behind them.
LEMMA CutKeeps ==
  ASSUME DInv, IInv', NEW x \in Sets, Cut(x)
  PROVE  StepOf(x) /\ DInv'
<1>1. FTypes /\ pc \in [Sets -> Calls]
  BY DEF DInv, IInv
<1>2. file' \in Seq(Blocks)
  BY <1>1, CutLeaves DEF Cut, FTypes
<1>3. FTypes'
  BY <1>1, <1>2, MaxFaultsAssumption DEF Cut, Fails, copies, FTypes
<1>4. StepOf(x)
  BY <1>1 DEF Cut, Returns, copies, FTypes, StepOf, SameFor, Saving
<1>5. Progress(x)'
  BY <1>1 DEF Cut, Returns, Progress
<1> QED BY <1>3, <1>4, <1>5, OneSetKeeps

\* Closed or died: in a write, a part of a component is in the file.
LEMMA ForgettingKeeps ==
  ASSUME DInv, IInv', NEW x \in Sets, Close(x) \/ (x \in Writers /\ Crash(x))
  PROVE  StepOf(x) /\ DInv'
<1>1. FTypes /\ pc \in [Sets -> Calls] /\ <<>> \in Seq(Kept)
  BY EmptyTyped DEF DInv, IInv
<1>2. Forgets(x) /\ pc' = [pc EXCEPT ![x] = "closed"] /\ UNCHANGED <<bak, before>>
  BY DEF Close, Goes, Crash, onDisk
<1>3. file' \in Seq(Blocks) /\ faults' \in 0..MaxFaults
  <2>1. CASE Close(x)
    BY <1>1, <2>1 DEF Close, onDisk, FTypes
  <2>2. CASE Crash(x) /\ pc[x] = "write" /\ x \in Writers
    BY <1>1, <2>2, PutsBehind, MaxFaultsAssumption DEF Crash, Fails, FTypes
  <2>3. CASE Crash(x) /\ pc[x] # "write"
    BY <1>1, <2>3, MaxFaultsAssumption DEF Crash, Fails, FTypes
  <2> QED BY <2>1, <2>2, <2>3
<1>4. FTypes'
  BY <1>1, <1>2, <1>3 DEF Forgets, FTypes
<1>5. StepOf(x)
  <2>1. \A s \in Sets \ {x} : SameFor(s)
    BY <1>1, <1>2 DEF Forgets, FTypes, SameFor
  <2>2. file' = file \/ (x \in Writers /\ Saving(x))
    BY DEF Close, onDisk, Crash, Saving
  <2> QED BY <2>1, <2>2 DEF StepOf
<1>6. Progress(x)'
  BY <1>1, <1>2 DEF Progress
<1> QED BY <1>4, <1>5, <1>6, OneSetKeeps

\* A component less.
LEMMA RemoveTyped ==
  ASSUME DInv, NEW x \in Sets, NEW i \in DOMAIN cluster[x]
  PROVE  RemoveAt(cluster[x], i) \in Seq(Kept)
<1>1. PICK s, n : s = cluster[x] /\ n = Len(s)
  OBVIOUS
<1>2. s \in Seq(Kept) /\ n \in Nat /\ DOMAIN s = 1..n /\ i \in 1..n
  BY <1>1, LenProperties DEF DInv, FTypes
<1>3. SubSeq(s, 1, i - 1) \in Seq(Kept)
  <2>1. i - 1 \in 0..Len(s)
    BY <1>1, <1>2
  <2> QED BY <1>2, <2>1, FrontTyped
<1>4. SubSeq(s, i + 1, n) \in Seq(Kept)
  <2>1. i + 1 \in Int /\ n \in Int /\ \A k \in i + 1..n : s[k] \in Kept
    BY <1>1, <1>2, ElementOfSeq
  <2> QED BY <2>1, SubSeqProperties
<1> QED BY <1>1, <1>3, <1>4, ConcatProperties DEF RemoveAt

\* The invariant, over all the steps.
LEMMA StepKeepsData ==
  ASSUME DInv, [Next]_vars
  PROVE  DInv'
<1>0. IInv'
  BY StepKeeps DEF DInv
<1>1. CASE UNCHANGED vars
  BY <1>0, <1>1 DEF vars, DInv, FTypes, Progress, Done, StartsWith
<1>2. ASSUME NEW x \in Sets, NEW c \in Comps, Add(x, c) PROVE DInv'
  <2>1. Append(cluster[x], c) \in Seq(Kept)
    BY AppendProperties DEF DInv, FTypes, Kept
  <2> QED BY <1>0, <1>2, <2>1, ChangingKeeps DEF Add
<1>3. ASSUME NEW x \in Sets, NEW i \in DOMAIN cluster[x], RemoveOne(x, i) PROVE DInv'
  <2>1. RemoveAt(cluster[x], i) \in Seq(Kept)
    BY RemoveTyped
  <2> QED BY <1>0, <1>3, <2>1, ChangingKeeps DEF RemoveOne
<1>4. ASSUME NEW x \in Sets, Mark(x) PROVE DInv'
  <2>1. cluster[x] \in Seq(Kept)
    BY DEF DInv, FTypes
  <2> QED BY <1>0, <1>4, <2>1, ChangingKeeps DEF Mark
<1>5. ASSUME NEW x \in Sets, Saves(x) PROVE DInv'
  BY <1>0, <1>5, BackupKeeps, WriteKeeps, WrittenKeeps, CutKeeps DEF Saves
<1>6. ASSUME NEW w \in Writers, Crash(w) PROVE DInv'
  BY <1>0, <1>6, ForgettingKeeps DEF Sets
<1>7. CASE Next
  BY <1>0, <1>2, <1>3, <1>4, <1>5, <1>6, <1>7, OpeningKeeps, CommitKeeps, WriteFailsKeeps,
     ForgettingKeeps DEF Next
<1> QED BY <1>1, <1>7

\* In the beginning the file has what it was given, and nobody has read it.
LEMMA InitData == Init => DInv
<1> SUFFICES ASSUME Init PROVE DInv
  OBVIOUS
<1>1. First \in Seq(Kept)
  BY FirstIsContents, SeqMonotonic DEF Kept
<1>2. Image(First) \in Seq(Blocks)
  BY <1>1, ImageAppend DEF Kept
<1>3. FTypes
  BY <1>1, <1>2, EmptyTyped, MaxFaultsAssumption DEF Init, FTypes
<1>4. \A s \in Sets : Progress(s)
  BY DEF Init, Progress
<1> QED BY <1>3, <1>4, InitIsTyped DEF DInv

\* Types: what a set has was read from the file or put in by a caller, and what
\* is written is never more than there is.
THEOREM TypesHold == Spec => []TypeOK
<1>1. Init => DInv
  BY InitData
<1>2. DInv /\ [Next]_vars => DInv'
  BY StepKeepsData
<1>3. DInv => TypeOK
  BY DEF DInv, FTypes, IInv, TypeOK, Kept, Calls
<1> QED BY <1>1, <1>2, <1>3, PTL DEF Spec

----------------------------------------------------------------------------
(* The copy of a writer and the file.                                      *)

\* What the run assumes as well: no set saves an empty list, the file has
\* something at the start, and ftruncate does not fail.
NeverEmptied == ~MayEmpty /\ First # <<>>
CutsWork == "truncate" \notin Faults

\* What a set has that is marked has components; a set that was sized saw some;
\* what is not marked is what the file has.
Agrees(s) ==
  /\ changed[s] => cluster[s] # <<>>
  /\ pc[s] \in {"backup", "write"} => changed[s]
  /\ pc[s] = "cut" => cluster[s] # <<>>
  /\ pc[s] \in {"closed", "sized"} => ~changed[s]
  /\ pc[s] = "sized" => size[s]
  /\ CutsWork /\ s \in Writers /\ pc[s] = "open" /\ ~changed[s] => cluster[s] = Parse(file)

AInv == DInv /\ file # <<>> /\ \A s \in Sets : Agrees(s)

\* Of the sets but the one that makes the step, none that is open sees the
\* file change: who changes it has the lock.
LEMMA OthersAgree ==
  ASSUME AInv, NEW x \in Sets, StepOf(x), NEW s \in Sets \ {x}
  PROVE  Agrees(s)'
<1>1. SameFor(s) /\ Agrees(s)
  BY DEF StepOf, AInv
<1>2. CASE file' = file
  BY <1>1, <1>2 DEF SameFor, Agrees
<1>3. CASE x \in Writers /\ Saving(x)
  <2>1. s \in Writers => pc[s] # "open"
    BY <1>3 DEF AInv, DInv, IInv, Saving, Sets
  <2> QED BY <1>1, <2>1 DEF SameFor, Agrees
<1> QED BY <1>2, <1>3 DEF StepOf

\* So only that one is looked at.
LEMMA OneSetAgrees ==
  ASSUME AInv, NEW x \in Sets, DInv', StepOf(x), file' # <<>>, Agrees(x)'
  PROVE  AInv'
BY OthersAgree DEF AInv

\* A component has a text.
LEMMA ImageNotEmpty ==
  ASSUME NEW s \in Seq(Kept), s # <<>>
  PROVE  Image(s) # <<>>
<1>1. PICK t \in Seq(Kept), c \in Kept : s = Append(t, c)
  BY SequenceEmptyOrAppend
<1>2. Image(s) = Image(t) \o Text(c) /\ Image(t) \in Seq(Blocks)
  BY <1>1, ImageAppend
<1>3. Text(c) \in Seq(Blocks) /\ Text(c) # <<>>
  <2>1. PICK t2 : t2 = Text(c)
    OBVIOUS
  <2>2. t2 \in Seq(Blocks) /\ Len(t2) \in {1, 2}
    BY <2>1, TextTyped
  <2>3. ~(Len(<<>>) \in {1, 2})
    BY EmptySeq
  <2>4. t2 # <<>>
    BY <2>2, <2>3, Zenon
  <2> QED BY <2>1, <2>2, <2>4
<1> QED BY <1>2, <1>3, ConcatEqualIffEmpty

\* A step that leaves the file alone.
LEMMA QuietAgrees ==
  ASSUME AInv, NEW x \in Sets, DInv', StepOf(x), file' = file, Agrees(x)'
  PROVE  AInv'
BY OneSetAgrees DEF AInv

\* What is opened is read, and not marked.
LEMMA OpeningAgrees ==
  ASSUME AInv, IInv', NEW x \in Sets, Size(x) \/ Opens(x)
  PROVE  AInv'
<1>1. DInv /\ FTypes /\ pc \in [Sets -> Calls] /\ file # <<>> /\ Agrees(x)
  BY DEF AInv, DInv, IInv
<1>2. StepOf(x) /\ DInv'
  BY <1>1, OpeningKeeps
<1>3. CASE Size(x)
  <2>1. Agrees(x)'
    BY <1>1, <1>3 DEF Size, Goes, copies, FTypes, Agrees
  <2> QED BY <1>2, <1>3, <2>1, QuietAgrees DEF Size, onDisk
<1>4. CASE Opens(x)
  <2>1. /\ Goes(x, "sized", "open") /\ Reads(x)
        /\ UNCHANGED <<onDisk, size, changed, written, freeing>>
    BY <1>4 DEF Opens, OpenLocked, OpenReader
  <2>2. /\ pc'[x] = "open" /\ file' = file /\ cluster'[x] = Parse(file)
        /\ changed'[x] = changed[x] /\ size[x]
    BY <1>1, <2>1 DEF Goes, Reads, onDisk, FTypes, Agrees
  <2>3. Agrees(x)'
    BY <1>1, <2>1, <2>2 DEF Agrees, Goes
  <2> QED BY <1>2, <2>2, <2>3, QuietAgrees
<1> QED BY <1>3, <1>4

\* What is changed is marked.
LEMMA ChangingAgrees ==
  ASSUME AInv, IInv', NeverEmptied, NEW x \in Sets, NEW comps \in Seq(Kept), Changes(x, comps)
  PROVE  AInv'
<1>1. DInv /\ FTypes /\ pc \in [Sets -> Calls] /\ Agrees(x)
  BY DEF AInv, DInv, IInv
<1>2. StepOf(x) /\ DInv'
  BY <1>1, ChangingKeeps
<1>3. Agrees(x)'
  BY <1>1 DEF Changes, FTypes, Agrees, NeverEmptied
<1> QED BY <1>2, <1>3, QuietAgrees DEF Changes, onDisk

\* A commit that is not over leaves the mark.
LEMMA CommitAgrees ==
  ASSUME AInv, IInv', NEW x \in Sets, NEW frees \in BOOLEAN, Commit(x, frees)
  PROVE  AInv'
<1>1. DInv /\ FTypes /\ pc \in [Sets -> Calls] /\ Agrees(x)
  BY DEF AInv, DInv, IInv
<1>2. StepOf(x) /\ DInv'
  BY <1>1, CommitKeeps
<1>3. /\ pc[x] = "open" /\ UNCHANGED <<file, cluster, changed>>
      /\ pc'[x] \in {"open", "free", "backup", "write"}
      /\ pc'[x] \in {"backup", "write"} => changed[x]
      /\ pc'[x] = "open" => changed[x] \/ pc' = pc
  BY <1>1 DEF Commit, Goes
<1>4. Agrees(x)'
  BY <1>1, <1>3 DEF Agrees
<1> QED BY <1>2, <1>3, <1>4, QuietAgrees

\* A commit that is over leaves what was written; ftruncate makes it all there is.
LEMMA SavesAgree ==
  ASSUME AInv, IInv', NEW x \in Sets, Saves(x)
  PROVE  AInv'
<1>1. DInv /\ FTypes /\ pc \in [Sets -> Calls] /\ Agrees(x) /\ file # <<>>
  BY DEF AInv, DInv, IInv
<1>2. CASE Backup(x)
  <2>1. StepOf(x) /\ DInv'
    BY <1>1, <1>2, BackupKeeps
  <2>2. Agrees(x)'
    BY <1>1, <1>2 DEF Backup, Goes, copies, Agrees
  <2> QED BY <1>2, <2>1, <2>2, QuietAgrees DEF Backup
<1>3. CASE Write(x)
  <2>1. StepOf(x) /\ DInv'
    BY <1>1, <1>3, WriteKeeps
  <2>2. Agrees(x)'
    BY <1>1, <1>3 DEF Write, Agrees
  <2>3. file' # <<>>
    <3>1. Len(Rest(x)) \in 0..Len(Rest(x))
      BY <1>1, RestLen
    <3> QED BY <1>1, <1>3, <3>1, PutsBehind DEF Write
  <2> QED BY <2>1, <2>2, <2>3, OneSetAgrees
<1>4. CASE Written(x)
  <2>1. StepOf(x) /\ DInv'
    BY <1>1, <1>4, WrittenKeeps
  <2>2. Agrees(x)'
    BY <1>1, <1>4 DEF Written, Goes, FTypes, Agrees
  <2> QED BY <1>4, <2>1, <2>2, QuietAgrees DEF Written, onDisk
<1>5. CASE Cut(x)
  <2>1. StepOf(x) /\ DInv'
    BY <1>1, <1>5, CutKeeps
  <2>2. /\ pc[x] = "cut" /\ pc'[x] \in {"free", "open"}
        /\ UNCHANGED <<size, cluster, changed>>
        /\ cluster[x] # <<>> /\ cluster[x] \in Seq(Kept)
    BY <1>1, <1>5 DEF Cut, Returns, copies, Agrees, FTypes
  <2>3. CASE x \in Writers /\ file' = SubSeq(file, 1, Len(Image(cluster[x])))
    <3>1. file' = Image(cluster[x])
      BY <1>1, <2>2, <2>3, CutLeaves
    <3>2. Parse(file') = cluster[x] /\ file' # <<>>
      BY <2>2, <3>1, ParseOfImage, ImageNotEmpty
    <3>3. Agrees(x)'
      BY <2>2, <3>2 DEF Agrees
    <3> QED BY <2>1, <3>2, <3>3, OneSetAgrees
  <2>5. CASE Fails("truncate") /\ file' = file
    <3>1. Agrees(x)'
      BY <2>2, <2>5 DEF Agrees, Fails, CutsWork
    <3> QED BY <2>1, <2>5, <3>1, QuietAgrees
  <2>4. CASE x \notin Writers
    <3>1. file' = file
      BY <1>5, <2>4 DEF Cut
    <3>2. Agrees(x)'
      BY <2>2, <2>4 DEF Agrees
    <3> QED BY <2>1, <3>1, <3>2, QuietAgrees
  <2> QED BY <1>5, <2>3, <2>4, <2>5, WritersAreNotReaders DEF Cut
<1> QED BY <1>2, <1>3, <1>4, <1>5 DEF Saves

\* A commit that failed leaves the mark.
LEMMA WriteFailsAgrees ==
  ASSUME AInv, IInv', NEW x \in Sets, WriteFails(x)
  PROVE  AInv'
<1>1. DInv /\ FTypes /\ pc \in [Sets -> Calls] /\ Agrees(x) /\ file # <<>>
  BY DEF AInv, DInv, IInv
<1>2. StepOf(x) /\ DInv'
  BY <1>1, WriteFailsKeeps
<1>3. file' # <<>>
  <2>1. CASE x \in Writers
    <3>1. PICK n \in 0..Len(Rest(x)) - 1 : Puts(x, n)
      BY <2>1, WritersAreNotReaders DEF WriteFails
    <3>2. n \in 0..Len(Rest(x))
      BY <1>1, RestLen
    <3> QED BY <1>1, <2>1, <3>1, <3>2, PutsBehind DEF WriteFails
  <2>2. CASE x \notin Writers
    BY <1>1, <2>2 DEF WriteFails
  <2> QED BY <2>1, <2>2
<1>4. Agrees(x)'
  BY <1>1 DEF WriteFails, Returns, copies, Agrees
<1> QED BY <1>2, <1>3, <1>4, OneSetAgrees

\* A set that is closed has nothing, and is not marked.
LEMMA ForgettingAgrees ==
  ASSUME AInv, IInv', NEW x \in Sets, Close(x) \/ (x \in Writers /\ Crash(x))
  PROVE  AInv'
<1>1. DInv /\ FTypes /\ pc \in [Sets -> Calls] /\ file # <<>>
  BY DEF AInv, DInv, IInv
<1>2. StepOf(x) /\ DInv'
  BY <1>1, ForgettingKeeps
<1>3. file' # <<>>
  <2>1. CASE Crash(x) /\ pc[x] = "write" /\ x \in Writers
    BY <1>1, <2>1, PutsBehind DEF Crash
  <2>2. CASE Close(x) \/ (Crash(x) /\ pc[x] # "write")
    BY <1>1, <2>2 DEF Close, onDisk, Crash
  <2> QED BY <2>1, <2>2
<1>4. Agrees(x)'
  <2>1. pc'[x] = "closed" /\ ~changed'[x]
    BY <1>1 DEF Close, Goes, Crash, Forgets, FTypes
  <2> QED BY <2>1 DEF Agrees
<1> QED BY <1>2, <1>3, <1>4, OneSetAgrees

\* The copies and the file, over all the steps.
LEMMA StepAgrees ==
  ASSUME AInv, NeverEmptied, [Next]_vars
  PROVE  AInv'
<1>0. IInv' /\ DInv' /\ DInv
  BY StepKeeps, StepKeepsData DEF DInv, AInv
<1>1. CASE UNCHANGED vars
  BY <1>0, <1>1 DEF vars, AInv, Agrees
<1>2. ASSUME NEW x \in Sets, NEW c \in Comps, Add(x, c) PROVE AInv'
  <2>1. Append(cluster[x], c) \in Seq(Kept)
    BY <1>0, AppendProperties DEF DInv, FTypes, Kept
  <2> QED BY <1>0, <1>2, <2>1, ChangingAgrees DEF Add
<1>3. ASSUME NEW x \in Sets, NEW i \in DOMAIN cluster[x], RemoveOne(x, i) PROVE AInv'
  <2>1. RemoveAt(cluster[x], i) \in Seq(Kept)
    BY <1>0, RemoveTyped
  <2> QED BY <1>0, <1>3, <2>1, ChangingAgrees DEF RemoveOne
<1>4. ASSUME NEW x \in Sets, Mark(x) PROVE AInv'
  <2>1. cluster[x] \in Seq(Kept)
    BY <1>0 DEF DInv, FTypes
  <2> QED BY <1>0, <1>4, <2>1, ChangingAgrees DEF Mark
<1>5. ASSUME NEW w \in Writers, Crash(w) PROVE AInv'
  BY <1>0, <1>5, ForgettingAgrees DEF Sets
<1>6. CASE Next
  BY <1>0, <1>2, <1>3, <1>4, <1>5, <1>6, OpeningAgrees, CommitAgrees, SavesAgree,
     WriteFailsAgrees, ForgettingAgrees DEF Next
<1> QED BY <1>1, <1>6

\* In the beginning nothing is known that is not in the file.
LEMMA InitAgrees == NeverEmptied /\ Init => AInv
<1> SUFFICES ASSUME NeverEmptied, Init PROVE AInv
  OBVIOUS
<1>1. First \in Seq(Kept)
  BY FirstIsContents, SeqMonotonic DEF Kept
<1>2. file # <<>>
  BY <1>1, ImageNotEmpty DEF Init, NeverEmptied
<1>3. \A s \in Sets : Agrees(s)
  BY DEF Init, Agrees
<1> QED BY <1>2, <1>3, InitData DEF AInv

\* What an open writer has and has not marked is what the file has, however
\* many processes open, fail to write and crash: icalfileset_commit takes the
\* mark off behind the last write only, and who is open has had the lock since
\* it read the file (icalfileset.c:362, 424).
THEOREM UnmarkedIsSaved == NeverEmptied /\ CutsWork /\ Spec => []CleanMeansSaved
<1> SUFFICES ASSUME NeverEmptied, CutsWork PROVE Spec => []CleanMeansSaved
  OBVIOUS
<1>1. AInv => CleanMeansSaved
  BY DEF AInv, Agrees, CleanMeansSaved, Sets
<1>2. Init => AInv
  BY InitAgrees
<1>3. AInv /\ [Next]_vars => AInv'
  BY StepAgrees
<1> QED BY <1>1, <1>2, <1>3, PTL DEF Spec

----------------------------------------------------------------------------
(* The file and its backup.                                                *)

\* What the run assumes as well: saves are safe ones, and one thing goes wrong.
SafeOnce == SafeSaves /\ MaxFaults <= 1

NoSave == \A w \in Writers : ~Saving(w)

\* As long as nothing went wrong, the file is whole between the saves, and its
\* contents are what it had before a save until they are in the backup.
BInv ==
  /\ DInv
  /\ faults = 0 /\ NoSave => Whole(file)
  /\ \A w \in Writers : faults = 0 /\ pc[w] = "backup" => file = Image(before)
  /\ \A w \in Writers : faults = 0 /\ pc[w] \in {"write", "cut"} => bak = Image(before)
  /\ NoSave /\ ~Whole(file) => bak = Image(before)

\* A file that was saved is whole.
LEMMA ImageIsWhole ==
  ASSUME NEW s \in Seq(Kept)
  PROVE  Whole(Image(s))
BY ParseOfImage DEF Whole

\* Steps in which no save begins or ends.
LEMMA QuietBacksUp ==
  ASSUME BInv, DInv', UNCHANGED <<file, bak, before, faults>>,
         \A w \in Writers : /\ pc'[w] = "backup" <=> pc[w] = "backup"
                            /\ pc'[w] \in {"write", "cut"} <=> pc[w] \in {"write", "cut"}
  PROVE  BInv'
<1>1. NoSave' <=> NoSave
  BY DEF NoSave, Saving
<1>2. Whole(file)' <=> Whole(file)
  BY DEF Whole
<1> QED BY <1>1, <1>2 DEF BInv

\* While a writer has the lock, the others do not save.
LEMMA OthersDoNotSave ==
  ASSUME IInv, NEW x \in Writers, pc[x] \notin {"closed", "sized"}
  PROVE  /\ \A w \in Writers \ {x} : ~Saving(w)
         /\ ~Saving(x) => NoSave
BY DEF IInv, Saving, NoSave

\* A save of x ends.
LEMMA EndBacksUp ==
  ASSUME BInv, DInv', NEW x \in Writers, pc[x] \notin {"closed", "sized"},
         NEW at \in {"open", "free", "closed"}, pc' = [pc EXCEPT ![x] = at],
         faults' = 0 => Whole(file'),
         ~Whole(file') => bak' = Image(before')
  PROVE  BInv'
<1>1. pc \in [Sets -> Calls] /\ x \in Sets /\ IInv
  BY DEF BInv, DInv, IInv, Sets
<1>2. \A w \in Writers : ~Saving(w)'
  BY <1>1, OthersDoNotSave DEF Saving, Sets
<1> QED BY <1>2 DEF BInv, Saving, Whole

\* A commit begins: what the file has is remembered, and the file is its text.
LEMMA CommitBacksUp ==
  ASSUME BInv, SafeOnce, DInv', NEW x \in Sets, NEW frees \in BOOLEAN, Commit(x, frees)
  PROVE  BInv'
<1>1. pc \in [Sets -> Calls] /\ IInv /\ file \in Seq(Blocks)
  BY DEF BInv, DInv, IInv, FTypes
<1>2. CASE x \in Writers /\ changed[x]
  <2>1. /\ pc[x] = "open" /\ pc' = [pc EXCEPT ![x] = "backup"]
        /\ before' = Parse(file) /\ UNCHANGED <<file, bak, faults>>
    BY <1>2 DEF Commit, Goes, SafeOnce
  <2>2. NoSave /\ \A w \in Writers \ {x} : ~Saving(w)
    BY <1>1, <1>2, <2>1, OthersDoNotSave DEF Saving
  <2>3. faults = 0 => file = Image(before')
    BY <2>1, <2>2 DEF BInv, Whole
  <2>4. /\ pc'[x] = "backup" /\ Saving(x)'
        /\ \A w \in Writers \ {x} : pc'[w] \notin {"backup", "write", "cut"}
    BY <1>1, <2>1, <2>2 DEF Saving, Sets
  <2>5. ~NoSave'
    BY <1>2, <2>4 DEF NoSave
  <2>6. \A w \in Writers : pc'[w] \notin {"write", "cut"}
    BY <2>4
  <2> QED BY <2>1, <2>3, <2>5, <2>6 DEF BInv
<1>3. CASE ~(x \in Writers /\ changed[x])
  <2>1. /\ pc[x] = "open" /\ UNCHANGED <<file, bak, before, faults>>
        /\ x \in Writers => pc'[x] \in {"open", "free"}
        /\ \A w \in Sets \ {x} : pc'[w] = pc[w]
    BY <1>1, <1>3 DEF Commit, Goes
  <2> QED BY <2>1, QuietBacksUp DEF Sets
<1> QED BY <1>2, <1>3

\* The backup has it, unless cp failed.
LEMMA BackupBacksUp ==
  ASSUME BInv, DInv', NEW x \in Sets, Backup(x)
  PROVE  BInv'
<1>1. /\ pc \in [Sets -> Calls] /\ IInv /\ x \in Writers /\ faults \in Nat
      /\ pc[x] = "backup" /\ pc' = [pc EXCEPT ![x] = "write"]
      /\ UNCHANGED <<file, before>>
  BY DEF BInv, DInv, IInv, Backup, Goes, FTypes
<1>2. /\ pc'[x] = "write" /\ \A w \in Writers \ {x} : ~Saving(w) /\ pc'[w] = pc[w]
  BY <1>1, OthersDoNotSave DEF Sets
<1>3. ~NoSave' /\ \A w \in Writers : pc'[w] # "backup"
  BY <1>1, <1>2 DEF NoSave, Saving
<1>4. faults' = 0 => bak' = Image(before')
  BY <1>1 DEF Backup, Fails, BInv
<1> QED BY <1>3, <1>4 DEF BInv

\* The one thing that goes wrong.
LEMMA FailsOnce ==
  ASSUME DInv, SafeOnce, NEW kind, Fails(kind)
  PROVE  faults = 0 /\ faults' = 1
BY MaxFaultsAssumption DEF DInv, FTypes, SafeOnce, Fails

\* A save that ends leaves a whole file; when ftruncate fails, the backup.
LEMMA CutBacksUp ==
  ASSUME BInv, SafeOnce, DInv', NEW x \in Sets, Cut(x)
  PROVE  BInv'
<1>1. DInv /\ pc \in [Sets -> Calls] /\ IInv /\ pc[x] = "cut"
  BY DEF BInv, DInv, IInv, Cut
<1>2. PICK at \in {"open", "free"} : pc' = [pc EXCEPT ![x] = at]
  BY DEF Cut, Returns
<1>3. CASE x \in Writers
  <2>1. cluster[x] \in Seq(Kept)
    BY <1>1 DEF DInv, FTypes
  <2>2. CASE file' = SubSeq(file, 1, Len(Image(cluster[x])))
    <3>1. Whole(file')
      BY <1>1, <1>3, <2>1, <2>2, CutLeaves, ImageIsWhole
    <3> QED BY <1>1, <1>2, <1>3, <3>1, EndBacksUp
  <2>3. CASE Fails("truncate")
    <3>1. faults = 0 /\ faults' = 1 /\ UNCHANGED <<bak, before>>
      BY <1>1, <2>3, FailsOnce DEF Cut
    <3>2. bak = Image(before)
      BY <1>1, <1>3, <3>1 DEF BInv
    <3>3. bak' = Image(before') /\ faults' # 0
      BY <3>1, <3>2
    <3> QED BY <1>1, <1>2, <1>3, <3>3, EndBacksUp
  <2> QED BY <1>3, <2>2, <2>3, WritersAreNotReaders DEF Cut
<1>4. CASE x \notin Writers
  BY <1>1, <1>2, <1>4, QuietBacksUp DEF Cut, Sets
<1> QED BY <1>3, <1>4

\* A write that fails leaves the backup that was made.
LEMMA WriteFailsBacksUp ==
  ASSUME BInv, SafeOnce, DInv', NEW x \in Sets, WriteFails(x)
  PROVE  BInv'
<1>1. DInv /\ pc \in [Sets -> Calls] /\ IInv /\ pc[x] = "write"
  BY DEF BInv, DInv, IInv, WriteFails
<1>2. PICK at \in {"open", "free"} : pc' = [pc EXCEPT ![x] = at]
  BY DEF WriteFails, Returns
<1>3. CASE x \in Writers
  <2>1. faults = 0 /\ faults' = 1 /\ UNCHANGED <<bak, before>>
    BY <1>1, <1>3, FailsOnce, WritersAreNotReaders DEF WriteFails
  <2>2. bak = Image(before)
    BY <1>1, <1>3, <2>1 DEF BInv
  <2>3. bak' = Image(before') /\ faults' # 0
    BY <2>1, <2>2
  <2> QED BY <1>1, <1>2, <1>3, <2>3, EndBacksUp
<1>4. CASE x \notin Writers
  BY <1>1, <1>2, <1>4, QuietBacksUp DEF WriteFails, Sets
<1> QED BY <1>3, <1>4

\* A crash, wherever it is: before the backup nothing is written.
LEMMA CrashBacksUp ==
  ASSUME BInv, SafeOnce, DInv', NEW x \in Writers, Crash(x)
  PROVE  BInv'
<1>1. DInv /\ pc \in [Sets -> Calls] /\ IInv /\ pc[x] \notin {"closed", "sized"}
  BY DEF BInv, DInv, IInv, Crash
<1>2. /\ faults = 0 /\ faults' = 1 /\ UNCHANGED <<bak, before>>
      /\ pc' = [pc EXCEPT ![x] = "closed"]
      /\ pc[x] # "write" => file' = file
      /\ before \in Seq(Kept)
  BY <1>1, FailsOnce DEF Crash, DInv, FTypes
<1>3. ~Whole(file') => bak = Image(before)
  <2>1. CASE pc[x] \in {"write", "cut"}
    BY <1>2, <2>1 DEF BInv
  <2>2. CASE pc[x] = "backup"
    <3>1. file' = Image(before)
      BY <1>2, <2>2 DEF BInv
    <3> QED BY <1>2, <3>1, ImageIsWhole
  <2>3. CASE ~Saving(x)
    <3>1. Whole(file)
      BY <1>1, <1>2, <2>3, OthersDoNotSave DEF BInv
    <3> QED BY <1>2, <2>3, <3>1 DEF Saving
  <2> QED BY <2>1, <2>2, <2>3 DEF Saving
<1>4. (~Whole(file') => bak' = Image(before')) /\ faults' # 0
  BY <1>2, <1>3
<1> QED BY <1>1, <1>2, <1>4, EndBacksUp

\* The file and its backup, over all the steps.
LEMMA StepBacksUp ==
  ASSUME BInv, SafeOnce, [Next]_vars
  PROVE  BInv'
<1>0. DInv' /\ DInv /\ pc \in [Sets -> Calls]
  BY StepKeepsData DEF DInv, IInv, BInv
<1>1. CASE UNCHANGED vars
  BY <1>0, <1>1, QuietBacksUp DEF vars
<1>2. ASSUME NEW x \in Sets, Size(x) \/ Opens(x) PROVE BInv'
  BY <1>0, <1>2, QuietBacksUp DEF Size, Opens, OpenLocked, OpenReader, Goes, onDisk, Sets
<1>3. ASSUME NEW x \in Sets, NEW comps, Changes(x, comps) PROVE BInv'
  BY <1>0, <1>3, QuietBacksUp DEF Changes, onDisk
<1>4. ASSUME NEW x \in Sets, Write(x) PROVE BInv'
  <2>1. /\ x \in Writers /\ pc[x] = "write" /\ pc' = pc /\ UNCHANGED <<bak, before, faults>>
    BY <1>4 DEF Write
  <2>2. \A w \in Writers : pc[w] # "backup"
    BY <1>0, <2>1, OthersDoNotSave DEF DInv, Saving
  <2>3. ~NoSave'
    BY <2>1 DEF NoSave, Saving
  <2> QED BY <1>0, <2>1, <2>2, <2>3 DEF BInv
<1>5. ASSUME NEW x \in Sets, Written(x) PROVE BInv'
  BY <1>0, <1>5, QuietBacksUp DEF Written, Goes, onDisk, Sets
<1>6. ASSUME NEW x \in Sets, Close(x) PROVE BInv'
  BY <1>0, <1>6, QuietBacksUp DEF Close, Goes, onDisk, Sets
<1>7. ASSUME NEW x \in Sets, Saves(x) PROVE BInv'
  BY <1>0, <1>4, <1>5, <1>7, BackupBacksUp, CutBacksUp DEF Saves
<1>8. CASE Next
  BY <1>0, <1>2, <1>3, <1>6, <1>7, <1>8, CommitBacksUp, WriteFailsBacksUp, CrashBacksUp
     DEF Next, Add, RemoveOne, Mark
<1> QED BY <1>1, <1>8

\* With safe saves, and one thing that goes wrong, a file that is not whole has
\* a backup that is, with what the file had before: cp comes before the first
\* write, and the next save would need a second fault to lose it
\* (icalfileset.c:375).
THEOREM BackupIsKept == SafeOnce /\ Spec => []BackupIsWhole
<1> SUFFICES ASSUME SafeOnce PROVE Spec => []BackupIsWhole
  OBVIOUS
<1>1. Init => BInv
  <2> SUFFICES ASSUME Init PROVE BInv
    OBVIOUS
  <2>1. First \in Seq(Kept)
    BY FirstIsContents, SeqMonotonic DEF Kept
  <2>2. Whole(file)
    BY <2>1, ImageIsWhole DEF Init
  <2> QED BY <2>2, InitData DEF BInv, Init, Sets
<1>2. BInv /\ [Next]_vars => BInv'
  BY StepBacksUp
<1>3. BInv => BackupIsWhole
  BY DEF BInv, BackupIsWhole, NoSave, Saving
<1> QED BY <1>1, <1>2, <1>3, PTL DEF Spec

----------------------------------------------------------------------------
(* The refinement of ComponentStore.                                       *)

\* What is stored and who sees what, as ImplementsStore maps it.
Stored == IF \E w \in Writers : Saving(w) THEN before ELSE Parse(file)
View == [w \in Writers |-> IF pc[w] \in {"closed", "sized"} THEN Closed ELSE cluster[w]]

\* What the store has between the saves, and while one runs.
LEMMA StoredNow ==
  ASSUME DInv
  PROVE  /\ NoSave => Stored = Parse(file)
         /\ ~NoSave => Stored = before
         /\ Stored \in Seq(Kept)
         /\ \A w \in Writers : View[w] = Closed <=> pc[w] \in {"closed", "sized"}
<1>1. file \in Seq(Blocks) /\ before \in Seq(Kept) /\ cluster \in [Sets -> Seq(Kept)]
  BY DEF DInv, FTypes
<1>2. Parse(file) \in Seq(Kept)
  BY <1>1, ParseTyped
<1>3. \A w \in Writers : cluster[w] # Closed
  BY <1>1, ClosedIsNoCopy DEF Kept, Sets
<1> QED BY <1>1, <1>2, <1>3 DEF Stored, View, NoSave

\* Steps that the store does not see.
LEMMA Unseen ==
  ASSUME Stored' = Stored, View' = View, faults' = faults
  PROVE  UNCHANGED Store!vars
BY DEF Store!vars, Stored, View

\* So are steps that leave the file alone and open, close or change no copy.
LEMMA QuietIsUnseen ==
  ASSUME UNCHANGED <<file, before, faults>>,
         \A w \in Writers : /\ Saving(w)' <=> Saving(w)
                            /\ pc'[w] \in {"closed", "sized"} <=> pc[w] \in {"closed", "sized"}
                            /\ cluster'[w] = cluster[w]
  PROVE  UNCHANGED Store!vars
<1>1. Stored' = Stored
  BY DEF Stored
<1>2. View' = View
  BY DEF View
<1> QED BY <1>1, <1>2, Unseen

\* The steps of the store, by what they do to what is stored and seen.
LEMMA SeenAsOpen ==
  ASSUME NEW w \in Writers, \A v \in Writers : View[v] = Closed,
         View' = [View EXCEPT ![w] = Stored], Stored' = Stored, faults' = faults
  PROVE  Store!Next
BY DEF Store!Next, Store!Open, Store!Has, Stored, View

\* A step after which one store has other contents is a change, to the abstract store.
LEMMA SeenAsChange ==
  ASSUME NEW w \in Writers, View[w] # Closed, View'[w] \in Seq(Kept),
         View' = [View EXCEPT ![w] = View'[w]], Stored' = Stored, faults' = faults
  PROVE  Store!Next
BY DEF Store!Next, Store!Change, Store!Has, Store!Contents, Stored, View, Kept

\* One after which the file has the contents of a store is a save.
LEMMA SeenAsSave ==
  ASSUME NEW w \in Writers, View[w] # Closed, Stored' = View[w],
         View' = View, faults' = faults
  PROVE  Store!Next
BY DEF Store!Next, Store!Save, Store!Has, Stored, View

\* One after which a store has none is a close.
LEMMA SeenAsClose ==
  ASSUME NEW w \in Writers, View[w] # Closed, View' = [View EXCEPT ![w] = Closed],
         Stored' = Stored, faults' = faults
  PROVE  Store!Next
BY DEF Store!Next, Store!Close, Store!Has, Stored, View

\* One that is counted as a fault may leave any contents in the file.
LEMMA SeenAsFault ==
  ASSUME NEW w \in Writers, View[w] # Closed, faults' = faults + 1,
         Stored' \in Seq(Kept), View' \in {View, [View EXCEPT ![w] = Closed]}
  PROVE  Store!Next
BY DEF Store!Next, Store!Fault, Store!Has, Store!Contents, Stored, View, Kept

\* A copy is opened: the writer has the lock and sees what is in the file.
LEMMA OpenIsSeen ==
  ASSUME AInv, AInv', NEW x \in Sets, OpenLocked(x)
  PROVE  Store!Next
<1>1. /\ DInv /\ FTypes /\ pc \in [Sets -> Calls] /\ x \in Writers /\ size[x]
      /\ \A w \in Writers : pc[w] \in {"closed", "sized"}
      /\ DInv'
  BY DEF AInv, DInv, IInv, OpenLocked, Goes, Agrees
<1>2. NoSave /\ NoSave'
  BY <1>1 DEF NoSave, Saving, OpenLocked, Goes, Sets
<1>3. /\ file' = file /\ faults' = faults
      /\ cluster' = [cluster EXCEPT ![x] = Parse(file)]
      /\ pc' = [pc EXCEPT ![x] = "open"]
  BY <1>1 DEF OpenLocked, Reads, onDisk, Goes
<1>4. Stored = Parse(file) /\ Stored' = Stored
  BY <1>1, <1>2, <1>3, StoredNow DEF Stored, NoSave
<1>5. View' = [View EXCEPT ![x] = Stored]
  BY <1>1, <1>3, <1>4 DEF View, FTypes, Sets
<1> QED BY <1>1, <1>3, <1>4, <1>5, StoredNow, SeenAsOpen

\* A copy is changed, of a writer: the store sees it; of a reader: it does not.
LEMMA ChangeIsSeen ==
  ASSUME DInv, DInv', NEW x \in Sets, NEW comps \in Seq(Kept), Changes(x, comps)
  PROVE  [Store!Next]_(Store!vars)
<1>1. /\ FTypes /\ pc[x] = "open"
      /\ UNCHANGED <<file, before, faults, pc>>
      /\ cluster' = [cluster EXCEPT ![x] = comps]
  BY DEF DInv, Changes, onDisk
<1>2. CASE x \in Writers
  <2>1. Stored' = Stored
    BY <1>1 DEF Stored, Saving
  <2>2. View' = [View EXCEPT ![x] = comps] /\ View'[x] = comps
    BY <1>1, <1>2 DEF View, FTypes, Sets
  <2>3. View[x] # Closed
    BY <1>1, <1>2, StoredNow
  <2> QED BY <1>1, <1>2, <2>1, <2>2, <2>3, SeenAsChange
<1>3. CASE x \notin Writers
  BY <1>1, <1>3, QuietIsUnseen DEF FTypes, Sets, Saving
<1> QED BY <1>2, <1>3

\* A commit begins: what is stored until it ends is what the file had.
LEMMA CommitIsSeen ==
  ASSUME DInv, DInv', NEW x \in Sets, NEW frees \in BOOLEAN, Commit(x, frees)
  PROVE  [Store!Next]_(Store!vars)
<1>1. /\ FTypes /\ IInv /\ pc \in [Sets -> Calls] /\ pc[x] = "open"
      /\ UNCHANGED <<file, faults, cluster>>
  BY DEF DInv, IInv, Commit, Goes
<1>2. PICK at \in {"open", "free", "backup", "write"} : pc' = [pc EXCEPT ![x] = at]
  BY DEF Commit, Goes
<1>3. View' = View
  BY <1>1, <1>2 DEF View, Sets
<1>4. CASE x \in Writers /\ changed[x]
  <2>1. NoSave
    BY <1>1, <1>4, OthersDoNotSave DEF Saving
  <2>2. before' = Parse(file) /\ ~NoSave'
    BY <1>1, <1>4 DEF Commit, Goes, NoSave, Saving
  <2>3. Stored' = Stored
    BY <1>1, <2>1, <2>2, StoredNow DEF Stored, NoSave
  <2> QED BY <1>1, <1>3, <2>3, Unseen
<1>5. CASE ~(x \in Writers /\ changed[x])
  <2>1. before' = before /\ \A w \in Writers : Saving(w)' <=> Saving(w)
    BY <1>1, <1>5 DEF Commit, Goes, Saving, Sets
  <2>2. Stored' = Stored
    BY <1>1, <2>1 DEF Stored
  <2> QED BY <1>1, <1>3, <2>2, Unseen
<1> QED BY <1>4, <1>5

\* What goes wrong in a save, or at a crash.
LEMMA FaultIsSeen ==
  ASSUME DInv, DInv', NEW x \in Writers, pc[x] \notin {"closed", "sized"},
         faults' = faults + 1, View' \in {View, [View EXCEPT ![x] = Closed]}
  PROVE  Store!Next
<1>1. Stored' \in Seq(Kept)
  <2>1. /\ file' \in Seq(Blocks) /\ before' \in Seq(Kept)
    BY DEF DInv, FTypes
  <2> QED BY <2>1, ParseTyped DEF Stored
<1>2. View[x] # Closed
  BY StoredNow
<1> QED BY <1>1, <1>2, SeenAsFault

\* The store sees the end of a save, where the rest is cut off, and every fault.
LEMMA SavesAreSeen ==
  ASSUME AInv, AInv', NEW x \in Sets, Saves(x) \/ WriteFails(x)
  PROVE  [Store!Next]_(Store!vars)
<1>1. /\ DInv /\ DInv' /\ FTypes /\ IInv /\ pc \in [Sets -> Calls] /\ Saving(x)
      /\ UNCHANGED <<before, cluster>>
  BY DEF AInv, DInv, IInv, Saves, Backup, Write, Written, Cut, WriteFails, Goes,
         onDisk, copies, Saving
<1>2. PICK at \in Calls \ {"closed", "sized"} : pc' = [pc EXCEPT ![x] = at]
  <2>1. CASE Write(x)
    BY <1>1, <2>1 DEF Write, Calls
  <2>2. CASE Backup(x) \/ Written(x)
    BY <2>2 DEF Backup, Written, Goes, Calls
  <2>3. CASE Cut(x) \/ WriteFails(x)
    BY <2>3 DEF Cut, WriteFails, Returns, Calls
  <2> QED BY <2>1, <2>2, <2>3 DEF Saves
<1>3. View' = View
  BY <1>1, <1>2 DEF View, Saving, Sets
<1>4. CASE x \notin Writers
  <2>1. UNCHANGED <<file, faults>>
    BY <1>1, <1>4 DEF Saves, Backup, Write, Written, Cut, WriteFails, onDisk, DInv, IInv, Goes
  <2>2. \A w \in Writers : /\ Saving(w)' <=> Saving(w)
                           /\ pc'[w] \in {"closed", "sized"} <=> pc[w] \in {"closed", "sized"}
    BY <1>1, <1>2, <1>4 DEF Saving, Sets
  <2> QED BY <1>1, <2>1, <2>2, QuietIsUnseen
<1>5. CASE x \in Writers /\ faults' = faults + 1
  <2>1. pc[x] \notin {"closed", "sized"}
    BY <1>1 DEF Saving
  <2> QED BY <1>1, <1>3, <1>5, <2>1, FaultIsSeen
<1>6. CASE x \in Writers /\ faults' # faults + 1
  <2>0. /\ pc[x] \notin {"closed", "sized"}
        /\ \A w \in Writers \ {x} : ~Saving(w) /\ ~Saving(w)'
    BY <1>1, <1>2, <1>6, OthersDoNotSave DEF Saving, Sets
  <2>1. CASE Cut(x)
    <3>1. file' = SubSeq(file, 1, Len(Image(cluster[x]))) /\ faults' = faults
      BY <1>6, <2>1, WritersAreNotReaders DEF Cut, Fails
    <3>2. cluster[x] \in Seq(Kept) /\ pc[x] = "cut"
      BY <1>1, <2>1 DEF FTypes, Cut
    <3>3. Parse(file') = cluster[x]
      BY <1>1, <1>6, <3>1, <3>2, CutLeaves, ParseOfImage
    <3>4. ~Saving(x)'
      BY <1>1, <2>1 DEF Cut, Returns, Saving
    <3>5. NoSave'
      BY <2>0, <3>4 DEF NoSave
    <3>6. Stored' = Parse(file')
      BY <3>5 DEF Stored, NoSave
    <3>7. Stored' = View[x] /\ View[x] # Closed
      BY <1>1, <1>6, <2>0, <3>3, <3>6, StoredNow DEF View
    <3> QED BY <1>3, <1>6, <3>1, <3>7, SeenAsSave
  <2>2. CASE ~Cut(x)
    <3>1. ~WriteFails(x)
      BY <1>6, WritersAreNotReaders DEF WriteFails, Fails
    <3>2. faults' = faults /\ Saving(x)'
      BY <1>1, <1>6, <2>2, <3>1 DEF Saves, Backup, Write, Written, Goes, Fails, onDisk, Saving
    <3>3. ~NoSave /\ ~NoSave'
      BY <1>1, <1>6, <3>2 DEF NoSave
    <3>4. Stored' = Stored
      BY <1>1, <3>3 DEF Stored, NoSave
    <3> QED BY <1>3, <3>2, <3>4, Unseen
  <2> QED BY <2>1, <2>2
<1> QED BY <1>4, <1>5, <1>6

\* The file is closed.
LEMMA ForgettingIsSeen ==
  ASSUME AInv, AInv', NEW x \in Sets, Close(x) \/ (x \in Writers /\ Crash(x))
  PROVE  [Store!Next]_(Store!vars)
<1>1. /\ DInv /\ DInv' /\ FTypes /\ IInv /\ pc \in [Sets -> Calls]
      /\ pc[x] \notin {"closed", "sized"} /\ pc' = [pc EXCEPT ![x] = "closed"]
      /\ before' = before /\ cluster' = [cluster EXCEPT ![x] = <<>>]
  BY DEF AInv, DInv, IInv, Close, Crash, Goes, Forgets, onDisk
<1>2. x \in Writers => View' = [View EXCEPT ![x] = Closed]
  BY <1>1 DEF View, FTypes, Sets
<1>3. CASE x \in Writers /\ Crash(x)
  <2>1. faults' = faults + 1
    BY <1>3 DEF Crash, Fails
  <2> QED BY <1>1, <1>2, <1>3, <2>1, FaultIsSeen
<1>4. CASE Close(x) /\ x \in Writers
  <2>1. UNCHANGED <<file, before, faults>> /\ pc[x] = "free"
    BY <1>4 DEF Close, onDisk, Goes
  <2>2. \A w \in Writers : Saving(w)' <=> Saving(w)
    BY <1>1, <2>1 DEF Saving, Sets
  <2>3. Stored' = Stored
    BY <2>1, <2>2 DEF Stored
  <2> QED BY <1>1, <1>2, <1>4, <2>1, <2>3, StoredNow, SeenAsClose
<1>5. CASE Close(x) /\ x \notin Writers
  <2>1. UNCHANGED <<file, before, faults>>
    BY <1>5 DEF Close, onDisk
  <2> QED BY <1>1, <1>5, <2>1, QuietIsUnseen DEF FTypes, Sets, Saving
<1> QED BY <1>3, <1>4, <1>5

\* All the steps.
LEMMA StepIsSeen ==
  ASSUME AInv, AInv', [Next]_vars
  PROVE  [Store!Next]_(Store!vars)
<1>0. DInv /\ DInv' /\ FTypes /\ pc \in [Sets -> Calls]
  BY DEF AInv, DInv, IInv
<1>1. CASE UNCHANGED vars
  BY <1>1, QuietIsUnseen DEF vars, Saving
<1>2. ASSUME NEW x \in Sets, Size(x) PROVE [Store!Next]_(Store!vars)
  BY <1>0, <1>2, QuietIsUnseen DEF Size, Goes, onDisk, copies, Sets, Saving
<1>3. ASSUME NEW x \in Sets, OpenReader(x) PROVE [Store!Next]_(Store!vars)
  BY <1>0, <1>3, WritersAreNotReaders, QuietIsUnseen
     DEF OpenReader, Goes, Reads, onDisk, FTypes, Sets, Saving
<1>4. ASSUME NEW x \in Sets, NEW c \in Comps, Add(x, c) PROVE [Store!Next]_(Store!vars)
  <2>1. Append(cluster[x], c) \in Seq(Kept)
    BY <1>0, AppendProperties DEF FTypes, Kept
  <2> QED BY <1>0, <1>4, <2>1, ChangeIsSeen DEF Add
<1>5. ASSUME NEW x \in Sets, NEW i \in DOMAIN cluster[x], RemoveOne(x, i)
      PROVE  [Store!Next]_(Store!vars)
  <2>1. RemoveAt(cluster[x], i) \in Seq(Kept)
    BY <1>0, RemoveTyped
  <2> QED BY <1>0, <1>5, <2>1, ChangeIsSeen DEF RemoveOne
<1>6. ASSUME NEW x \in Sets, Mark(x) PROVE [Store!Next]_(Store!vars)
  <2>1. cluster[x] \in Seq(Kept)
    BY <1>0 DEF FTypes
  <2> QED BY <1>0, <1>6, <2>1, ChangeIsSeen DEF Mark
<1>7. ASSUME NEW w \in Writers, Crash(w) PROVE [Store!Next]_(Store!vars)
  BY <1>7, ForgettingIsSeen DEF Sets
<1>8. ASSUME NEW x \in Sets, Opens(x) PROVE [Store!Next]_(Store!vars)
  BY <1>3, <1>8, OpenIsSeen DEF Opens
<1>9. ASSUME NEW x \in Sets, NEW frees \in BOOLEAN, Commit(x, frees)
      PROVE  [Store!Next]_(Store!vars)
  BY <1>0, <1>9, CommitIsSeen
<1>10. ASSUME NEW x \in Sets, Saves(x) \/ WriteFails(x) PROVE [Store!Next]_(Store!vars)
  BY <1>10, SavesAreSeen
<1>11. ASSUME NEW x \in Sets, Close(x) PROVE [Store!Next]_(Store!vars)
  BY <1>11, ForgettingIsSeen
<1>12. CASE Next
  BY <1>2, <1>4, <1>5, <1>6, <1>7, <1>8, <1>9, <1>10, <1>11, <1>12 DEF Next
<1> QED BY <1>1, <1>12

\* The processes with one file are a store that writers have one at a time: each
\* starts from what the one before it stored, a save that ends has stored what
\* its writer had, and nothing but a save that ends or a fault changes what is
\* stored (icalfileset.c:108, 362).
THEOREM StoreIsImplemented == NeverEmptied /\ Spec => ImplementsStore
<1> SUFFICES ASSUME NeverEmptied PROVE Spec => ImplementsStore
  OBVIOUS
<1>1. Init => Store!Init
  <2> SUFFICES ASSUME Init PROVE Store!Init
    OBVIOUS
  <2>1. First \in Seq(Kept)
    BY FirstIsContents, SeqMonotonic DEF Kept
  <2>2. Parse(file) = First /\ before = First
    BY <2>1, ParseOfImage DEF Init
  <2>3. View = [w \in Writers |-> Closed] /\ faults = 0
    BY DEF Init, View, Sets
  <2>4. Stored \in Seq(Kept)
    BY <2>1, <2>2 DEF Stored
  <2> QED BY <2>3, <2>4 DEF Store!Init, Store!Contents, Stored, View, Kept
<1>2. Init => AInv
  BY InitAgrees
<1>3. AInv /\ [Next]_vars => AInv'
  BY StepAgrees
<1>4. AInv /\ AInv' /\ [Next]_vars => [Store!Next]_(Store!vars)
  BY StepIsSeen
<1> QED BY <1>1, <1>2, <1>3, <1>4, PTL DEF Spec, ImplementsStore, Store!Spec
=============================================================================
