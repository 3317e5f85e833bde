----------------------------- MODULE ICalParser -----------------------------
(***************************************************************************)
(* The line parser of libical (icalparser.c), to which                     *)
(* icalparser_parse_string hands one content line after the other: the     *)
(* stack of open components, the level counter next to it, and the tree    *)
(* they leave to the caller.                                               *)
(*                                                                         *)
(* A line is what the parser tells apart: the begin of a component, of a   *)
(* VTIMEZONE or of a component with an unknown name, an end (its name is   *)
(* never read), or a property line with what is wrong with it.  The        *)
(* component begun at line i is component i; XRoot is the container of     *)
(* several components.                                                     *)
(***************************************************************************)
EXTENDS Integers, Sequences, FiniteSets, FiniteSetsExt, SequencesExt

CONSTANTS
  Lines,    \* the lines an input can have
  MaxLines, \* bound: the length of an input
  Null      \* the null pointer

LineKinds == {"begin", "begin zone", "begin unknown", "end", "property",
              "unknown name", "unknown parameter", "bad parameter",
              "no value", "bad value", "bad second value", "nameless",
              "bad parameter, bad value", "bad parameter, bad second value",
              "bad parameter, unknown parameter"}

BracketKinds == {"begin", "begin zone", "begin unknown", "end"}

ASSUME LinesAreKnown == Lines \subseteq LineKinds
ASSUME MaxLinesAssumption == MaxLines \in Nat
ASSUME NullIsNoNumber == Null \notin Nat

XRoot == MaxLines + 1
Ids == 1..XRoot

VARIABLES
  input,    \* the lines read so far
  comp,     \* the components on the heap
  freed,    \* those that were freed
  dropped,  \* components made and never stored anywhere
  level,    \* parser->level
  stack,    \* parser->components, the tail last
  current,  \* parser->root_component
  state,    \* parser->state
  root,     \* root in icalparser_parse
  done      \* has icalparser_parse_string returned?

vars == <<input, comp, freed, dropped, level, stack, current, state, root, done>>

New(kind) == [kind |-> kind, parent |-> Null, props |-> <<>>, kids |-> <<>>]

Top(s) == IF s = <<>> THEN Null ELSE Last(s)

----------------------------------------------------------------------------
(* Parts of icalparser_add_line.  Each takes a heap and gives a heap.      *)

\* icalcomponent_add_property, and insert_error, which adds an X-LIC-ERROR.
WithProps(heap, c, props) == [heap EXCEPT ![c].props = @ \o props]

\* icalcomponent_add_component: VTIMEZONEs go to the front.
Attach(heap, p, c) ==
  [heap EXCEPT ![c].parent = p,
               ![p].kids = IF heap[c].kind = "VTIMEZONE" THEN <<c>> \o @
                                                         ELSE Append(@, c)]

\* icalparser_clean closes a component: it gets an error and, unless it has a
\* parent, goes to the one below it on the stack.
CloseOne(heap, s, i) ==
  LET marked == WithProps(heap, s[i], <<"error">>)
  IN  IF i = 1 \/ marked[s[i]].parent # Null THEN marked
      ELSE Attach(marked, s[i - 1], s[i])

\* icalparser_clean: every component on the stack, from its top.
Clean(heap, s) ==
  LET n == Len(s)
      after[k \in 0..n] == IF k = 0 THEN heap
                           ELSE CloseOne(after[k - 1], s, n + 1 - k)
  IN  after[n]

\* What icalparser_parse does with a component it is given: the first is the
\* root, a second one puts both below an XROOT.
Container(heap, c) == IF root = Null THEN c
                      ELSE IF heap[root].kind = "XROOT" THEN root
                      ELSE XRoot

Collect(heap, c) ==
  IF root = Null THEN heap
  ELSE IF heap[root].kind = "XROOT" THEN Attach(heap, root, c)
  ELSE Attach(Attach([heap EXCEPT ![XRoot] = New("XROOT")], XRoot, root),
              XRoot, c)

----------------------------------------------------------------------------
(* The lines.                                                              *)

Init ==
  /\ input = <<>>
  /\ comp = [i \in Ids |-> New("none")]
  /\ freed = {} /\ dropped = 0
  /\ level = 0 /\ stack = <<>> /\ current = Null
  /\ state = "SUCCESS"
  /\ root = Null
  /\ done = FALSE

\* icalparser_get_line finds another line.
Reads(line) ==
  /\ ~done
  /\ Len(input) < MaxLines
  /\ input' = Append(input, line)
  /\ UNCHANGED <<freed, done>>

KindOf(line) == CASE line = "begin"         -> "VEVENT"
                  [] line = "begin zone"    -> "VTIMEZONE"
                  [] line = "begin unknown" -> "NO_COMPONENT"

\* Mutant: the level is not counted for a component with an unknown name.
BeginUncounted(line) ==
  /\ line \in {"begin", "begin zone", "begin unknown"}
  /\ Reads(line)
  /\ level' = IF line = "begin unknown" THEN level ELSE level + 1
  /\ comp' = [comp EXCEPT ![Len(input')] = New(KindOf(line))]
  /\ dropped' = IF line = "begin unknown" THEN dropped + 1 ELSE dropped
  /\ stack' = Append(stack, Len(input'))
  /\ state' = "BEGIN_COMP"
  /\ UNCHANGED <<current, root>>

\* A name libical does not know makes two components: one marked with an
\* error, which nothing refers to any more, and one of no kind.
Begin(line) ==
  /\ line \in {"begin", "begin zone", "begin unknown"}
  /\ Reads(line)
  /\ level' = level + 1
  /\ comp' = [comp EXCEPT ![Len(input')] = New(KindOf(line))]
  /\ dropped' = IF line = "begin unknown" THEN dropped + 1 ELSE dropped
  /\ stack' = Append(stack, Len(input'))
  /\ state' = "BEGIN_COMP"
  /\ UNCHANGED <<current, root>>

\* The component that an END closes, and the heap after it was handed down.
Below == IF stack = <<>> THEN <<>> ELSE Front(stack)
Handed == IF Below = <<>> THEN comp ELSE Attach(comp, Last(Below), Top(stack))

\* Mutant: the level is lowered only when nothing is open any more.
EndInnerUncounted ==
  /\ Reads("end")
  /\ level # 1
  /\ level' = IF stack = <<>> THEN level - 1 ELSE level
  /\ stack' = Below
  /\ current' = Top(stack)
  /\ comp' = Handed
  /\ state' = "END_COMP"
  /\ UNCHANGED <<dropped, root>>

\* An END that does not lead back to level 0.
EndInner ==
  /\ Reads("end")
  /\ level # 1
  /\ level' = level - 1
  /\ stack' = Below
  /\ current' = Top(stack)
  /\ comp' = Handed
  /\ state' = "END_COMP"
  /\ UNCHANGED <<dropped, root>>

\* An END that does: what is still open, because there were more ENDs than
\* BEGINs before, is closed with an error; the component at the bottom goes
\* to icalparser_parse.
EndOuter ==
  /\ Reads("end")
  /\ level = 1
  /\ level' = 0
  /\ stack' = <<>>
  /\ state' = "SUCCESS"
  /\ current' = Null
  /\ LET heap == IF Below = <<>> THEN comp ELSE Clean(Handed, stack)
     IN  /\ root' = Container(heap, Head(stack))
         /\ comp' = Collect(heap, Head(stack))
  /\ UNCHANGED dropped

\* What a property line leaves in the component at the top of the stack.  A
\* parameter that cannot be read is reported and what follows is still read,
\* with errors of its own, but an unknown parameter ends the line before its
\* value.  One bad parameter stands for several.
Leaves(line) ==
  CASE line = "property"          -> <<"value">>
    [] line = "unknown name"      -> <<"error">>
    [] line = "unknown parameter" -> <<"empty", "error">>
    [] line = "bad parameter"     -> <<"value", "error">>
    [] line = "no value"          -> <<"error">>
    [] line = "bad value"         -> <<"error">>
    [] line = "bad second value"  -> <<"value", "error">>
    [] line = "nameless"          -> <<"error">>
    [] line = "bad parameter, bad value"         -> <<"error", "error">>
    [] line = "bad parameter, bad second value"  -> <<"value", "error", "error">>
    [] line = "bad parameter, unknown parameter" -> <<"empty", "error", "error">>

\* Mutant: the property goes to the outermost open component.
PropertyOfFirst(line) ==
  /\ line \in LineKinds \ BracketKinds
  /\ Reads(line)
  /\ IF stack = <<>>
       THEN UNCHANGED comp
       ELSE comp' = WithProps(comp, Head(stack), Leaves(line))
  /\ state' = IF stack # <<>> /\ line \in {"property", "bad parameter"}
                THEN "IN_PROGRESS" ELSE "ERROR"
  /\ UNCHANGED <<dropped, level, stack, current, root>>

Property(line) ==
  /\ line \in LineKinds \ BracketKinds
  /\ Reads(line)
  /\ IF stack = <<>>
       THEN UNCHANGED comp
       ELSE comp' = WithProps(comp, Top(stack), Leaves(line))
  /\ state' = IF stack # <<>> /\ line \in {"property", "bad parameter"}
                THEN "IN_PROGRESS" ELSE "ERROR"
  /\ UNCHANGED <<dropped, level, stack, current, root>>

----------------------------------------------------------------------------
(* The end of the input.                                                   *)

\* A component and everything below it.
TreeIn(heap, c) ==
  LET upTo[n \in 0..Cardinality(Ids)] ==
        IF n = 0 THEN {c}
        ELSE LET nearer == upTo[n - 1]
             IN  nearer \cup {d \in Ids : heap[d].parent \in nearer}
  IN  upTo[Cardinality(Ids)]

Tree(c) == TreeIn(comp, c)

\* icalcomponent_free does nothing to a component that has a parent.
Frees(c) == IF c = Null THEN {}
            ELSE IF comp[c].parent # Null THEN {} ELSE Tree(c)

\* Mutant: the caller's component is freed with the parser.
FreeParserAndRoot ==
  /\ ~done
  /\ done' = TRUE
  /\ freed' = Frees(root) \cup Frees(current)
              \cup UNION {Frees(c) : c \in ToSet(stack)}
  /\ state' = "ERROR"
  /\ UNCHANGED <<input, comp, dropped, level, stack, current, root>>

\* icalparser_get_line returns null, icalparser_parse the root, and
\* icalparser_free frees what the parser still holds.
FreeParser ==
  /\ ~done
  /\ done' = TRUE
  /\ freed' = Frees(current) \cup UNION {Frees(c) : c \in ToSet(stack)}
  /\ state' = "ERROR"
  /\ UNCHANGED <<input, comp, dropped, level, stack, current, root>>

Next ==
  \/ \E line \in Lines : Begin(line) \/ Property(line)
  \/ "end" \in Lines /\ (EndInner \/ EndOuter)
  \/ FreeParser

Spec == Init /\ [][Next]_vars

----------------------------------------------------------------------------
(* What the lines say, by counting.                                        *)

Begins == {i \in DOMAIN input :
             input[i] \in {"begin", "begin zone", "begin unknown"}}

Depth(i) == Cardinality({j \in Begins : j <= i})
            - Cardinality({j \in 1..i : input[j] = "end"})

\* No END came before its BEGIN.
Ordered == \A i \in DOMAIN input : Depth(i) >= 0

\* Component j is open after line i.
OpenAt(j, i) == j <= i /\ \A k \in j..i : Depth(k) >= Depth(j)

Open == {j \in Begins : OpenAt(j, Len(input))}

\* The innermost component around the one begun at line i, 0 for none.
Around(i) == Max({0} \cup {j \in Begins : j < i /\ OpenAt(j, i - 1)})

ClosedIn(i) == {j \in Begins \ Open : Around(j) = i}

\* The numbers of a set, the k-th with k of them up to it.
InOrder(S) ==
  [k \in 1..Cardinality(S) |->
     CHOOSE x \in S : Cardinality({y \in S : y <= x}) = k]

\* Components in the order icalcomponent_add_component puts them into.
Arranged(ids) ==
  LET zones == {i \in ids : input[i] = "begin zone"}
  IN  Reverse(InOrder(zones)) \o InOrder(ids \ zones)

WellFormed == Ordered /\ \A i \in DOMAIN input :
                           /\ input[i] \in {"begin", "begin zone",
                                            "end", "property"}
                           /\ input[i] = "property" => Depth(i) > 0

----------------------------------------------------------------------------
(* Properties.                                                             *)

\* Every variable has its type.
TypeOK ==
  /\ input \in Seq(Lines)
  /\ \A i \in Ids : /\ comp[i].parent \in Ids \cup {Null}
                    /\ comp[i].props \in Seq({"value", "empty", "error"})
                    /\ comp[i].kids \in Seq(Ids)
  /\ freed \subseteq Ids /\ dropped \in Nat
  /\ level \in Int
  /\ stack \in Seq(Ids)
  /\ current \in Ids \cup {Null}
  /\ root \in Ids \cup {Null}
  /\ done \in BOOLEAN

\* However the ENDs come, there are never fewer open components than levels:
\* an END that leads to level 0 always has a component to return.
StackCoversLevel == Len(stack) >= level

\* The assertions of icalparser_parse: whenever it is handed a component,
\* the parser holds nothing any more.
ParserIsClear == state = "SUCCESS" => stack = <<>> /\ current = Null

\* No component is in two places, whatever ENDs are missing or too many: the
\* lists of children are disjoint and agree with the parent pointers, and
\* what is on the stack has no parent.
OneOwner ==
  /\ \A p, c \in Ids :
       LET places == {i \in DOMAIN comp[p].kids : comp[p].kids[i] = c}
       IN  Cardinality(places) = IF comp[c].parent = p THEN 1 ELSE 0
  /\ \A c \in ToSet(stack) : comp[c].parent = Null
  /\ IsInjective(stack)
  /\ root # Null => comp[root].parent = Null /\ root \notin ToSet(stack)

\* While no END comes before its BEGIN, the stack holds exactly the open
\* components, every closed one is where its BEGIN stood, time zones first,
\* and the caller gets every component that was closed at the outermost
\* level.
NestingIsKept ==
  Ordered =>
    /\ stack = InOrder(Open)
    /\ \A i \in Begins : comp[i].kids = Arranged(ClosedIn(i))
    /\ LET outermost == ClosedIn(0)
       IN  CASE outermost = {} -> root = Null
             [] Cardinality(outermost) = 1 -> {root} = outermost
             [] OTHER -> /\ root = XRoot
                         /\ comp[XRoot].kids = Arranged(outermost)

\* The property lines between the BEGIN and the END of a component, without
\* those of the components in it.
Within(i) == {k \in DOMAIN input : /\ input[k] \notin BracketKinds
                                  /\ Around(k) = i}

\* What property lines leave, values and errors alike, stays with the
\* component they stand in, in their order, as long as no END comes before
\* its BEGIN.
PropertiesStay ==
  Ordered =>
    \A i \in Begins :
      LET order == InOrder(Within(i))
      IN  comp[i].props =
            FlattenSeq([n \in DOMAIN order |-> Leaves(input[order[n]])])

\* Nothing is reported as an error in an input that has none.
NoFalseAlarm ==
  WellFormed => \A i \in Begins : "error" \notin ToSet(comp[i].props)

\* Freeing the parser takes nothing from the caller.
ResultSurvives == done /\ root # Null => Tree(root) \cap freed = {}

----------------------------------------------------------------------------
(* What documents and comments say of it.                                  *)

\* UsingLibical.txt: if the parser cannot parse incoming text, the library
\* inserts properties of the type X-LIC-ERROR.  Claimed of the names of
\* components.
UnknownIsMarked ==
  \A i \in Begins :
    input[i] = "begin unknown" => "error" \in ToSet(comp[i].props)

\* "Don't add properties without value".
ValuesOnly == \A i \in Begins : "empty" \notin ToSet(comp[i].props)

\* "Closing component at end of input": components without an END are still
\* returned when the input is over.
InputIsClosed == done /\ Begins # {} => root # Null
=============================================================================
