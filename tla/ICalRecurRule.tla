---------------------------- MODULE ICalRecurRule ----------------------------
(***************************************************************************)
(* Recurrence rules as text (icalrecur.c): icalrecurrencetype_from_string  *)
(* takes the clauses of a rule one by one, in the order they come in, and  *)
(* icalrecurrencetype_as_string writes a rule's clauses.  A clause is a    *)
(* name and a value; one without "=" or of an unknown name is Malformed.   *)
(* A BYDAY is kept as one number, and the list of them sorted from the day *)
(* weeks start on.  Lists are shorter than their arrays.                   *)
(***************************************************************************)
EXTENDS Integers, Sequences, SequencesExt, FiniteSets

CONSTANTS
  Texts,     \* sequences of clauses
  None,      \* no frequency, no end
  Malformed  \* a clause that is not one

VARIABLES
  text,  \* what was given
  left,  \* the clauses that are left
  rt     \* parser.rt

ruleVars == <<text, left, rt>>

Monday == 2

ByNames == {"BYSECOND", "BYMINUTE", "BYHOUR", "BYDAY", "BYMONTHDAY", "BYYEARDAY",
            "BYWEEKNO", "BYMONTH", "BYSETPOS"}
ClauseNames == ByNames \cup {"FREQ", "UNTIL", "COUNT", "INTERVAL", "WKST"}

\* The texts are of clauses whose weekdays there are.
Days == [dow : 1..7, pos : Int]

IsClause(c) ==
  /\ c = [name |-> c.name, value |-> c.value] /\ c.name \in ClauseNames
  /\ c.name = "BYDAY" => c.value \in Seq(Days)
  /\ c.name = "WKST" => c.value \in 1..7

ASSUME TextsAreRules ==
  \A t \in Texts : /\ t \in Seq(Range(t))
                   /\ \A c \in Range(t) \ {Malformed} : IsClause(c)

\* icalrecurrencetype_clear.
Clear ==
  [n \in ClauseNames |-> CASE n \in {"FREQ", "UNTIL"} -> None
                     [] n = "COUNT" -> 0 [] n = "INTERVAL" -> 1
                     [] n = "WKST" -> Monday [] n \in ByNames -> <<>>]

\* How icalrecur_add_bydayrules makes one number of a weekday and its position,
\* and how icalrecurrencetype_day_day_of_week and _day_position take it apart.
Sign(n) == IF n < 0 THEN -1 ELSE 1
Size(n) == Sign(n) * n

Encoded(d)  == Sign(d.pos) * (d.dow + 8 * Size(d.pos))
DayOf(code) == Size(code) % 8
PositionOf(code) == Sign(code) * ((Size(code) - DayOf(code)) \div 8)

\* sort_bydayrules: each day is put before the first that comes after it in
\* the week, and so on with that one.
FromStart(code, wkst) == (DayOf(code) - wkst) % 7

Exchange(list, j, i, wkst) ==
  IF FromStart(list[j], wkst) > FromStart(list[i], wkst)
  THEN [list EXCEPT ![j] = list[i], ![i] = list[j]] ELSE list

Insert(list, i, wkst) ==
  FoldLeft(LAMBDA l, j : Exchange(l, j, i, wkst), list, [j \in 1..i - 1 |-> j])

Sorted(codes, wkst) ==
  FoldLeft(LAMBDA l, i : Insert(l, i, wkst), codes, [i \in DOMAIN codes |-> i])

Codes(days, wkst) == Sorted([i \in DOMAIN days |-> Encoded(days[i])], wkst)

\* Mutant: a WKST after the BYDAY does not sort its days again.
TakenUnsorted(r, c) ==
  IF c.name = "BYDAY" THEN [r EXCEPT !.BYDAY = Codes(c.value, r.WKST)]
                      ELSE [r EXCEPT ![c.name] = c.value]

\* Mutant: the days of a second BYDAY are added to those of the first.
TakenTogether(r, c) ==
  CASE c.name = "BYDAY" -> [r EXCEPT !.BYDAY = Sorted(@ \o Codes(c.value, r.WKST), r.WKST)]
    [] c.name = "WKST" -> [r EXCEPT !.WKST = c.value, !.BYDAY = Sorted(@, c.value)]
    [] c.name \notin {"BYDAY", "WKST"} -> [r EXCEPT ![c.name] = c.value]

\* What a clause does: the last of each name counts.
Taken(r, c) ==
  CASE c.name = "BYDAY" -> [r EXCEPT !.BYDAY = Codes(c.value, r.WKST)]
    [] c.name = "WKST" -> [r EXCEPT !.WKST = c.value, !.BYDAY = Sorted(@, c.value)]
    [] c.name \notin {"BYDAY", "WKST"} -> [r EXCEPT ![c.name] = c.value]

RuleInit == text \in Texts /\ left = text /\ rt = Clear

Take ==
  /\ left # <<>> /\ Head(left) # Malformed
  /\ rt' = Taken(rt, Head(left)) /\ left' = Tail(left)
  /\ UNCHANGED text

\* The whole rule is cleared, and the rest not looked at.
GiveUp ==
  /\ left # <<>> /\ Head(left) = Malformed
  /\ rt' = Clear /\ left' = <<>>
  /\ UNCHANGED text

RuleNext == Take \/ GiveUp

RuleSpec == RuleInit /\ [][RuleNext]_ruleVars

----------------------------------------------------------------------------
(* icalrecurrencetype_as_string, when there is a frequency.                *)

Clause(name, value) == <<[name |-> name, value |-> value]>>
If(test, clauses)   == IF test THEN clauses ELSE <<>>

Order == <<"BYSECOND", "BYMINUTE", "BYHOUR", "BYDAY", "BYMONTHDAY", "BYYEARDAY",
           "BYWEEKNO", "BYMONTH", "BYSETPOS">>

\* Mutant: the position of a day is written without its sign.
UnsignedValue(r, name) ==
  IF name # "BYDAY" THEN r[name]
  ELSE [i \in DOMAIN r.BYDAY |-> [dow |-> DayOf(r.BYDAY[i]), pos |-> Size(PositionOf(r.BYDAY[i]))]]

Value(r, name) ==
  IF name # "BYDAY" THEN r[name]
  ELSE [i \in DOMAIN r.BYDAY |-> [dow |-> DayOf(r.BYDAY[i]), pos |-> PositionOf(r.BYDAY[i])]]

AsText(r) ==
  Clause("FREQ", r.FREQ)
  \o If(r.UNTIL # None, Clause("UNTIL", r.UNTIL))
  \o If(r.COUNT # 0, Clause("COUNT", r.COUNT))
  \o If(r.INTERVAL # 1, Clause("INTERVAL", r.INTERVAL))
  \o FlattenSeq([i \in DOMAIN Order |->
                   If(r[Order[i]] # <<>>, Clause(Order[i], Value(r, Order[i])))])
  \o If(r.WKST # Monday, Clause("WKST", r.WKST))

----------------------------------------------------------------------------
(* Properties.                                                             *)

\* The days stay in the order of the week the iterator needs (icalrecur.c:317:
\* "Days in the BYDAY rule are expected by the code to be sorted"), whichever
\* of BYDAY and WKST comes first.
DaysAreSorted ==
  \A i, j \in DOMAIN rt.BYDAY :
    i < j => FromStart(rt.BYDAY[i], rt.WKST) <= FromStart(rt.BYDAY[j], rt.WKST)

Clauses(name) == {i \in DOMAIN text : text[i] # Malformed /\ text[i].name = name}

\* The two lists have the same elements, each as often, in some order.
Rearranged(a, b) ==
  \E p \in Bijection(DOMAIN a, DOMAIN b) : \A i \in DOMAIN a : a[i] = b[p[i]]

\* The rule is what its clauses say, not what they were read after: each value
\* is the last one given for its name, or the default, and the days are those
\* of the last BYDAY, each as often as it is given.
OrderDoesNotMatter ==
  left = <<>> /\ Malformed \notin Range(text) =>
    \A n \in ClauseNames :
      LET last  == CHOOSE i \in Clauses(n) : \A j \in Clauses(n) : j <= i
          value == IF Clauses(n) = {} THEN Clear[n] ELSE text[last].value
      IN  IF n = "BYDAY" THEN Rearranged(Value(rt, n), value) ELSE rt[n] = value

\* A rule that is written and read again is the same rule.  The text gives the
\* days before the day weeks start on, so that they are sorted from Monday
\* first; the exchanges may then leave two positions of one weekday the other
\* way round, but no day is lost and each weekday stays in its place.
TextIsKept ==
  left = <<>> /\ rt.FREQ # None =>
    LET again == FoldLeft(Taken, Clear, AsText(rt))
    IN  /\ \A n \in ClauseNames \ {"BYDAY"} : again[n] = rt[n]
        /\ Rearranged(again.BYDAY, rt.BYDAY)
        /\ \A i \in DOMAIN rt.BYDAY : DayOf(again.BYDAY[i]) = DayOf(rt.BYDAY[i])
=============================================================================
