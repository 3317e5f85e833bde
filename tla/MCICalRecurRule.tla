--------------------------- MODULE MCICalRecurRule ---------------------------
(***************************************************************************)
(* ICalRecurRule for TLC: every order of up to five of a rule's clauses,   *)
(* with a second BYDAY and a malformed clause among them.                  *)
(***************************************************************************)
EXTENDS ICalRecurRule

CONSTANT Until

D(pos, dow) == [pos |-> pos, dow |-> dow]
C(name, value) == [name |-> name, value |-> value]

SomeClauses ==
  {C("FREQ", "WEEKLY"), C("UNTIL", Until), C("COUNT", 3), C("INTERVAL", 2),
   C("WKST", 1), C("WKST", 4),
   C("BYDAY", <<D(1, 6), D(-1, 6), D(2, 4), D(0, 2)>>), C("BYDAY", <<D(0, 1), D(0, 7)>>),
   C("BYMONTH", <<3, 11>>), Malformed}

Orders ==
  UNION {SetToSeqs(S) : S \in {T \in SUBSET SomeClauses :
                                 Cardinality(T) = 5 /\ C("FREQ", "WEEKLY") \in T}}
=============================================================================
