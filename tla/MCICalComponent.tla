--------------------------- MODULE MCICalComponent ---------------------------
(***************************************************************************)
(* ICalComponent for TLC: two events; three zones with a TZID, two of them *)
(* with the same one but different rules; and a zone without one.          *)
(***************************************************************************)
EXTENDS ICalComponent

CONSTANTS cal, other, event, event2, london, london2, oslo, nameless

MCCals == {cal, other}
MCKids == {event, event2, london, london2, oslo, nameless}
MCKind == [c \in MCKids |-> IF c \in {event, event2} THEN "VEVENT"
                            ELSE "VTIMEZONE"]
MCTzid == [c \in MCKids |-> CASE c \in {london, london2} -> 1
                              [] c = oslo -> 2
                              [] OTHER -> Nil]
MCRules == [c \in MCKids |-> IF c = london THEN "old" ELSE "new"]

\* The rules decide nothing in the code.
Alike == Permutations(MCCals) \cup Permutations({event, event2})
           \cup Permutations({london, london2})
=============================================================================
