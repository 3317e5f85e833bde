----------------------------- MODULE MCICSParse -----------------------------
(***************************************************************************)
(* Every file of up to two VEVENTs over a few values of each property, for *)
(* TLC.  The VEVENTs have different texts, so that the dictionary shows    *)
(* which of them a key came from.                                          *)
(***************************************************************************)
EXTENDS ICSParse

CONSTANTS MaxEvents

MCOffset == [GMT |-> 0, Berlin |-> 1, Tokyo |-> 5]

MCDates == {Nil, DateOnly, DateTime(6, TRUE), DateTime(18, FALSE)}

MCOrganizers == {Nil, [address |-> "a", colon |-> TRUE, cn |-> Nil],
                 [address |-> "b", colon |-> FALSE, cn |-> "n"]}

\* One of them has an empty SUMMARY beside good dates, and raises for it.
MCEvents(text) ==
  [summary : {Nil, text}, location : {Nil}, description : {Nil},
   start : MCDates, end : MCDates, organizer : MCOrganizers, blank : {FALSE}]
  \cup [summary : {text}, location : {Nil}, description : {Nil},
        start : {DateTime(6, TRUE)}, end : {DateTime(18, FALSE)},
        organizer : {Nil}, blank : {TRUE}]

MCLists == {<<>>} \cup {<<e>> : e \in MCEvents("s")}
           \cup IF MaxEvents = 1 THEN {}
                ELSE MCEvents("s") \X MCEvents("t")

MCFiles ==
  [readable : {TRUE}, parses : {TRUE}, tzid : {Nil, "Tokyo"}, events : MCLists]
  \cup [readable : BOOLEAN, parses : BOOLEAN, tzid : {Nil}, events : {<<>>}]

MCContent == [f \in Files |-> f]
=============================================================================
