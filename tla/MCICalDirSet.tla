----------------------------- MODULE MCICalDirSet -----------------------------
(***************************************************************************)
(* ICalDirSet for TLC: months with one and with two components.            *)
(***************************************************************************)
EXTENDS ICalDirSet

CONSTANTS a, b, c, e, jan, feb, mar

InMonth == [x \in {a, b, c, e} |-> CASE x = c -> feb [] x = e -> mar [] OTHER -> jan]

AllOrOne == {{a, b, c, e}, {b}}
=============================================================================
