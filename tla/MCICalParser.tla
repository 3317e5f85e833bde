---------------------------- MODULE MCICalParser ----------------------------
(***************************************************************************)
(* ICalParser for TLC: every input over a set of lines up to a length.     *)
(***************************************************************************)
EXTENDS ICalParser

\* One for all that leave the same: an error alone, or a value and an error.
\* Of the lines with two things wrong, one that leaves three properties.
Distinct ==
  LineKinds \ {"unknown name", "no value", "nameless", "bad second value",
               "bad parameter, bad value", "bad parameter, unknown parameter"}
=============================================================================
