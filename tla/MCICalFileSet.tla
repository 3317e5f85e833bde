---------------------------- MODULE MCICalFileSet ----------------------------
(***************************************************************************)
(* ICalFileSet for TLC: two or three sets on a file that has a short and a *)
(* long component at the start.                                            *)
(***************************************************************************)
EXTENDS ICalFileSet

CONSTANTS a, b

OneOfEach == <<a, b>>

\* The file is new.
NewFile == <<>>
=============================================================================
