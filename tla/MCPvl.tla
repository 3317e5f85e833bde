------------------------------- MODULE MCPvl -------------------------------
(***************************************************************************)
(* Pvl for TLC.  The addresses are interchangeable.                        *)
(***************************************************************************)
EXTENDS Pvl, TLC

Symmetry == Permutations(Elem)
=============================================================================
