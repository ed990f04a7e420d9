------------------------------- MODULE MCSymbols -------------------------------
(* Symbols with the symmetry of its names. *)
EXTENDS Symbols, TLC

NameSymmetry == Permutations(Names)
==============================================================================
