----------------------------- MODULE MCItemTable ------------------------------
(* Instances of ItemTable: what the modules are called does not matter.         *)
EXTENDS ItemTable, TLC

ModuleSymmetry == Permutations(Modules)
==============================================================================
