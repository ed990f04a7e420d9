----------------------------- MODULE MCRuntimeCalls ----------------------------
(* Small values for the model checker. *)
EXTENDS RuntimeCalls, TLC

MCSymmetry == Permutations(Values)
==============================================================================
