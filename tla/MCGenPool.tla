------------------------------ MODULE MCGenPool -------------------------------
(* Instances of GenPool: two application threads that call functions of their *)
(* own, or the same function.                                                  *)
EXTENDS GenPool, TLC

CONSTANTS a1, a2, f1, f2

OwnFunctions == (a1 :> {f1}) @@ (a2 :> {f2})
SameFunction == (a1 :> {f1}) @@ (a2 :> {f1})
==============================================================================
