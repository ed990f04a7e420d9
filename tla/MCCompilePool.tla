---------------------------- MODULE MCCompilePool -----------------------------
(* An instance of CompilePool: all command lines with at most one file in error *)
(* and, with -S or -c, at most one MIR file.                                    *)
EXTENDS CompilePool, TLC

SmallCommandLines ==
  {l \in AllCommandLines :
     /\ Cardinality(l.bad) <= 1
     /\ \A f \in l.bad : l.kind[f] = "c"
     /\ Cardinality({f \in Files : l.kind[f] # "c"}) <= 1
     /\ ~l.output => \A f \in Files : l.kind[f] # "converted"}

(* Names sort by their digits: M10 before M2. *)
NamesOfManyModules == [f \in Files |-> IF f = 2 THEN FilesNum + 1 ELSE f]
==============================================================================
