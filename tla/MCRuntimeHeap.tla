---------------------------- MODULE MCRuntimeHeap ----------------------------
(* RuntimeHeap with an array of a few bytes and one literal, "a". A program    *)
(* may stop whenever it wants to, and does when the array has its last size.  *)
EXTENDS RuntimeHeap

ThreeDoublings == {2, 4, 8}
MCStrLen == [s \in Strings |-> 1]

(* States that differ in called alone are one: no guard reads it, each action  *)
(* sets it anew, and the promise is checked of every step, not of every state. *)
HeapView == <<blocks, memLength, cells, stringMap, live, abandoned, thrown>>
==============================================================================
