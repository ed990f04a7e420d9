------------------------------ MODULE MCHashTable ------------------------------
(* Three keys whose paths meet: the hash 0 is replaced by 1, which is the hash  *)
(* of the second key, and the third differs from 3 in the bits that only the    *)
(* second step sees.                                                            *)
EXTENDS HashTable, TLC

CONSTANTS k1, k2, k3

Colliding == (k1 :> 0) @@ (k2 :> 1) @@ (k3 :> 3 + 3 * 2048)
==============================================================================
