------------------------------ MODULE MCBinaryFile ------------------------------
EXTENDS BinaryFile

CONSTANTS Letters, MaxWord, MaxRest

Words(n) == UNION {[1 .. k -> Letters] : k \in 1 .. n}

(* Ten bytes of which no three are seen twice. *)
NoRepeats == <<1, 1, 1, 2, 1, 2, 2, 2, 1, 1>>

SmallInputs == Words(MaxWord) \cup {NoRepeats \o w : w \in Words(MaxRest)}

SmallHash(s) == (s[1] + s[2] * s[3]) % TableSize
==============================================================================
