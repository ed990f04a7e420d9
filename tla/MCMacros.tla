-------------------------------- MODULE MCMacros -------------------------------
EXTENDS MacroResult

CONSTANT MaxBody

(* Tokens from their spelling. *)
Read(spelling) ==
  IF spelling \in Signs THEN Sign(spelling) ELSE Id(spelling)
ReadAll(s) == [i \in DOMAIN s |-> Read(s[i])]

Object(body) == [function |-> FALSE, params |-> <<>>, body |-> body]
Function(params, body) == [function |-> TRUE, params |-> params, body |-> body]

Bodies(spellings, n) == {ReadAll(b) : b \in BoundedSeq(spellings, n)}

Firsts ==
  {Function(<<"x">>, b) : b \in Bodies({"x", "f", "g", "(", ")"}, MaxBody)}
    \cup {Function(<<"x", "y">>, b) : b \in Bodies({"x", "y", "g"}, MaxBody)}
    \cup {Function(<<>>, b) : b \in Bodies({"f", "g"}, MaxBody)}
Seconds ==
  {Object(b) : b \in Bodies({"f", "g", "(", ")"}, MaxBody + 1)}
    \cup {Function(<<"x">>, b) : b \in Bodies({"x", "f", "("}, MaxBody)}

(* Calls in arguments, calls that end behind the replacement they began in, and   *)
(* arguments that are missing, or too many.                                      *)
Sources ==
  {ReadAll(s) : s \in
     {<<"f", "(", "f", ")", "(", "a", ")">>,
      <<"f", "(", "g", ")", "(", "g", ")">>,
      <<"f", "(", "g", ",", "f", ")", " ", "(", "(", "a", ",", "g", ")", ",", "a", ")">>,
      <<"g", "(", "f", " ", ")", "(", " ", ")">>,
      <<"g", " ", "a", ")", ")">>}}

(* Replacements that end together, and calls in them that take the end of an       *)
(* argument for their own.                                                      *)
Inner == {Object(b) : b \in Bodies({"f", "(", ")"}, MaxBody)}
Outer ==
  LET bodies == {ReadAll(s) : s \in {<<"h">>, <<"f", "(", "h", ")">>}}
  IN {Object(b) : b \in bodies} \cup {Function(<<>>, b) : b \in bodies}
NestedSources ==
  {ReadAll(s) : s \in {<<"f", "(", "g", "a", ")">>, <<"f", "(", "g", "(", ")", ")">>}}

SmallPrograms ==
  {[macros |-> [n \in {"f", "g"} |-> IF n = "f" THEN p[1] ELSE p[2]], source |-> p[3]] :
     p \in Firsts \X Seconds \X Sources}
  \cup
  {[macros |-> [n \in {"f", "g", "h"} |->
                  CASE n = "f" -> Function(<<"x">>, ReadAll(<<"x">>)) [] n = "g" -> p[1] [] n = "h" -> p[2]],
    source |-> p[3]] : p \in Outer \X Inner \X NestedSources}
==============================================================================
