------------------------------ MODULE MacroResult ------------------------------
(****************************************************************************)
(* What C says a text with macros means (C11 6.10.3), in the form of the       *)
(* algorithm of the standard's committee: every token carries the set of the     *)
(* macros that it came from, and is expanded with none of them. MacroExpansion    *)
(* gets the same tokens without such sets.                                       *)
(****************************************************************************)
EXTENDS MacroExpansion

Hiding(s, names) == [i \in DOMAIN s |-> [s[i] EXCEPT !.hides = @ \cup names]]

WithSets(s) ==
  LET tokens == SelectSeq(s, LAMBDA t : t # Space)
  IN [i \in DOMAIN tokens |->
        [code |-> tokens[i].code, repr |-> tokens[i].repr, hides |-> {}]]

Wrong == [code |-> "wrong", repr |-> "", hides |-> {}]

(* The first ) that closes the ( at the beginning. *)
Parens(s) == {n \in DOMAIN s : s[n].code = ")" /\ Level(s, n) = 0}

RECURSIVE Expanded(_)
RECURSIVE Substituted(_, _, _)

(* The body with its parameters replaced by the expanded arguments. *)
Substituted(body, params, args) ==
  IF body = <<>> THEN <<>>
  ELSE LET t == Head(body)
           rest == Substituted(Tail(body), params, args)
       IN IF Contains(params, t.repr)
          THEN Expanded(args[SelectInSeq(params, LAMBDA p : p = t.repr)]) \o rest
          ELSE <<t>> \o rest

Expanded(s) ==
  IF s = <<>> THEN <<>>
  ELSE
  LET t == Head(s)
      rest == Tail(s)
      macro == t.code = "id" /\ t.repr \in DOMAIN macros /\ t.repr \notin t.hides
      m == macros[t.repr]
  IN IF macro /\ ~m.function
     THEN Expanded(Hiding(WithSets(m.body), t.hides \cup {t.repr}) \o rest)
     ELSE IF macro /\ rest # <<>> /\ Head(rest).code = "("
     THEN IF Parens(rest) = {} THEN <<Wrong>>
          ELSE LET close == Min(Parens(rest))
                   args == Arguments(m, SubSeq(rest, 2, close - 1))
                   hides == (t.hides \cap rest[close].hides) \cup {t.repr}
               IN IF Len(args) # Len(m.params) THEN <<Wrong>>
                  ELSE Expanded(Hiding(Substituted(WithSets(m.body), m.params, args), hides)
                                  \o Drop(rest, close))
     ELSE <<t>> \o Expanded(rest)

Plain(s) ==
  LET tokens == SelectSeq(s, LAMBDA t : t # Space)
  IN [i \in DOMAIN tokens |->
        IF tokens[i].code \in {"id", "no macro"} THEN Id(tokens[i].repr) ELSE Sign(tokens[i].code)]

(* Put back and marked, the text becomes what C says it means, and an error is      *)
(* reported when C says so and only then. Left out are texts with two ends of replacements in a row    *)
(* in the arguments of a call, or the name of a macro before such an end there, and   *)
(* those with white space before such an end and the ( of a call behind it.            *)
SameAsStandard ==
  (errors \/ status = "done") /\ ~strayed =>
    LET meaning == Expanded(WithSets(program.source))
        wrong == \E i \in DOMAIN meaning : meaning[i].code = "wrong"
    IN errors = wrong /\ (~errors => Plain(output) = Plain(meaning))
==============================================================================
