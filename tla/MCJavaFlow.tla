------------------------------ MODULE MCJavaFlow -------------------------------
(* Programs of two functions: the first only returns, the second is any         *)
(* function of up to MaxInsns insns with up to two labels, of which the first   *)
(* is mentioned first.                                                        *)
EXTENDS JavaFlow

CONSTANT MaxInsns

MCInsn(op, labels) == [op |-> op, labels |-> labels]

SomeInsns ==
  {MCInsn("work", <<>>), MCInsn("ret", <<>>)}
    \cup {MCInsn(op, <<l>>) : op \in {"label", "jmp", "bt", "bf"}, l \in Labels}
    \cup {MCInsn("switch", <<l, m>>) : l, m \in Labels}

Mentions(func, l) == \E i \in DOMAIN func : \E k \in DOMAIN func[i].labels : func[i].labels[k] = l
Defines(func, l) == \E i \in DOMAIN func : func[i] = MCInsn("label", <<l>>)

MayFollow(func, insn) ==
  /\ insn.op = "label" => ~Defines(func, insn.labels[1])
  /\ insn.labels = <<>> \/ insn.labels[1] = 1 \/ Mentions(func, 1)

Extended(funcs) ==
  {Append(x[1], x[2]) : x \in {y \in funcs \X SomeInsns : MayFollow(y[1], y[2])}}

Funcs[n \in 0 .. MaxInsns] == IF n = 0 THEN {<<>>} ELSE Extended(Funcs[n - 1])

Complete(func) ==
  /\ func # <<>> /\ func[Len(func)].op \in {"ret", "jmp"}
  /\ \A l \in Labels : Mentions(func, l) => Defines(func, l)

SmallPrograms ==
  {<< <<MCInsn("ret", <<>>)>>, f >> :
     f \in UNION {{g \in Funcs[n] : Complete(g)} : n \in 1 .. MaxInsns}}
==============================================================================
