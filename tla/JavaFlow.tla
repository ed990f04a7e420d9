------------------------------- MODULE JavaFlow --------------------------------
(****************************************************************************)
(* How mir2j turns the control flow of MIR functions into Java (mir2j.c:        *)
(* out_item, out_insn), and how the Java text runs. Java has no goto: a         *)
(* function with labels becomes                                               *)
(*    int mir_label = -1; while (true) { switch (mir_label) { case -1: ... } }  *)
(* in which a label is a case and a jump sets mir_label and leaves the switch.  *)
(*                                                                          *)
(* One insn becomes one element of the text. Java refuses statements that       *)
(* cannot be reached; mir2j keeps a flag to leave out jumps there.              *)
(****************************************************************************)
EXTENDS Integers, Sequences

CONSTANTS
  Labels,
  Values,
  Programs  \* the programs to look at

NoLabel == -1

JavaOps == {"statement", "case", "comment", "goto", "if true", "if false", "select", "return"}
Statements == [op : JavaOps, labels : Seq(Labels)]

VARIABLES
  program,
  fn,        \* the function that is being translated
  text,      \* function -> its Java text
  dead,      \* is_in_dead_code, kept from one function to the next
  running,   \* the Java method that runs, 0 for none
  mirLabel,  \* its local mir_label
  place,     \* its next statement; 0 is the head of the loop
  reg

translator == <<fn, text, dead>>
method == <<running, mirLabel, place, reg>>
vars == <<program, translator, method>>

Functions == 1 .. Len(program)

(* The code as MIR sees it: in the head of the loop the next insn is the label  *)
(* to go to.                                                                 *)
LabelAt(func, l) == CHOOSE i \in 1 .. Len(func) : func[i].op = "label" /\ func[i].labels[1] = l
NextInsn(func) ==
  IF place # 0 THEN place
  ELSE IF mirLabel = NoLabel THEN 1
  ELSE LabelAt(func, mirLabel)

Mir == INSTANCE MirFlow WITH
         pc <- IF running = 0 THEN 0 ELSE NextInsn(program[running])

ASSUME FlowAssumption ==
  /\ NoLabel \notin Labels
  /\ Values \subseteq Nat /\ 0 \in Values
  /\ \A p \in Programs : Mir!WellFormedProgram(p)

Init ==
  /\ program \in Programs
  /\ fn = 1
  /\ text = [f \in Functions |-> <<>>]
  /\ dead = FALSE
  /\ running = 0
  /\ mirLabel = NoLabel
  /\ place = 0
  /\ reg = 0

------------------------------------------------------------------------------
(* The translation: out_insn for each insn of each function.                  *)

Translating == fn \in Functions
Position == Len(text[fn]) + 1
InsnAt == program[fn][Position]
Finds(op) == Translating /\ Position <= Len(program[fn]) /\ InsnAt.op = op

Emit(op) ==
  /\ text' = [text EXCEPT ![fn] = Append(@, [op |-> op, labels |-> InsnAt.labels])]
  /\ UNCHANGED <<program, fn, method>>

TranslateWork == Finds("work") /\ Emit("statement") /\ UNCHANGED dead

TranslateLabel == Finds("label") /\ Emit("case") /\ dead' = FALSE

TranslateJump ==
  /\ Finds("jmp")
  /\ Emit(IF dead THEN "comment" ELSE "goto")
  /\ dead' = TRUE

TranslateBranch ==
  /\ \/ Finds("bt") /\ Emit("if true")
     \/ Finds("bf") /\ Emit("if false")
  /\ UNCHANGED dead

TranslateSwitch == Finds("switch") /\ Emit("select") /\ UNCHANGED dead

(* Mutant: what follows a return is not taken for dead. *)
TranslateReturnAlive == Finds("ret") /\ Emit("return") /\ UNCHANGED dead

TranslateReturn == Finds("ret") /\ Emit("return") /\ dead' = TRUE

(* Mutant: the flag is not reset. *)
EndFunctionDead ==
  /\ Translating /\ Position > Len(program[fn])
  /\ fn' = fn + 1
  /\ UNCHANGED <<program, text, dead, method>>

EndFunction ==
  /\ Translating /\ Position > Len(program[fn])
  /\ fn' = fn + 1
  /\ dead' = FALSE
  /\ UNCHANGED <<program, text, method>>

Translate ==
  \/ TranslateWork \/ TranslateLabel \/ TranslateJump \/ TranslateBranch
  \/ TranslateSwitch \/ TranslateReturn \/ EndFunction

------------------------------------------------------------------------------
(* The Java program runs.                                                     *)

Body == text[running]
Statement == Body[place]

(* Whether the function has labels, and with them a loop around it. *)
Loops(f) == \E i \in 1 .. Len(program[f]) : program[f][i].op = "label"

At(op) ==
  /\ running # 0
  /\ place \in 1 .. Len(Body)
  /\ Statement.op = op

GoOn == place' = place + 1 /\ UNCHANGED <<program, translator, running, mirLabel, reg>>

(* mir_label = l; break; *)
Goto(l) ==
  /\ mirLabel' = l
  /\ place' = 0
  /\ UNCHANGED <<program, translator, running, reg>>

Call ==
  /\ ~Translating
  /\ running = 0
  /\ running' \in Functions
  /\ mirLabel' = NoLabel
  /\ place' = IF Loops(running') THEN 0 ELSE 1
  /\ UNCHANGED <<program, translator, reg>>

Cases(l) == {i \in 1 .. Len(Body) : Body[i].op = "case" /\ Body[i].labels[1] = l}

(* Where switch (mir_label) leads: "case -1" stands before the first insn; a     *)
(* label without a case makes the loop begin anew.                             *)
Entries ==
  IF mirLabel = NoLabel THEN {1}
  ELSE IF Cases(mirLabel) = {} THEN {0}
  ELSE Cases(mirLabel)

Dispatch ==
  /\ running # 0 /\ place = 0
  /\ place' \in Entries
  /\ UNCHANGED <<program, translator, running, mirLabel, reg>>

Work ==
  /\ At("statement")
  /\ place' = place + 1
  /\ reg' \in Values
  /\ UNCHANGED <<program, translator, running, mirLabel>>

(* Neither a case nor a comment does anything. *)
Case == (\E op \in {"case", "comment"} : At(op)) /\ GoOn

Jump == At("goto") /\ Goto(Statement.labels[1])

If ==
  \/ At("if true") /\ IF reg # 0 THEN Goto(Statement.labels[1]) ELSE GoOn
  \/ At("if false") /\ IF reg = 0 THEN Goto(Statement.labels[1]) ELSE GoOn

Select == At("select") /\ Goto(Statement.labels[reg + 1])

Leave ==
  /\ running' = 0
  /\ place' = 0
  /\ mirLabel' = NoLabel
  /\ UNCHANGED <<program, translator, reg>>

Return == At("return") /\ Leave

(* There is no step behind the last statement: it is a return or break (TypeOK). *)
Execute == Dispatch \/ Work \/ Case \/ Jump \/ If \/ Select \/ Return

Next == Translate \/ Call \/ Execute

Spec == Init /\ [][Next]_vars
FairSpec == Spec /\ WF_vars(Execute)

------------------------------------------------------------------------------
(* The type invariant. *)
TypeOK ==
  /\ Mir!WellFormedProgram(program)
  /\ fn \in 1 .. Len(program) + 1
  /\ text \in [Functions -> Seq(Statements)]
  /\ \A f \in Functions : f < fn => Len(text[f]) = Len(program[f])
  /\ dead \in BOOLEAN
  /\ running \in 0 .. Len(program)
  /\ mirLabel \in Labels \cup {NoLabel}
  /\ place \in Nat
  /\ running # 0 => place <= Len(Body)
  /\ reg \in Values

(* The Java program goes the way of the MIR function: the same insns in the     *)
(* same order, and it never stops or spins where MIR would go on.               *)
ImplementsMir == Mir!FairSpec

(* An insn that no path reaches without a label: behind a jump or return.      *)
Unreachable(func, i) ==
  \E j \in 1 .. i - 1 :
    /\ func[j].op \in {"jmp", "ret"}
    /\ \A k \in j + 1 .. i : func[k].op # "label"

(* What mir2j relies on: only jumps are left where nothing leads, and a switch  *)
(* is followed by a label.                                                    *)
Neat(func) ==
  \A i \in 1 .. Len(func) :
    /\ Unreachable(func, i) => func[i].op = "jmp"
    /\ i > 1 /\ func[i - 1].op = "switch" => func[i].op = "label"

(* Java compiles the text: no statement stands where it cannot be reached, that *)
(* is behind a break or return with at most comments between (mir2j.c:12: "This  *)
(* flag prevents jump after a return statement").                              *)
Compiles ==
  \A f \in Functions : f < fn /\ Neat(program[f]) =>
    \A i, j \in 1 .. Len(text[f]) :
      /\ i < j
      /\ text[f][i].op \in {"goto", "select", "return"}
      /\ \A k \in i + 1 .. j - 1 : text[f][k].op = "comment"
      => text[f][j].op \in {"case", "comment"}
==============================================================================
