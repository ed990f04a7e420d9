---------------------------- MODULE Mir2j_proofs ----------------------------
(****************************************************************************)
(* The translator mir2j. For every program of well-formed MIR functions: its    *)
(* Java text goes the way of the MIR code, and Java compiles it (JavaFlow). And *)
(* for any number of modules and names: in a tidy program all items have Java   *)
(* names of their own, and references become the names of what they mean       *)
(* (Symbols).                                                                 *)
(****************************************************************************)
EXTENDS JavaFlow, Symbols, TLAPS

------------------------------------------------------------------------------
(* The control flow.                                                          *)

(* Position n of a function or the ones before it end a path, with no label     *)
(* since: the value is_in_dead_code has then.                                  *)
Behind(func, n) ==
  \E j \in 1 .. n :
    /\ func[j].op \in {"jmp", "ret"}
    /\ \A k \in j + 1 .. n : func[k].op # "label"

(* What the insn at position i becomes. *)
Turns(op, func, i) ==
  \/ op = "statement" /\ func[i].op = "work"
  \/ op = "case" /\ func[i].op = "label"
  \/ op = "goto" /\ func[i].op = "jmp" /\ ~Unreachable(func, i)
  \/ op = "comment" /\ func[i].op = "jmp" /\ Unreachable(func, i)
  \/ op = "if true" /\ func[i].op = "bt"
  \/ op = "if false" /\ func[i].op = "bf"
  \/ op = "select" /\ func[i].op = "switch"
  \/ op = "return" /\ func[i].op = "ret"

Translated(f, i) ==
  /\ text[f][i].labels = program[f][i].labels
  /\ Turns(text[f][i].op, program[f], i)

TextOf(f) ==
  /\ Len(text[f]) <= Len(program[f])
  /\ f > fn => text[f] = <<>>
  /\ \A i \in 1 .. Len(text[f]) : Translated(f, i)

TextInv == \A f \in Functions : TextOf(f)

DeadInv == IF fn \in Functions THEN dead <=> Behind(program[fn], Len(text[fn])) ELSE ~dead

HasLabel(func, l) == \E i \in 1 .. Len(func) : func[i].op = "label" /\ func[i].labels[1] = l

(* A method runs when all is translated; it is where MIR code may be, and its   *)
(* label is one of the function's.                                            *)
MethodInv ==
  running # 0 =>
    /\ fn \notin Functions
    /\ place <= Len(program[running])
    /\ place # 0 => ~Unreachable(program[running], place)
    /\ mirLabel # NoLabel => HasLabel(program[running], mirLabel)

FlowInv == TypeOK /\ TextInv /\ DeadInv /\ MethodInv

------------------------------------------------------------------------------
(* Facts about one function.                                                  *)

(* The end of paths, one insn further. *)
LEMMA BehindStep ==
  ASSUME NEW func, NEW n \in Nat
  PROVE  /\ func[n + 1].op = "label" => ~Behind(func, n + 1)
         /\ func[n + 1].op \in {"jmp", "ret"} => Behind(func, n + 1)
         /\ func[n + 1].op \notin {"label", "jmp", "ret"} => (Behind(func, n + 1) <=> Behind(func, n))
<1>1. func[n + 1].op = "label" => ~Behind(func, n + 1)
  BY DEF Behind
<1>2. func[n + 1].op \in {"jmp", "ret"} => Behind(func, n + 1)
  BY DEF Behind
<1>3. ASSUME func[n + 1].op \notin {"label", "jmp", "ret"}, Behind(func, n)
      PROVE  Behind(func, n + 1)
  BY <1>3 DEF Behind
<1>4. ASSUME func[n + 1].op \notin {"label", "jmp", "ret"}, Behind(func, n + 1)
      PROVE  Behind(func, n)
  BY <1>4 DEF Behind
<1>5. QED BY <1>1, <1>2, <1>3, <1>4

(* No path leads to an insn without a label behind the end of a path. *)
LEMMA BehindIsUnreachable ==
  ASSUME NEW func, NEW n \in Nat, func[n + 1].op # "label"
  PROVE  Behind(func, n) <=> Unreachable(func, n + 1)
<1>1. n + 1 - 1 = n
  OBVIOUS
<1>2. Behind(func, n) => Unreachable(func, n + 1)
  BY <1>1 DEF Behind, Unreachable
<1>3. Unreachable(func, n + 1) => Behind(func, n)
  BY <1>1 DEF Behind, Unreachable
<1>4. QED BY <1>2, <1>3

LEMMA FirstReachable == ASSUME NEW func PROVE ~Unreachable(func, 1)
BY DEF Unreachable

LEMMA LabelReachable ==
  ASSUME NEW func, NEW i \in Nat, i > 0, func[i].op = "label"
  PROVE  ~Unreachable(func, i)
BY DEF Unreachable

(* Going on from a place that can be reached leads to one. *)
LEMMA GoingOnReachable ==
  ASSUME NEW func, NEW i \in Nat, i > 0, ~Unreachable(func, i), func[i].op \notin {"jmp", "ret"}
  PROVE  ~Unreachable(func, i + 1)
<1>1. SUFFICES ASSUME Unreachable(func, i + 1) PROVE FALSE
  OBVIOUS
<1>2. PICK j \in 1 .. i : /\ func[j].op \in {"jmp", "ret"}
                          /\ \A k \in j + 1 .. i + 1 : func[k].op # "label"
  BY <1>1 DEF Unreachable
<1>3. j \in 1 .. i - 1
  BY <1>2
<1>4. \A k \in j + 1 .. i : func[k].op # "label"
  BY <1>2
<1>5. QED BY <1>2, <1>3, <1>4 DEF Unreachable

(* What well-formed programs have. *)
LEMMA FuncFacts ==
  ASSUME NEW p, Mir!WellFormedProgram(p), NEW f \in 1 .. Len(p)
  PROVE  /\ p[f] \in Seq(Mir!Insns)
         /\ Len(p[f]) \in Nat \ {0}
         /\ p[f][Len(p[f])].op \in {"ret", "jmp"}
         /\ \A i \in 1 .. Len(p[f]) : p[f][i].op \in Mir!Ops /\ p[f][i].labels \in Seq(Labels)
<1>1. p[f] \in Seq(Mir!Insns) /\ Mir!WellFormed(p[f])
  BY DEF Mir!WellFormedProgram
<1>2. \A i \in 1 .. Len(p[f]) : p[f][i] \in Mir!Insns
  BY <1>1
<1>3. QED BY <1>1, <1>2 DEF Mir!WellFormed, Mir!Insns

LEMMA LabelFacts ==
  ASSUME NEW p, Mir!WellFormedProgram(p), NEW f \in 1 .. Len(p), NEW l \in Labels,
         NEW i \in 1 .. Len(p[f]), p[f][i].op = "label", p[f][i].labels[1] = l
  PROVE  LabelAt(p[f], l) = i /\ Mir!Target(p[f], l) = i
<1>1. \A j \in 1 .. Len(p[f]) : p[f][j].op = "label" /\ p[f][j].labels[1] = l => j = i
  BY DEF Mir!WellFormedProgram, Mir!WellFormed, Mir!IsLabel, Mir!Positions
<1>2. LabelAt(p[f], l) = i
  BY <1>1 DEF LabelAt
<1>3. Mir!Target(p[f], l) = i
  BY <1>1 DEF Mir!Target, Mir!IsLabel, Mir!Positions
<1>4. QED BY <1>2, <1>3

LEMMA TargetFacts ==
  ASSUME NEW p, Mir!WellFormedProgram(p), NEW f \in 1 .. Len(p), NEW i \in 1 .. Len(p[f]),
         NEW k \in 1 .. Len(p[f][i].labels)
  PROVE  /\ p[f][i].labels[k] \in Labels
         /\ HasLabel(p[f], p[f][i].labels[k])
         /\ LabelAt(p[f], p[f][i].labels[k]) = Mir!Target(p[f], p[f][i].labels[k])
<1> DEFINE l == p[f][i].labels[k]
<1>1. l \in Labels
  BY FuncFacts
<1>2. PICK j \in 1 .. Len(p[f]) : p[f][j].op = "label" /\ p[f][j].labels[1] = l
  BY DEF Mir!WellFormedProgram, Mir!WellFormed, Mir!IsLabel, Mir!Positions
<1>3. HasLabel(p[f], l)
  BY <1>2 DEF HasLabel
<1>4. LabelAt(p[f], l) = j /\ Mir!Target(p[f], l) = j
  BY <1>1, <1>2, LabelFacts
<1>5. QED BY <1>1, <1>3, <1>4

(* A jump or branch has one target, and a switch one for every value. *)
LEMMA TargetsThere ==
  ASSUME NEW p, Mir!WellFormedProgram(p), NEW f \in 1 .. Len(p), NEW i \in 1 .. Len(p[f])
  PROVE  /\ p[f][i].op \in {"label", "jmp", "bt", "bf"} => 1 \in 1 .. Len(p[f][i].labels)
         /\ p[f][i].op = "switch" => \A v \in Values : v + 1 \in 1 .. Len(p[f][i].labels)
<1>1. Mir!WellFormed(p[f])
  BY DEF Mir!WellFormedProgram
<1>2. p[f][i].op \in {"label", "jmp", "bt", "bf"} => Len(p[f][i].labels) = 1
  BY <1>1 DEF Mir!WellFormed, Mir!Positions
<1>3. p[f][i].op = "switch" => \A v \in Values : v + 1 \in 1 .. Len(p[f][i].labels)
  BY <1>1 DEF Mir!WellFormed, Mir!Positions
<1>4. ASSUME p[f][i].op \in {"label", "jmp", "bt", "bf"}
      PROVE  1 \in 1 .. Len(p[f][i].labels)
  <2>1. Len(p[f][i].labels) = 1
    BY <1>2, <1>4
  <2>2. QED BY <2>1
<1>5. QED BY <1>3, <1>4
------------------------------------------------------------------------------
(* The inductive invariant.                                                   *)

LEMMA FlowInit == Init => FlowInv
<1> SUFFICES ASSUME Init PROVE FlowInv
  OBVIOUS
<1>1. Mir!WellFormedProgram(program) /\ 0 \in Values
  BY FlowAssumption DEF Init
<1>2. Len(program) \in Nat /\ \A f \in Functions : text[f] = <<>>
  BY <1>1 DEF Init, Functions, Mir!WellFormedProgram
<1>3. TypeOK
  <2>1. <<>> \in Seq(Statements)
    OBVIOUS
  <2>2. text \in [Functions -> Seq(Statements)]
    BY <2>1 DEF Init
  <2>3. \A f \in Functions : ~(f < fn)
    BY <1>2 DEF Init, Functions
  <2>4. fn \in 1 .. Len(program) + 1 /\ running \in 0 .. Len(program)
    BY <1>2 DEF Init
  <2>5. QED BY <1>1, <2>2, <2>3, <2>4 DEF Init, TypeOK
<1>4. TextInv
  <2> SUFFICES ASSUME NEW f \in Functions PROVE TextOf(f)
    BY DEF TextInv
  <2>1. text[f] = <<>> /\ Len(text[f]) = 0
    BY <1>2
  <2>2. Len(program[f]) \in Nat
    BY <1>1, FuncFacts DEF Functions
  <2>3. QED BY <2>1, <2>2 DEF TextOf
<1>5. DeadInv
  <2>1. \A func : ~Behind(func, 0)
    BY DEF Behind
  <2>2. fn \in Functions => Len(text[fn]) = 0
    BY <1>2
  <2>3. QED BY <2>1, <2>2 DEF DeadInv, Init
<1>6. MethodInv
  BY DEF MethodInv, Init
<1>7. QED BY <1>3, <1>4, <1>5, <1>6 DEF FlowInv

(* Facts about the function that is being translated. *)
LEMMA TranslatingFacts ==
  ASSUME FlowInv, Translating
  PROVE  /\ fn \in Functions /\ fn \in Nat /\ Len(program) \in Nat
         /\ text[fn] \in Seq(Statements) /\ Len(text[fn]) \in Nat
         /\ Len(program[fn]) \in Nat /\ Len(text[fn]) <= Len(program[fn])
         /\ running = 0
         /\ dead <=> Behind(program[fn], Len(text[fn]))
<1>1. fn \in Functions /\ Len(program) \in Nat
  BY DEF FlowInv, TypeOK, Translating, Mir!WellFormedProgram
<1>2. fn \in Nat
  BY <1>1 DEF Functions
<1>3. text[fn] \in Seq(Statements) /\ Len(text[fn]) \in Nat
  BY <1>1 DEF FlowInv, TypeOK
<1>4. Len(program[fn]) \in Nat
  BY <1>1, FuncFacts DEF FlowInv, TypeOK, Functions
<1>5. Len(text[fn]) <= Len(program[fn])
  BY <1>1 DEF FlowInv, TextInv, TextOf
<1>6. running = 0
  BY <1>1 DEF FlowInv, MethodInv
<1>7. dead <=> Behind(program[fn], Len(text[fn]))
  BY <1>1 DEF FlowInv, DeadInv
<1>8. QED BY <1>1, <1>2, <1>3, <1>4, <1>5, <1>6, <1>7

(* One more statement, if it is what the insn turns into and the flag is right. *)
LEMMA EmitKeeps ==
  ASSUME FlowInv, Translating, Position <= Len(program[fn]), NEW op \in JavaOps, Emit(op),
         Turns(op, program[fn], Position),
         dead' \in BOOLEAN, dead' <=> Behind(program[fn], Position)
  PROVE  FlowInv'
<1> DEFINE s == [op |-> op, labels |-> InsnAt.labels]
<1>1. /\ fn \in Functions /\ fn \in Nat /\ Len(program) \in Nat
      /\ text[fn] \in Seq(Statements) /\ Len(text[fn]) \in Nat
      /\ Len(program[fn]) \in Nat /\ running = 0
  BY TranslatingFacts
<1>2. Position \in 1 .. Len(program[fn])
  BY <1>1 DEF Position
<1>3. s \in Statements
  BY <1>1, <1>2, FuncFacts DEF Statements, FlowInv, TypeOK, Functions, InsnAt
<1>4. UNCHANGED <<program, fn, method>>
  BY DEF Emit
<1>5. text' = [text EXCEPT ![fn] = Append(text[fn], s)]
  BY DEF Emit
<1>6. text \in [Functions -> Seq(Statements)]
  BY DEF FlowInv, TypeOK
<1>7. text'[fn] = Append(text[fn], s) /\ \A f \in Functions : f # fn => text'[f] = text[f]
  BY <1>1, <1>5, <1>6
<1>8. /\ Append(text[fn], s) \in Seq(Statements)
      /\ Len(Append(text[fn], s)) = Position
      /\ Append(text[fn], s)[Position] = s
      /\ \A i \in 1 .. Len(text[fn]) : Append(text[fn], s)[i] = text[fn][i]
  BY <1>1, <1>3 DEF Position
<1>9. TypeOK'
  <2>1. text' \in [Functions -> Seq(Statements)]
    BY <1>1, <1>5, <1>6, <1>8
  <2>2. \A f \in Functions : f < fn => Len(text'[f]) = Len(program[f])
    BY <1>1, <1>7 DEF FlowInv, TypeOK, Functions
  <2>3. QED
    BY <1>1, <1>4, <2>1, <2>2 DEF FlowInv, TypeOK, Functions, method, Body
<1>10. TextInv'
  <2> SUFFICES ASSUME NEW f \in Functions PROVE TextOf(f)'
    BY <1>4 DEF TextInv, Functions
  <2>1. CASE f # fn
    <3>1. TextOf(f) /\ text'[f] = text[f]
      BY <1>7, <2>1 DEF FlowInv, TextInv
    <3>2. QED BY <1>4, <3>1 DEF TextOf, Translated
  <2>2. CASE f = fn
    <3>1. Len(text'[fn]) = Position
      BY <1>7, <1>8
    <3>2. ASSUME NEW i \in 1 .. Position PROVE Translated(fn, i)'
      <4>1. CASE i = Position
        <5>1. text'[fn][i] = s
          BY <1>7, <1>8, <4>1
        <5>2. s.op = op /\ s.labels = program[fn][i].labels
          BY <4>1 DEF InsnAt
        <5>3. QED BY <1>4, <4>1, <5>1, <5>2 DEF Translated
      <4>2. CASE i # Position
        <5>1. i \in 1 .. Len(text[fn])
          BY <1>1, <4>2 DEF Position
        <5>2. text'[fn][i] = text[fn][i]
          BY <1>7, <1>8, <5>1
        <5>3. Translated(fn, i)
          BY <1>1, <5>1 DEF FlowInv, TextInv, TextOf
        <5>4. QED BY <1>4, <5>2, <5>3 DEF Translated
      <4>3. QED BY <4>1, <4>2
    <3>3. \A i \in 1 .. Len(text'[fn]) : Translated(fn, i)'
      BY <3>1, <3>2
    <3>4. Len(text'[fn]) <= Len(program[fn])
      BY <1>2, <3>1
    <3>5. QED BY <1>1, <1>4, <2>2, <3>3, <3>4 DEF TextOf
  <2>3. QED BY <2>1, <2>2
<1>11. DeadInv'
  <2>1. Len(text'[fn]) = Position
    BY <1>7, <1>8
  <2>2. QED BY <1>1, <1>4, <2>1 DEF DeadInv, Functions
<1>12. MethodInv'
  BY <1>1, <1>4 DEF MethodInv, method
<1>13. QED BY <1>9, <1>10, <1>11, <1>12 DEF FlowInv

(* Every insn is translated, and the flag kept, so that this goes on. *)
LEMMA TranslateKeeps == FlowInv /\ Translate => FlowInv'
<1> SUFFICES ASSUME FlowInv, Translate PROVE FlowInv'
  OBVIOUS
<1> DEFINE func == program[fn]
           n == Len(text[fn])
<1>0. Translating
  BY DEF Translate, TranslateWork, TranslateLabel, TranslateJump, TranslateBranch,
         TranslateSwitch, TranslateReturn, EndFunction, Finds
<1>1. n \in Nat /\ Position = n + 1 /\ dead \in BOOLEAN /\ (dead <=> Behind(func, n))
  BY <1>0, TranslatingFacts DEF Position, FlowInv, TypeOK
<1>2. /\ func[n + 1].op = "label" => ~Behind(func, n + 1)
      /\ func[n + 1].op \in {"jmp", "ret"} => Behind(func, n + 1)
      /\ func[n + 1].op \notin {"label", "jmp", "ret"} => (Behind(func, n + 1) <=> Behind(func, n))
  BY <1>1, BehindStep
<1>3. func[n + 1].op # "label" => (Behind(func, n) <=> Unreachable(func, n + 1))
  BY <1>1, BehindIsUnreachable
<1>4. InsnAt = func[n + 1]
  BY <1>1 DEF InsnAt
<1>5. CASE TranslateWork
  <2>1. Finds("work") /\ Emit("statement") /\ dead' = dead
    BY <1>5 DEF TranslateWork
  <2>2. Position <= Len(program[fn]) /\ func[n + 1].op = "work"
    BY <2>1, <1>4 DEF Finds
  <2>3. Turns("statement", program[fn], Position) /\ (dead' <=> Behind(program[fn], Position))
    BY <2>1, <2>2, <1>1, <1>2 DEF Turns
  <2>4. "statement" \in JavaOps /\ dead' \in BOOLEAN
    BY <2>1, <1>1 DEF JavaOps
  <2>5. QED BY <1>0, <2>1, <2>2, <2>3, <2>4, EmitKeeps
<1>6. CASE TranslateLabel
  <2>1. Finds("label") /\ Emit("case") /\ dead' = FALSE
    BY <1>6 DEF TranslateLabel
  <2>2. Position <= Len(program[fn]) /\ func[n + 1].op = "label"
    BY <2>1, <1>4 DEF Finds
  <2>3. Turns("case", program[fn], Position) /\ (dead' <=> Behind(program[fn], Position))
    BY <2>1, <2>2, <1>1, <1>2 DEF Turns
  <2>4. "case" \in JavaOps /\ dead' \in BOOLEAN
    BY <2>1 DEF JavaOps
  <2>5. QED BY <1>0, <2>1, <2>2, <2>3, <2>4, EmitKeeps
<1>7. CASE TranslateJump
  <2>1. Finds("jmp") /\ Emit(IF dead THEN "comment" ELSE "goto") /\ dead' = TRUE
    BY <1>7 DEF TranslateJump
  <2>2. Position <= Len(program[fn]) /\ func[n + 1].op = "jmp"
    BY <2>1, <1>4 DEF Finds
  <2>3. Turns(IF dead THEN "comment" ELSE "goto", program[fn], Position)
    BY <2>2, <1>1, <1>3 DEF Turns
  <2>4. dead' <=> Behind(program[fn], Position)
    BY <2>1, <2>2, <1>1, <1>2
  <2>5. (IF dead THEN "comment" ELSE "goto") \in JavaOps /\ dead' \in BOOLEAN
    BY <2>1 DEF JavaOps
  <2>6. QED BY <1>0, <2>1, <2>2, <2>3, <2>4, <2>5, EmitKeeps
<1>8. CASE TranslateBranch
  <2>1. CASE Finds("bt") /\ Emit("if true")
    <3>1. Position <= Len(program[fn]) /\ func[n + 1].op = "bt"
      BY <2>1, <1>4 DEF Finds
    <3>2. dead' = dead
      BY <1>8 DEF TranslateBranch
    <3>3. Turns("if true", program[fn], Position) /\ (dead' <=> Behind(program[fn], Position))
      BY <3>1, <3>2, <1>1, <1>2 DEF Turns
    <3>4. "if true" \in JavaOps /\ dead' \in BOOLEAN
      BY <3>2, <1>1 DEF JavaOps
    <3>5. QED BY <1>0, <2>1, <3>1, <3>3, <3>4, EmitKeeps
  <2>2. CASE Finds("bf") /\ Emit("if false")
    <3>1. Position <= Len(program[fn]) /\ func[n + 1].op = "bf"
      BY <2>2, <1>4 DEF Finds
    <3>2. dead' = dead
      BY <1>8 DEF TranslateBranch
    <3>3. Turns("if false", program[fn], Position) /\ (dead' <=> Behind(program[fn], Position))
      BY <3>1, <3>2, <1>1, <1>2 DEF Turns
    <3>4. "if false" \in JavaOps /\ dead' \in BOOLEAN
      BY <3>2, <1>1 DEF JavaOps
    <3>5. QED BY <1>0, <2>2, <3>1, <3>3, <3>4, EmitKeeps
  <2>3. QED BY <1>8, <2>1, <2>2 DEF TranslateBranch
<1>9. CASE TranslateSwitch
  <2>1. Finds("switch") /\ Emit("select") /\ dead' = dead
    BY <1>9 DEF TranslateSwitch
  <2>2. Position <= Len(program[fn]) /\ func[n + 1].op = "switch"
    BY <2>1, <1>4 DEF Finds
  <2>3. Turns("select", program[fn], Position) /\ (dead' <=> Behind(program[fn], Position))
    BY <2>1, <2>2, <1>1, <1>2 DEF Turns
  <2>4. "select" \in JavaOps /\ dead' \in BOOLEAN
    BY <2>1, <1>1 DEF JavaOps
  <2>5. QED BY <1>0, <2>1, <2>2, <2>3, <2>4, EmitKeeps
<1>10. CASE TranslateReturn
  <2>1. Finds("ret") /\ Emit("return") /\ dead' = TRUE
    BY <1>10 DEF TranslateReturn
  <2>2. Position <= Len(program[fn]) /\ func[n + 1].op = "ret"
    BY <2>1, <1>4 DEF Finds
  <2>3. Turns("return", program[fn], Position) /\ (dead' <=> Behind(program[fn], Position))
    BY <2>1, <2>2, <1>1, <1>2 DEF Turns
  <2>4. "return" \in JavaOps /\ dead' \in BOOLEAN
    BY <2>1 DEF JavaOps
  <2>5. QED BY <1>0, <2>1, <2>2, <2>3, <2>4, EmitKeeps
<1>11. CASE EndFunction
  <2>1. /\ fn' = fn + 1 /\ dead' = FALSE
        /\ UNCHANGED <<program, text, running, mirLabel, place, reg>>
        /\ Position > Len(program[fn])
    BY <1>11 DEF EndFunction, method
  <2>2. /\ fn \in Functions /\ fn \in Nat /\ Len(program) \in Nat /\ running = 0
        /\ Len(program[fn]) \in Nat /\ n <= Len(program[fn])
    BY <1>0, TranslatingFacts
  <2>3. n = Len(program[fn])
    BY <2>1, <2>2, <1>1
  <2>4. TypeOK'
    <3>1. \A f \in Functions : f < fn + 1 => Len(text[f]) = Len(program[f])
      BY <2>2, <2>3 DEF FlowInv, TypeOK, Functions
    <3>2. fn + 1 \in 1 .. Len(program) + 1
      BY <2>2 DEF Functions
    <3>3. QED BY <2>1, <2>2, <3>1, <3>2 DEF FlowInv, TypeOK, Functions
  <2>5. TextInv'
    <3> SUFFICES ASSUME NEW f \in Functions PROVE TextOf(f)'
      BY <2>1 DEF TextInv, Functions
    <3>1. TextOf(f)
      BY DEF FlowInv, TextInv
    <3>2. f > fn + 1 => f > fn
      BY <2>2 DEF Functions
    <3>3. QED BY <2>1, <3>1, <3>2 DEF TextOf, Translated
  <2>6. DeadInv'
    <3>1. ASSUME fn + 1 \in Functions PROVE ~Behind(program[fn + 1], Len(text[fn + 1]))
      <4>1. text[fn + 1] = <<>>
        BY <2>2, <3>1 DEF FlowInv, TextInv, TextOf
      <4>2. QED BY <4>1 DEF Behind
    <3>2. QED BY <2>1, <3>1 DEF DeadInv, Functions
  <2>7. MethodInv'
    BY <2>1, <2>2 DEF MethodInv
  <2>8. QED BY <2>4, <2>5, <2>6, <2>7 DEF FlowInv
<1>12. QED BY <1>5, <1>6, <1>7, <1>8, <1>9, <1>10, <1>11 DEF Translate
------------------------------------------------------------------------------
(* The method that runs.                                                      *)

LEMMA RunningFacts ==
  ASSUME FlowInv, running # 0
  PROVE  /\ Mir!WellFormedProgram(program)
         /\ running \in 1 .. Len(program) /\ Len(program) \in Nat
         /\ Len(Body) = Len(program[running]) /\ Len(Body) \in Nat \ {0}
         /\ program[running][Len(Body)].op \in {"ret", "jmp"}
         /\ place \in 0 .. Len(Body)
         /\ \A i \in 1 .. Len(Body) : Translated(running, i)
<1>1. Mir!WellFormedProgram(program) /\ running \in 1 .. Len(program) /\ Len(program) \in Nat
  BY DEF FlowInv, TypeOK, Mir!WellFormedProgram
<1>2. fn \notin Functions /\ fn \in 1 .. Len(program) + 1
  BY DEF FlowInv, MethodInv, TypeOK
<1>3. fn = Len(program) + 1
  BY <1>1, <1>2 DEF Functions
<1>4. Len(Body) = Len(program[running])
  BY <1>1, <1>3 DEF FlowInv, TypeOK, Functions, Body
<1>5. Len(Body) \in Nat \ {0} /\ program[running][Len(Body)].op \in {"ret", "jmp"}
  BY <1>1, <1>4, FuncFacts
<1>6. place \in 0 .. Len(Body)
  BY <1>4, <1>5 DEF FlowInv, TypeOK, MethodInv
<1>7. \A i \in 1 .. Len(Body) : Translated(running, i)
  BY <1>1 DEF FlowInv, TextInv, TextOf, Functions, Body
<1>8. QED BY <1>1, <1>4, <1>5, <1>6, <1>7

(* The insn behind the statement that is executed. *)
LEMMA AtFacts ==
  ASSUME FlowInv, NEW op, At(op)
  PROVE  /\ running # 0 /\ place \in 1 .. Len(Body) /\ place # 0
         /\ Statement.labels = program[running][place].labels
         /\ Turns(op, program[running], place)
         /\ ~Unreachable(program[running], place)
<1>1. running # 0 /\ place \in 1 .. Len(Body) /\ Statement.op = op
  BY DEF At
<1>2. place # 0
  BY <1>1, RunningFacts
<1>3. Translated(running, place)
  BY <1>1, RunningFacts
<1>4. QED BY <1>1, <1>2, <1>3 DEF Translated, Statement, Body, FlowInv, MethodInv

LEMMA GoOnKeeps ==
  ASSUME FlowInv, running # 0, place \in 1 .. Len(Body),
         program[running][place].op \notin {"jmp", "ret"},
         ~Unreachable(program[running], place),
         place' = place + 1, reg' \in Values, UNCHANGED <<program, translator, running, mirLabel>>
  PROVE  FlowInv'
<1>1. /\ Len(Body) = Len(program[running]) /\ Len(Body) \in Nat
      /\ program[running][Len(Body)].op \in {"ret", "jmp"}
  BY RunningFacts
<1>2. place + 1 \in 1 .. Len(Body) /\ place \in Nat /\ place > 0
  BY <1>1
<1>3. ~Unreachable(program[running], place + 1)
  BY <1>2, GoingOnReachable
<1>4. UNCHANGED <<program, fn, text, dead, running, mirLabel>>
  BY DEF translator
<1>5. TypeOK'
  BY <1>1, <1>2, <1>4 DEF FlowInv, TypeOK, Functions, Body
<1>6. TextInv' /\ DeadInv'
  BY <1>4 DEF FlowInv, TextInv, TextOf, Translated, DeadInv, Functions
<1>7. MethodInv'
  BY <1>1, <1>2, <1>3, <1>4 DEF FlowInv, MethodInv, Functions
<1>8. QED BY <1>5, <1>6, <1>7 DEF FlowInv

LEMMA GotoKeeps ==
  ASSUME FlowInv, running # 0, NEW l \in Labels, HasLabel(program[running], l), Goto(l)
  PROVE  FlowInv'
<1>1. /\ UNCHANGED <<program, fn, text, dead, running, reg>>
      /\ mirLabel' = l /\ place' = 0
  BY DEF Goto, translator
<1>2. Len(Body) \in Nat /\ Len(program[running]) \in Nat
  BY RunningFacts
<1>3. TypeOK'
  BY <1>1, <1>2 DEF FlowInv, TypeOK, Functions, Body
<1>4. TextInv' /\ DeadInv'
  BY <1>1 DEF FlowInv, TextInv, TextOf, Translated, DeadInv, Functions
<1>5. MethodInv'
  BY <1>1, <1>2 DEF FlowInv, MethodInv, Functions
<1>6. QED BY <1>3, <1>4, <1>5 DEF FlowInv

(* The targets of jumps, branches and switches that are executed. *)
LEMMA TargetAt ==
  ASSUME FlowInv, NEW op \in {"goto", "if true", "if false", "select"}, At(op),
         NEW k, k = IF op = "select" THEN reg + 1 ELSE 1
  PROVE  /\ Statement.labels[k] \in Labels
         /\ HasLabel(program[running], Statement.labels[k])
         /\ Statement.labels[k] = program[running][place].labels[k]
         /\ LabelAt(program[running], Statement.labels[k])
              = Mir!Target(program[running], Statement.labels[k])
<1>1. /\ running \in 1 .. Len(program) /\ Mir!WellFormedProgram(program)
      /\ place \in 1 .. Len(program[running])
  BY AtFacts, RunningFacts
<1>2. /\ Statement.labels = program[running][place].labels
      /\ Turns(op, program[running], place)
  BY AtFacts
<1>3. reg \in Values
  BY DEF FlowInv, TypeOK
<1>4. k \in 1 .. Len(program[running][place].labels)
  BY <1>1, <1>2, <1>3, TargetsThere DEF Turns
<1>5. /\ program[running][place].labels[k] \in Labels
      /\ HasLabel(program[running], program[running][place].labels[k])
      /\ LabelAt(program[running], program[running][place].labels[k])
           = Mir!Target(program[running], program[running][place].labels[k])
  BY <1>1, <1>4, TargetFacts
<1>6. Statement.labels[k] = program[running][place].labels[k]
  BY <1>2
<1>7. QED BY <1>5, <1>6

(* At the head of the loop there is a case to go to. *)
LEMMA DispatchFacts ==
  ASSUME FlowInv, Dispatch
  PROVE  /\ running # 0 /\ place = 0
         /\ UNCHANGED <<program, fn, text, dead, running, mirLabel, reg>>
         /\ place' \in 1 .. Len(Body)
         /\ ~Unreachable(program[running], place')
         /\ place' = IF mirLabel = NoLabel THEN 1 ELSE LabelAt(program[running], mirLabel)
<1>1. /\ running # 0 /\ place = 0
      /\ UNCHANGED <<program, fn, text, dead, running, mirLabel, reg>>
  BY DEF Dispatch, translator
<1>2. /\ Len(Body) \in Nat \ {0} /\ Len(Body) = Len(program[running])
      /\ running \in 1 .. Len(program) /\ Mir!WellFormedProgram(program)
      /\ \A i \in 1 .. Len(Body) : Translated(running, i)
  BY <1>1, RunningFacts
<1>3. CASE mirLabel = NoLabel /\ place' = 1
  BY <1>1, <1>2, <1>3, FirstReachable
<1>4. ASSUME NEW l, l = mirLabel, NEW i \in Cases(l)
      PROVE  /\ i \in 1 .. Len(Body) /\ program[running][i].op = "label"
             /\ program[running][i].labels[1] = l
  <2>1. i \in 1 .. Len(Body) /\ Body[i].op = "case" /\ Body[i].labels[1] = l
    BY <1>4 DEF Cases
  <2>2. Translated(running, i)
    BY <1>2, <2>1
  <2>3. QED BY <2>1, <2>2 DEF Translated, Turns, Body
<1>5. CASE mirLabel # NoLabel /\ place' \in Cases(mirLabel)
  <2>1. mirLabel \in Labels
    BY <1>5 DEF FlowInv, TypeOK
  <2>2. /\ place' \in 1 .. Len(Body) /\ program[running][place'].op = "label"
        /\ program[running][place'].labels[1] = mirLabel
    BY <1>4, <1>5
  <2>3. LabelAt(program[running], mirLabel) = place'
    BY <1>2, <2>1, <2>2, LabelFacts
  <2>4. place' \in Nat /\ place' > 0
    BY <1>2, <2>2
  <2>5. ~Unreachable(program[running], place')
    BY <2>2, <2>4, LabelReachable
  <2>6. QED BY <1>1, <1>5, <2>2, <2>3, <2>5
<1>7. CASE mirLabel # NoLabel /\ Cases(mirLabel) = {}
  <2>1. PICK i \in 1 .. Len(Body) : /\ program[running][i].op = "label"
                                    /\ program[running][i].labels[1] = mirLabel
    BY <1>1, <1>2, <1>7 DEF FlowInv, MethodInv, HasLabel
  <2>2. Translated(running, i)
    BY <1>2
  <2>3. i \in Cases(mirLabel)
    BY <2>1, <2>2 DEF Cases, Translated, Turns, Body
  <2>4. QED BY <1>7, <2>3
<1>8. place' \in Entries
  BY DEF Dispatch
<1>9. QED BY <1>3, <1>5, <1>7, <1>8 DEF Entries

LEMMA CallKeeps == FlowInv /\ Call => FlowInv'
<1> SUFFICES ASSUME FlowInv, Call PROVE FlowInv'
  OBVIOUS
<1>1. /\ running' \in Functions /\ fn \notin Functions
      /\ UNCHANGED <<program, fn, text, dead, reg>>
      /\ mirLabel' = NoLabel /\ place' \in {0, 1}
  BY DEF Call, Translating, translator
<1>2. Len(program) \in Nat /\ running' \in 1 .. Len(program)
  BY <1>1 DEF Functions, FlowInv, TypeOK, Mir!WellFormedProgram
<1>3. Len(program[running']) \in Nat \ {0}
  BY <1>2, FuncFacts DEF FlowInv, TypeOK
<1>4. Len(text[running']) \in Nat \ {0}
  <2>1. running' < fn
    BY <1>1, <1>2 DEF FlowInv, TypeOK, Functions
  <2>2. Len(text[running']) = Len(program[running'])
    BY <1>1, <2>1 DEF FlowInv, TypeOK
  <2>3. QED BY <1>3, <2>2
<1>5. TypeOK'
  BY <1>1, <1>2, <1>4 DEF FlowInv, TypeOK, Functions, Body
<1>6. TextInv' /\ DeadInv'
  BY <1>1 DEF FlowInv, TextInv, TextOf, Translated, DeadInv, Functions
<1>7. MethodInv'
  BY <1>1, <1>3, FirstReachable DEF MethodInv, Functions
<1>8. QED BY <1>5, <1>6, <1>7 DEF FlowInv

LEMMA LeaveKeeps == FlowInv /\ Leave => FlowInv'
<1> SUFFICES ASSUME FlowInv, Leave PROVE FlowInv'
  OBVIOUS
<1>1. /\ running' = 0 /\ place' = 0 /\ mirLabel' = NoLabel
      /\ UNCHANGED <<program, fn, text, dead, reg>>
  BY DEF Leave, translator
<1>2. 0 \in 0 .. Len(program)
  BY DEF FlowInv, TypeOK, Mir!WellFormedProgram
<1>3. TypeOK'
  BY <1>1, <1>2 DEF FlowInv, TypeOK, Functions
<1>4. TextInv' /\ DeadInv' /\ MethodInv'
  BY <1>1 DEF FlowInv, TextInv, TextOf, Translated, DeadInv, MethodInv, Functions
<1>5. QED BY <1>3, <1>4 DEF FlowInv

(* A comment is never come to: where a jump was left out no path leads. *)
LEMMA NoComment == FlowInv => ~At("comment")
<1> SUFFICES ASSUME FlowInv, At("comment") PROVE FALSE
  OBVIOUS
<1>1. Turns("comment", program[running], place) /\ ~Unreachable(program[running], place)
  BY AtFacts
<1>2. QED BY <1>1 DEF Turns

LEMMA ExecuteKeeps == FlowInv /\ Execute => FlowInv'
<1> SUFFICES ASSUME FlowInv, Execute PROVE FlowInv'
  OBVIOUS
<1>0. reg \in Values
  BY DEF FlowInv, TypeOK
<1>1. CASE Dispatch
  <2>1. /\ running # 0
        /\ UNCHANGED <<program, fn, text, dead, running, mirLabel, reg>>
        /\ place' \in 1 .. Len(Body)
        /\ ~Unreachable(program[running], place')
    BY <1>1, DispatchFacts
  <2>2. Len(Body) = Len(program[running]) /\ Len(Body) \in Nat
    BY <2>1, RunningFacts
  <2>3. TypeOK'
    BY <2>1, <2>2 DEF FlowInv, TypeOK, Functions, Body
  <2>4. TextInv' /\ DeadInv'
    BY <2>1 DEF FlowInv, TextInv, TextOf, Translated, DeadInv, Functions
  <2>5. MethodInv'
    BY <2>1, <2>2 DEF FlowInv, MethodInv, Functions
  <2>6. QED BY <2>3, <2>4, <2>5 DEF FlowInv
<1>2. CASE Work
  <2>1. /\ At("statement") /\ place' = place + 1 /\ reg' \in Values
        /\ UNCHANGED <<program, translator, running, mirLabel>>
    BY <1>2 DEF Work
  <2>2. /\ Turns("statement", program[running], place) /\ ~Unreachable(program[running], place)
        /\ running # 0 /\ place \in 1 .. Len(Body)
    BY <2>1, AtFacts
  <2>3. program[running][place].op = "work"
    BY <2>2 DEF Turns
  <2>4. QED BY <2>1, <2>2, <2>3, GoOnKeeps
<1>3. CASE Case
  <2>1. At("case") /\ GoOn
    BY <1>3, NoComment DEF Case
  <2>2. /\ Turns("case", program[running], place) /\ ~Unreachable(program[running], place)
        /\ running # 0 /\ place \in 1 .. Len(Body)
    BY <2>1, AtFacts
  <2>3. program[running][place].op = "label"
    BY <2>2 DEF Turns
  <2>4. place' = place + 1 /\ reg' \in Values /\ UNCHANGED <<program, translator, running, mirLabel>>
    BY <1>0, <2>1 DEF GoOn
  <2>5. QED BY <2>2, <2>3, <2>4, GoOnKeeps
<1>5. CASE Jump
  <2>1. At("goto") /\ Goto(Statement.labels[1])
    BY <1>5 DEF Jump
  <2>2. Statement.labels[1] \in Labels /\ HasLabel(program[running], Statement.labels[1])
    BY <2>1, TargetAt
  <2>3. running # 0
    BY <2>1 DEF At
  <2>4. QED BY <2>1, <2>2, <2>3, GotoKeeps
<1>6. CASE If
  <2>1. PICK op \in {"if true", "if false"} :
          At(op) /\ (Goto(Statement.labels[1]) \/ GoOn)
    BY <1>6 DEF If
  <2>2. CASE Goto(Statement.labels[1])
    <3>1. Statement.labels[1] \in Labels /\ HasLabel(program[running], Statement.labels[1])
      BY <2>1, TargetAt
    <3>2. running # 0
      BY <2>1 DEF At
    <3>3. QED BY <2>2, <3>1, <3>2, GotoKeeps
  <2>3. CASE GoOn
    <3>1. /\ Turns(op, program[running], place) /\ ~Unreachable(program[running], place)
          /\ running # 0 /\ place \in 1 .. Len(Body)
      BY <2>1, AtFacts
    <3>2. program[running][place].op \in {"bt", "bf"}
      BY <3>1 DEF Turns
    <3>3. /\ place' = place + 1 /\ reg' \in Values
          /\ UNCHANGED <<program, translator, running, mirLabel>>
      BY <1>0, <2>3 DEF GoOn
    <3>4. QED BY <3>1, <3>2, <3>3, GoOnKeeps
  <2>4. QED BY <2>1, <2>2, <2>3
<1>7. CASE Select
  <2>1. At("select") /\ Goto(Statement.labels[reg + 1])
    BY <1>7 DEF Select
  <2>2. Statement.labels[reg + 1] \in Labels /\ HasLabel(program[running], Statement.labels[reg + 1])
    BY <2>1, TargetAt
  <2>3. running # 0
    BY <2>1 DEF At
  <2>4. QED BY <2>1, <2>2, <2>3, GotoKeeps
<1>8. CASE Return
  BY <1>8, LeaveKeeps DEF Return
<1>9. QED BY <1>1, <1>2, <1>3, <1>5, <1>6, <1>7, <1>8 DEF Execute

LEMMA FlowNext == FlowInv /\ [Next]_vars => FlowInv'
<1> SUFFICES ASSUME FlowInv, [Next]_vars PROVE FlowInv'
  OBVIOUS
<1>1. CASE UNCHANGED vars
  <2>1. UNCHANGED <<program, fn, text, dead, running, mirLabel, place, reg>>
    BY <1>1 DEF vars, translator, method
  <2>2. TypeOK'
    BY <2>1 DEF FlowInv, TypeOK, Functions, Body
  <2>3. TextInv'
    BY <2>1 DEF FlowInv, TextInv, TextOf, Translated, Functions
  <2>4. DeadInv' /\ MethodInv'
    BY <2>1 DEF FlowInv, DeadInv, MethodInv, Functions
  <2>5. QED BY <2>2, <2>3, <2>4 DEF FlowInv
<1>2. CASE Next
  <2>1. Translate \/ Call \/ Execute
    BY <1>2 DEF Next
  <2>2. QED BY <2>1, TranslateKeeps, CallKeeps, ExecuteKeeps
<1>3. QED BY <1>1, <1>2

(* The inductive invariant of the translator and of the method that runs.      *)
THEOREM FlowInvariant == Spec => []FlowInv
BY FlowInit, FlowNext, PTL DEF Spec

(* The state is well-typed (mir2j.c: out_item).                               *)
THEOREM TypeCorrect == Spec => []TypeOK
<1>1. FlowInv => TypeOK
  BY DEF FlowInv
<1>2. QED BY <1>1, FlowInvariant, PTL
------------------------------------------------------------------------------
(* Java compiles the text.                                                    *)

(* Whatever is left out stands behind the end of a path, and what stands right  *)
(* behind one without a label is a jump that is left out.                      *)
LEMMA BehindEnd ==
  ASSUME NEW f \in Functions, FlowInv, f < fn, Neat(program[f]),
         NEW i \in 1 .. Len(text[f]), NEW j \in 1 .. Len(text[f]), i < j,
         text[f][i].op \in {"goto", "select", "return"},
         \A k \in i + 1 .. j - 1 : text[f][k].op = "comment"
  PROVE  text[f][j].op \in {"case", "comment"}
<1> DEFINE func == program[f]
<1>1. /\ \A k \in 1 .. Len(text[f]) : Turns(text[f][k].op, func, k)
      /\ Len(text[f]) = Len(func) /\ Len(func) \in Nat
  <2>1. \A k \in 1 .. Len(text[f]) : Translated(f, k)
    BY DEF FlowInv, TextInv, TextOf
  <2>2. Len(text[f]) = Len(func)
    BY DEF FlowInv, TypeOK
  <2>3. Len(func) \in Nat
    BY FuncFacts DEF FlowInv, TypeOK, Functions
  <2>4. QED BY <2>1, <2>2, <2>3 DEF Translated
<1>2. i \in Nat /\ j \in Nat /\ i > 0 /\ j - 1 \in Nat
  BY <1>1
<1>3. \A k \in i + 1 .. j - 1 : func[k].op = "jmp"
  <2> SUFFICES ASSUME NEW k \in i + 1 .. j - 1 PROVE func[k].op = "jmp"
    OBVIOUS
  <2>1. Turns("comment", func, k)
    BY <1>1, <1>2
  <2>2. QED BY <2>1 DEF Turns
<1>4. func[j].op = "label" => text[f][j].op = "case"
  <2>1. Turns(text[f][j].op, func, j)
    BY <1>1
  <2>2. QED BY <2>1 DEF Turns
<1>5. SUFFICES ASSUME func[j].op # "label" PROVE text[f][j].op = "comment"
  BY <1>4
<1>6. func[i].op \in {"jmp", "switch", "ret"}
  <2>1. Turns(text[f][i].op, func, i)
    BY <1>1
  <2>2. QED BY <2>1 DEF Turns
<1>7. func[i].op # "switch"
  <2>1. SUFFICES ASSUME func[i].op = "switch" PROVE FALSE
    OBVIOUS
  <2>2. i + 1 \in 1 .. Len(func) /\ i + 1 - 1 = i /\ i + 1 > 1
    BY <1>1, <1>2
  <2>3. func[i + 1].op = "label"
    BY <2>1, <2>2 DEF Neat
  <2>4. i + 1 = j \/ i + 1 \in i + 1 .. j - 1
    BY <1>2
  <2>5. QED BY <1>3, <1>5, <2>3, <2>4
<1>8. \A k \in i + 1 .. j : func[k].op # "label"
  <2> SUFFICES ASSUME NEW k \in i + 1 .. j PROVE func[k].op # "label"
    OBVIOUS
  <2>1. k = j \/ k \in i + 1 .. j - 1
    BY <1>2
  <2>2. QED BY <1>3, <1>5, <2>1
<1>9. Unreachable(func, j)
  <2>1. i \in 1 .. j - 1
    BY <1>2
  <2>2. func[i].op \in {"jmp", "ret"}
    BY <1>6, <1>7
  <2>3. QED BY <1>8, <2>1, <2>2 DEF Unreachable
<1>10. func[j].op = "jmp"
  <2>1. j \in 1 .. Len(func)
    BY <1>1
  <2>2. QED BY <1>9, <2>1 DEF Neat
<1>11. Turns(text[f][j].op, func, j)
  BY <1>1
<1>12. QED BY <1>9, <1>10, <1>11 DEF Turns

(* No statement of a neat function's text stands where Java cannot reach it     *)
(* (mir2j.c:12, out_jmp).                                                     *)
THEOREM TextCompiles == Spec => []Compiles
<1>1. FlowInv => Compiles
  BY BehindEnd DEF Compiles
<1>2. QED BY <1>1, FlowInvariant, PTL
------------------------------------------------------------------------------
(* The text goes the way of the MIR code.                                     *)

(* The MIR insn that comes next. *)
Pc == IF running = 0 THEN 0 ELSE NextInsn(program[running])

LEMMA MirInit == Init => Mir!Init
<1> SUFFICES ASSUME Init PROVE Mir!Init
  OBVIOUS
<1>1. Mir!WellFormedProgram(program)
  BY FlowAssumption DEF Init
<1>2. QED BY <1>1 DEF Init, Mir!Init

LEMMA StutterMir ==
  ASSUME UNCHANGED <<program, method>>
  PROVE  UNCHANGED Mir!vars
BY DEF method, Mir!vars, NextInsn, LabelAt

(* The steps a method takes between statements. *)
LEMMA HeadIsNoStep == ASSUME FlowInv, Dispatch PROVE UNCHANGED Mir!vars
<1>1. /\ running # 0 /\ place = 0 /\ place' # 0
      /\ UNCHANGED <<program, running, mirLabel, reg>>
      /\ place' = IF mirLabel = NoLabel THEN 1 ELSE LabelAt(program[running], mirLabel)
  <2>1. place' \in 1 .. Len(Body) /\ Len(Body) \in Nat
    BY DispatchFacts, RunningFacts
  <2>2. place' # 0
    BY <2>1
  <2>3. QED BY <2>2, DispatchFacts
<1>2. QED BY <1>1 DEF Mir!vars, NextInsn, LabelAt

LEMMA CallIsCall == ASSUME FlowInv, Call PROVE Mir!Call
<1>1. /\ running = 0 /\ running' \in 1 .. Len(program) /\ UNCHANGED <<program, reg>>
      /\ mirLabel' = NoLabel /\ place' \in {0, 1}
  BY DEF Call, Functions
<1>2. running' # 0
  BY <1>1 DEF FlowInv, TypeOK, Mir!WellFormedProgram
<1>3. NextInsn(program[running])' = 1
  BY <1>1 DEF NextInsn
<1>4. QED BY <1>1, <1>2, <1>3 DEF Mir!Call, Mir!Running

(* The insn of the statement that is executed is the next one. *)
LEMMA NextIsHere ==
  ASSUME FlowInv, NEW op, At(op)
  PROVE  /\ running # 0 /\ NextInsn(program[running]) = place
         /\ Turns(op, program[running], place)
         /\ Statement.labels = program[running][place].labels
BY AtFacts DEF NextInsn

LEMMA GoOnFalls ==
  ASSUME FlowInv, running # 0, place \in 1 .. Len(Body), place' = place + 1,
         UNCHANGED <<program, running>>
  PROVE  running' # 0 /\ NextInsn(program[running])' = place + 1
<1>1. place + 1 # 0
  BY RunningFacts
<1>2. QED BY <1>1 DEF NextInsn

LEMMA GotoIsGoto ==
  ASSUME FlowInv, running # 0, NextInsn(program[running]) = place,
         NEW l \in Labels, LabelAt(program[running], l) = Mir!Target(program[running], l), Goto(l)
  PROVE  Mir!Goto(l)
<1>1. /\ UNCHANGED <<program, running, reg>> /\ mirLabel' = l /\ place' = 0
  BY DEF Goto
<1>2. l # NoLabel
  BY FlowAssumption
<1>3. NextInsn(program[running])' = LabelAt(program[running], l)
  BY <1>1, <1>2 DEF NextInsn, LabelAt
<1>4. QED BY <1>1, <1>3 DEF Mir!Goto, Mir!Func

LEMMA ExecuteIsStep == FlowInv /\ Execute => Mir!Step \/ UNCHANGED Mir!vars
<1> SUFFICES ASSUME FlowInv, Execute PROVE Mir!Step \/ UNCHANGED Mir!vars
  OBVIOUS
<1> DEFINE func == program[running]
<1>1. CASE Dispatch
  BY <1>1, HeadIsNoStep
<1>2. CASE Work
  <2>1. /\ At("statement") /\ place' = place + 1 /\ reg' \in Values
        /\ UNCHANGED <<program, running>>
    BY <1>2 DEF Work
  <2>2. /\ running # 0 /\ NextInsn(func) = place /\ place \in 1 .. Len(Body)
        /\ Turns("statement", func, place)
    BY <2>1, NextIsHere DEF At
  <2>3. func[place].op = "work"
    BY <2>2 DEF Turns
  <2>4. running' # 0 /\ NextInsn(func)' = place + 1
    BY <2>1, <2>2, GoOnFalls
  <2>5. Mir!Work
    BY <2>1, <2>2, <2>3, <2>4 DEF Mir!Work, Mir!Running, Mir!Insn, Mir!Func
  <2>6. QED BY <2>5 DEF Mir!Step
<1>3. CASE Case
  <2>1. At("case") /\ place' = place + 1 /\ UNCHANGED <<program, running, reg>>
    BY <1>3, NoComment DEF Case, GoOn
  <2>2. /\ running # 0 /\ NextInsn(func) = place /\ place \in 1 .. Len(Body)
        /\ Turns("case", func, place)
    BY <2>1, NextIsHere DEF At
  <2>3. func[place].op = "label"
    BY <2>2 DEF Turns
  <2>4. running' # 0 /\ NextInsn(func)' = place + 1
    BY <2>1, <2>2, GoOnFalls
  <2>5. Mir!Label
    BY <2>1, <2>2, <2>3, <2>4 DEF Mir!Label, Mir!Fall, Mir!Running, Mir!Insn, Mir!Func
  <2>6. QED BY <2>5 DEF Mir!Step
<1>4. CASE Jump
  <2>1. At("goto") /\ Goto(Statement.labels[1])
    BY <1>4 DEF Jump
  <2>2. running # 0 /\ NextInsn(func) = place /\ Turns("goto", func, place)
    BY <2>1, NextIsHere
  <2>3. func[place].op = "jmp"
    BY <2>2 DEF Turns
  <2>4. /\ Statement.labels[1] \in Labels /\ Statement.labels[1] = func[place].labels[1]
        /\ LabelAt(func, Statement.labels[1]) = Mir!Target(func, Statement.labels[1])
    BY <2>1, TargetAt
  <2>5. Mir!Goto(Statement.labels[1])
    BY <2>1, <2>2, <2>4, GotoIsGoto
  <2>6. Mir!Jump
    BY <2>2, <2>3, <2>4, <2>5 DEF Mir!Jump, Mir!Running, Mir!Insn, Mir!Func
  <2>7. QED BY <2>6 DEF Mir!Step
<1>5. CASE If
  <2>1. PICK op \in {"if true", "if false"} :
          /\ At(op)
          /\ IF (op = "if true") <=> (reg # 0) THEN Goto(Statement.labels[1]) ELSE GoOn
    BY <1>5 DEF If
  <2>2. /\ running # 0 /\ NextInsn(func) = place /\ place \in 1 .. Len(Body)
        /\ Turns(op, func, place)
    BY <2>1, NextIsHere DEF At
  <2>3. func[place].op = IF op = "if true" THEN "bt" ELSE "bf"
    BY <2>2 DEF Turns
  <2>4. /\ Statement.labels[1] \in Labels /\ Statement.labels[1] = func[place].labels[1]
        /\ LabelAt(func, Statement.labels[1]) = Mir!Target(func, Statement.labels[1])
    BY <2>1, TargetAt
  <2>5. Goto(Statement.labels[1]) => Mir!Goto(func[place].labels[1])
    BY <2>2, <2>4, GotoIsGoto
  <2>6. GoOn => Mir!Fall
    <3>1. SUFFICES ASSUME GoOn PROVE Mir!Fall
      OBVIOUS
    <3>2. place' = place + 1 /\ UNCHANGED <<program, running, reg>>
      BY <3>1 DEF GoOn
    <3>3. running' # 0 /\ NextInsn(func)' = place + 1
      BY <2>2, <3>2, GoOnFalls
    <3>4. QED BY <2>2, <3>2, <3>3 DEF Mir!Fall
  <2>7. CASE op = "if true"
    <3>1. IF reg # 0 THEN Mir!Goto(func[place].labels[1]) ELSE Mir!Fall
      BY <2>1, <2>5, <2>6, <2>7
    <3>2. Mir!BranchTrue
      BY <2>2, <2>3, <2>7, <3>1 DEF Mir!BranchTrue, Mir!Running, Mir!Insn, Mir!Func
    <3>3. QED BY <3>2 DEF Mir!Step
  <2>8. CASE op = "if false"
    <3>1. IF reg = 0 THEN Mir!Goto(func[place].labels[1]) ELSE Mir!Fall
      BY <2>1, <2>5, <2>6, <2>8
    <3>2. Mir!BranchFalse
      BY <2>2, <2>3, <2>8, <3>1 DEF Mir!BranchFalse, Mir!Running, Mir!Insn, Mir!Func
    <3>3. QED BY <3>2 DEF Mir!Step
  <2>9. QED BY <2>7, <2>8
<1>6. CASE Select
  <2>1. At("select") /\ Goto(Statement.labels[reg + 1])
    BY <1>6 DEF Select
  <2>2. running # 0 /\ NextInsn(func) = place /\ Turns("select", func, place)
    BY <2>1, NextIsHere
  <2>3. func[place].op = "switch"
    BY <2>2 DEF Turns
  <2>4. /\ Statement.labels[reg + 1] \in Labels
        /\ Statement.labels[reg + 1] = func[place].labels[reg + 1]
        /\ LabelAt(func, Statement.labels[reg + 1]) = Mir!Target(func, Statement.labels[reg + 1])
    BY <2>1, TargetAt
  <2>5. Mir!Goto(Statement.labels[reg + 1])
    BY <2>1, <2>2, <2>4, GotoIsGoto
  <2>6. Mir!Switch
    BY <2>2, <2>3, <2>4, <2>5 DEF Mir!Switch, Mir!Running, Mir!Insn, Mir!Func
  <2>7. QED BY <2>6 DEF Mir!Step
<1>7. CASE Return
  <2>1. At("return") /\ running' = 0 /\ UNCHANGED <<program, reg>>
    BY <1>7 DEF Return, Leave
  <2>2. running # 0 /\ NextInsn(func) = place /\ Turns("return", func, place)
    BY <2>1, NextIsHere
  <2>3. func[place].op = "ret"
    BY <2>2 DEF Turns
  <2>4. Mir!Return
    BY <2>1, <2>2, <2>3 DEF Mir!Return, Mir!Running, Mir!Insn, Mir!Func
  <2>5. QED BY <2>4 DEF Mir!Step
<1>8. QED BY <1>1, <1>2, <1>3, <1>4, <1>5, <1>6, <1>7 DEF Execute

LEMMA NextIsNext == FlowInv /\ [Next]_vars => [Mir!Next]_(Mir!vars)
<1> SUFFICES ASSUME FlowInv, [Next]_vars PROVE Mir!Next \/ UNCHANGED Mir!vars
  OBVIOUS
<1>1. CASE UNCHANGED vars
  BY <1>1, StutterMir DEF vars
<1>2. CASE Translate
  <2>1. UNCHANGED <<program, method>>
    BY <1>2 DEF Translate, TranslateWork, TranslateLabel, TranslateJump, TranslateBranch,
                TranslateSwitch, TranslateReturn, EndFunction, Emit
  <2>2. QED BY <2>1, StutterMir
<1>3. CASE Call
  BY <1>3, CallIsCall DEF Mir!Next
<1>4. CASE Execute
  BY <1>4, ExecuteIsStep DEF Mir!Next
<1>5. QED BY <1>1, <1>2, <1>3, <1>4 DEF Next

(* Whatever the Java program does, the MIR functions do: the insns that are     *)
(* executed, and their order, are MIR's (mir2j.c: out_insn; mir-interp.c).     *)
THEOREM GoesTheWayOfMir == Spec => Mir!Spec
<1>1. QED BY MirInit, NextIsNext, FlowInvariant, PTL DEF Spec, Mir!Spec

------------------------------------------------------------------------------
(* The names of items.                                                        *)

AllKinds == {"import", "export", "forward", "function", "data"}

DefinedIn(m, n) == \E kind \in {"function", "data"} : <<kind, n>> \in items[m]

(* The symbols that tidy programs get for definitions and references. *)
DeclaredAs(m, n) == IF n \in exports[m] THEN <<Everyone, n>> ELSE <<m, n>>
BoundTo(m, n) ==
  IF <<"import", n>> \in items[m] \/ n \in exports[m] THEN <<Everyone, n>> ELSE <<m, n>>

(* Modules to come are empty; what is imported is visible and nothing of the      *)
(* module's own; definitions come once, and references are to what is known.      *)
ItemsInv ==
  /\ \A m \in Serials : m > module_serial => items[m] = {} /\ exports[m] = {}
  /\ \A m \in Serials, n \in Names : <<"import", n>> \in items[m] =>
       /\ n \notin exports[m] /\ ~DefinedIn(m, n)
       /\ <<Everyone, n>> \in symbol_table
  /\ \A d \in declared : DefinedIn(d[1][1], d[1][2])
  /\ \A d, e \in declared : d[1] = e[1] => d = e
  /\ \A r \in used : \E kind \in AllKinds : <<kind, r[1][2]>> \in items[r[1][1]]

TidyInv ==
  tidy =>
    /\ \A d \in declared : d[2] = DeclaredAs(d[1][1], d[1][2])
    /\ \A r \in used : r[2] = BoundTo(r[1][1], r[1][2])
    /\ \A m, k \in Serials : m # k => exports[m] \cap exports[k] = {}

(* The table has what the modules announce. *)
AnnouncedInv == \A n \in Names : <<Everyone, n>> \in symbol_table <=> Announced(n)

SymbolsInv == SymbolsTypeOK /\ ItemsInv /\ TidyInv /\ AnnouncedInv

------------------------------------------------------------------------------
LEMMA SymbolsFirst == SymbolsInit => SymbolsInv
<1> SUFFICES ASSUME SymbolsInit PROVE SymbolsInv
  OBVIOUS
<1>1. SymbolsTypeOK
  BY SymbolsAssumption DEF SymbolsInit, SymbolsTypeOK, SymbolsAssumption, Serials
<1>2. ItemsInv
  BY DEF SymbolsInit, ItemsInv
<1>3. TidyInv
  BY DEF SymbolsInit, TidyInv
<1>4. AnnouncedInv
  BY DEF SymbolsInit, AnnouncedInv, Announced
<1>5. QED BY <1>1, <1>2, <1>3, <1>4 DEF SymbolsInv

LEMMA NextModuleKeeps == ASSUME SymbolsInv, NextModule PROVE SymbolsInv'
<1> DEFINE s == module_serial + 1
<1>1. PICK names \in SUBSET Names :
        /\ exports' = [exports EXCEPT ![s] = names]
        /\ tidy' = (tidy /\ \A m \in Serials : exports[m] \cap names = {})
  BY DEF NextModule
<1>2. /\ module_serial' = s /\ module_serial < ModulesNum
      /\ UNCHANGED <<items, symbol_table, declared, used>>
  BY DEF NextModule
<1>3. SymbolsTypeOK /\ ItemsInv /\ TidyInv /\ AnnouncedInv
  BY DEF SymbolsInv
<1>4. /\ module_serial \in 0 .. ModulesNum /\ ModulesNum \in Nat /\ s \in Serials
      /\ s > module_serial /\ items[s] = {}
  BY <1>2, <1>3, SymbolsAssumption DEF SymbolsTypeOK, SymbolsAssumption, Serials, ItemsInv
<1>5. /\ exports'[s] = names
      /\ \A m \in Serials : m # s => exports'[m] = exports[m]
  BY <1>1, <1>3, <1>4 DEF SymbolsTypeOK
<1>6. SymbolsTypeOK'
  BY <1>1, <1>2, <1>3, <1>4 DEF SymbolsTypeOK
<1> HIDE DEF s
<1>7. ItemsInv'
  <2>1. ASSUME NEW m \in Serials, m > module_serial' PROVE items'[m] = {} /\ exports'[m] = {}
    <3>1. m # s /\ m > module_serial
      BY <1>2, <1>4, <2>1 DEF Serials
    <3>2. QED BY <1>2, <1>3, <1>5, <3>1 DEF ItemsInv
  <2>2. ASSUME NEW m \in Serials, NEW n \in Names, <<"import", n>> \in items'[m]
        PROVE  /\ n \notin exports'[m] /\ ~DefinedIn(m, n)'
               /\ <<Everyone, n>> \in symbol_table'
    <3>1. m # s
      BY <1>2, <1>4, <2>2
    <3>2. QED BY <1>2, <1>3, <1>5, <2>2, <3>1 DEF ItemsInv, DefinedIn
  <2>3. QED BY <1>2, <1>3, <2>1, <2>2 DEF ItemsInv, DefinedIn
<1>8. TidyInv'
  <2> SUFFICES ASSUME tidy' PROVE
        /\ \A d \in declared : d[2] = DeclaredAs(d[1][1], d[1][2])'
        /\ \A r \in used : r[2] = BoundTo(r[1][1], r[1][2])'
        /\ \A m, k \in Serials : m # k => exports'[m] \cap exports'[k] = {}
    BY <1>2 DEF TidyInv
  <2>1. tidy /\ \A m \in Serials : exports[m] \cap names = {}
    BY <1>1
  <2>2. ASSUME NEW d \in declared PROVE d[2] = DeclaredAs(d[1][1], d[1][2])'
    <3>1. d[1][1] \in Serials /\ items[d[1][1]] # {}
      BY <1>3 DEF SymbolsTypeOK, ItemsInv, Items, DefinedIn
    <3>2. exports'[d[1][1]] = exports[d[1][1]]
      BY <1>4, <1>5, <3>1
    <3>3. QED BY <1>3, <2>1, <3>2 DEF TidyInv, DeclaredAs
  <2>3. ASSUME NEW r \in used PROVE r[2] = BoundTo(r[1][1], r[1][2])'
    <3>1. r[1][1] \in Serials /\ items[r[1][1]] # {}
      BY <1>3 DEF SymbolsTypeOK, ItemsInv, Items
    <3>2. exports'[r[1][1]] = exports[r[1][1]]
      BY <1>4, <1>5, <3>1
    <3>3. QED BY <1>2, <1>3, <2>1, <3>2 DEF TidyInv, BoundTo
  <2>4. ASSUME NEW m \in Serials, NEW k \in Serials, m # k
        PROVE  exports'[m] \cap exports'[k] = {}
    BY <1>3, <1>5, <2>1, <2>4 DEF TidyInv
  <2>5. QED BY <2>2, <2>3, <2>4
<1>9. AnnouncedInv'
  <2>1. ASSUME NEW x \in Names PROVE Announced(x)' <=> Announced(x)
    BY <1>2, <1>4, <1>5 DEF Announced
  <2>2. QED BY <1>2, <1>3, <2>1 DEF AnnouncedInv
<1>10. QED BY <1>6, <1>7, <1>8, <1>9 DEF SymbolsInv

(* The declaration of a name that declares nothing in Java. *)
LEMMA AddKeeps ==
  ASSUME SymbolsInv, NEW n \in Names, NEW kind \in AllKinds, kind \notin {"function", "data"},
         module_serial # 0, Add(kind, n),
         kind = "import" => n \notin exports[module_serial] /\ ~Known(n),
         NEW s \in Symbol, symbol_table' = symbol_table \cup {s},
         s = IF kind = "forward" THEN <<module_serial, n>> ELSE <<Everyone, n>>,
         UNCHANGED <<module_serial, exports, declared, used, tidy>>
  PROVE  SymbolsInv'
<1>1. SymbolsTypeOK /\ ItemsInv /\ TidyInv /\ AnnouncedInv
  BY DEF SymbolsInv
<1>2. module_serial \in Serials
  BY <1>1, SymbolsAssumption DEF SymbolsTypeOK, SymbolsAssumption, Serials
<1>3. /\ items'[module_serial] = items[module_serial] \cup {<<kind, n>>}
      /\ \A m \in Serials : m # module_serial => items'[m] = items[m]
  BY <1>1, <1>2 DEF Add, SymbolsTypeOK
<1>4. SymbolsTypeOK'
  BY <1>1, <1>2 DEF SymbolsTypeOK, Add, AllKinds
<1>5. ASSUME kind = "import", NEW k \in AllKinds PROVE <<k, n>> \notin items[module_serial]
  BY <1>5 DEF Known, Is, AllKinds
<1>6. \A m \in Serials : \A k \in AllKinds, x \in Names : <<k, x>> \in items'[m] =>
        <<k, x>> \in items[m] \/ (m = module_serial /\ k = kind /\ x = n)
  BY <1>3
<1>7. \A m \in Serials : items[m] \subseteq items'[m]
  BY <1>3
<1>8. ItemsInv'
  <2>1. ASSUME NEW m \in Serials, m > module_serial' PROVE items'[m] = {} /\ exports'[m] = {}
    <3>1. m # module_serial
      BY <1>1, <1>2, <2>1 DEF Serials
    <3>2. QED BY <1>1, <1>3, <2>1, <3>1 DEF ItemsInv
  <2>2. ASSUME NEW m \in Serials, NEW x \in Names, <<"import", x>> \in items'[m]
        PROVE  /\ x \notin exports'[m] /\ ~DefinedIn(m, x)'
               /\ <<Everyone, x>> \in symbol_table'
    <3>1. CASE <<"import", x>> \in items[m]
      BY <1>1, <1>6, <1>7, <3>1 DEF ItemsInv, AllKinds, DefinedIn
    <3>2. CASE m = module_serial /\ kind = "import" /\ x = n
      <4>1. ~DefinedIn(m, n)'
        BY <1>3, <1>5, <3>2 DEF AllKinds, DefinedIn
      <4>2. QED BY <3>2, <4>1
    <3>3. QED BY <1>6, <2>2, <3>1, <3>2 DEF AllKinds
  <2>3. \A d \in declared' : DefinedIn(d[1][1], d[1][2])'
    BY <1>1, <1>7 DEF ItemsInv, SymbolsTypeOK, Items, DefinedIn
  <2>4. \A r \in used' : \E k \in AllKinds : <<k, r[1][2]>> \in items'[r[1][1]]
    BY <1>1, <1>7 DEF ItemsInv, SymbolsTypeOK, Items
  <2>5. QED BY <1>1, <2>1, <2>2, <2>3, <2>4 DEF ItemsInv
<1>9. TidyInv'
  <2> SUFFICES ASSUME tidy PROVE
        /\ \A d \in declared : d[2] = DeclaredAs(d[1][1], d[1][2])'
        /\ \A r \in used : r[2] = BoundTo(r[1][1], r[1][2])'
        /\ \A m, k \in Serials : m # k => exports'[m] \cap exports'[k] = {}
    BY DEF TidyInv
  <2>1. \A d \in declared : d[2] = DeclaredAs(d[1][1], d[1][2])'
    BY <1>1 DEF TidyInv, DeclaredAs
  <2>2. ASSUME NEW r \in used PROVE r[2] = BoundTo(r[1][1], r[1][2])'
    <3>1. /\ r[1][1] \in Serials /\ r[1][2] \in Names
          /\ \E k \in AllKinds : <<k, r[1][2]>> \in items[r[1][1]]
      BY <1>1 DEF SymbolsTypeOK, ItemsInv, Items
    <3>2. <<"import", r[1][2]>> \in items'[r[1][1]] <=> <<"import", r[1][2]>> \in items[r[1][1]]
      BY <1>5, <1>6, <1>7, <3>1 DEF AllKinds
    <3>3. QED BY <1>1, <3>2 DEF TidyInv, BoundTo
  <2>3. QED BY <1>1, <2>1, <2>2 DEF TidyInv
<1>10. AnnouncedInv'
  <2> SUFFICES ASSUME NEW x \in Names PROVE (<<Everyone, x>> \in symbol_table <=> Announced(x))'
    BY DEF AnnouncedInv
  <2>1. (<<Everyone, x>> \in symbol_table)' <=>
          <<Everyone, x>> \in symbol_table \/ (x = n /\ kind # "forward")
    BY <1>2, SymbolsAssumption DEF Everyone, Serials, SymbolsAssumption
  <2>2. ASSUME NEW m \in Serials, NEW k \in {"import", "export", "function"}
        PROVE  <<k, x>> \in items'[m] <=>
                 <<k, x>> \in items[m] \/ (m = module_serial /\ k = kind /\ x = n)
    BY <1>3
  <2>3. Announced(x)' <=> Announced(x) \/ (x = n /\ kind # "forward")
    BY <1>2, <2>2 DEF Announced, AllKinds
  <2>4. QED BY <1>1, <2>1, <2>3 DEF AnnouncedInv
<1>11. QED BY <1>4, <1>8, <1>9, <1>10 DEF SymbolsInv

(* A definition, with the references it brings. *)
LEMMA DefinitionKeeps ==
  ASSUME SymbolsInv, NEW n \in Names, NEW kind \in {"function", "data"}, module_serial # 0,
         ~Is({"import", "function", "data"}, n), Add(kind, n),
         symbol_table \subseteq symbol_table', symbol_table' \subseteq Symbol,
         \A x \in Names : <<Everyone, x>> \in symbol_table' <=>
           <<Everyone, x>> \in symbol_table \/ (x = n /\ kind = "function" /\ n \in exports[module_serial]),
         NEW own \in Symbol, declared' = declared \cup {<<<<module_serial, n>>, own>>},
         NEW refs, refs \subseteq Items \X Symbol, used' = used \cup refs,
         \A r \in refs : r[1][1] = module_serial /\ (r[1][2] = n \/ Known(r[1][2])),
         tidy' \in BOOLEAN,
         tidy' => /\ tidy /\ own = DeclaredAs(module_serial, n)
                  /\ \A r \in refs : r[2] = BoundTo(module_serial, r[1][2]),
         UNCHANGED <<module_serial, exports>>
  PROVE  SymbolsInv'
<1>1. SymbolsTypeOK /\ ItemsInv /\ TidyInv /\ AnnouncedInv
  BY DEF SymbolsInv
<1>2. module_serial \in Serials
  BY <1>1, SymbolsAssumption DEF SymbolsTypeOK, SymbolsAssumption, Serials
<1>3. /\ items'[module_serial] = items[module_serial] \cup {<<kind, n>>}
      /\ \A m \in Serials : m # module_serial => items'[m] = items[m]
  BY <1>1, <1>2 DEF Add, SymbolsTypeOK
<1>4. SymbolsTypeOK'
  <2>1. <<<<module_serial, n>>, own>> \in Items \X Symbol
    BY <1>2 DEF Items
  <2>2. items' \in [Serials -> SUBSET (AllKinds \X Names)]
    BY <1>1, <1>2 DEF SymbolsTypeOK, Add, AllKinds
  <2>3. QED BY <1>1, <2>1, <2>2 DEF SymbolsTypeOK, AllKinds
<1>5. <<"import", n>> \notin items[module_serial] /\ ~DefinedIn(module_serial, n)
  BY DEF Is, DefinedIn
<1>6. \A m \in Serials : \A k \in AllKinds, x \in Names : <<k, x>> \in items'[m] =>
        <<k, x>> \in items[m] \/ (m = module_serial /\ k = kind /\ x = n)
  BY <1>3
<1>7. \A m \in Serials : items[m] \subseteq items'[m]
  BY <1>3
<1>8. \A m \in Serials, x \in Names : <<"import", x>> \in items'[m] <=> <<"import", x>> \in items[m]
  BY <1>6, <1>7 DEF AllKinds
<1>9. ItemsInv'
  <2>1. ASSUME NEW m \in Serials, m > module_serial' PROVE items'[m] = {} /\ exports'[m] = {}
    <3>1. m # module_serial
      BY <1>1, <1>2, <2>1 DEF Serials
    <3>2. QED BY <1>1, <1>3, <2>1, <3>1 DEF ItemsInv
  <2>2. ASSUME NEW m \in Serials, NEW x \in Names, <<"import", x>> \in items'[m]
        PROVE  /\ x \notin exports'[m] /\ ~DefinedIn(m, x)'
               /\ <<Everyone, x>> \in symbol_table'
    <3>1. <<"import", x>> \in items[m]
      BY <1>8, <2>2
    <3>2. ~(m = module_serial /\ x = n)
      BY <1>5, <3>1
    <3>3. ~DefinedIn(m, x)'
      BY <1>1, <1>6, <3>1, <3>2 DEF ItemsInv, AllKinds, DefinedIn
    <3>4. QED BY <1>1, <3>1, <3>3 DEF ItemsInv
  <2>3. ASSUME NEW d \in declared' PROVE DefinedIn(d[1][1], d[1][2])'
    <3>1. CASE d \in declared
      BY <1>1, <1>7, <3>1 DEF ItemsInv, SymbolsTypeOK, Items, DefinedIn
    <3>2. CASE d = <<<<module_serial, n>>, own>>
      BY <1>3, <3>2 DEF DefinedIn
    <3>3. QED BY <2>3, <3>1, <3>2
  <2>4. ASSUME NEW r \in used' PROVE \E k \in AllKinds : <<k, r[1][2]>> \in items'[r[1][1]]
    <3>1. CASE r \in used
      BY <1>1, <1>7, <3>1 DEF ItemsInv, SymbolsTypeOK, Items
    <3>2. CASE r \in refs
      <4>1. CASE r[1][2] = n
        BY <1>3, <3>2, <4>1 DEF AllKinds
      <4>2. CASE Known(r[1][2])
        BY <1>3, <3>2, <4>2 DEF Known, Is, AllKinds
      <4>3. QED BY <3>2, <4>1, <4>2
    <3>3. QED BY <2>4, <3>1, <3>2
  <2>5. ASSUME NEW d \in declared', NEW e \in declared', d[1] = e[1] PROVE d = e
    <3>1. \A x \in declared : x[1] # <<module_serial, n>>
      BY <1>1, <1>5 DEF ItemsInv
    <3>2. QED BY <1>1, <2>5, <3>1 DEF ItemsInv
  <2>6. QED BY <2>1, <2>2, <2>3, <2>4, <2>5 DEF ItemsInv
<1>10. TidyInv'
  <2> SUFFICES ASSUME tidy' PROVE
        /\ \A d \in declared' : d[2] = DeclaredAs(d[1][1], d[1][2])'
        /\ \A r \in used' : r[2] = BoundTo(r[1][1], r[1][2])'
        /\ \A m, k \in Serials : m # k => exports'[m] \cap exports'[k] = {}
    BY DEF TidyInv
  <2>1. ASSUME NEW d \in declared' PROVE d[2] = DeclaredAs(d[1][1], d[1][2])'
    <3>1. CASE d \in declared
      BY <1>1, <3>1 DEF TidyInv, DeclaredAs
    <3>2. CASE d = <<<<module_serial, n>>, own>>
      BY <3>2 DEF DeclaredAs
    <3>3. QED BY <2>1, <3>1, <3>2
  <2>2. ASSUME NEW r \in used' PROVE r[2] = BoundTo(r[1][1], r[1][2])'
    <3>1. r[1][1] \in Serials /\ r[1][2] \in Names
      BY <1>4, <2>2 DEF SymbolsTypeOK, Items
    <3>2. r[2] = BoundTo(r[1][1], r[1][2])
      BY <1>1, <2>2 DEF TidyInv
    <3>3. QED BY <1>8, <3>1, <3>2 DEF BoundTo
  <2>3. QED BY <1>1, <2>1, <2>2 DEF TidyInv
<1>11. AnnouncedInv'
  <2> SUFFICES ASSUME NEW x \in Names PROVE (<<Everyone, x>> \in symbol_table <=> Announced(x))'
    BY DEF AnnouncedInv
  <2>1. (<<Everyone, x>> \in symbol_table)' <=>
          <<Everyone, x>> \in symbol_table
            \/ (x = n /\ kind = "function" /\ n \in exports[module_serial])
    OBVIOUS
  <2>2. ASSUME NEW m \in Serials, NEW k \in {"import", "export", "function"}
        PROVE  <<k, x>> \in items'[m] <=>
                 <<k, x>> \in items[m] \/ (m = module_serial /\ k = kind /\ x = n)
    BY <1>3
  <2>3. Announced(x)' <=>
          Announced(x) \/ (x = n /\ kind = "function" /\ n \in exports[module_serial])
    BY <1>2, <2>2 DEF Announced
  <2>4. QED BY <1>1, <2>1, <2>3 DEF AnnouncedInv
<1>12. QED BY <1>4, <1>9, <1>10, <1>11 DEF SymbolsInv

LEMMA FunctionKeeps ==
  ASSUME SymbolsInv, NEW n \in Names, NEW names \in SUBSET Names, Function(n, names)
  PROVE  SymbolsInv'
<1> DEFINE own == FunctionSymbol(n)
           table == symbol_table \cup {own}
           refs == {<<<<module_serial, u>>, Mangled(table, u)>> : u \in names}
<1>1. /\ module_serial # 0 /\ ~Is({"import", "function", "data"}, n) /\ Add("function", n)
      /\ \A u \in names : u = n \/ Known(u)
      /\ declared' = declared \cup {<<<<module_serial, n>>, own>>}
      /\ symbol_table' = table \cup {Mangled(table, u) : u \in names}
      /\ used' = used \cup refs
      /\ tidy' = (tidy /\ (n \notin exports[module_serial] => ~Announced(n))
                       /\ \A u \in names \ {n} : ~Wrong(u))
      /\ UNCHANGED <<module_serial, exports>>
  BY DEF Function
<1>2. SymbolsTypeOK /\ ItemsInv /\ AnnouncedInv
  BY DEF SymbolsInv
<1>3. module_serial \in Serials /\ 0 \in 0 .. ModulesNum /\ module_serial \in 0 .. ModulesNum
  BY <1>1, <1>2, SymbolsAssumption DEF SymbolsTypeOK, SymbolsAssumption, Serials
<1>4. \A x \in Names : <<Everyone, x>> \in Symbol /\ <<module_serial, x>> \in Symbol
  BY <1>3 DEF Symbol, Everyone
<1>5. own \in Symbol
  BY <1>4 DEF FunctionSymbol
<1>6. \A u \in Names : Mangled(table, u) \in Symbol
  BY <1>4 DEF Mangled
<1>7. symbol_table \subseteq symbol_table' /\ symbol_table' \subseteq Symbol
  BY <1>1, <1>2, <1>5, <1>6 DEF SymbolsTypeOK
<1>8. refs \subseteq Items \X Symbol
  BY <1>3, <1>6 DEF Items
<1>9. \A r \in refs : \E u \in names :
        r[1][1] = module_serial /\ r[1][2] = u /\ r[2] = Mangled(table, u)
  OBVIOUS
<1>10. \A r \in refs : r[1][1] = module_serial /\ (r[1][2] = n \/ Known(r[1][2]))
  BY <1>1, <1>9
<1>11. own = DeclaredAs(module_serial, n)
  BY DEF FunctionSymbol, DeclaredAs
<1>12. ASSUME tidy', NEW u \in names PROVE Mangled(table, u) = BoundTo(module_serial, u)
  <2>1. \A x \in Names : own = <<Everyone, x>> <=> (x = n /\ n \in exports[module_serial])
    BY <1>1, <1>3 DEF FunctionSymbol, Everyone, Serials
  <2>2. CASE u = n
    <3>1. <<Everyone, n>> \in table <=> n \in exports[module_serial]
      BY <1>1, <1>2, <1>12, <2>1 DEF AnnouncedInv
    <3>2. <<"import", n>> \notin items[module_serial]
      BY <1>1 DEF Is
    <3>3. QED BY <2>2, <3>1, <3>2 DEF Mangled, BoundTo
  <2>3. CASE u # n
    <3>1. ~Wrong(u)
      BY <1>1, <1>12, <2>3
    <3>2. <<Everyone, u>> \in table <=> <<Everyone, u>> \in symbol_table
      BY <2>1, <2>3
    <3>3. CASE <<"import", u>> \in items[module_serial]
      <4>1. <<Everyone, u>> \in symbol_table
        BY <1>2, <1>3, <3>3 DEF ItemsInv
      <4>2. QED BY <3>2, <3>3, <4>1 DEF Mangled, BoundTo
    <3>4. CASE <<"import", u>> \notin items[module_serial]
      <4>1. <<Everyone, u>> \in symbol_table <=> u \in exports[module_serial]
        BY <1>2, <3>1, <3>4 DEF Wrong, Is, AnnouncedInv
      <4>2. QED BY <3>2, <3>4, <4>1 DEF Mangled, BoundTo
    <3>5. QED BY <3>3, <3>4
  <2>4. QED BY <2>2, <2>3
<1>13. tidy' \in BOOLEAN
  BY <1>1
<1>14. tidy' => /\ tidy /\ own = DeclaredAs(module_serial, n)
                /\ \A r \in refs : r[2] = BoundTo(module_serial, r[1][2])
  BY <1>1, <1>9, <1>11, <1>12
<1>15. ASSUME NEW x \in Names
       PROVE  <<Everyone, x>> \in symbol_table' <=>
                <<Everyone, x>> \in symbol_table \/ (x = n /\ n \in exports[module_serial])
  <2>1. own = <<Everyone, x>> <=> (x = n /\ n \in exports[module_serial])
    BY <1>1, <1>3 DEF FunctionSymbol, Everyone, Serials
  <2>2. \A u \in names : Mangled(table, u) = <<Everyone, x>> => <<Everyone, x>> \in table
    BY <1>1, <1>3 DEF Mangled, Everyone, Serials
  <2>3. QED BY <1>1, <2>1, <2>2
<1>16. /\ Add("function", n) /\ "function" \in {"function", "data"}
       /\ \A x \in Names : <<Everyone, x>> \in symbol_table' <=>
            <<Everyone, x>> \in symbol_table
              \/ (x = n /\ "function" = "function" /\ n \in exports[module_serial])
  BY <1>1, <1>15
<1> HIDE DEF own, table, refs
<1>17. QED BY <1>1, <1>5, <1>7, <1>8, <1>10, <1>13, <1>14, <1>16, DefinitionKeeps

LEMMA DataKeeps ==
  ASSUME SymbolsInv, NEW n \in Names, Data(n)
  PROVE  SymbolsInv'
<1> DEFINE own == Mangled(symbol_table, n)
<1>1. /\ module_serial # 0 /\ ~Is({"import", "function", "data"}, n) /\ Add("data", n)
      /\ declared' = declared \cup {<<<<module_serial, n>>, own>>}
      /\ symbol_table' = symbol_table \cup {own}
      /\ tidy' = (tidy /\ ~Wrong(n))
      /\ UNCHANGED <<module_serial, exports, used>>
  BY DEF Data
<1>2. SymbolsTypeOK /\ AnnouncedInv
  BY DEF SymbolsInv
<1>3. module_serial \in 0 .. ModulesNum /\ 0 \in 0 .. ModulesNum
  BY <1>2, SymbolsAssumption DEF SymbolsTypeOK, SymbolsAssumption
<1>4. own \in Symbol
  BY <1>3 DEF Mangled, Symbol, Everyone
<1>5. symbol_table \subseteq symbol_table' /\ symbol_table' \subseteq Symbol
  BY <1>1, <1>2, <1>4 DEF SymbolsTypeOK
<1>6. tidy' => tidy /\ own = DeclaredAs(module_serial, n)
  <2>1. <<"import", n>> \notin items[module_serial]
    BY <1>1 DEF Is
  <2>2. ASSUME ~Wrong(n) PROVE <<Everyone, n>> \in symbol_table <=> n \in exports[module_serial]
    BY <1>2, <2>1, <2>2 DEF Wrong, Is, AnnouncedInv
  <2>3. QED BY <1>1, <2>2 DEF Mangled, DeclaredAs
<1>7. tidy' \in BOOLEAN
  BY <1>1
<1>8. \A x \in Names : <<Everyone, x>> \in symbol_table' <=> <<Everyone, x>> \in symbol_table
  BY <1>1, SymbolsAssumption DEF Mangled, Everyone, SymbolsAssumption
<1>9. /\ Add("data", n) /\ "data" \in {"function", "data"}
       /\ \A x \in Names : <<Everyone, x>> \in symbol_table' <=>
            <<Everyone, x>> \in symbol_table
              \/ (x = n /\ "data" = "function" /\ n \in exports[module_serial])
  BY <1>1, <1>8
<1> HIDE DEF own
<1>10. PICK refs : refs = {}
  OBVIOUS
<1>11. used' = used \cup refs /\ refs \subseteq Items \X Symbol
  BY <1>1, <1>10
<1>12. /\ \A r \in refs : r[1][1] = module_serial /\ (r[1][2] = n \/ Known(r[1][2]))
       /\ \A r \in refs : r[2] = BoundTo(module_serial, r[1][2])
  BY <1>10
<1>13. /\ UNCHANGED <<module_serial, exports>>
       /\ module_serial # 0 /\ ~Is({"import", "function", "data"}, n) /\ Add("data", n)
       /\ declared' = declared \cup {<<<<module_serial, n>>, own>>}
  BY <1>1
<1>14. tidy' => /\ tidy /\ own = DeclaredAs(module_serial, n)
                /\ \A r \in refs : r[2] = BoundTo(module_serial, r[1][2])
  BY <1>6, <1>12
<1>15. QED BY <1>4, <1>5, <1>7, <1>11, <1>12, <1>13, <1>14, <1>9, DefinitionKeeps

LEMMA SymbolsKeeps == ASSUME SymbolsInv, [SymbolsNext]_symbols_vars PROVE SymbolsInv'
<1>1. CASE NextModule
  BY <1>1, NextModuleKeeps
<1>2. ASSUME module_serial # 0 PROVE /\ module_serial \in 0 .. ModulesNum /\ 0 \in 0 .. ModulesNum
  BY SymbolsAssumption DEF SymbolsInv, SymbolsTypeOK, SymbolsAssumption
<1>3. ASSUME NEW n \in Names, Export(n) PROVE SymbolsInv'
  <2>1. <<Everyone, n>> \in Symbol /\ module_serial # 0
    BY <1>2, <1>3 DEF Symbol, Everyone, Export
  <2>2. QED BY <1>3, <2>1, AddKeeps DEF Export, AllKinds
<1>4. ASSUME NEW n \in Names, Import(n) PROVE SymbolsInv'
  <2>1. <<Everyone, n>> \in Symbol /\ module_serial # 0
    BY <1>2, <1>4 DEF Symbol, Everyone, Import
  <2>2. QED BY <1>4, <2>1, AddKeeps DEF Import, AllKinds
<1>5. ASSUME NEW n \in Names, Forward(n) PROVE SymbolsInv'
  <2>1. <<module_serial, n>> \in Symbol /\ module_serial # 0
    BY <1>2, <1>5 DEF Symbol, Forward
  <2>2. QED BY <1>5, <2>1, AddKeeps DEF Forward, AllKinds
<1>6. ASSUME NEW n \in Names, Data(n) PROVE SymbolsInv'
  BY <1>6, DataKeeps
<1>7. ASSUME NEW n \in Names, NEW names \in SUBSET Names, Function(n, names) PROVE SymbolsInv'
  BY <1>7, FunctionKeeps
<1>8. CASE UNCHANGED symbols_vars
  BY <1>8 DEF symbols_vars, SymbolsInv, SymbolsTypeOK, ItemsInv, TidyInv, DeclaredAs, BoundTo, AnnouncedInv, Announced, DefinedIn
<1>9. CASE Done
  BY <1>8, <1>9 DEF Done
<1>10. QED BY <1>1, <1>3, <1>4, <1>5, <1>6, <1>7, <1>8, <1>9 DEF SymbolsNext

------------------------------------------------------------------------------
(* What holds of the symbol table, the Java program and tidy programs throughout. *)
THEOREM SymbolsInvariant == SymbolsSpec => []SymbolsInv
<1>1. QED BY SymbolsFirst, SymbolsKeeps, PTL DEF SymbolsSpec

(* Type correctness of the symbol table and the Java program. *)
THEOREM SymbolsTypeCorrect == SymbolsSpec => []SymbolsTypeOK
<1>1. SymbolsInv => SymbolsTypeOK
  BY DEF SymbolsInv
<1>2. QED BY <1>1, SymbolsInvariant, PTL

(* Different items of a tidy program have different Java names.                   *)
THEOREM TidyNamesApart == SymbolsSpec => []NamesApart
<1>1. ASSUME SymbolsInv, tidy, NEW d \in declared, NEW e \in declared, d # e
      PROVE  d[2] # e[2]
  <2>1. /\ d[1] = <<d[1][1], d[1][2]>> /\ d[1][1] \in Serials /\ d[1][2] \in Names
        /\ e[1] = <<e[1][1], e[1][2]>> /\ e[1][1] \in Serials /\ e[1][2] \in Names
    BY <1>1 DEF SymbolsInv, SymbolsTypeOK, Items
  <2>2. d[1] # e[1]
    BY <1>1 DEF SymbolsInv, ItemsInv
  <2>3. d[2] = DeclaredAs(d[1][1], d[1][2]) /\ e[2] = DeclaredAs(e[1][1], e[1][2])
    BY <1>1 DEF SymbolsInv, TidyInv
  <2>4. \A m, k \in Serials : m # k => exports[m] \cap exports[k] = {}
    BY <1>1 DEF SymbolsInv, TidyInv
  <2>5. 0 \notin Serials
    BY SymbolsAssumption DEF SymbolsAssumption, Serials
  <2>6. QED BY <2>1, <2>2, <2>3, <2>4, <2>5 DEF DeclaredAs, Everyone
<1>2. SymbolsInv => NamesApart
  BY <1>1 DEF NamesApart
<1>3. QED BY <1>2, SymbolsInvariant, PTL

(* Each reference of a tidy program gets the Java name of the item it means, and   *)
(* of no other (get_mangled_symbol_name).                                       *)
THEOREM TidyReferencesBind == SymbolsSpec => []ReferencesBind
<1>1. ASSUME SymbolsInv, tidy, NEW r \in used, NEW d \in declared
      PROVE  Means(r[1], d[1]) <=> r[2] = d[2]
  <2>1. /\ r[1][1] \in Serials /\ r[1][2] \in Names
        /\ d[1][1] \in Serials /\ d[1][2] \in Names
    BY <1>1 DEF SymbolsInv, SymbolsTypeOK, Items
  <2>2. d[2] = DeclaredAs(d[1][1], d[1][2]) /\ r[2] = BoundTo(r[1][1], r[1][2])
    BY <1>1 DEF SymbolsInv, TidyInv
  <2>3. \A m, k \in Serials : m # k => exports[m] \cap exports[k] = {}
    BY <1>1 DEF SymbolsInv, TidyInv
  <2>4. 0 \notin Serials
    BY SymbolsAssumption DEF SymbolsAssumption, Serials
  <2>5. DefinedIn(d[1][1], d[1][2])
    BY <1>1 DEF SymbolsInv, ItemsInv
  <2>6. \A m \in Serials, n \in Names : <<"import", n>> \in items[m] =>
          n \notin exports[m] /\ ~DefinedIn(m, n)
    BY <1>1 DEF SymbolsInv, ItemsInv
  <2>7. QED BY <2>1, <2>2, <2>3, <2>4, <2>5, <2>6 DEF Means, DeclaredAs, BoundTo, Everyone
<1>2. SymbolsInv => ReferencesBind
  BY <1>1 DEF ReferencesBind
<1>3. QED BY <1>2, SymbolsInvariant, PTL
==============================================================================
