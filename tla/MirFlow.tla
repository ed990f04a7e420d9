-------------------------------- MODULE MirFlow --------------------------------
(****************************************************************************)
(* What the control flow of a MIR function is (MIR.md, "MIR jump insns" and    *)
(* "MIR switch insn"; mir-interp.c executes it so): which insn comes after      *)
(* which. One integer register stands for all data: any insn that is not about *)
(* control flow gives it any value, branches and switches look at it.           *)
(****************************************************************************)
EXTENDS Integers, Sequences

CONSTANTS
  Labels,
  Values     \* the values of the register

Ops == {"work", "label", "jmp", "bt", "bf", "switch", "ret"}
Insns == [op : Ops, labels : Seq(Labels)]

Positions(func) == 1 .. Len(func)

IsLabel(func, i, l) == func[i].op = "label" /\ func[i].labels[1] = l

(* What a function has to be: a label insn has its label, a jump or branch its *)
(* target, and a switch a target for every value; each target is a label of    *)
(* the function, which is there once; and the function does not run out of its *)
(* insns (c2mir adds a return where there is none, c2mir.c:12455).              *)
WellFormed(func) ==
  /\ Len(func) > 0
  /\ func[Len(func)].op \in {"ret", "jmp"}
  /\ \A i \in Positions(func) :
       /\ func[i].op \in {"label", "jmp", "bt", "bf"} => Len(func[i].labels) = 1
       /\ func[i].op = "switch" => \A v \in Values : v + 1 \in 1 .. Len(func[i].labels)
       /\ \A k \in 1 .. Len(func[i].labels) :
            \E j \in Positions(func) : IsLabel(func, j, func[i].labels[k])
  /\ \A i, j \in Positions(func) : \A l \in Labels :
       IsLabel(func, i, l) /\ IsLabel(func, j, l) => i = j

WellFormedProgram(p) == p \in Seq(Seq(Insns)) /\ \A f \in 1 .. Len(p) : WellFormed(p[f])

VARIABLES
  program,  \* a sequence of functions, each a sequence of insns
  running,  \* the function that runs, 0 for none
  pc,       \* its next insn
  reg

vars == <<program, running, pc, reg>>

Func == program[running]
Insn == Func[pc]

Target(func, l) == CHOOSE i \in Positions(func) : IsLabel(func, i, l)

Running == running # 0

Goto(l) == pc' = Target(Func, l) /\ UNCHANGED <<program, running, reg>>
Fall == pc' = pc + 1 /\ UNCHANGED <<program, running, reg>>

Init ==
  /\ WellFormedProgram(program)
  /\ running = 0
  /\ pc = 0
  /\ reg = 0

Call ==
  /\ ~Running
  /\ running' \in 1 .. Len(program)
  /\ pc' = 1
  /\ UNCHANGED <<program, reg>>

Work ==
  /\ Running /\ Insn.op = "work"
  /\ pc' = pc + 1
  /\ reg' \in Values
  /\ UNCHANGED <<program, running>>

Label == Running /\ Insn.op = "label" /\ Fall

Jump == Running /\ Insn.op = "jmp" /\ Goto(Insn.labels[1])

(* Branches on a register that is not zero, or that is. *)
BranchTrue ==
  /\ Running /\ Insn.op = "bt"
  /\ IF reg # 0 THEN Goto(Insn.labels[1]) ELSE Fall
BranchFalse ==
  /\ Running /\ Insn.op = "bf"
  /\ IF reg = 0 THEN Goto(Insn.labels[1]) ELSE Fall

Switch == Running /\ Insn.op = "switch" /\ Goto(Insn.labels[reg + 1])

Return ==
  /\ Running /\ Insn.op = "ret"
  /\ running' = 0
  /\ pc' = 0
  /\ UNCHANGED <<program, reg>>

Step == Work \/ Label \/ Jump \/ BranchTrue \/ BranchFalse \/ Switch \/ Return

Next == Call \/ Step

Spec == Init /\ [][Next]_vars
FairSpec == Spec /\ WF_vars(Step)
==============================================================================
