------------------------------ MODULE RuntimeCalls -----------------------------
(****************************************************************************)
(* The stack of a translated program and its variable arguments               *)
(* (mir2j/runtime/mir2j/Runtime.java, with the code that mir2j.c emits around   *)
(* calls). The stack grows upwards in the byte array. A function that needs it  *)
(* remembers stackPosition when it is entered and sets it back at each return.  *)
(* A va_list is an address on the stack; what it stands for is in a map beside  *)
(* the memory, from which only va_end and the last argument remove it.          *)
(*                                                                          *)
(* The client is a well defined C program: it takes no argument that is not     *)
(* there, uses a va_list only after va_start and while its function runs, here  *)
(* or in a function it is passed to, and hands it to vsprintf before it takes   *)
(* arguments itself.                                                         *)
(****************************************************************************)
EXTENDS Integers, Sequences

CONSTANTS
  StackStart,    \* the end of the data, which are allocated before main
  MaxStackSize,
  Sizes,         \* bytes alloca is asked for
  Values,        \* arguments
  MaxArgs,       \* bounds of the model: variable arguments of a call,
  MaxDepth,      \* calls within calls,
  MaxBlocks      \* blocks within blocks

ASSUME CallsAssumption ==
  /\ StackStart \in Nat \ {0} /\ MaxStackSize \in Nat /\ StackStart <= MaxStackSize
  /\ Sizes \subseteq Nat \ {0}
  /\ MaxArgs \in Nat /\ MaxDepth \in Nat /\ MaxBlocks \in Nat

VARIABLES
  stackPosition,
  frames,      \* the functions that run, the innermost last
  varArgsMap,  \* address -> [args, index]
  exception       \* what ended the program, or ""

calls_vars == <<stackPosition, frames, varArgsMap, exception>>

StackAddresses == StackStart .. MaxStackSize - 1

Arguments == UNION {[1 .. n -> Values] : n \in 0 .. MaxArgs}

(* A frame: whether the function has an alloca insn (a frame of its own, for    *)
(* c2mir) and variable arguments; the position at its entry; what it allocated; *)
(* the positions saved by the blocks it is in; and its va_lists in use, with    *)
(* the number of arguments taken (ghost).                                      *)
Frames ==
  [allocates : BOOLEAN, vararg : BOOLEAN, args : Arguments, entry : Nat,
   regions : SUBSET [address : StackAddresses, size : Nat], blocks : Seq(Nat),
   lists : UNION {[l -> 0 .. MaxArgs] : l \in SUBSET StackAddresses}]

Running == exception = ""
Depth == Len(frames)
Top == frames[Depth]
SetTop(frame) == frames' = [frames EXCEPT ![Depth] = frame]

Cells(region) == region.address .. region.address + region.size - 1
CellsOf(frame) == UNION {Cells(r) : r \in frame.regions}

Without(f, x) == [y \in DOMAIN f \ {x} |-> f[y]]
With(f, x, v) == [y \in DOMAIN f \cup {x} |-> IF y = x THEN v ELSE f[y]]

CallsInit ==
  /\ stackPosition = StackStart
  /\ frames = <<>>
  /\ varArgsMap = <<>>
  /\ exception = ""

Throw(what) == exception' = what /\ UNCHANGED <<stackPosition, frames, varArgsMap>>

------------------------------------------------------------------------------
(* Calls and the stack.                                                      *)

(* Mutant: only variable arguments make a function remember the position. *)
SavesForArgs(frame) == frame.vararg

(* curr_func_has_stack_allocation *)
Saves(frame) == frame.allocates \/ frame.vararg

Call ==
  /\ Running /\ Depth < MaxDepth
  /\ \E allocates, vararg \in BOOLEAN, args \in Arguments :
       /\ args # <<>> => vararg
       /\ frames' = Append(frames,
            [allocates |-> allocates, vararg |-> vararg, args |-> args, entry |-> stackPosition,
             regions |-> {}, blocks |-> <<>>, lists |-> <<>>])
  /\ UNCHANGED <<stackPosition, varArgsMap, exception>>

Return ==
  /\ Running /\ Depth > 0
  /\ frames' = SubSeq(frames, 1, Depth - 1)
  /\ stackPosition' = IF Saves(Top) THEN Top.entry ELSE stackPosition
  /\ UNCHANGED <<varArgsMap, exception>>

(* mir_allocate *)
Allocate(size) ==
  /\ Running /\ Depth > 0 /\ Top.allocates
  /\ IF stackPosition + size > MaxStackSize
     THEN Throw("Stack overflow")
     ELSE /\ stackPosition' = stackPosition + size
          /\ SetTop([Top EXCEPT !.regions = @ \cup {[address |-> stackPosition, size |-> size]}])
          /\ UNCHANGED <<varArgsMap, exception>>

(* MIR_BSTART and MIR_BEND: what a block allocates is gone behind it. *)
BlockStart ==
  /\ Running /\ Depth > 0 /\ Top.allocates
  /\ Len(Top.blocks) < MaxBlocks
  /\ SetTop([Top EXCEPT !.blocks = Append(@, stackPosition)])
  /\ UNCHANGED <<stackPosition, varArgsMap, exception>>

Remaining(frame, position) ==
  [frame EXCEPT !.regions = {r \in @ : r.address < position},
                !.blocks = SubSeq(@, 1, Len(@) - 1),
                !.lists = [l \in {a \in DOMAIN @ : a < position} |-> @[l]]]

(* Mutant: the position is set back to the one of the function. *)
BlockEndAtEntry ==
  /\ Running /\ Depth > 0 /\ Top.blocks # <<>>
  /\ stackPosition' = Top.entry
  /\ SetTop(Remaining(Top, Top.blocks[Len(Top.blocks)]))
  /\ UNCHANGED <<varArgsMap, exception>>

BlockEnd ==
  /\ Running /\ Depth > 0 /\ Top.blocks # <<>>
  /\ stackPosition' = Top.blocks[Len(Top.blocks)]
  /\ SetTop(Remaining(Top, Top.blocks[Len(Top.blocks)]))
  /\ UNCHANGED <<varArgsMap, exception>>

------------------------------------------------------------------------------
(* Variable arguments.                                                       *)

(* Mutant: an entry that is there is left as it is. *)
StartedOnce(l) ==
  IF l \in DOMAIN varArgsMap THEN varArgsMap
  ELSE With(varArgsMap, l, [args |-> Top.args, index |-> 0])

(* A new VarArgs, or the old one reset. *)
Started(l) == With(varArgsMap, l, [args |-> Top.args, index |-> 0])

VaStart(l) ==
  /\ Running /\ Depth > 0 /\ Top.vararg /\ l \in CellsOf(Top)
  /\ varArgsMap' = Started(l)
  /\ SetTop([Top EXCEPT !.lists = With(@, l, 0)])
  /\ UNCHANGED <<stackPosition, exception>>

CleanIfTerminated(l, index) ==
  IF index = Len(varArgsMap[l].args) THEN Without(varArgsMap, l)
  ELSE [varArgsMap EXCEPT ![l].index = index]

(* The function k from which the va_list l comes goes on running.              *)
Uses(k, l) == Running /\ k \in 1 .. Depth /\ l \in DOMAIN frames[k].lists

(* mir_va_get_wrapper(l).nextLong() *)
VaArg(k, l) ==
  /\ Uses(k, l) /\ frames[k].lists[l] < Len(frames[k].args)
  /\ IF l \notin DOMAIN varArgsMap THEN Throw("no VarArgs")
     ELSE LET index == varArgsMap[l].index + 1 IN
          IF index > Len(varArgsMap[l].args) THEN Throw("no argument")
          ELSE /\ varArgsMap' = CleanIfTerminated(l, index)
               /\ frames' = [frames EXCEPT ![k].lists[l] = @ + 1]
               /\ UNCHANGED <<stackPosition, exception>>

(* vsprintf: getAllArgs; the program does not use the list any more. *)
Format(k, l) ==
  /\ Uses(k, l) /\ frames[k].lists[l] = 0
  /\ IF l \notin DOMAIN varArgsMap THEN Throw("no VarArgs")
     ELSE /\ varArgsMap' = CleanIfTerminated(l, Len(varArgsMap[l].args))
          /\ frames' = [frames EXCEPT ![k].lists = Without(@, l)]
          /\ UNCHANGED <<stackPosition, exception>>

(* MIR_VA_END; for va_end of C c2mir emits nothing. *)
VaEnd(l) ==
  /\ Uses(Depth, l)
  /\ varArgsMap' = Without(varArgsMap, l)
  /\ SetTop([Top EXCEPT !.lists = Without(@, l)])
  /\ UNCHANGED <<stackPosition, exception>>

Over == ~Running /\ UNCHANGED calls_vars

CallsNext ==
  \/ Call \/ Return \/ BlockStart \/ BlockEnd
  \/ \E size \in Sizes : Allocate(size)
  \/ \E l \in StackAddresses :
       \/ VaStart(l)
       \/ VaEnd(l)
       \/ \E k \in 1 .. Depth : VaArg(k, l) \/ Format(k, l)
  \/ Over

CallsSpec == CallsInit /\ [][CallsNext]_calls_vars

------------------------------------------------------------------------------
(* The type invariant; an entry of the map has arguments left, or had none.     *)
CallsTypeOK ==
  /\ stackPosition \in StackStart .. MaxStackSize
  /\ frames \in Seq(Frames)
  /\ DOMAIN varArgsMap \subseteq StackAddresses
  /\ \A l \in DOMAIN varArgsMap :
       /\ varArgsMap[l].args \in Arguments
       /\ varArgsMap[l].index \in 0 .. Len(varArgsMap[l].args)
       /\ varArgsMap[l].index = Len(varArgsMap[l].args) => varArgsMap[l].args = <<>>
  /\ exception \in {"", "Stack overflow", "no VarArgs", "no argument"}

(* The memory of a function is its own: what a function allocates overlaps      *)
(* neither what it allocated before nor what those that wait for it have, nor    *)
(* the data below the stack and what the runtime keeps above it (Runtime.java:57), *)
(* and the stack position is behind it all (mir_saved_stack_position).           *)
FramesApart ==
  \A i, j \in 1 .. Depth : \A r \in frames[i].regions, s \in frames[j].regions :
    /\ StackStart <= r.address
    /\ r.address + r.size <= stackPosition
    /\ stackPosition <= MaxStackSize
    /\ i # j \/ r # s => Cells(r) \cap Cells(s) = {}

(* A function that returns leaves the stack as it found it, also out of a       *)
(* block, and whatever its callees did (mir2j.c:1140, 913).                     *)
StackBalanced == [][Len(frames') < Depth => stackPosition' = Top.entry]_calls_vars

(* Each va_list in use gives the arguments of its own call, from where it is to  *)
(* the last, though its address may have been a va_list of a call that is over  *)
(* and was not read to its end; so a well defined program ends by an exception  *)
(* only when the stack is full (Runtime.java:378, 410-422).                     *)
Rest(args, index) == SubSeq(args, index + 1, Len(args))

ListReady(frame, l) ==
  frame.lists[l] < Len(frame.args) \/ frame.args = <<>> =>
    /\ l \in DOMAIN varArgsMap
    /\ Rest(varArgsMap[l].args, varArgsMap[l].index) = Rest(frame.args, frame.lists[l])

GivesArguments ==
  /\ \A k \in 1 .. Depth : \A l \in DOMAIN frames[k].lists : ListReady(frames[k], l)
  /\ exception \in {"", "Stack overflow"}
==============================================================================
