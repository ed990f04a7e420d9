------------------------------ MODULE CompilePool ------------------------------
(****************************************************************************)
(* The compiler driver c2m with its compiler threads (c2mir-driver.c with     *)
(* MIR_PARALLEL_GEN): the main thread reads the source files one after the     *)
(* other, MIR files into its own context, C files into a queue; the compilers  *)
(* take them from there, each with a context of its own; at the end the        *)
(* modules of all contexts are moved to the main context, sorted and loaded.   *)
(*                                                                          *)
(* What happens between a lock and the next unlock or wait is one step. A      *)
(* compilation is cut where it touches what threads share: the buffer in       *)
(* which the name of an output file is built, the files, result_code.          *)
(* busy_p and done_signal are left out: nobody reads the one or waits on the    *)
(* other.                                                                     *)
(****************************************************************************)
EXTENDS Integers, Sequences, FiniteSets

CONSTANTS
  MaxThreads,    \* bound: option -p
  FilesNum,      \* the source files on a command line
  CommandLines,  \* the command lines to look at
  Rank,          \* the place of a file's module name in the order of strcmp
  CompactAt,     \* 64 in the code: the queue is compacted only beyond it
  Main,          \* the main thread
  Stop,          \* the input without a name that ends the queue
  NoFile

Files == 1 .. FilesNum
Threads == (1 .. MaxThreads) \cup {Main}

(* A command line: the number of threads; what each source file is, C, MIR, or  *)
(* MIR that is written in its other form; whether there is an option -S or -c;  *)
(* and the C files that have errors.                                           *)
AllCommandLines ==
  [threads : 1 .. MaxThreads, kind : [Files -> {"c", "mir", "converted"}],
   output : BOOLEAN, bad : SUBSET Files]

ASSUME DriverAssumption ==
  /\ MaxThreads \in Nat \ {0} /\ FilesNum \in Nat \ {0}
  /\ CommandLines \subseteq AllCommandLines
  /\ \A l \in CommandLines :
       /\ l.bad \subseteq {f \in Files : l.kind[f] = "c"}
       /\ ~l.output => \A f \in Files : l.kind[f] # "converted"
  /\ Rank \in [Files -> Nat]
  /\ CompactAt \in Nat
  /\ Main \notin 1 .. MaxThreads
  /\ Stop \notin Files /\ NoFile \notin Files /\ Stop # NoFile

VARIABLES
  line,        \* the command line
  inputs,      \* inputs_to_compile
  start,       \* inputs_start
  position,    \* the main loop's i, which is options.module_num
  pc,          \* thread -> where it is
  current,     \* thread -> the file it works on (compiler->input, curr_input)
  containers,  \* the files whose code_container is allocated
  tempString,  \* temp_string: the file whose output is named there
  opened,      \* thread -> the output file it has open
  written,     \* output file -> the files whose code is written to it
  modules,     \* thread -> the module list of its context
  resultCode   \* result_code

vars == <<line, inputs, start, position, pc, current, containers, tempString, opened, written,
          modules, resultCode>>

queue == <<inputs, start>>

Compilers == 1 .. line.threads
CFiles == {f \in Files : line.kind[f] = "c"}
Converted == {f \in Files : line.kind[f] = "converted"}
output == <<tempString, opened, written>>

Goes(t, place) == [pc EXCEPT ![t] = place]

(* mir_cond_broadcast on compile_signal. *)
Woken(p) == [t \in Threads |-> IF p[t] = "asleep" THEN "awake" ELSE p[t]]

Pending == SubSeq(inputs, start + 1, Len(inputs))

Empty == Len(inputs) <= start

Created == {c \in Compilers : pc[c] # "new"}

Exited == pc[Main] = "exited"

Init ==
  /\ line \in CommandLines
  /\ inputs = <<>>
  /\ start = 0
  /\ position = 1
  /\ pc = [t \in Threads |-> IF t = Main THEN "init" ELSE "new"]
  /\ current = [t \in Threads |-> NoFile]
  /\ containers = {}
  /\ tempString = NoFile
  /\ opened = [t \in Threads |-> NoFile]
  /\ written = [f \in Files |-> <<>>]
  /\ modules = [t \in Threads |-> <<>>]
  /\ resultCode = 0

------------------------------------------------------------------------------
(* The end of the process, in the midst of what the threads do: a thread       *)
(* cannot be created, a source file opened or an output file created.          *)
Die ==
  /\ pc' = Goes(Main, "exited")
  /\ resultCode' = 1
  /\ UNCHANGED <<line, queue, position, current, containers, output, modules>>

CreateFails == pc[Main] = "init" /\ Created # Compilers /\ Die

OpenFails == pc[Main] = "read" /\ position \in Files /\ Die

OutputFails == (\E t \in Threads : pc[t] = "open") /\ ~Exited /\ Die

------------------------------------------------------------------------------
(* The main thread.                                                          *)

(* init_compilers: one after the other. *)
CreateThread ==
  /\ pc[Main] = "init"
  /\ Created # Compilers
  /\ pc' = Goes(Cardinality(Created) + 1, "awake")
  /\ UNCHANGED <<line, queue, position, current, containers, output, modules, resultCode>>

InitDone ==
  /\ pc[Main] = "init"
  /\ Created = Compilers
  /\ pc' = Goes(Main, "read")
  /\ UNCHANGED <<line, queue, position, current, containers, output, modules, resultCode>>

(* A C file is read into a container of its own and sent to the compilers, to *)
(* which the container belongs from now on.                                    *)
Send ==
  /\ pc[Main] = "read"
  /\ position \in CFiles
  /\ inputs' = Append(inputs, position)
  /\ containers' = containers \cup {position}
  /\ position' = position + 1
  /\ pc' = Woken(pc)
  /\ UNCHANGED <<line, start, current, output, modules, resultCode>>

(* A MIR file is read into the main context.                                  *)
ReadModule ==
  /\ pc[Main] = "read"
  /\ position \in Files \ CFiles
  /\ modules' = [modules EXCEPT ![Main] = Append(@, [source |-> position, name |-> position])]
  /\ IF line.output /\ position \in Converted
     THEN /\ current' = [current EXCEPT ![Main] = position]
          /\ pc' = Goes(Main, "name")
          /\ UNCHANGED position
     ELSE /\ position' = position + 1
          /\ UNCHANGED <<current, pc>>
  /\ UNCHANGED <<line, queue, containers, output, resultCode>>

(* The modules of the MIR file are written to the file that is open.          *)
WriteModule ==
  /\ pc[Main] = "compile"
  /\ written' = [written EXCEPT ![opened[Main]] = Append(@, current[Main])]
  /\ opened' = [opened EXCEPT ![Main] = NoFile]
  /\ current' = [current EXCEPT ![Main] = NoFile]
  /\ position' = position + 1
  /\ pc' = Goes(Main, "read")
  /\ UNCHANGED <<line, queue, containers, tempString, modules, resultCode>>

(* send_to_compile (NULL): the end mark goes behind what is pending. *)
End ==
  /\ pc[Main] = "read"
  /\ position > FilesNum
  /\ inputs' = Append(inputs, Stop)
  /\ pc' = Woken(Goes(Main, "join"))
  /\ UNCHANGED <<line, start, position, current, containers, output, modules, resultCode>>

(* All threads are joined; the modules are linked when there were no errors. *)
Join ==
  /\ pc[Main] = "join"
  /\ \A c \in Compilers : pc[c] = "left"
  /\ pc' = Goes(Main, IF resultCode = 0 /\ ~line.output THEN "merge" ELSE "done")
  /\ UNCHANGED <<line, queue, position, current, containers, output, modules, resultCode>>

(* The contexts of the compilers, in their order. *)
AllModules[c \in 0 .. MaxThreads] ==
  IF c = 0 THEN modules[Main] ELSE AllModules[c - 1] \o modules[c]

(* move_modules_main_context for every compiler. *)
Merge ==
  /\ pc[Main] = "merge"
  /\ modules' = [t \in Threads |-> IF t = Main THEN AllModules[line.threads] ELSE <<>>]
  /\ pc' = Goes(Main, "sort")
  /\ UNCHANGED <<line, queue, position, current, containers, output, resultCode>>

(* What qsort may make of a list: the modules in the order of their names;     *)
(* modules of one name come in any order.                                     *)
Sorted(list) ==
  LET n == Len(list)
      orders == {o \in [1 .. n -> 1 .. n] : \A i, j \in 1 .. n : o[i] = o[j] => i = j}
      ascending == {o \in orders : \A i, j \in 1 .. n :
                      i < j => Rank[list[o[i]].name] <= Rank[list[o[j]].name]}
  IN {[i \in 1 .. n |-> list[o[i]]] : o \in ascending}

(* sort_modules; the modules are loaded in this order. *)
Sort ==
  /\ pc[Main] = "sort"
  /\ \E list \in Sorted(modules[Main]) : modules' = [modules EXCEPT ![Main] = list]
  /\ pc' = Goes(Main, "done")
  /\ UNCHANGED <<line, queue, position, current, containers, output, resultCode>>

------------------------------------------------------------------------------
(* The output file of a source file: get_output_file_from_parts, by a compiler *)
(* before it compiles a C file and by the main thread for a MIR file.           *)

(* get_file_name builds the name in a buffer that all threads share, without   *)
(* the lock. (Two threads that are in it at once may also mix up the characters *)
(* of the names; here one is done before the other begins.)                    *)
BuildName(t) ==
  /\ pc[t] = "name"
  /\ tempString' = current[t]
  /\ pc' = Goes(t, "open")
  /\ UNCHANGED <<line, queue, position, current, containers, opened, written, modules, resultCode>>

(* get_output_file opens the file whose name is in the buffer, for writing from *)
(* its beginning.                                                              *)
OpenOutput(t) ==
  /\ pc[t] = "open"
  /\ opened' = [opened EXCEPT ![t] = tempString]
  /\ written' = [written EXCEPT ![tempString] = <<>>]
  /\ pc' = Goes(t, "compile")
  /\ UNCHANGED <<line, queue, position, current, containers, tempString, modules, resultCode>>

------------------------------------------------------------------------------
(* The compilers: the function compile.                                       *)

GoToSleep(c) ==
  /\ pc[c] = "awake"
  /\ Empty
  /\ pc' = Goes(c, "asleep")
  /\ UNCHANGED <<line, queue, position, current, containers, output, modules, resultCode>>

(* Mutant: the mark is consumed by the first compiler that sees it. *)
LeaveConsumesMark(c) ==
  /\ pc[c] = "awake"
  /\ ~Empty /\ inputs[start + 1] = Stop
  /\ start' = start + 1
  /\ pc' = Goes(c, "left")
  /\ UNCHANGED <<line, inputs, position, current, containers, output, modules, resultCode>>

(* The end mark stays in the queue for the other compilers. *)
Leave(c) ==
  /\ pc[c] = "awake"
  /\ ~Empty /\ inputs[start + 1] = Stop
  /\ pc' = Goes(c, "left")
  /\ UNCHANGED <<line, queue, position, current, containers, output, modules, resultCode>>

(* Mutant: the queue is compacted and its start kept. *)
CompactedNoReset(q, s) ==
  /\ inputs' = IF s > CompactAt /\ Len(q) < 2 * s THEN SubSeq(q, s + 1, Len(q)) ELSE q
  /\ start' = s

(* Mutant: the input that is taken is moved with the others. *)
CompactedOneMore(q, s) ==
  IF s > CompactAt /\ Len(q) < 2 * s
  THEN inputs' = SubSeq(q, s, Len(q)) /\ start' = 0
  ELSE inputs' = q /\ start' = s

(* A queue that is mostly consumed is moved to its beginning. *)
Compacted(q, s) ==
  IF s > CompactAt /\ Len(q) < 2 * s
  THEN inputs' = SubSeq(q, s + 1, Len(q)) /\ start' = 0
  ELSE inputs' = q /\ start' = s

(* The next input, copied under the lock. *)
TakeInput(c) ==
  /\ pc[c] = "awake"
  /\ ~Empty /\ inputs[start + 1] # Stop
  /\ current' = [current EXCEPT ![c] = inputs[start + 1]]
  /\ Compacted(inputs, start + 1)
  /\ pc' = Goes(c, IF line.output THEN "name" ELSE "compile")
  /\ UNCHANGED <<line, position, containers, output, modules, resultCode>>

(* Mutant: the number of the module is read when the module is made. *)
CompileLateNumber(c) ==
  /\ pc[c] = "compile"
  /\ LET number == IF position \in Files THEN position ELSE FilesNum
     IN modules' = [modules EXCEPT ![c] =
                      IF current[c] \in line.bad THEN @
                      ELSE Append(@, [source |-> current[c], name |-> number])]
  /\ written' = IF line.output /\ current[c] \notin line.bad
                THEN [written EXCEPT ![opened[c]] = Append(@, current[c])] ELSE written
  /\ opened' = [opened EXCEPT ![c] = NoFile]
  /\ pc' = Goes(c, "report")
  /\ UNCHANGED <<line, queue, position, current, containers, tempString, resultCode>>

(* c2mir_compile: a file without errors gives a module that is named after the *)
(* number the file had when it was sent, and its code goes to the output file.  *)
Compile(c) ==
  /\ pc[c] = "compile"
  /\ IF current[c] \in line.bad
     THEN UNCHANGED <<modules, written>>
     ELSE /\ modules' = [modules EXCEPT ![c] =
                           Append(@, [source |-> current[c], name |-> current[c]])]
          /\ IF line.output
             THEN written' = [written EXCEPT ![opened[c]] = Append(@, current[c])]
             ELSE UNCHANGED written
  /\ opened' = [opened EXCEPT ![c] = NoFile]
  /\ pc' = Goes(c, "report")
  /\ UNCHANGED <<line, queue, position, current, containers, tempString, resultCode>>

(* Mutants: the last file decides, or the container stays allocated. *)
ReportLast(c) ==
  /\ pc[c] = "report"
  /\ containers' = containers \ {current[c]}
  /\ resultCode' = IF current[c] \in line.bad THEN 1 ELSE 0
  /\ current' = [current EXCEPT ![c] = NoFile]
  /\ pc' = Goes(c, "awake")
  /\ UNCHANGED <<line, queue, position, output, modules>>

ReportKeepsContainer(c) ==
  /\ pc[c] = "report"
  /\ resultCode' = IF current[c] \in line.bad THEN 1 ELSE resultCode
  /\ current' = [current EXCEPT ![c] = NoFile]
  /\ pc' = Goes(c, "awake")
  /\ UNCHANGED <<line, queue, position, containers, output, modules>>

(* Under the lock: the container is freed and an error remembered. *)
Report(c) ==
  /\ pc[c] = "report"
  /\ containers' = containers \ {current[c]}
  /\ resultCode' = IF current[c] \in line.bad THEN 1 ELSE resultCode
  /\ current' = [current EXCEPT ![c] = NoFile]
  /\ pc' = Goes(c, "awake")
  /\ UNCHANGED <<line, queue, position, output, modules>>

(* pthread_cond_wait may return without a signal. *)
SpuriousWakeup(c) ==
  /\ pc[c] = "asleep"
  /\ pc' = Goes(c, "awake")
  /\ UNCHANGED <<line, queue, position, current, containers, output, modules, resultCode>>

------------------------------------------------------------------------------
MainStep ==
  \/ CreateThread \/ InitDone
  \/ Send \/ ReadModule \/ WriteModule \/ End
  \/ Join \/ Merge \/ Sort
  \/ BuildName(Main) \/ OpenOutput(Main)

CompilerStep(c) ==
  \/ GoToSleep(c) \/ Leave(c) \/ TakeInput(c)
  \/ BuildName(c) \/ OpenOutput(c) \/ Compile(c) \/ Report(c)

Over == pc[Main] \in {"done", "exited"} /\ UNCHANGED vars

Next ==
  \/ MainStep
  \/ \E c \in Compilers : ~Exited /\ (CompilerStep(c) \/ SpuriousWakeup(c))
  \/ CreateFails \/ OpenFails \/ OutputFails
  \/ Over

(* Every thread that can run is scheduled and gets a free lock.               *)
Fairness ==
  /\ WF_vars(MainStep)
  /\ \A c \in 1 .. MaxThreads : WF_vars(c \in Compilers /\ ~Exited /\ CompilerStep(c))

Spec == Init /\ [][Next]_vars
FairSpec == Spec /\ Fairness

------------------------------------------------------------------------------
(* The type invariant; the start of the queue stays inside the array.        *)
MainPlaces == {"init", "read", "name", "open", "compile", "join", "merge", "sort", "done", "exited"}
CompilerPlaces == {"new", "awake", "asleep", "name", "open", "compile", "report", "left"}

TypeOK ==
  /\ line \in CommandLines
  /\ inputs \in Seq(CFiles \cup {Stop})
  /\ start \in 0 .. Len(inputs)
  /\ position \in 1 .. FilesNum + 1
  /\ pc \in [Threads -> MainPlaces \cup CompilerPlaces]
  /\ pc[Main] \in MainPlaces
  /\ \A c \in 1 .. MaxThreads : pc[c] \in CompilerPlaces
  /\ current \in [Threads -> Files \cup {NoFile}]
  /\ containers \subseteq CFiles
  /\ tempString \in Files \cup {NoFile}
  /\ opened \in [Threads -> Files \cup {NoFile}]
  /\ written \in [Files -> Seq(Files)]
  /\ modules \in [Threads -> Seq([source : Files, name : Files])]
  /\ resultCode \in {0, 1}

Working == {"name", "open", "compile", "report"}

Queued(f) == \E i \in start + 1 .. Len(inputs) : inputs[i] = f

Compiled(f) == \E t \in Threads : \E i \in DOMAIN modules[t] : modules[t][i].source = f

(* The text of a source file (code_container, freed by the compiler and not by *)
(* the main thread that allocated it) is there exactly as long as the file is   *)
(* queued or a compiler reads it: it is neither read after its end nor lost,    *)
(* although the queue is moved and the input copied.                            *)
ContainerLives ==
  ~Exited => \A f \in CFiles :
    (f \in containers) <=> (Queued(f) \/ \E c \in Compilers : current[c] = f /\ pc[c] \in Working)

(* No file is compiled twice or at the same time by two compilers.            *)
CompiledOnce ==
  \A f \in Files :
    /\ \A t, u \in Threads : \A i \in DOMAIN modules[t], j \in DOMAIN modules[u] :
         modules[t][i].source = f /\ modules[u][j].source = f => t = u /\ i = j
    /\ \A c, d \in Compilers : current[c] = f /\ current[d] = f => c = d

(* When the threads have been joined, every source has been compiled, and the  *)
(* result tells whether there were errors: none is overwritten by a file that   *)
(* was compiled later.                                                        *)
ErrorsKept ==
  pc[Main] \in {"merge", "sort", "done"} =>
    /\ resultCode = IF line.bad = {} THEN 0 ELSE 1
    /\ \A f \in Files : Compiled(f) \/ f \in line.bad

(* The modules are loaded in an order that depends on the command line alone   *)
(* and not on the compilers (GNUmakefile:619-625 compares the output of parallel *)
(* runs byte by byte), when no two modules have the same name.                  *)
LoadOrder ==
  pc[Main] = "done" /\ resultCode = 0 /\ ~line.output =>
    /\ Len(modules[Main]) = FilesNum
    /\ \A i, j \in DOMAIN modules[Main] :
         i < j => Rank[modules[Main][i].source] < Rank[modules[Main][j].source]

(* Option -S or -c: "Output files for options -S and -c are created in the     *)
(* current directory named as the source files" (c2mir/README.md:48): when the  *)
(* driver ends, the file named after a source without errors has its code.      *)
OutputsNamed ==
  pc[Main] = "done" /\ line.output =>
    \A f \in (CFiles \ line.bad) \cup Converted : written[f] = <<f>>

(* The driver ends, with all its compilers gone.                              *)
Ends == <>(Exited \/ (pc[Main] = "done" /\ \A c \in Compilers : pc[c] = "left"))

(* The queue with its compaction is a FIFO queue that ends after everything    *)
(* that was put there has been taken.                                          *)
Abstract == INSTANCE WorkQueue WITH Jobs <- Files, pending <- Pending
ImplementsQueue == Abstract!Spec
==============================================================================
