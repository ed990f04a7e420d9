# A verification project for MIR, c2mir and mir2j

The repository holds a light-weight compiler infrastructure: **MIR**, an
intermediate language with its in-memory form, text and binary forms, an
interpreter and machine code generators; **c2mir**, a C11 compiler that makes
MIR, as a library and as the driver `c2m`; and **mir2j**, a translator from MIR
to Java with a Java runtime, so that C programs run on a JVM. The TLA+ modules
here model parts of it, TLC checks them on small instances, and TLAPS proves
theorems about them for all instances. `PROJECT.json` maps every definition to
the lines it models.

Contents: the system (1), the modules (2), the runs (3), fairness (4), the
proofs (5), what the checks found (6), what is not modelled (7), the plan (8).

## 1. The system

### 1.1 Components

| Component | State | Operations | What is hard | What makes it correct |
|---|---|---|---|---|
| MIR core, items (`mir.c` 560-1040, 1487-1750) | modules and their items, the item table, the environment module | declare (import, export, forward), define, finish a module, load, load external, link | any order of declarations, definitions, loads and links; versions of a name | the table leads to the definition, declarations and imports get the address of what they mean |
| MIR core, functions (`mir.c` 300-560, 1040-1480, 1675-2400) | insn lists, registers, labels, strings | create, append, insert, remove, finish a function | checks of operands, duplicated labels | a finished function is well formed |
| MIR core, simplification and inlining (`mir.c` 2680-3640) | the insns of a function | simplify operands, remove dead and duplicate code, inline calls | recursion, labels and registers of inlined code | the meaning of the function stays |
| MIR core, sections (`mir.c` 1511-1580, 1680-1700) | addresses of data and bss items, contents of reference data | load_bss_data_section, second pass of the link | anonymous items behind a named one, loading again | items of a section are adjacent, references hold the address of what they name |
| MIR core, text and binary (`mir.c` 4600-6100) | a scanner, tables of strings | MIR_read, MIR_write, MIR_scan_string, MIR_output | errors in the middle | reading what was written gives the same module |
| Code pages and thunks (`mir.c` 4300-4600, `mir-<target>.c`) | pages of code, a thunk for each function | publish, change, redirect a thunk | other threads run the code | a thunk always leads to code that can run |
| Generator, threads (`mir-gen.c` 5340-5520, 5570-5818) | a queue of functions, worker threads, two condition variables | init, finish, link (at once, lazy, parallel), generate | workers, linking threads and callers at once; shared signals; the end mark | nothing is lost, generated twice or waited for in vain |
| Generator, passes (`mir-gen.c` 900-5300, `mir-gen-<target>.c`) | control-flow graph, SSA edges, live ranges, hard registers | build, transform, allocate, emit | data flow around loops, spills | the meaning of the function stays |
| Interpreter (`mir-interp.c`) | code per function, registers of a call | generate code, execute, call out | calls between interpreted and generated code | agrees with MIR.md |
| Hash table (`mir-htab.h`) | elements, entries, three counters | find, insert, replace, delete, clear | deleted slots, doubling in the middle of a call | behaves as a set of elements, every search ends |
| Other ADTs (`mir-varr.h`, `mir-dlist.h`, `mir-bitmap.h`, `mir-hash.h`) | arrays, lists, bit sets | push and pop, insert and remove, set operations | aliased arguments, lengths that differ | behave as sequences and sets |
| Compression of binary MIR (`mir-reduce.h`) | a buffer, a table of what was seen in it, symbol numbers, a check hash | put, finish; get, finish | elements of the table that are taken again, ends of buffers, files that are cut off | decoding gives back what was encoded, nothing else is accepted |
| c2mir, macro expansion (`c2mir.c` 2490-2760, 3490-3680) | the text to come, a stack of calls, a buffer, a flag per macro | expand a name, look for arguments, substitute, end a replacement | calls that end behind the replacement they began in, macros that name themselves | the text is what the C standard says, and expansion ends |
| c2mir, the rest (`c2mir.c`) | tokens, scopes, tree | directives, parse, check, generate | C itself | the MIR code means what the C code does |
| c2m, the driver (`c2mir-driver.c`) | command line, source containers, queue, compilers, output files, modules | read, send, compile, convert, collect, sort, load, run | threads, one buffer for file names, errors in one of many files | each file is compiled once, its result arrives, the order is that of the command line |
| mir2j, names (`mir2j.c` 18-110, 995-1157, 1218-1240) | a symbol table over all modules | add a symbol, mangle a name | one class for all modules; the table grows while names are used | references get the name of what they mean |
| mir2j, control flow (`mir2j.c` 475-535, 600-810, 905-942, 1122-1216) | the flag for dead code | translate labels, jumps, branches, switches, returns | Java has no goto and refuses code it cannot reach | the method goes the way of the insns |
| mir2j, expressions and data (`mir2j.c` 110-475, 535-600, 640-905, 1045-1120) | none | translate arithmetic, memory accesses, calls, data | types and widths | the Java expression computes what the insn does |
| Java runtime, heap (`Runtime.java` 36-140, 455-473) | byte array, map of blocks, table of literals | malloc, calloc, realloc, free, literals | long histories of splits and reuse, growth | blocks never overlap, contents stay |
| Java runtime, stack and va_lists (`Runtime.java` 46-62, 378-450, 751-765) | stack position, map of va_lists | alloca, block start and end, va_start, va_arg, va_end, vsprintf | addresses are used again, entries stay | memory of different frames never overlaps, each list gives its own arguments |
| Java runtime, the rest | byte array, numbers of functions | typed accesses, function pointers, files | widths, byte order | as C |
| C library in MIR (`mir2j/libc/libc.c`) | a few static variables | strings, numbers, qsort, printf | boundaries | as C |
| mir2c, llvm2mir, `mir-bin-driver.c`, `mir-utils` | none | convert | formats | meaning stays |

Tests (`c-tests`, `mir-tests`, `adt-tests`), benchmarks and the vendored raylib
and oggenc are no components.

### 1.2 How they work together

`c2m` reads the command line, starts compilers, and gives each C file to one of
them (a queue under a mutex). A compiler runs c2mir in a MIR context of its own
and reports the module or an error. The driver moves all modules to one context,
sorts them by name, loads and links them. The link asks the item table and the
environment for what names mean, simplifies and inlines, and hands each function
to the *interface*: the interpreter, or the generator, which generates at once,
when the function is first called (a thunk is redirected afterwards), or in its
worker threads. The program then runs, possibly in several threads, which call
functions through their thunks.

`mir2j` reads MIR text, does not load or link, and walks through all modules in
order. Names go through its symbol table, functions through a state machine of a
few lines for the dead code flag. The Java class it writes extends `Runtime`,
whose byte array is the memory of the C program: data and literals, stack, heap.

## 2. The modules

| Module | Models | Extends or instantiates |
|---|---|---|
| `HeapPromise` | what C promises of malloc and its kin, and of string literals | |
| `RuntimeHeap` | the heap of the Java runtime | `HeapPromise` (refinement) |
| `RuntimeCalls` | stack and variable arguments | |
| `Runtime_proofs` | theorems | `RuntimeHeap`, `RuntimeCalls` |
| `WorkQueue` | a FIFO queue with an end mark | |
| `GenPool` | generator threads of a context, their queue, linking and calling threads | `WorkQueue` (refinement) |
| `GenPool_proofs` | theorems | `GenPool` |
| `CompilePool` | the driver with its compiler threads | `WorkQueue` (refinement) |
| `CompilePool_proofs` | theorems | `CompilePool` |
| `ItemTable` | items from declaration to link, sections of data | |
| `ItemTable_proofs` | theorems | `ItemTable` |
| `MapPromise` | what a hash table promises: to each call the answer of a set of elements | |
| `HashTable` | the hash table of all components in C | `MapPromise` (refinement) |
| `HashTable_proofs` | theorems | `HashTable` |
| `BinaryFile` | binary MIR from the writer through the compression to the reader | |
| `BinaryFile_proofs` | theorems | `BinaryFile` |
| `MacroExpansion` | how c2mir expands macros | |
| `MacroExpansion_proofs` | theorems | `MacroExpansion` |
| `MacroResult` | what C says the result is | `MacroExpansion` |
| `MirFlow` | which insn comes after which | |
| `JavaFlow` | the translation of control flow, and the Java method that runs | `MirFlow` (refinement) |
| `Symbols` | the symbol table of mir2j | |
| `Mir2j_proofs` | theorems | `JavaFlow`, `Symbols` |
| `MC...` | instances for TLC | the module of that name |

In all modules, what happens under a lock, or in a sequential program in one
call, is one action. Ghost variables are marked so at their declaration: they
record what the client knows and are read by properties only, and by the guards
that keep the client well behaved.

### 2.1 RuntimeHeap

`blocks` is `memoryBlockMap` (a TreeMap from start addresses), `memLength` the
length of the array, `cells` its bytes, `stringMap` the interned literals. Ghosts:
`live`, what the program owns with the size it asked for, and `abandoned`, blocks
whose content `realloc` has moved (the code never frees them), and `called`, the
last call with its arguments. `MallocAt` is
first fit in the order of addresses, splits a block that is too large, and adds a
block at the end otherwise; `AddBlock` grows the array by doubling and does so
with the size of the new block. `Realloc` allocates, copies byte by byte and
leaves the old block in use. An address stands for itself; a literal is one
cell value per byte.

`HeapPromise` has `called` too, so that its steps are tied to calls: zeros are
promised of `calloc` and only there, the old bytes of `realloc`, and a block of
another size than was asked for is no answer.

The client frees, reallocates and writes what it owns. It asks for one byte or
more and less than 2^31: `malloc(0)` puts a block of no bytes under the address
of the next one, the cast of a larger size is negative, and both break the map.

### 2.2 RuntimeCalls

`frames` are the functions that run, each with the position at its entry, what it
allocated, the positions its blocks saved, and its va_lists (ghost). Only
functions with an alloca insn or variable arguments set `stackPosition` back:
mir2j emits nothing for others. A va_list is an address, and `varArgsMap` leads
from there to the arguments and how many of them were taken. `mir_va_start` puts an entry, the last argument
and `va_end` remove it, nothing else does, so that entries of calls that are
over stay behind addresses that are used again. `mir_allocate` throws at the end
of the stack and `Throw` ends the program. The client takes only arguments that
are there and uses a list while its function runs, there or in a function it was
passed to. `va_copy` and block arguments are not supported by the code (a copied
list has no entry; mir2j rejects block types), and `vsprintf` with a list of
which arguments were taken is left out: the code formats them from the first
again, and no document says what it should do.

### 2.3 GenPool

One main thread links a module lazily and another one in parallel, application
threads call lazily linked functions, workers generate. What happens between a
lock and the next unlock or wait is one step; `MIR_gen`, which works without the
lock, is cut into `Check` (its assertion and look at `machine_code`), `Build`
(the CFG hangs on the item), `Publish` (the code is set), `Destroy` (the CFG is
gone) and `Store`. `queue` and `start` are the array `funcs_to_generate` and `funcs_start`; the
queue is moved to its beginning when more than `CompactAt` (64) have been taken.
A condition variable is the set of threads that sleep on it: broadcast empties
it, signal takes any one, and a sleeper may wake for no reason. Thread creation
may fail, which ends initialisation with an error path of its own.

### 2.4 CompilePool

Like GenPool, for the driver: main reads the files in the order of the command
line, sends C files with a container of their text, converts MIR files itself
(with option -S or -c) or keeps their modules. A compiler takes a file, compiles
it (one step with a module or an error as outcome), writes an output file if
asked to, reports, and frees the container. `tempString` is the buffer in which
names of output files are built, without the lock. The main thread then joins
the compilers, merges and sorts the modules. Each command line of at most four
files is one initial state.

### 2.5 ItemTable

`items` of each module in order, each with kind, name, address, `ref` (ref_def)
and whether it is exported; `table` is the item table, `env` the items of the environment
module. `AddFirst` to `Clash` are the cases of `add_item`; what is an error
there ends the program. `AddAnonymous` makes data without a name, which are in no
table and may be reference data with another item as `target`. `Load` gives
addresses (an anonymous item gets that of the head of its section and an
`offset`) and publishes exports; it may be repeated for a module that was loaded
or linked, which makes its exports the newest ones again. `Link` resolves imports
from the environment or the resolver, gives declarations the address of their
definition and then writes the reference data (`Written`), in two passes over
all modules; `Interpret` is the interpreter's second look at an import. Every
item counts as one byte, and the assertions of the code are left out as in the
repository's build, which defines NDEBUG.

### 2.6 JavaFlow

A program is a sequence of functions, a function a sequence of insns: labels,
jumps, branches on the register, switches, returns, and work, which stands for
every other insn and gives the register any value. `Translate...` emits one
element of Java text per insn, depending on the flag for dead code, which is a
variable of the file and is kept from function to function. Then the Java method
runs: `mirLabel`, the switch, fall-through from case to case. `MirFlow` is the
machine that goes through the insns themselves, and `ImplementsMir` says that
the method does what MIR does: the position in the text is mapped to the
position in the function.

Java refuses statements it cannot reach. `Compiles` is stated for *neat*
functions, in which jumps and returns are followed by a label or the end, or by
jumps, and a switch by a label: mir2j leaves out jumps in dead code but nothing
else, so that other functions do become text that javac refuses (section 6).

### 2.7 Symbols

The items of all modules in order, as MIR_scan_string accepts them. A symbol is a
pair of the module it belongs to, or `Everyone`, and a name; the Java name is
made from both. `Export` and `Import` make a name visible, `Forward` and unknown
names private to the module, `Function` adds its own symbol and looks up what it
uses, `Data` looks itself up. `tidy` is a ghost computed from the items alone: no
two modules export a name, and no name of a module meets the other form, that is
a visible name where its own is meant or the reverse. For tidy programs the names
are right; section 6 has what happens to one that is not.

### 2.8 HashTable

`els` and `entries` are the two arrays, `size` the length of the second, `bound`
and `elsNum` the counters. A call of `HTAB_DO` looks along the path of its key
(`Path`: peterb and the multiplications of the code) up to an empty slot or the
element, and takes the last deleted slot that it passed for an insertion. When
the array of elements is full the call first grows the table: both arrays are
renewed and the elements inserted again, one step each (`Reinsert`), by the same
function, which reads the array that it writes. `MapPromise` is a set of
elements, no two with one key, whose calls answer at once; `ImplementsMap` maps
the elements that are alive to it, in the middle of a growth those that have been
inserted and those that are still to come. Both have the call that is being
worked on, `op`, and a reply counts only as the answer to it: it must be about the
key and the action that were asked for.

### 2.9 BinaryFile

A writer gives bytes to `reduce_encode_put` (`Put`), a full buffer is encoded when
one more byte comes (`NextBuffer`), the rest by `reduce_encode_finish`. The loop
of `_reduce_encode_buf` is `OutputByte` and `OutputRef`, one step per symbol:
`Usable` are the places in the chain of earlier symbols that begin with the same
bytes, `Best` says which is the first of those that save most, `Added` the table of what was seen, in which an
element that is needed again is taken from the end of its chain. A chain is a
sequence, head first; elements have no identity beyond it. The file is a
sequence of elements as the format describes them, with their tags and numbers
as bytes; it ends with the check hash, which is ideal here: the buffers
themselves. `Open` gives the reader all of it or a beginning, since a writer may
fail and the file may not be closed well; a part of an element counts as none.
Reading is `Decode`, `CheckHash` and `CutOff` for the loop of
`reduce_decode_get`, and `Give` for its result. What an element does to the
decoder are operators of their own: `SymbLen` and `RefLen` read its numbers,
`Symbols` and `Numbered` are `ind2pos` behind the bytes and behind the reference,
`Bytes` and `Filled` the buffer, `Legal` the checks. `reduce_decode` reads to the end,
`MIR_read` stops at the last byte that was written, which it recognises, and then
asks whether the file goes on (`Ended`).

### 2.10 MacroExpansion and MacroResult

`text` is what is still to be read: the source behind the tokens that were put
back. The marks EOR, BOA and EOA in it are those of the code; `stack` is
`macro_call_stack`, `ignored` the macros with `ignore_p`, `buffer` the output
that is kept while calls are open. A token is one step: copied, left alone for
good (`Ignore`), replaced (`ExpandObject`), a call that begins or is none, or a
mark that ends an argument or a replacement. Looking for `(` and for
the arguments may go over the ends of replacements, which end their calls too.

`error` only prints and counts, so a wrong call is made like any other: `find_args`
has consumed the mark it stopped at (`Stops`), arguments are added or dropped
(`Fitted`), the call is pushed and its replacement begun. Marks and calls then fit
no more, and what follows may be the end of an argument whose call is below that
of a replacement (`ArgOfOther`). `status` says how such a text ends: the compiler
fails (`aborted`, section 6), or the tokens of one replacement are put back for the
second time with the codes that they have got by then, which is not followed
(`left`). `MaxCalls` bounds the stack behind an error, where it may grow for ever.

A program is made of `PlainTokens`: signs, of codes in `Signs`, and identifiers
with `Names`. `ProgramsAssumption` says this of the texts and bodies in
`Programs`, that parameters are names, and that an object-like macro has none;
no mark of the preprocessor is in a program, since the code makes its marks
itself.

`MacroResult` has the standard's view: the algorithm with a set of hidden names
for each token that the committee published. `SameAsStandard` compares the two.
It leaves out texts that met one of the oddities of section 6, which the history
variable `strayed` notes.

## 3. The runs

| Run | Instance | Shows |
|---|---|---|
| `heap` | array of 2, 4, 8 bytes; requests of 1 and 3 bytes; two byte values; one literal | the map is a partition of the heap (`BlocksDisjoint`, `BlocksCover`), each block in use has one owner (`Accounted`), literals never change, only NULL throws, and the heap implements `HeapPromise` |
| `calls` | a stack of two bytes, calls within calls, two variable arguments, one block | `FramesApart`, `StackBalanced`, `GivesArguments` |
| `gen_pool` | two workers, two threads with a function each, two functions of a parallel link, compaction beyond 1 | nothing queued is lost, nobody oversleeps, the link returns when all code is there, each function is generated once, callers return, all workers end, the queue is FIFO |
| `gen_race` | two workers, two threads that call one function | the assertion of `MIR_gen` fails (section 6) |
| `driver` | every command line of four files: one or two compilers, C and MIR files, -c or linking, at most one file in error | each file is compiled once from a live text, errors are kept, the load order is that of the command line, the queue is FIFO, the driver ends |
| `driver_race` | two files | an output file is lost (section 6) |
| `items` | two modules of up to four items, five together; two names, one of data, one known to the resolver | the table leads to the definition in any order, exports reach it, declarations, imports and reference data are bound, sections lie together |
| `table` | three keys whose paths meet, one with the hash of deleted elements; tables of 4 and 8 slots | every search ends, entries and elements agree, and the table implements `MapPromise` |
| `binary` | all words of two letters up to twelve bytes and 1022 longer ones, a buffer of 13 bytes, a table of 8 elements | what is read is what was written; only files that were cut are refused, but for the case of section 6 |
| `macros` | two macros, of one, two or no parameters, with any bodies of up to two tokens (an object-like one up to three), in five texts; and three macros whose replacements end together or take the end of an argument for their own, in two texts | marks, calls and flags fit together, behind a wrong call as far as they can, the result is the standard's, the expansion ends or comes to a wrong call |
| `flow` | all functions of up to five insns with two labels behind a function that only returns | neat functions compile, and the method implements MIR, liveness included |
| `symbols` | two modules, two names, functions and data | names apart and references bound, in tidy programs |

Why the bounds are enough. In `heap` eight bytes give blocks that are split twice,
remainders that are too small and fitting, reuse after `realloc`, and growth by
one and by two doublings. Two workers and two callers are the least with which a
signal can go to the wrong sleeper or two jobs of one function meet, and
compaction beyond one entry happens while the queue is in use. Four files are
needed for the queue of the driver to be compacted while a compiler sleeps and
main sends; names are ranked so that their order is not that of the command
line. In `items` four items of two names are enough to have export, forward and
definition of a name in all orders with data behind them, and two modules for a
second version. In `table` a table of four slots grows after two insertions, a
deleted slot lies on the path of another key, and the growth inserts several
elements anew; the hashes are chosen so that paths meet and part again. In
`binary` the words reach each branch of the code: literal runs longer than their
limit, short and long tags, numbers of two bytes, several elements to choose
from, a table with nothing left for a chain that is empty and for one that is
not, references in a second buffer, and files whose length is that of the buffer. Two macros are enough for
a call that begins in one replacement and ends behind it, or behind two; the
texts have calls in arguments, missing and surplus arguments, and calls whose end
is missing, behind which the stack grows by two calls before the bound stops it.
In `gen_pool` each thread calls a function of its own, so its `GeneratedOnce` is
about the queue; two threads that call one function are `gen_race`. Five insns hold a
loop with a branch and dead code of either kind. In `symbols` the only
interaction of modules is through visible names, of two of which one is enough
to clash.

The type invariants of `RuntimeHeap`, `RuntimeCalls`, `GenPool`, `CompilePool`,
`ItemTable`, `JavaFlow` and `Symbols` are theorems (`TypeCorrect`,
`CallsTypeCorrect`, `SymbolsTypeCorrect`), so no run repeats them; those of `HashTable`,
`BinaryFile` and `MacroExpansion` are part of the invariants proved for them. That one worker
suffices for the assertion of `MIR_gen` to hold is a theorem, too.

`CHECK_DEADLOCK FALSE` is used where the system ends: in `heap`, where memory
ends at the bound, in `macros` at the end of the text, when the compiler fails or
at the bound behind an error, and in `binary` when the file has been read.

The `VIEW` of `heap` takes states that differ in `called` alone for one. No guard
reads `called` and each action sets it, so such states have the same successors; no
invariant reads it, and `ImplementsPromise` is a property of steps (and of the
initial state, of which there is one for each choice of the rest), which TLC checks
for each step it generates. `PromiseKept` proves it without a view.

## 4. Fairness

- `GenPool!FairSpec`: weak fairness of what each thread does next: a thread that
  can run does, sooner or later, as operating systems schedule threads. No
  fairness is assumed of spurious wake-ups, of which sleeper a signal wakes, nor of
  what is the program's own affair: to call another function, to end a thread, to
  finish the generator.
- `CompilePool!FairSpec`: the same for the main thread and the compilers. Errors
  that end the driver are possible and never forced.
- `JavaFlow!FairSpec`: a Java method that can go on does. It is needed for
  `ImplementsMir`, whose abstract machine goes on too.
- `MacroExpansion!Spec`: the preprocessor is a loop of one thread, which goes on as
  long as it can.
- The other modules have safety properties only.

## 5. The proofs

For any value of the constants under the named assumptions of each module (that
bounds are natural numbers, that marks like `Stop` are no jobs), TLAPS checks:

**Runtime_proofs, the heap.** `HeapInv` is the conjunction of the types,
`BlocksDisjoint`, `BlocksInMemory` (every block inside the array) and `Accounted`
(each block in use belongs to the program with the size it asked for, to a
literal, or to what realloc abandoned, and to one of them only). None is inductive
alone: that a split does not overlap its neighbour needs positive sizes and that
the block did not, that an exact fit gets a new owner needs that it had none. From it follow
`BlocksDisjoint`, `BlocksInMemory`, `Accounted`, `FreshRegions` (an action
property), and with a second invariant about cells `LiteralsIntact` and
`OnlyNullThrows`. `NoGaps` (`BlocksCover`) is inductive together with
`HeapInv` (`CoverInv` is its form in the proofs): that a split leaves no gap needs that
no block begins inside another one, and that the block which was last before an
extension is followed now needs that sizes are positive. `PromiseKept` is the refinement of
`HeapPromise`: a region that is allocated is fresh because the block it lies in
had no owner, and a write changes the cells of one region because the blocks of
all others are disjoint from its own; `realloc` keeps the bytes because it copies
them out of a block that it leaves in use.

**Runtime_proofs, the stack and variable arguments.** `CallsInv` orders the frames: each begins where its
caller was when it called, its blocks lie between, and the position is above
them all; a function that does not set the position back has not moved it. For
va_lists it says which entry of the map belongs to a running call, and that
others are harmless since `va_start` replaces them. It gives `FramesApart`,
which also says that no frame reaches below the stack or beyond its end, into the
buffer of `va_arg`, `StackBalanced` and `GivesArguments`.

**GenPool_proofs.** `PoolInv` relates the queue, the workers' jobs, the code that
is there and who sleeps: whoever waits for a function has it on its way; a
worker that sleeps has an empty queue behind it; a signal that went to the wrong
sleeper is harmless, because whoever needs another one still has a generation to
wait for. `AssertionSafe` and `OneGeneration` need `Disciplined`: one worker, or
threads whose functions are their own. Without it they are false, which
`gen_race` shows. `QueueIsFifo` is the refinement of `WorkQueue`: what lies behind
`start` is the abstract queue, an addition appends to it, a compaction leaves it
as it is, and a worker takes its head. The end mark is put once (`Close` of
`WorkQueue` demands that there is none yet), so a second mark, or a job behind it,
would be no step of the queue.

**CompilePool_proofs.** `DriverInv` is a conjunction of nine parts, no one of which is
inductive alone. `ThreadsInv`: who works on a file and who does not, and that
the main thread has joined every compiler when it goes on. `OutputInv`: a thread
that writes has a file open. `QueueInv`: the queue has no file twice, none that is
still to be read, and the end mark only at its end, after which nobody sends.
`HeldInv`: a text exists exactly as long as its file is queued or one compiler
has it, and never two. `DoneInv`: a file that was read and has no text was
compiled, or is in error and the result says so. `NamedInv` and `Distinct`: a
module has the name of its source, which was read and was not in error, and no
source has two modules. `LoadInv`: when all modules are in the main list they
are sorted, and no other list has any. That no file is missing (`ErrorsKept`)
takes `QueueInv` and `HeldInv` together: once the compilers have left, the mark is
the next entry, so nothing is queued and nobody holds a text. For `LoadOrder`
the sources are then a set of `FilesNum` different files, listed once each, which
gives the length; that the main list, put together from those of the threads by
a recursive function, has them all is shown for the least thread for which it
would be false. `LoadedInOrder` assumes `NamesDiffer`; c2mir numbers the modules
it makes (as in the instance of the run), while modules read from MIR files
bring their names with them, and equal ones are in any order for the code, too.
`QueueIsFifo` is the refinement of `WorkQueue`, here with one sender.

**ItemTable_proofs.** `ItemInv` says of each list of items which item stands for a
name (`Led`, `StandsFor`): the definition or import, of which there is one and no
other kind with it, or else an export, or else a forward, whatever was declared in
between; that a definition is exported exactly if an export is in the list; that
data without a name refer to named items before them (`Shaped`); which address
and offset each has before and after the load (`Placed`); that the environment
leads to an exported definition of a loaded module or to what the resolver gave
(`EnvMeaning`); and what the link has bound (`Bindings`). `EnvMeaning` is why
imports stay right when another module is loaded later, and `Led` is what carries
`Bindings` over the link, since declarations are bound through the table. From it
follow `TableLeadsToDefinition`, `ExportedWherever`, `DeclarationsBound`,
`ImportsBound`, `ReferencesBound`, and `SectionsAdjacent`, for which `SectionHead`,
a greatest position, is shown to exist and to be the head of all items of its
section. `NullAssumption` says that the mark for none is no name, item, address or entry.

**Mir2j_proofs** is about `JavaFlow` and `Symbols`. `FlowInv` says what the flag for dead code means (the insn
before ends a path and no label has come since), that each text is as long as
its insns were translated, and that the method is only where MIR code may be.
`TextCompiles` and `GoesTheWayOfMir`, the safety part of the refinement, follow.
`SymbolsInv`: the visible symbols of the table are exactly
what modules announced; what is imported is neither exported nor defined; and in
tidy programs every definition and reference has the one form its module's items
give it, wherever it stands. `TidyNamesApart` and `TidyReferencesBind` follow for
any number of modules and names.

**HashTable_proofs.** `TableInv`: entries are indices of different elements that
are alive (`EntriesExact`); each key that is alive is found on its path before
the first empty slot (`Reachable`), once (`Distinct`); fewer than half of the
slots are used, the deleted ones among them (`FewUsed`); `elsNum` counts what is
alive (`Counted`); and all this between the steps of a growth, for the elements
inserted so far. `Reachable` is what deleted marks are for: it is not inductive
without the fact that a deletion never makes a slot empty. `SearchesEnd`,
`ArraysAgree` and `TableKeepsPromise`, the refinement of `MapPromise`, follow:
the call of the table is the call of the promise, and what ends it is the answer
to this call.
`PathAssumption` says that a path leads through every slot; it holds for powers
of two, and TLC confirms it for the sizes of the run.

**BinaryFile_proofs.** `ReadsWhatWasWritten` is `RoundTrip` for all words, hashes,
table sizes and lengths of bytes, tags and buffers that the numbers of the
format can hold (`FileAssumption`; the code asserts it at `mir-reduce.h:123`). The
proof has four layers.

- Numbers: powers of two, which the provers know nothing of, are a recursive
  function. That there is one (`Powers`), that it grows and that `2^(a+b)` is a
  product (`PowersMultiply`) is shown for the least number for which it would be
  false; such a number exists since subsets of a finite set are well founded
  (`LeastNumber`). It follows that `UintRead` inverts `UintWrite` for each of the
  four lengths (`ReadWhatWasWritten`), and that tags can be taken apart.
- Pieces: how `SubSeq`s of one word are joined, grow and lie within each other. A
  reference copies a piece that lies wholly before the place it is copied to
  (`Agree` has the second bound, `mir-reduce.h:215`), so that `memcpy` is right.
- One element: a decoder that is where the encoder is, less the literal bytes
  that wait, is there again after the element that the encoder writes
  (`DecodeSymb`, `DecodeRef`, `AfterPiece`).
- The invariant `RoundTripInv`. While the file is written it says that there are
  states `s` of a decoder, one behind each element, each reached from the one before
  (`Replay`), the last of which agrees with the encoder (`InBuffer`): the full buffers,
  the bytes, and for every element of every chain that the decoder has its number at
  the same position (`Known`), whether that symbol was written or is still among
  the bytes that wait (`SymbolPlace`). While the file is read it says that the
  reader is at one of these states (`ReaderAt`) and that what was given is the
  beginning of what was written (`Given`).

`RoundTrip` alone is not inductive: it does not speak of the file at all, and what a
reference means depends on the symbols of all elements of the buffer before it.
That a table with nothing left may drop the oldest element of a chain, or none,
is harmless since `Known` speaks of those that are there and `num` is counted
anyway. The existence of `s` needs no recursion: a step that writes an element
extends the sequence by one state (`Extends`). Before it was proved, the
invariant was checked by TLC on the instance of `binary` with words of up to nine
bytes and shorter ends of the long ones, with `s` computed from the file.

**MacroExpansion_proofs.** `MarksMirrorCalls` is `CallsMirrored` for all macros,
of any number, with any bodies and parameters, and for all texts. All steps take
tokens from the beginning of the text and put others there, so the proof numbers
the tokens from the end (`From`, `Number`): what is not read keeps its number, and
the calls at the bottom of the stack keep theirs. The inductive invariant
is `CallsInv`: `KeptInv` always, and `MirrorInv` before the first error. `KeptInv` is
what is left behind a wrong call: there are no more marks than calls and no more
EOA than BOA, so that no call is taken from an empty stack and `FinishArg` finds
its BOA; and the text, though it may have lost its EOU, ends with a mark at which
every search stops (`Ordered`). `MirrorInv` has, besides types,

- `Mirror`: mark number `j` from the end belongs to call `j` of the stack, an EOR to
  one whose macro is ignored, and no later call, in a replacement or in an argument,
  is of a macro whose replacement is open. The last part is what `ExpandObject`,
  `BeginCall` and `NoCall` need: when calls end, `pop_macro_call` clears the flags
  of their macros by name, which is right only if no call that stays open has the
  same macro (`MirrorCut`, `Popped`).
- `Shaped`: EOU is the last token and no other, so that each search stops in the
  text; and in the tail from any place there are no more BOA than EOA.
- the EOA of the text are as many as its BOA and those of the buffer, so that
  `FinishArg` finds a BOA in the buffer, which the assertion at `c2mir.c:2671`
  demands; `Shaped` keeps this when arguments are cut out of the text, where the
  search stops at a BOA or EOA.
- `Calls`: a call has as many arguments as its macro has parameters, made of plain
  tokens, so that what is put back has no marks but its own.

`CallsMirrored` alone is not inductive: that two open replacements are of different
macros it says by a number (`Cardinality(ignored)`), but nothing of the calls whose
argument is being expanded, which become replacements later, and of a BOA it does
not say where it is. Before it was proved, TLC checked `MirrorInv` on the instance
of `macros` with shorter bodies. `FlattenSeq` of the community modules has a
recursive function below; `AllJoins` shows that there is one, again for the least
number for which it would be false (`LeastNumber`), which gives the type of its result
(`FlattenType`), all the proof needs to know.

Some definitions were changed for the proofs, without a change of what they mean for
TLC. The kind of the item in `TableLeadsToDefinition` was a CASE with guards that
overlap, whose value TLA+ leaves open; it is a chain of IF now. The sets of
`InUse` in `HeapPromise` are in parentheses, since TLC and TLAPS read
`UNION A \cup UNION B` differently. In `BinaryFile` powers of two are the function
`Pow2` and the value of a number is a recursive function instead of a fold; the
symbol to refer to is a position in its chain for which `Best` holds instead of
the least of a set; and what `Decode` computes has names. In `MacroExpansion`
sequences were filtered and cut with `SelectSeq` and sorted cuts, and are now taken
apart by sets of positions (`At`); `CallsMirrored` speaks of positions too.

Only model-checked:

- liveness: `CallsReturn`, `LinkEnds` and `AllJoined` of `GenPool`, `Ends` of
  `CompilePool` and `MacroExpansion`, and the fairness in `ImplementsMir`, whose
  safety part is `GoesTheWayOfMir`. They need ENABLED and induction over the progress
  of several threads.
- `SameAsStandard` of `MacroResult`, whose algorithm is recursive: an induction over
  data that the provers cannot do.

## 6. What the checks found

- `gen_race` (`mir-gen.c:5794`): two threads that call the same lazily linked
  function for the first time queue it twice; with two workers the second enters
  `MIR_gen` while the first works on the function, and the assertion at
  `mir-gen.c:5359` fails.
- `driver_race` (`c2mir-driver.c:419`): names of output files are built in one
  buffer without the lock. With `-c` and a C and a MIR file, or two compilers,
  two sources may go to one file.

What has no run of its own:

- `mir.c:5165`, seen in `binary`, whose `RoundTrip` names it as an exception: when
  the data of a binary MIR are a multiple of 256 KB, the decoder gives the last
  full buffer before it has read the check hash. `MIR_read` stops at the last
  byte of it, finds that the file goes on, and reports garbage at its end. A
  module with one string of a suitable length (262097 bytes in a module `m` with
  data `d`) is written without an error and cannot be read.
- `mir2j.c:94`: visible names of earlier modules come before a module's own, in a
  table whose hash function is said to isolate "keys by module" (`mir2j.c:37`).
  When `a.c` calls `f` and `b.c` has a static `f` and calls it, the call goes to
  the name of the imported one. `symbols` is about tidy programs for this reason:
  without `tidy` TLC finds at once that `ReferencesBind` is false.
- `mir.c:1659`: `MIR_link` looks for an undefined export in the table, where the
  export itself is, and never reports it. Reference data of an undefined forward
  hold NULL, since the assertion that it is defined is not compiled.
- `c2mir.c:2582` and `:3535`, which `strayed` leaves out of `SameAsStandard`: the
  search for arguments goes past the end of one replacement, not of two in a row,
  so that `#define f(x) x`, `#define g f(`, `#define h g` and `h 1)` is refused;
  and the ends are passed only before the white space in front of a `(`, so that
  a call with white space before the end of a replacement stays as it is.
- `c2mir.c:2612`: behind an error the preprocessor may never end. With
  `#define f(x) x`, `#define g f(g` and `g a))` the argument of `f` is `g a`, whose
  expansion looks for its `)` up to the EOA of this argument (`c2mir.c:2588`), reports
  an unfinished call and makes it all the same (`:3547`, `:3684`): `g a` and a new EOA
  are put back and read again, with one more call on the stack each time. `Ends`
  promises the end of the text or an error for this reason.
- Other ends behind an error: an unfinished call at the end of a file (`#define f(x)
  x` and `f(`) finds no token behind it, which the assertion at `c2mir.c:1528`
  forbids; and with `#define h f(`, `#define g f(h)`, `#define f(x) x` and `f(g a)`
  an argument that ends is given to the call of an object-like macro, whose
  parameters are looked for where there are none (`c2mir.c:2205`).
- `mir2j.c:743`: without `Neat` TLC finds at once that two `ret` in a row become two
  `return`, of which Java refuses the second. Other insns behind a jump, and a jump
  behind a switch, are kept in the same way.
- `mir-reduce.h:166`: the result of the writer is not looked at for tags and
  literal bytes. A writer that fails once and then goes on makes a file that
  is reported as good; the reader finds out by the hash.

## 7. What is not modelled

Left out of the modelled components: the command line, `-E` and the execution in
the driver; prototypes, expression data, sizes and contents of data,
simplification and inlining in the item table; `vsprintf` with a list of which
arguments were taken, and the one buffer behind the `va_arg` of MIR, in
`RuntimeCalls`; what insns compute in `JavaFlow`; data that refer to other items
(`mir2j.c:1103` reads an import as if it were reference data), forwards
behind an export of an item not defined yet (`mir2j.c:1018`, the translator
fails there), and clashes of normalised names, in `Symbols`; directives, `#` and
`##`, variable arguments, the standard macros, and the text behind a replacement
that is put back twice after an error, in `MacroExpansion`; writers that fail and go on, collisions of the check hash, and
files that no encoder wrote, in `BinaryFile`. The components without a module
are listed in `PROJECT.json` with the reason; the targets and formats are tables without
behaviour of their own, llvm2mir and the runtime's input and output are wrappers
of libraries, and the others are in the plan.

## 8. The plan

Done, in this order: the heap (the component all translated programs stand on),
calls, the generator threads, the driver, the item table, control flow, names;
then the hash table, sections and reference data, macros, and the compression.

Next:

1. **Functions** (`MIR_finish_func`) and **inlining** at the link, composed with
   ItemTable: which version of a function is inlined, and which is called.
2. **Interpreter**: calls in and out, composed with GenPool's thunks.
3. **Conditional inclusion and scopes** of c2mir: `else_p` is never set
   (`c2mir.c:3030`), so that a second `#else` is not reported.
4. **Lists and bitmaps**, as operators checked against sequences and sets.
5. **Generator passes**: dead code and live ranges on small graphs.
6. Function pointers of the Java runtime with RuntimeCalls; qsort and strtok of
   the C library.

All safety properties of the passing runs are theorems, but for `SameAsStandard`. Worth
proving next: that the hidden names of `MacroResult` are those of the calls that are
open, which says when a name is expanded without the recursion of the standard's
algorithm.
