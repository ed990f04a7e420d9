-------------------------- MODULE CompilePool_proofs --------------------------
(****************************************************************************)
(* Proofs about CompilePool, for any number of compilers and source files,     *)
(* any command line, and any length at which the queue is compacted.            *)
(****************************************************************************)
EXTENDS CompilePool, FiniteSetTheorems, SequenceTheorems, TLAPS

Reading == {"init", "read", "name", "open", "compile"}
Writing == {"name", "open", "compile"}
Joined == {"merge", "sort", "done"}

Holds(c, f) == current[c] = f /\ pc[c] \in Working

(* The threads are created one after the other, and each compiler has a file    *)
(* exactly while it works; the main thread joins them behind the last file.      *)
ThreadsInv ==
  /\ \A c \in 1 .. MaxThreads : c > line.threads => pc[c] = "new"
  /\ \A c, d \in 1 .. MaxThreads : c < d /\ pc[d] # "new" => pc[c] # "new"
  /\ pc[Main] \notin {"init", "exited"} => \A c \in Compilers : pc[c] # "new"
  /\ \A c \in 1 .. MaxThreads : current[c] \in IF pc[c] \in Working THEN CFiles ELSE {NoFile}
  /\ pc[Main] \in Writing => position \in Files \ CFiles /\ current[Main] = position
  /\ pc[Main] \in {"join"} \cup Joined => position = FilesNum + 1
  /\ pc[Main] \in Joined => \A c \in Compilers : pc[c] = "left"

(* A file is opened only under a name, and written only when it is open.       *)
OutputInv ==
  /\ \A t \in Threads : pc[t] = "open" => tempString \in Files
  /\ \A t \in Threads : pc[t] = "compile" /\ (t = Main \/ line.output) => opened[t] \in Files

(* The queue has no input twice, none that is still to be read, and the mark at  *)
(* its end when everything has been read; who has left has seen it.              *)
QueueInv ==
  /\ \A i \in 1 .. Len(inputs) : inputs[i] \in CFiles => inputs[i] < position
  /\ \A i, j \in 1 .. Len(inputs) : inputs[i] = inputs[j] => i = j
  /\ \A i \in 1 .. Len(inputs) : inputs[i] = Stop => i = Len(inputs) /\ pc[Main] \notin Reading
  /\ \A c \in 1 .. MaxThreads :
       pc[c] = "left" => start + 1 \in 1 .. Len(inputs) /\ inputs[start + 1] = Stop

(* Where the source files are that have been read: queued, held by one compiler, *)
(* or compiled; a file in error ends in the result.                             *)
HeldInv ==
  /\ \A f \in CFiles : f \in containers <=> (Queued(f) \/ \E c \in Compilers : Holds(c, f))
  /\ \A f \in CFiles : Queued(f) => ~Compiled(f) /\ \A c \in Compilers : ~Holds(c, f)
  /\ \A c, d \in Compilers : \A f \in CFiles : Holds(c, f) /\ Holds(d, f) => c = d
  /\ \A c \in Compilers : \A f \in CFiles : Holds(c, f) =>
       /\ f < position
       /\ IF pc[c] = "report" THEN Compiled(f) \/ f \in line.bad ELSE ~Compiled(f)

DoneInv ==
  /\ \A f \in CFiles : f < position /\ f \notin containers =>
       Compiled(f) \/ (f \in line.bad /\ resultCode = 1)
  /\ \A f \in Files \ CFiles : f < position => Compiled(f)
  /\ pc[Main] \in Writing => Compiled(position)
  /\ resultCode = 1 /\ ~Exited => line.bad # {}

(* The modules belong to threads that exist and have the names of their sources, *)
(* which are without errors and have been read; no source has two modules.       *)
NamedInv ==
  \A t \in Threads : \A i \in DOMAIN modules[t] :
    /\ t \in Compilers \cup {Main}
    /\ modules[t][i].name = modules[t][i].source
    /\ modules[t][i].source \notin line.bad
    /\ modules[t][i].source <= position
    /\ modules[t][i].source = position => pc[Main] \in Writing \cup {"exited"}

Distinct ==
  \A t, u \in Threads : \A i \in DOMAIN modules[t] : \A j \in DOMAIN modules[u] :
    modules[t][i].source = modules[u][j].source => t = u /\ i = j

(* The modules are collected and sorted when there were no errors.             *)
ToLoad == pc[Main] \in Joined /\ resultCode = 0 /\ ~line.output

LoadInv ==
  /\ pc[Main] \in {"merge", "sort"} => ToLoad
  /\ ToLoad /\ pc[Main] # "merge" => \A c \in 1 .. MaxThreads : modules[c] = <<>>
  /\ ToLoad /\ pc[Main] = "done" => \A i, j \in DOMAIN modules[Main] :
       i < j => Rank[modules[Main][i].name] <= Rank[modules[Main][j].name]

DriverInv ==
  TypeOK /\ ThreadsInv /\ OutputInv /\ QueueInv /\ HeldInv /\ DoneInv /\ NamedInv /\ Distinct /\ LoadInv

Recs == [source : Files, name : Files]

------------------------------------------------------------------------------
(* What the command line says of threads and files.                           *)
LEMMA LineFacts ==
  ASSUME TypeOK
  PROVE  /\ line.threads \in 1 .. MaxThreads /\ line.threads \in Nat
         /\ Compilers \subseteq 1 .. MaxThreads /\ Compilers \subseteq Threads
         /\ CFiles \subseteq Files /\ Files \subseteq Nat
         /\ line.bad \subseteq CFiles
         /\ Main \in Threads /\ Main \notin Compilers
         /\ line.output \in BOOLEAN
         /\ Stop \notin CFiles /\ NoFile \notin CFiles
<1>1. line \in AllCommandLines /\ line.bad \subseteq {f \in Files : line.kind[f] = "c"}
  BY DriverAssumption DEF TypeOK
<1>2. line.threads \in 1 .. MaxThreads /\ line.output \in BOOLEAN
  BY <1>1 DEF AllCommandLines
<1> QED BY <1>1, <1>2, DriverAssumption DEF Compilers, Threads, CFiles, Files

LEMMA QueueFacts ==
  ASSUME TypeOK
  PROVE  /\ Len(inputs) \in Nat /\ start \in Nat /\ start <= Len(inputs)
         /\ DOMAIN inputs = 1 .. Len(inputs)
         /\ \A i \in 1 .. Len(inputs) : inputs[i] \in CFiles \cup {Stop}
<1>1. inputs \in Seq(CFiles \cup {Stop})
  BY DEF TypeOK
<1> QED BY <1>1, LenProperties, ElementOfSeq DEF TypeOK

LEMMA ModulesFacts ==
  ASSUME TypeOK, NEW t \in Threads
  PROVE  /\ modules[t] \in Seq(Recs) /\ Len(modules[t]) \in Nat
         /\ DOMAIN modules[t] = 1 .. Len(modules[t])
         /\ \A i \in DOMAIN modules[t] : modules[t][i] \in Recs
<1>1. modules[t] \in Seq(Recs)
  BY DEF TypeOK, Recs
<1> QED BY <1>1, LenProperties, ElementOfSeq

(* A module is added at the end of a context's list.                          *)
Added(t, f, n) ==
  /\ \A u \in Threads \ {t} : modules'[u] = modules[u]
  /\ n \in Nat \ {0}
  /\ \A i : i \in DOMAIN modules'[t] <=> i \in DOMAIN modules[t] \/ i = n
  /\ n \notin DOMAIN modules[t]
  /\ \A i \in DOMAIN modules[t] : modules'[t][i] = modules[t][i]
  /\ modules'[t][n].source = f /\ modules'[t][n].name = f

LEMMA AddModule ==
  ASSUME TypeOK, NEW t \in Threads, NEW f \in Files,
         modules' = [modules EXCEPT ![t] = Append(@, [source |-> f, name |-> f])]
  PROVE  modules' \in [Threads -> Seq(Recs)] /\ Added(t, f, Len(modules[t]) + 1)
<1> DEFINE r == [source |-> f, name |-> f]
<1>1. modules[t] \in Seq(Recs) /\ r \in Recs
  BY ModulesFacts DEF Recs
<1>2. modules'[t] = Append(modules[t], r)
  BY DEF TypeOK
<1>3. r.source = f /\ r.name = f
  OBVIOUS
<1>4. modules' \in [Threads -> Seq(Recs)] /\ \A u \in Threads \ {t} : modules'[u] = modules[u]
  <2>1. modules \in [Threads -> Seq(Recs)] /\ Append(modules[t], r) \in Seq(Recs)
    BY <1>1, AppendProperties DEF TypeOK, Recs
  <2> QED BY <2>1
<1> HIDE DEF r
<1>5. modules'[t] \in Seq(Recs) /\ Len(modules'[t]) = Len(modules[t]) + 1
      /\ \A i \in 1 .. Len(modules[t]) : modules'[t][i] = modules[t][i]
      /\ modules'[t][Len(modules[t]) + 1] = r
  BY <1>1, <1>2, AppendProperties
<1>6. DOMAIN modules[t] = 1 .. Len(modules[t]) /\ Len(modules[t]) \in Nat
      /\ DOMAIN modules'[t] = 1 .. Len(modules[t]) + 1
  BY <1>1, <1>5, LenProperties
<1>7. \A i : i \in DOMAIN modules'[t] <=> i \in DOMAIN modules[t] \/ i = Len(modules[t]) + 1
  BY <1>6
<1> QED BY <1>3, <1>4, <1>5, <1>6, <1>7 DEF Added

LEMMA AddCompiled ==
  ASSUME TypeOK, NEW t \in Threads, NEW f \in Files,
         modules' = [modules EXCEPT ![t] = Append(@, [source |-> f, name |-> f])]
  PROVE  \A g \in Files : Compiled(g)' <=> (Compiled(g) \/ g = f)
<1>1. PICK n : Added(t, f, n)
  BY AddModule
<1> USE DEF Added
<1> SUFFICES ASSUME NEW g \in Files PROVE Compiled(g)' <=> (Compiled(g) \/ g = f)
  OBVIOUS
<1>2. ASSUME Compiled(g)' PROVE Compiled(g) \/ g = f
  <2>1. PICK u \in Threads : \E i \in DOMAIN modules'[u] : modules'[u][i].source = g
    BY <1>2 DEF Compiled
  <2>2. PICK i \in DOMAIN modules'[u] : modules'[u][i].source = g
    BY <2>1
  <2> QED BY <1>1, <2>2 DEF Compiled
<1>3. ASSUME Compiled(g) PROVE Compiled(g)'
  <2>1. PICK u \in Threads : \E i \in DOMAIN modules[u] : modules[u][i].source = g
    BY <1>3 DEF Compiled
  <2>2. PICK i \in DOMAIN modules[u] : modules[u][i].source = g
    BY <2>1
  <2>3. i \in DOMAIN modules'[u] /\ modules'[u][i].source = g
    BY <1>1, <2>2
  <2> QED BY <2>3 DEF Compiled
<1>4. ASSUME g = f PROVE Compiled(g)'
  BY <1>1, <1>4 DEF Compiled
<1> QED BY <1>2, <1>3, <1>4

LEMMA AddDistinct ==
  ASSUME TypeOK, Distinct, NEW t \in Threads, NEW f \in Files, ~Compiled(f),
         modules' = [modules EXCEPT ![t] = Append(@, [source |-> f, name |-> f])]
  PROVE  Distinct'
<1>1. PICK n : Added(t, f, n)
  BY AddModule
<1>2. \A u \in Threads : \A i \in DOMAIN modules'[u] :
        \/ u = t /\ i = n /\ modules'[u][i].source = f
        \/ i \in DOMAIN modules[u] /\ modules'[u][i] = modules[u][i] /\ modules[u][i].source # f
  BY <1>1 DEF Compiled, Added
<1> QED BY <1>2 DEF Distinct

------------------------------------------------------------------------------
(* The queue: an input is put at its end.                                     *)
LEMMA SentQueue ==
  ASSUME TypeOK, NEW x \in CFiles \cup {Stop}, inputs' = Append(inputs, x), start' = start
  PROVE  /\ inputs' \in Seq(CFiles \cup {Stop}) /\ start' \in 0 .. Len(inputs')
         /\ Len(inputs') = Len(inputs) + 1
         /\ \A i \in 1 .. Len(inputs) : inputs'[i] = inputs[i]
         /\ inputs'[Len(inputs) + 1] = x
         /\ \A f : Queued(f)' <=> (Queued(f) \/ f = x)
<1>1. inputs \in Seq(CFiles \cup {Stop})
  BY DEF TypeOK
<1>2. /\ inputs' \in Seq(CFiles \cup {Stop}) /\ Len(inputs') = Len(inputs) + 1
      /\ \A i \in 1 .. Len(inputs) : inputs'[i] = inputs[i]
      /\ inputs'[Len(inputs) + 1] = x
  BY <1>1, AppendProperties
<1>3. start \in Nat /\ Len(inputs) \in Nat /\ start <= Len(inputs)
  BY QueueFacts
<1>4. ASSUME NEW f PROVE Queued(f)' <=> (Queued(f) \/ f = x)
  <2>1. ASSUME Queued(f)' PROVE Queued(f) \/ f = x
    <3>1. PICK i \in start + 1 .. Len(inputs) + 1 : inputs'[i] = f
      BY <1>2, <2>1 DEF Queued
    <3> QED BY <1>2, <1>3, <3>1 DEF Queued
  <2>2. ASSUME Queued(f) PROVE Queued(f)'
    <3>1. PICK i \in start + 1 .. Len(inputs) : inputs[i] = f
      BY <2>2 DEF Queued
    <3> QED BY <1>2, <1>3, <3>1 DEF Queued
  <2>3. ASSUME f = x PROVE Queued(f)'
    <3>1. Len(inputs) + 1 \in start' + 1 .. Len(inputs')
      BY <1>2, <1>3
    <3> QED BY <1>2, <2>3, <3>1 DEF Queued
  <2> QED BY <2>1, <2>2, <2>3
<1> QED BY <1>2, <1>3, <1>4

(* An input is taken, and the d inputs before it may go away.                  *)
Shifted(d) ==
  /\ d \in 0 .. start + 1
  /\ start' = start + 1 - d
  /\ inputs' \in Seq(CFiles \cup {Stop}) /\ Len(inputs') = Len(inputs) - d
  /\ \A i \in 1 .. Len(inputs') : inputs'[i] = inputs[i + d]

LEMMA TakenQueue ==
  ASSUME TypeOK, ~Empty, Compacted(inputs, start + 1)
  PROVE  \E d : Shifted(d)
<1>1. /\ inputs \in Seq(CFiles \cup {Stop}) /\ Len(inputs) \in Nat /\ start \in Nat
      /\ start + 1 <= Len(inputs)
  BY QueueFacts DEF Empty, TypeOK
<1>2. CASE inputs' = inputs /\ start' = start + 1
  <2>1. \A i \in 1 .. Len(inputs) : i + 0 = i
    BY <1>1
  <2>2. Shifted(0)
    BY <1>1, <1>2, <2>1 DEF Shifted
  <2> QED BY <2>2
<1>3. CASE inputs' = SubSeq(inputs, start + 2, Len(inputs)) /\ start' = 0
  <2>1. \A i \in start + 2 .. Len(inputs) : inputs[i] \in CFiles \cup {Stop}
    BY <1>1, QueueFacts
  <2>2. /\ inputs' \in Seq(CFiles \cup {Stop})
        /\ Len(inputs') = IF start + 2 <= Len(inputs) THEN Len(inputs) - (start + 2) + 1 ELSE 0
        /\ \A i \in 1 .. Len(inputs) - (start + 2) + 1 : inputs'[i] = inputs[start + 2 + i - 1]
    BY <1>1, <1>3, <2>1, SubSeqProperties
  <2>3. Len(inputs') = Len(inputs) - (start + 1)
    BY <1>1, <2>2
  <2>4. \A i \in 1 .. Len(inputs') : inputs'[i] = inputs[i + (start + 1)]
    BY <1>1, <2>2, <2>3
  <2>5. Shifted(start + 1)
    BY <1>1, <1>3, <2>2, <2>3, <2>4 DEF Shifted
  <2> QED BY <2>5
<1>4. start + 1 + 1 = start + 2
  BY <1>1
<1> QED BY <1>2, <1>3, <1>4 DEF Compacted

LEMMA TakenInput ==
  ASSUME TypeOK, QueueInv, ~Empty, NEW d, Shifted(d)
  PROVE  /\ Queued(inputs[start + 1])
         /\ \A f : Queued(f)' <=> (Queued(f) /\ f # inputs[start + 1])
<1>1. /\ Len(inputs) \in Nat /\ start \in Nat /\ start + 1 <= Len(inputs)
      /\ d \in Nat /\ d <= start + 1 /\ start' = start + 1 - d /\ Len(inputs') = Len(inputs) - d
      /\ \A i \in 1 .. Len(inputs') : inputs'[i] = inputs[i + d]
  BY QueueFacts DEF Empty, Shifted
<1>2. start + 1 \in start + 1 .. Len(inputs)
  BY <1>1
<1> SUFFICES ASSUME NEW f PROVE Queued(f)' <=> (Queued(f) /\ f # inputs[start + 1])
  BY <1>2 DEF Queued
<1>3. ASSUME Queued(f)' PROVE Queued(f) /\ f # inputs[start + 1]
  <2>1. PICK i \in start' + 1 .. Len(inputs') : inputs'[i] = f
    BY <1>3 DEF Queued
  <2>2. /\ i + d \in start + 1 .. Len(inputs) /\ inputs[i + d] = f
        /\ i + d # start + 1 /\ i + d \in 1 .. Len(inputs) /\ start + 1 \in 1 .. Len(inputs)
    BY <1>1, <2>1
  <2> QED BY <2>2 DEF Queued, QueueInv
<1>4. ASSUME Queued(f), f # inputs[start + 1] PROVE Queued(f)'
  <2>1. PICK i \in start + 1 .. Len(inputs) : inputs[i] = f
    BY <1>4 DEF Queued
  <2>2. i # start + 1
    BY <1>4, <2>1
  <2>3. i - d \in start' + 1 .. Len(inputs') /\ inputs'[i - d] = f
    BY <1>1, <2>1, <2>2
  <2> QED BY <2>3 DEF Queued
<1> QED BY <1>3, <1>4

(* The mark is the only thing left when a compiler has seen it. *)
LEMMA NothingBehindMark ==
  ASSUME TypeOK, QueueInv, NEW c \in 1 .. MaxThreads, pc[c] = "left"
  PROVE  \A f \in CFiles : ~Queued(f)
<1>1. /\ Len(inputs) \in Nat /\ start \in Nat
      /\ start + 1 \in 1 .. Len(inputs) /\ inputs[start + 1] = Stop
      /\ start + 1 = Len(inputs)
  BY QueueFacts DEF QueueInv
<1>2. \A i \in start + 1 .. Len(inputs) : inputs[i] = Stop
  BY <1>1
<1> QED BY <1>2, LineFacts DEF Queued

------------------------------------------------------------------------------
(* Steps that leave the files where they are: a thread goes to another place,    *)
(* holding what it held, or the process ends.                                   *)
Quiet ==
  /\ UNCHANGED <<line, queue, position, containers, modules>>
  /\ \A c \in 1 .. MaxThreads :
       /\ current'[c] = current[c]
       /\ pc'[c] \in Working <=> pc[c] \in Working
       /\ pc'[c] = "report" <=> pc[c] = "report"
  /\ pc[Main] \in Writing \cup {"exited"} => pc'[Main] \in Writing \cup {"exited"}
  /\ pc'[Main] \in Writing => pc[Main] \in Writing
  /\ resultCode' # resultCode => resultCode' = 1 /\ pc'[Main] = "exited"
  /\ pc[Main] = "exited" => pc'[Main] = "exited"

LEMMA QuietStep ==
  ASSUME TypeOK, HeldInv, DoneInv, NamedInv, Distinct, Quiet
  PROVE  HeldInv' /\ DoneInv' /\ NamedInv' /\ Distinct'
<1>1. Compilers \subseteq 1 .. MaxThreads /\ Compilers' = Compilers /\ CFiles' = CFiles
  BY LineFacts DEF Quiet, Compilers, CFiles
<1>2. \A f : Queued(f)' = Queued(f) /\ Compiled(f)' = Compiled(f)
  BY DEF Quiet, Queued, Compiled, queue
<1>3. \A c \in Compilers : \A f : Holds(c, f)' <=> Holds(c, f)
  BY <1>1 DEF Quiet, Holds
<1>4. HeldInv'
  BY <1>1, <1>2, <1>3 DEF HeldInv, Quiet
<1>5. DoneInv'
  BY <1>1, <1>2 DEF DoneInv, Quiet, Exited, TypeOK
<1>6. NamedInv'
  BY <1>1 DEF NamedInv, Quiet
<1>7. Distinct'
  BY DEF Distinct, Quiet
<1> QED BY <1>4, <1>5, <1>6, <1>7

(* A thread goes to a place of its own. *)
LEMMA Moves ==
  ASSUME TypeOK, NEW t \in Threads, NEW p \in MainPlaces \cup CompilerPlaces, pc' = Goes(t, p)
  PROVE  /\ pc' \in [Threads -> MainPlaces \cup CompilerPlaces]
         /\ pc'[t] = p
         /\ \A u \in Threads : u # t => pc'[u] = pc[u]
BY DEF TypeOK, Goes

(* The least number of a set. *)
LEMMA LeastNumber ==
  ASSUME NEW i \in Nat, NEW T \in SUBSET (0 .. i), T # {}
  PROVE  \E n \in T : \A m \in T : n <= m
<1> DEFINE Starts == {0 .. n : n \in T}
<1>1. IsFiniteSet(0 .. i)
  BY FS_Interval
<1>2. IsWellFoundedOn(StrictSubsetOrdering(0 .. i), FiniteSubsetsOf(0 .. i))
  BY <1>1, FS_StrictSubsetOrderingWellFounded
<1>3. Starts \subseteq FiniteSubsetsOf(0 .. i)
  <2>1. Starts \subseteq SUBSET (0 .. i)
    OBVIOUS
  <2> QED BY <2>1, <1>1, FS_FiniteSubsetsOfFinite
<1>4. Starts # {}
  OBVIOUS
<1>5. PICK least \in Starts : \A e \in Starts : ~ (<<e, least>> \in StrictSubsetOrdering(0 .. i))
  BY <1>2, <1>3, <1>4, WFMin
<1>6. PICK n \in T : least = 0 .. n
  BY <1>5
<1>7. ASSUME NEW m \in T, m < n PROVE FALSE
  <2>1. 0 .. m \in Starts /\ 0 .. m \subseteq 0 .. i /\ 0 .. n \subseteq 0 .. i
    OBVIOUS
  <2>2. n \in 0 .. n /\ n \notin 0 .. m /\ 0 .. m \subseteq 0 .. n
    BY <1>7
  <2>3. <<0 .. m, 0 .. n>> \in StrictSubsetOrdering(0 .. i)
    BY <2>1, <2>2 DEF StrictSubsetOrdering
  <2> QED BY <2>1, <2>3, <1>5, <1>6
<1>8. n \in T /\ \A m \in T : n <= m
  BY <1>7
<1> QED BY <1>8

(* The compilers are created in their order. *)
LEMMA NextThread ==
  ASSUME TypeOK, ThreadsInv, Created # Compilers
  PROVE  /\ Cardinality(Created) + 1 \in Compilers
         /\ pc[Cardinality(Created) + 1] = "new"
         /\ \A c \in 1 .. MaxThreads : c < Cardinality(Created) + 1 => pc[c] # "new"
<1>1. line.threads \in Nat /\ Compilers = 1 .. line.threads /\ Compilers \subseteq 1 .. MaxThreads
  BY LineFacts DEF Compilers
<1> DEFINE New == {c \in Compilers : pc[c] = "new"}
<1>2. New \in SUBSET (0 .. line.threads) /\ New # {}
  BY <1>1 DEF Created
<1>3. PICK n \in New : \A c \in New : n <= c
  BY <1>1, <1>2, LeastNumber
<1>4. Created = 1 .. n - 1
  <2>1. \A c \in Compilers : c < n => c \in Created
    BY <1>1, <1>3 DEF Created
  <2>2. \A c \in Created : c < n
    BY <1>1, <1>3 DEF Created, ThreadsInv
  <2> QED BY <1>1, <1>3, <2>1, <2>2 DEF Created
<1>5. n \in Nat /\ n >= 1 /\ n \in Compilers /\ pc[n] = "new"
  BY <1>1, <1>3
<1>6. Cardinality(Created) = n - 1
  BY <1>4, <1>5, FS_Interval
<1>7. \A c \in 1 .. MaxThreads : c < n => pc[c] # "new"
  BY <1>4, <1>5 DEF Created
<1> QED BY <1>5, <1>6, <1>7

(* What a step that only moves one thread leaves alone. *)
Standing == UNCHANGED <<line, queue, position, current, containers, modules, resultCode>>

LEMMA CreateThreadStep == ASSUME DriverInv, CreateThread PROVE DriverInv'
<1> DEFINE n == Cardinality(Created) + 1
<1>0. n \in Compilers /\ pc[n] = "new" /\ \A c \in 1 .. MaxThreads : c < n => pc[c] # "new"
  BY NextThread DEF DriverInv, CreateThread
<1>1. /\ n \in Compilers /\ n \in 1 .. MaxThreads /\ n \in Threads /\ n # Main /\ n \in Nat
      /\ pc[n] = "new"
  BY <1>0, LineFacts DEF DriverInv
<1>2. pc' = Goes(n, "awake") /\ pc[Main] = "init" /\ Standing /\ UNCHANGED output
  BY DEF CreateThread, Standing
<1> HIDE DEF n
<1>3. /\ pc' \in [Threads -> MainPlaces \cup CompilerPlaces] /\ pc'[n] = "awake"
      /\ \A u \in Threads : u # n => pc'[u] = pc[u]
  BY <1>1, <1>2, Moves DEF DriverInv, MainPlaces, CompilerPlaces
<1>4. pc'[Main] = "init" /\ \A c \in 1 .. MaxThreads : pc'[c] = IF c = n THEN "awake" ELSE pc[c]
  BY <1>1, <1>2, <1>3, LineFacts DEF DriverInv, Threads
<1>5. TypeOK'
  BY <1>2, <1>3, <1>4 DEF DriverInv, TypeOK, CFiles, Standing, queue, output, MainPlaces, CompilerPlaces
<1>6. ThreadsInv'
  <2>1. \A c, d \in 1 .. MaxThreads : c < d /\ pc'[d] # "new" => pc'[c] # "new"
    BY <1>0, <1>4 DEF DriverInv, ThreadsInv
  <2>2. \A c \in 1 .. MaxThreads : c > line.threads => pc'[c] = "new"
    BY <1>1, <1>4, LineFacts DEF DriverInv, ThreadsInv, Compilers
  <2>3. \A c \in 1 .. MaxThreads : current[c] \in IF pc'[c] \in Working THEN CFiles ELSE {NoFile}
    BY <1>1, <1>4 DEF DriverInv, ThreadsInv, Working
  <2>4. line' = line /\ current' = current /\ CFiles' = CFiles
    BY <1>2 DEF Standing, CFiles
  <2>5. pc'[Main] = "init" /\ "init" \notin Writing \cup {"join"} \cup Joined
    BY <1>4 DEF Writing, Joined
  <2> QED BY <2>1, <2>2, <2>3, <2>4, <2>5 DEF ThreadsInv
<1>7. OutputInv'
  BY <1>2, <1>3 DEF DriverInv, OutputInv, Standing, output
<1>8. QueueInv'
  BY <1>2, <1>4 DEF DriverInv, QueueInv, Standing, queue, CFiles, Reading
<1>9. Quiet
  BY <1>1, <1>2, <1>4 DEF Quiet, Standing, queue, Working, Writing
<1>10. LoadInv'
  BY <1>4 DEF LoadInv, ToLoad, Joined
<1> QED BY <1>5, <1>6, <1>7, <1>8, <1>9, <1>10, QuietStep DEF DriverInv

LEMMA InitDoneStep == ASSUME DriverInv, InitDone PROVE DriverInv'
<1>1. pc' = Goes(Main, "read") /\ pc[Main] = "init" /\ Standing /\ UNCHANGED output
      /\ \A c \in Compilers : pc[c] # "new"
  BY DEF InitDone, Standing, Created
<1>2. /\ pc' \in [Threads -> MainPlaces \cup CompilerPlaces] /\ pc'[Main] = "read"
      /\ \A c \in 1 .. MaxThreads : pc'[c] = pc[c]
      /\ \A t \in Threads : pc'[t] = pc[t] \/ pc'[t] = "read"
  BY <1>1, Moves, LineFacts, DriverAssumption DEF DriverInv, MainPlaces, CompilerPlaces, Threads
<1>3. TypeOK'
  BY <1>1, <1>2 DEF DriverInv, TypeOK, CFiles, Standing, queue, output, MainPlaces, CompilerPlaces
<1>4. ThreadsInv'
  BY <1>1, <1>2, LineFacts DEF DriverInv, ThreadsInv, Standing, Compilers, CFiles, Working, Joined, Writing
<1>5. OutputInv'
  BY <1>1, <1>2 DEF DriverInv, OutputInv, Standing, output
<1>6. QueueInv'
  BY <1>1, <1>2 DEF DriverInv, QueueInv, Standing, queue, CFiles, Reading
<1>7. Quiet
  BY <1>1, <1>2 DEF Quiet, Standing, queue, Working, Writing
<1>8. LoadInv'
  BY <1>2 DEF LoadInv, ToLoad, Joined
<1> QED BY <1>3, <1>4, <1>5, <1>6, <1>7, <1>8, QuietStep DEF DriverInv

LEMMA JoinStep == ASSUME DriverInv, Join PROVE DriverInv'
<1> DEFINE p == IF resultCode = 0 /\ ~line.output THEN "merge" ELSE "done"
<1>1. pc' = Goes(Main, p) /\ pc[Main] = "join" /\ Standing /\ UNCHANGED output
      /\ \A c \in Compilers : pc[c] = "left"
  BY DEF Join, Standing
<1>2. /\ pc' \in [Threads -> MainPlaces \cup CompilerPlaces] /\ pc'[Main] = p
      /\ \A c \in 1 .. MaxThreads : pc'[c] = pc[c]
      /\ \A t \in Threads : pc'[t] = pc[t] \/ pc'[t] = p
  BY <1>1, Moves, LineFacts, DriverAssumption DEF DriverInv, MainPlaces, CompilerPlaces, Threads
<1>3. TypeOK'
  BY <1>1, <1>2 DEF DriverInv, TypeOK, CFiles, Standing, queue, output, MainPlaces, CompilerPlaces
<1>4. ThreadsInv'
  BY <1>1, <1>2, LineFacts DEF DriverInv, ThreadsInv, Standing, Compilers, CFiles, Working, Joined, Writing
<1>5. OutputInv'
  BY <1>1, <1>2 DEF DriverInv, OutputInv, Standing, output
<1>6. QueueInv'
  BY <1>1, <1>2 DEF DriverInv, QueueInv, Standing, queue, CFiles, Reading
<1>7. Quiet
  BY <1>1, <1>2 DEF Quiet, Standing, queue, Working, Writing
<1>8. LoadInv'
  BY <1>1, <1>2 DEF LoadInv, ToLoad, Joined, Standing
<1> QED BY <1>3, <1>4, <1>5, <1>6, <1>7, <1>8, QuietStep DEF DriverInv

(* The process may end at any time. *)
LEMMA DieStep == ASSUME DriverInv, Die PROVE DriverInv'
<1>1. /\ pc' = Goes(Main, "exited") /\ resultCode' = 1
      /\ UNCHANGED <<line, queue, position, current, containers, output, modules>>
  BY DEF Die
<1>2. /\ pc' \in [Threads -> MainPlaces \cup CompilerPlaces] /\ pc'[Main] = "exited"
      /\ \A c \in 1 .. MaxThreads : pc'[c] = pc[c]
      /\ \A t \in Threads : pc'[t] = pc[t] \/ pc'[t] = "exited"
  BY <1>1, Moves, LineFacts, DriverAssumption DEF DriverInv, MainPlaces, CompilerPlaces, Threads
<1>3. TypeOK'
  BY <1>1, <1>2 DEF DriverInv, TypeOK, CFiles, queue, output, MainPlaces, CompilerPlaces
<1>4. ThreadsInv'
  BY <1>1, <1>2 DEF DriverInv, ThreadsInv, Compilers, CFiles, Working, Joined, Writing
<1>5. OutputInv'
  BY <1>1, <1>2 DEF DriverInv, OutputInv, output
<1>6. QueueInv'
  BY <1>1, <1>2 DEF DriverInv, QueueInv, queue, CFiles, Reading
<1>7. Quiet
  BY <1>1, <1>2 DEF Quiet, queue, Working, Writing
<1>8. LoadInv'
  BY <1>2 DEF LoadInv, ToLoad, Joined
<1> QED BY <1>3, <1>4, <1>5, <1>6, <1>7, <1>8, QuietStep DEF DriverInv

------------------------------------------------------------------------------
(* Steps of the main thread that read the files.                              *)

LEMMA OpenOutputOfMain == ASSUME DriverInv, OpenOutput(Main) PROVE DriverInv'
<1>1. /\ pc[Main] = "open" /\ pc' = Goes(Main, "compile") /\ Standing
      /\ opened' = [opened EXCEPT ![Main] = tempString]
      /\ written' = [written EXCEPT ![tempString] = <<>>] /\ UNCHANGED tempString
  BY DEF OpenOutput, Standing
<1>2. /\ pc' \in [Threads -> MainPlaces \cup CompilerPlaces] /\ pc'[Main] = "compile"
      /\ \A c \in 1 .. MaxThreads : pc'[c] = pc[c] /\ c # Main
      /\ \A t \in Threads : t # Main => pc'[t] = pc[t]
      /\ Main \in Threads
  BY <1>1, Moves, LineFacts, DriverAssumption DEF DriverInv, MainPlaces, CompilerPlaces, Threads
<1>3. tempString \in Files
  BY <1>1, <1>2 DEF DriverInv, OutputInv
<1>4. TypeOK'
  <2>1. written' \in [Files -> Seq(Files)] /\ opened' \in [Threads -> Files \cup {NoFile}]
    BY <1>1, <1>3, EmptySeq DEF DriverInv, TypeOK
  <2> QED BY <1>1, <1>2, <2>1 DEF DriverInv, TypeOK, CFiles, Standing, queue, MainPlaces, CompilerPlaces
<1>5. ThreadsInv'
  <2>1. /\ line' = line /\ current' = current /\ position' = position
        /\ CFiles' = CFiles /\ Compilers' = Compilers /\ Compilers \subseteq 1 .. MaxThreads
    BY <1>1, LineFacts DEF DriverInv, Standing, CFiles, Compilers
  <2>2. "open" \in Writing /\ "compile" \notin {"join"} \cup Joined
    BY DEF Writing, Joined
  <2> QED BY <1>1, <1>2, <2>1, <2>2 DEF DriverInv, ThreadsInv
<1>6. OutputInv'
  BY <1>1, <1>2, <1>3 DEF DriverInv, OutputInv, Standing, TypeOK
<1>7. QueueInv'
  BY <1>1, <1>2 DEF DriverInv, QueueInv, Standing, queue, CFiles, Reading
<1>8. Quiet
  BY <1>1, <1>2 DEF Quiet, Standing, queue, Working, Writing
<1>9. LoadInv'
  BY <1>2 DEF LoadInv, ToLoad, Joined
<1> QED BY <1>4, <1>5, <1>6, <1>7, <1>8, <1>9, QuietStep DEF DriverInv

LEMMA BuildNameOfMain == ASSUME DriverInv, BuildName(Main) PROVE DriverInv'
<1>1. /\ pc[Main] = "name" /\ pc' = Goes(Main, "open") /\ Standing
      /\ tempString' = current[Main] /\ UNCHANGED <<opened, written>>
  BY DEF BuildName, Standing
<1>2. /\ pc' \in [Threads -> MainPlaces \cup CompilerPlaces] /\ pc'[Main] = "open"
      /\ \A c \in 1 .. MaxThreads : pc'[c] = pc[c] /\ c # Main
      /\ \A t \in Threads : t # Main => pc'[t] = pc[t]
      /\ Main \in Threads
  BY <1>1, Moves, LineFacts, DriverAssumption DEF DriverInv, MainPlaces, CompilerPlaces, Threads
<1>3. tempString' \in Files
  BY <1>1 DEF DriverInv, ThreadsInv, Writing
<1>4. TypeOK'
  BY <1>1, <1>2, <1>3 DEF DriverInv, TypeOK, CFiles, Standing, queue, MainPlaces, CompilerPlaces
<1>5. ThreadsInv'
  BY <1>1, <1>2, LineFacts DEF DriverInv, ThreadsInv, Standing, Compilers, CFiles, Working, Joined, Writing
<1>6. OutputInv'
  BY <1>1, <1>2, <1>3 DEF DriverInv, OutputInv, Standing
<1>7. QueueInv'
  BY <1>1, <1>2 DEF DriverInv, QueueInv, Standing, queue, CFiles, Reading
<1>8. Quiet
  BY <1>1, <1>2 DEF Quiet, Standing, queue, Working, Writing
<1>9. LoadInv'
  BY <1>2 DEF LoadInv, ToLoad, Joined
<1> QED BY <1>4, <1>5, <1>6, <1>7, <1>8, <1>9, QuietStep DEF DriverInv

(* Everybody who sleeps is woken; the others stay where they are. *)
LEMMA Wakes ==
  ASSUME TypeOK, NEW p, pc' = Woken(p), p = pc \/ p = Goes(Main, "join")
  PROVE  /\ pc' \in [Threads -> MainPlaces \cup CompilerPlaces]
         /\ pc'[Main] = p[Main]
         /\ \A c \in 1 .. MaxThreads :
              pc'[c] = pc[c] \/ (pc[c] = "asleep" /\ pc'[c] = "awake")
<1>1. /\ p \in [Threads -> MainPlaces \cup CompilerPlaces]
      /\ \A c \in 1 .. MaxThreads : c \in Threads /\ p[c] = pc[c]
      /\ Main \in Threads /\ p[Main] # "asleep"
  BY DriverAssumption DEF TypeOK, Threads, Goes, MainPlaces, CompilerPlaces
<1>2. "awake" \in MainPlaces \cup CompilerPlaces
  BY DEF CompilerPlaces
<1> QED BY <1>1, <1>2 DEF Woken

LEMMA SendStep == ASSUME DriverInv, Send PROVE DriverInv'
<1>1. /\ pc[Main] = "read" /\ position \in CFiles
      /\ inputs' = Append(inputs, position) /\ start' = start
      /\ containers' = containers \cup {position} /\ position' = position + 1
      /\ pc' = Woken(pc)
      /\ UNCHANGED <<line, start, current, output, modules, resultCode>>
  BY DEF Send
<1>2. /\ pc' \in [Threads -> MainPlaces \cup CompilerPlaces]
      /\ pc'[Main] = "read"
      /\ \A c \in 1 .. MaxThreads :
           pc'[c] = pc[c] \/ (pc[c] = "asleep" /\ pc'[c] = "awake")
  BY <1>1, Wakes DEF DriverInv
<1>3. /\ Compilers' = Compilers /\ CFiles' = CFiles /\ position \in Files /\ position \in Nat
      /\ Compilers \subseteq 1 .. MaxThreads /\ CFiles \subseteq Files /\ Files \subseteq Nat
      /\ Stop \notin CFiles
      /\ Threads = 1 .. MaxThreads \cup {Main}
  BY <1>1, LineFacts DEF DriverInv, Compilers, CFiles, Threads
<1>4. /\ inputs' \in Seq(CFiles \cup {Stop}) /\ start' \in 0 .. Len(inputs')
      /\ Len(inputs') = Len(inputs) + 1 /\ Len(inputs) \in Nat /\ start \in Nat /\ start <= Len(inputs)
      /\ \A i \in 1 .. Len(inputs) : inputs'[i] = inputs[i]
      /\ inputs'[Len(inputs) + 1] = position
      /\ \A f : Queued(f)' <=> (Queued(f) \/ f = position)
  BY <1>1, SentQueue, QueueFacts DEF DriverInv
<1>5. \A i \in 1 .. Len(inputs) : inputs[i] # position /\ inputs[i] # Stop
  BY <1>1, <1>3 DEF DriverInv, QueueInv, Reading
<1>6. \A f : Compiled(f)' <=> Compiled(f)
  BY <1>1 DEF Compiled
<1>7. ~Compiled(position)
  BY <1>1 DEF DriverInv, NamedInv, Compiled, Writing
<1>8. \A c \in Compilers : \A f : Holds(c, f)' <=> Holds(c, f)
  BY <1>1, <1>2, <1>3 DEF Holds, Working
<1>9. \A c \in Compilers : ~Holds(c, position) /\ (pc'[c] = "report" <=> pc[c] = "report")
  BY <1>1, <1>2, <1>3 DEF DriverInv, HeldInv
<1>10. TypeOK'
  <2>1. position' \in 1 .. FilesNum + 1
    BY <1>1, <1>3, DriverAssumption DEF Files
  <2>2. containers' \subseteq CFiles
    BY <1>1 DEF DriverInv, TypeOK
  <2>3. \A c \in 1 .. MaxThreads : pc'[c] \in CompilerPlaces
    BY <1>2 DEF DriverInv, TypeOK, CompilerPlaces
  <2> QED BY <1>1, <1>2, <1>3, <1>4, <2>1, <2>2, <2>3 DEF DriverInv, TypeOK, output, MainPlaces
<1>11. ThreadsInv'
  BY <1>1, <1>2, <1>3 DEF DriverInv, ThreadsInv, Working, Joined, Writing
<1>12. OutputInv'
  BY <1>1, <1>2, <1>3 DEF DriverInv, OutputInv, output
<1>13. QueueInv'
  <2>1. \A i \in 1 .. Len(inputs') : i \in 1 .. Len(inputs) \/ i = Len(inputs) + 1
    BY <1>4
  <2>2. \A i \in 1 .. Len(inputs') : inputs'[i] \in CFiles => inputs'[i] < position'
    <3>1. \A i \in 1 .. Len(inputs) : inputs[i] \in CFiles => inputs[i] \in Nat /\ inputs[i] < position
      BY <1>3 DEF DriverInv, QueueInv
    <3> QED BY <1>1, <1>3, <1>4, <2>1, <3>1
  <2>3. \A i, j \in 1 .. Len(inputs') : inputs'[i] = inputs'[j] => i = j
    BY <1>4, <1>5, <2>1 DEF DriverInv, QueueInv
  <2>4. \A i \in 1 .. Len(inputs') : inputs'[i] # Stop
    BY <1>1, <1>3, <1>4, <1>5, <2>1
  <2>5. \A c \in 1 .. MaxThreads : pc'[c] # "left"
    BY <1>2, <1>5 DEF DriverInv, QueueInv
  <2> QED BY <1>3, <2>2, <2>3, <2>4, <2>5 DEF QueueInv
<1>14. HeldInv'
  <2>1. \A f \in CFiles : f \in containers' <=> (Queued(f)' \/ \E c \in Compilers : Holds(c, f)')
    BY <1>1, <1>4, <1>8 DEF DriverInv, HeldInv
  <2>2. \A f \in CFiles : Queued(f)' => ~Compiled(f)' /\ \A c \in Compilers : ~Holds(c, f)'
    BY <1>4, <1>6, <1>7, <1>8, <1>9 DEF DriverInv, HeldInv
  <2>3. \A c, d \in Compilers : \A f \in CFiles : Holds(c, f)' /\ Holds(d, f)' => c = d
    BY <1>8 DEF DriverInv, HeldInv
  <2>4. \A c \in Compilers : \A f \in CFiles : Holds(c, f)' =>
          /\ f < position'
          /\ IF pc'[c] = "report" THEN Compiled(f)' \/ f \in line'.bad ELSE ~Compiled(f)'
    BY <1>1, <1>3, <1>6, <1>8, <1>9 DEF DriverInv, HeldInv
  <2> QED BY <1>3, <2>1, <2>2, <2>3, <2>4 DEF HeldInv
<1>15. DoneInv'
  <2>1. \A f \in Files : f < position + 1 => f < position \/ f = position
    BY <1>3
  <2>2. \A f \in CFiles : f < position' /\ f \notin containers' =>
          Compiled(f)' \/ (f \in line.bad /\ resultCode = 1)
    BY <1>1, <1>3, <1>6, <2>1 DEF DriverInv, DoneInv
  <2>3. \A f \in Files \ CFiles : f < position' => Compiled(f)'
    BY <1>1, <1>6, <2>1 DEF DriverInv, DoneInv
  <2>4. resultCode = 1 => line.bad # {}
    BY <1>1 DEF DriverInv, DoneInv, Exited
  <2> QED BY <1>1, <1>2, <1>3, <2>2, <2>3, <2>4 DEF DoneInv, Writing
<1>16. NamedInv'
  <2>0. \A t \in Threads : \A i \in DOMAIN modules[t] : modules[t][i].source \in Nat
    BY <1>3, ModulesFacts DEF DriverInv, Recs
  <2>1. \A t \in Threads : \A i \in DOMAIN modules[t] :
          modules[t][i].source \in Nat /\ modules[t][i].source < position
    BY <1>1, <1>3, <2>0 DEF DriverInv, NamedInv, Writing
  <2> QED BY <1>1, <1>3, <2>1 DEF DriverInv, NamedInv
<1>17. Distinct'
  BY <1>1 DEF DriverInv, Distinct
<1>18. LoadInv'
  BY <1>2 DEF LoadInv, ToLoad, Joined
<1> QED BY <1>10, <1>11, <1>12, <1>13, <1>14, <1>15, <1>16, <1>17, <1>18 DEF DriverInv
LEMMA ReadModuleStep == ASSUME DriverInv, ReadModule PROVE DriverInv'
<1>1. /\ pc[Main] = "read" /\ position \in Files \ CFiles
      /\ modules' = [modules EXCEPT ![Main] = Append(@, [source |-> position, name |-> position])]
      /\ UNCHANGED <<line, queue, containers, output, resultCode>>
      /\ \/ /\ current' = [current EXCEPT ![Main] = position] /\ pc' = Goes(Main, "name")
            /\ position' = position
         \/ position' = position + 1 /\ UNCHANGED <<current, pc>>
  BY DEF ReadModule
<1>2. /\ Compilers' = Compilers /\ CFiles' = CFiles /\ position \in Nat /\ Main \in Threads
      /\ Compilers \subseteq 1 .. MaxThreads /\ CFiles \subseteq Files /\ Files \subseteq Nat
      /\ Threads = 1 .. MaxThreads \cup {Main} /\ Main \notin 1 .. MaxThreads
      /\ line.bad \subseteq CFiles
  BY <1>1, LineFacts, DriverAssumption DEF DriverInv, Compilers, CFiles, Threads
<1>3. /\ pc' \in [Threads -> MainPlaces \cup CompilerPlaces]
      /\ current' \in [Threads -> Files \cup {NoFile}]
      /\ \A c \in 1 .. MaxThreads : pc'[c] = pc[c] /\ current'[c] = current[c]
      /\ \/ pc'[Main] = "name" /\ current'[Main] = position /\ position' = position
         \/ pc'[Main] = "read" /\ position' = position + 1
  <2>1. CASE pc' = Goes(Main, "name") /\ current' = [current EXCEPT ![Main] = position] /\ position' = position
    <3>1. pc' \in [Threads -> MainPlaces \cup CompilerPlaces] /\ pc'[Main] = "name"
          /\ \A c \in 1 .. MaxThreads : pc'[c] = pc[c]
      BY <1>2, <2>1, Moves DEF DriverInv, MainPlaces
    <3>2. current' \in [Threads -> Files \cup {NoFile}] /\ current'[Main] = position
          /\ \A c \in 1 .. MaxThreads : current'[c] = current[c]
      BY <1>1, <1>2, <2>1 DEF DriverInv, TypeOK
    <3> QED BY <2>1, <3>1, <3>2
  <2>2. CASE position' = position + 1 /\ UNCHANGED <<current, pc>>
    BY <1>1, <2>2 DEF DriverInv, TypeOK
  <2> QED BY <1>1, <2>1, <2>2
<1>4. PICK n : Added(Main, position, n)
  BY <1>1, <1>2, AddModule DEF DriverInv
<1>5. modules' \in [Threads -> Seq([source : Files, name : Files])]
  BY <1>1, <1>2, AddModule DEF DriverInv, Recs
<1>6. \A f \in Files : Compiled(f)' <=> (Compiled(f) \/ f = position)
  BY <1>1, <1>2, AddCompiled DEF DriverInv
<1>7. ~Compiled(position)
  BY <1>1 DEF DriverInv, NamedInv, Compiled, Writing
<1>8. \A c \in Compilers : \A f : Holds(c, f)' <=> Holds(c, f)
  BY <1>2, <1>3 DEF Holds
<1>9. \A f : Queued(f)' <=> Queued(f)
  BY <1>1 DEF Queued, queue
<1>20. position' = position \/ position' = position + 1
  BY <1>3
<1>10. ASSUME NEW f \in Files
      PROVE  /\ f < position => f < position'
             /\ f < position' => f < position \/ (f = position /\ f \notin CFiles)
  <2>1. f \in Nat /\ position \in Nat
    BY <1>2
  <2>2. CASE position' = position
    BY ONLY <2>2
  <2>3. CASE position' = position + 1
    <3>1. f < position => f < position'
      BY ONLY <2>1, <2>3
    <3>2. f < position' => f < position \/ f = position
      BY ONLY <2>1, <2>3
    <3>3. position \notin CFiles
      BY <1>1
    <3> QED BY <3>1, <3>2, <3>3
  <2> QED BY <1>20, <2>2, <2>3
<1>21. ASSUME NEW f \in CFiles, f < position PROVE f < position'
  <2>1. f \in Files
    BY <1>2
  <2>2. f < position => f < position'
    BY <1>10, <2>1
  <2> QED BY <1>21, <2>2
<1>11. TypeOK'
  <2>1. position' \in 1 .. FilesNum + 1
    BY <1>1, <1>2, <1>3, DriverAssumption DEF Files
  <2>2. pc'[Main] \in MainPlaces
    BY <1>3 DEF MainPlaces
  <2> QED BY <1>1, <1>2, <1>3, <1>5, <2>1, <2>2 DEF DriverInv, TypeOK, queue, output
<1>12. ThreadsInv'
  <2>1. pc'[Main] \in Writing => position' = position /\ current'[Main] = position
    BY <1>3 DEF Writing
  <2>2. pc'[Main] \notin {"join"} \cup Joined /\ pc[Main] \notin {"init", "exited"}
    BY <1>1, <1>3 DEF Joined
  <2> QED BY <1>1, <1>2, <1>3, <2>1, <2>2 DEF DriverInv, ThreadsInv
<1>13. OutputInv'
  BY <1>1, <1>2, <1>3 DEF DriverInv, OutputInv, output
<1>14. QueueInv'
  <2>1. \A i \in 1 .. Len(inputs) : inputs[i] \in CFiles => inputs[i] < position'
    BY <1>21 DEF DriverInv, QueueInv
  <2>2. \A i \in 1 .. Len(inputs) : inputs[i] # Stop
    BY <1>1 DEF DriverInv, QueueInv, Reading
  <2> QED BY <1>1, <1>2, <1>3, <2>1, <2>2 DEF DriverInv, QueueInv, queue
<1>15. HeldInv'
  <2>1. \A f \in CFiles : f \in containers' <=> (Queued(f)' \/ \E c \in Compilers : Holds(c, f)')
    BY <1>1, <1>8, <1>9 DEF DriverInv, HeldInv
  <2>2. \A f \in CFiles : Queued(f)' => ~Compiled(f)' /\ \A c \in Compilers : ~Holds(c, f)'
    BY <1>1, <1>2, <1>6, <1>8, <1>9 DEF DriverInv, HeldInv
  <2>3. \A c, d \in Compilers : \A f \in CFiles : Holds(c, f)' /\ Holds(d, f)' => c = d
    BY <1>8 DEF DriverInv, HeldInv
  <2>4. \A c \in Compilers : \A f \in CFiles : Holds(c, f)' =>
          /\ f < position'
          /\ IF pc'[c] = "report" THEN Compiled(f)' \/ f \in line'.bad ELSE ~Compiled(f)'
    <3>0. \A f \in CFiles : Compiled(f)' <=> Compiled(f)
      BY <1>1, <1>2, <1>6
    <3>1. \A f \in CFiles : (f < position => f < position') /\ (Compiled(f)' <=> Compiled(f))
      BY <1>21, <3>0
    <3>2. \A c \in Compilers : pc'[c] = pc[c]
      BY <1>2, <1>3
    <3> QED BY <1>1, <1>8, <3>1, <3>2 DEF DriverInv, HeldInv
  <2> QED BY <1>2, <2>1, <2>2, <2>3, <2>4 DEF HeldInv
<1>16. DoneInv'
  <2>1. \A f \in CFiles : f < position' /\ f \notin containers' =>
          Compiled(f)' \/ (f \in line.bad /\ resultCode = 1)
    BY <1>1, <1>2, <1>6, <1>10 DEF DriverInv, DoneInv
  <2>2. \A f \in Files \ CFiles : f < position' => Compiled(f)'
    BY <1>6, <1>10 DEF DriverInv, DoneInv
  <2>3. resultCode = 1 => line.bad # {}
    BY <1>1 DEF DriverInv, DoneInv, Exited
  <2>5. pc'[Main] \in Writing => position' = position
    BY <1>3 DEF Writing
  <2>4. pc'[Main] \in Writing => Compiled(position)'
    BY <1>1, <1>6, <2>5 DEF Compiled
  <2> QED BY <1>1, <1>2, <2>1, <2>2, <2>3, <2>4 DEF DoneInv
<1>17. NamedInv'
  <2>1. \A t \in Threads : \A i \in DOMAIN modules[t] : modules[t][i].source \in Nat
    BY <1>2, ModulesFacts DEF DriverInv, Recs
  <2>2. \A t \in Threads : \A i \in DOMAIN modules[t] :
          /\ t \in Compilers \cup {Main}
          /\ modules[t][i].name = modules[t][i].source
          /\ modules[t][i].source \notin line.bad
          /\ modules[t][i].source < position
    BY <1>1, <1>2, <2>1 DEF DriverInv, NamedInv, Writing
  <2>3. \A t \in Threads : \A i \in DOMAIN modules'[t] :
          \/ i \in DOMAIN modules[t] /\ modules'[t][i] = modules[t][i]
          \/ t = Main /\ modules'[t][i].source = position /\ modules'[t][i].name = position
    BY <1>4 DEF Added
  <2>4. position <= position' /\ (position' = position => pc'[Main] \in Writing)
    BY <1>2, <1>3 DEF Writing
  <2>5. \A t \in Threads : \A i \in DOMAIN modules[t] :
          modules[t][i].source <= position' /\ modules[t][i].source # position'
    BY <1>2, <1>3, <2>1, <2>2
  <2> QED BY <1>1, <1>2, <2>2, <2>3, <2>4, <2>5 DEF NamedInv
<1>18. Distinct'
  BY <1>1, <1>2, <1>7, AddDistinct DEF DriverInv
<1>19. LoadInv'
  BY <1>3 DEF LoadInv, ToLoad, Joined
<1> QED BY <1>11, <1>12, <1>13, <1>14, <1>15, <1>16, <1>17, <1>18, <1>19 DEF DriverInv

LEMMA WriteModuleStep == ASSUME DriverInv, WriteModule PROVE DriverInv'
<1>1. /\ pc[Main] = "compile" /\ position' = position + 1 /\ pc' = Goes(Main, "read")
      /\ written' = [written EXCEPT ![opened[Main]] = Append(@, current[Main])]
      /\ opened' = [opened EXCEPT ![Main] = NoFile]
      /\ current' = [current EXCEPT ![Main] = NoFile]
      /\ UNCHANGED <<line, queue, containers, tempString, modules, resultCode>>
  BY DEF WriteModule
<1>2. /\ Compilers' = Compilers /\ CFiles' = CFiles /\ Main \in Threads
      /\ Compilers \subseteq 1 .. MaxThreads /\ CFiles \subseteq Files /\ Files \subseteq Nat
      /\ Threads = 1 .. MaxThreads \cup {Main} /\ Main \notin 1 .. MaxThreads
  BY <1>1, LineFacts, DriverAssumption DEF DriverInv, Compilers, CFiles, Threads
<1>3. position \in Files \ CFiles /\ current[Main] = position /\ opened[Main] \in Files
      /\ position \in Nat /\ Compiled(position)
  BY <1>1, <1>2 DEF DriverInv, ThreadsInv, OutputInv, DoneInv, Writing
<1>4. /\ pc' \in [Threads -> MainPlaces \cup CompilerPlaces] /\ pc'[Main] = "read"
      /\ \A c \in 1 .. MaxThreads : pc'[c] = pc[c]
  BY <1>1, <1>2, Moves DEF DriverInv, MainPlaces
<1>5. /\ current' \in [Threads -> Files \cup {NoFile}] /\ opened' \in [Threads -> Files \cup {NoFile}]
      /\ \A c \in 1 .. MaxThreads : current'[c] = current[c] /\ opened'[c] = opened[c]
  BY <1>1, <1>2 DEF DriverInv, TypeOK
<1>6. written' \in [Files -> Seq(Files)]
  <2>1. Append(written[opened[Main]], current[Main]) \in Seq(Files)
    BY <1>3, AppendProperties DEF DriverInv, TypeOK
  <2> QED BY <1>1, <2>1 DEF DriverInv, TypeOK
<1>7. \A f : (Compiled(f)' <=> Compiled(f)) /\ (Queued(f)' <=> Queued(f))
  BY <1>1 DEF Compiled, Queued, queue
<1>8. \A c \in Compilers : \A f : Holds(c, f)' <=> Holds(c, f)
  BY <1>2, <1>4, <1>5 DEF Holds
<1>9. \A f \in Files : /\ f < position => f < position'
                       /\ f < position' => f < position \/ f = position
  BY <1>1, <1>2, <1>3
<1>10. TypeOK'
  <2>1. position' \in 1 .. FilesNum + 1
    BY <1>1, <1>3, DriverAssumption DEF Files
  <2>2. pc'[Main] \in MainPlaces
    BY <1>4 DEF MainPlaces
  <2> QED BY <1>1, <1>2, <1>4, <1>5, <1>6, <2>1, <2>2 DEF DriverInv, TypeOK, queue
<1>11. ThreadsInv'
  <2>1. pc'[Main] \notin Writing \cup {"join"} \cup Joined /\ pc[Main] \notin {"init", "exited"}
    BY <1>1, <1>4 DEF Joined, Writing
  <2> QED BY <1>1, <1>2, <1>4, <1>5, <2>1 DEF DriverInv, ThreadsInv
<1>12. OutputInv'
  BY <1>1, <1>2, <1>4, <1>5 DEF DriverInv, OutputInv
<1>13. QueueInv'
  <2>1. \A i \in 1 .. Len(inputs) : inputs[i] \in CFiles => inputs[i] < position'
    BY <1>2, <1>9 DEF DriverInv, QueueInv
  <2>2. \A i \in 1 .. Len(inputs) : inputs[i] # Stop
    BY <1>1 DEF DriverInv, QueueInv, Reading
  <2> QED BY <1>1, <1>2, <1>4, <2>1, <2>2 DEF DriverInv, QueueInv, queue
<1>14. HeldInv'
  <2>1. \A c \in Compilers : \A f \in CFiles : Holds(c, f)' =>
          /\ f < position'
          /\ IF pc'[c] = "report" THEN Compiled(f)' \/ f \in line'.bad ELSE ~Compiled(f)'
    BY <1>1, <1>2, <1>4, <1>7, <1>8, <1>9 DEF DriverInv, HeldInv
  <2> QED BY <1>1, <1>2, <1>7, <1>8, <2>1 DEF DriverInv, HeldInv
<1>15. DoneInv'
  <2>1. \A f \in CFiles : f < position' /\ f \notin containers' =>
          Compiled(f)' \/ (f \in line.bad /\ resultCode = 1)
    BY <1>1, <1>2, <1>3, <1>7, <1>9 DEF DriverInv, DoneInv
  <2>2. \A f \in Files \ CFiles : f < position' => Compiled(f)'
    BY <1>3, <1>7, <1>9 DEF DriverInv, DoneInv
  <2>3. resultCode = 1 => line.bad # {}
    BY <1>1 DEF DriverInv, DoneInv, Exited
  <2> QED BY <1>1, <1>2, <1>4, <2>1, <2>2, <2>3 DEF DoneInv, Writing
<1>16. NamedInv'
  <2>1. \A t \in Threads : \A i \in DOMAIN modules[t] : modules[t][i].source \in Nat
    BY <1>2, ModulesFacts DEF DriverInv, Recs
  <2>2. \A t \in Threads : \A i \in DOMAIN modules[t] :
          modules[t][i].source <= position' /\ modules[t][i].source # position'
    BY <1>1, <1>3, <2>1 DEF DriverInv, NamedInv
  <2> QED BY <1>1, <1>2, <2>2 DEF DriverInv, NamedInv
<1>17. Distinct'
  BY <1>1 DEF DriverInv, Distinct
<1>18. LoadInv'
  BY <1>4 DEF LoadInv, ToLoad, Joined
<1> QED BY <1>10, <1>11, <1>12, <1>13, <1>14, <1>15, <1>16, <1>17, <1>18 DEF DriverInv

LEMMA EndStep == ASSUME DriverInv, End PROVE DriverInv'
<1>1. /\ pc[Main] = "read" /\ position > FilesNum
      /\ inputs' = Append(inputs, Stop) /\ start' = start
      /\ pc' = Woken(Goes(Main, "join"))
      /\ UNCHANGED <<line, start, position, current, containers, output, modules, resultCode>>
  BY DEF End
<1>2. /\ pc' \in [Threads -> MainPlaces \cup CompilerPlaces]
      /\ pc'[Main] = "join"
      /\ \A c \in 1 .. MaxThreads :
           pc'[c] = pc[c] \/ (pc[c] = "asleep" /\ pc'[c] = "awake")
  <2>1. Goes(Main, "join")[Main] = "join"
    BY LineFacts DEF DriverInv, TypeOK, Goes
  <2>2. /\ pc' \in [Threads -> MainPlaces \cup CompilerPlaces]
        /\ pc'[Main] = Goes(Main, "join")[Main]
        /\ \A c \in 1 .. MaxThreads :
             pc'[c] = pc[c] \/ (pc[c] = "asleep" /\ pc'[c] = "awake")
    BY <1>1, Wakes DEF DriverInv
  <2> QED BY <2>1, <2>2
<1>0. position = FilesNum + 1
  BY <1>1, DriverAssumption DEF DriverInv, TypeOK
<1>3. /\ Compilers' = Compilers /\ CFiles' = CFiles /\ position = FilesNum + 1
      /\ Compilers \subseteq 1 .. MaxThreads /\ CFiles \subseteq Files
      /\ Stop \notin CFiles /\ Threads = 1 .. MaxThreads \cup {Main}
  BY <1>0, <1>1, LineFacts DEF DriverInv, Compilers, CFiles, Threads
<1>4. /\ inputs' \in Seq(CFiles \cup {Stop}) /\ start' \in 0 .. Len(inputs')
      /\ Len(inputs') = Len(inputs) + 1 /\ Len(inputs) \in Nat
      /\ \A i \in 1 .. Len(inputs) : inputs'[i] = inputs[i]
      /\ inputs'[Len(inputs) + 1] = Stop
      /\ \A f : Queued(f)' <=> (Queued(f) \/ f = Stop)
  BY <1>1, SentQueue, QueueFacts DEF DriverInv
<1>5. \A i \in 1 .. Len(inputs) : inputs[i] # Stop
  BY <1>1 DEF DriverInv, QueueInv, Reading
<1>6. \A f \in CFiles : Queued(f)' <=> Queued(f)
  BY <1>3, <1>4
<1>7. \A f : Compiled(f)' <=> Compiled(f)
  BY <1>1 DEF Compiled
<1>8. \A c \in Compilers : \A f : Holds(c, f)' <=> Holds(c, f)
  BY <1>1, <1>2, <1>3 DEF Holds, Working
<1>9. TypeOK'
  <2>1. \A c \in 1 .. MaxThreads : pc'[c] \in CompilerPlaces
    BY <1>2 DEF DriverInv, TypeOK, CompilerPlaces
  <2> QED BY <1>1, <1>2, <1>3, <1>4, <2>1 DEF DriverInv, TypeOK, output, MainPlaces
<1>10. ThreadsInv'
  BY <1>1, <1>2, <1>3 DEF DriverInv, ThreadsInv, Working, Joined, Writing
<1>11. OutputInv'
  BY <1>1, <1>2, <1>3 DEF DriverInv, OutputInv, output
<1>12. QueueInv'
  <2>1. \A i \in 1 .. Len(inputs') : i \in 1 .. Len(inputs) \/ i = Len(inputs) + 1
    BY <1>4
  <2>2. \A i \in 1 .. Len(inputs') : inputs'[i] \in CFiles => inputs'[i] < position'
    BY <1>1, <1>3, <1>4, <2>1 DEF DriverInv, QueueInv
  <2>3. \A i, j \in 1 .. Len(inputs') : inputs'[i] = inputs'[j] => i = j
    BY <1>4, <1>5, <2>1 DEF DriverInv, QueueInv
  <2>4. \A i \in 1 .. Len(inputs') : inputs'[i] = Stop => i = Len(inputs')
    BY <1>4, <1>5, <2>1
  <2>5. \A c \in 1 .. MaxThreads : pc'[c] # "left"
    BY <1>2, <1>5 DEF DriverInv, QueueInv
  <2> QED BY <1>2, <1>3, <2>2, <2>3, <2>4, <2>5 DEF QueueInv, Reading
<1>13. HeldInv'
  <2>1. \A c \in Compilers : pc'[c] = "report" <=> pc[c] = "report"
    BY <1>2, <1>3
  <2>2. \A c \in Compilers : \A f \in CFiles : Holds(c, f)' =>
          /\ f < position'
          /\ IF pc'[c] = "report" THEN Compiled(f)' \/ f \in line'.bad ELSE ~Compiled(f)'
    BY <1>1, <1>7, <1>8, <2>1 DEF DriverInv, HeldInv
  <2> QED BY <1>1, <1>3, <1>6, <1>7, <1>8, <2>2 DEF DriverInv, HeldInv
<1>14. DoneInv'
  BY <1>1, <1>2, <1>3, <1>7 DEF DriverInv, DoneInv, Exited, Writing
<1>15. NamedInv'
  BY <1>1, <1>3 DEF DriverInv, NamedInv, Writing
<1>16. Distinct'
  BY <1>1 DEF DriverInv, Distinct
<1>17. LoadInv'
  BY <1>2 DEF LoadInv, ToLoad, Joined
<1> QED BY <1>9, <1>10, <1>11, <1>12, <1>13, <1>14, <1>15, <1>16, <1>17 DEF DriverInv
------------------------------------------------------------------------------
(* The modules of all contexts: the recursive definition has a solution, and its *)
(* value for a compiler is the modules of the contexts up to its own.            *)
Collects(n, f) ==
  f = [c \in 0 .. n |-> IF c = 0 THEN modules[Main] ELSE f[c - 1] \o modules[c]]

LEMMA CollectsAll == Collects(MaxThreads, AllModules)
<1>1. Collects(0, [c \in 0 .. 0 |-> modules[Main]])
  BY DEF Collects
<1>2. ASSUME NEW n \in Nat, NEW f, Collects(n, f) PROVE \E g : Collects(n + 1, g)
  <2> DEFINE g == [c \in 0 .. n + 1 |-> IF c = n + 1 THEN f[n] \o modules[n + 1] ELSE f[c]]
  <2>1. \A c \in 0 .. n : g[c] = f[c]
    OBVIOUS
  <2>2. \A c \in 0 .. n : f[c] = IF c = 0 THEN modules[Main] ELSE f[c - 1] \o modules[c]
    BY <1>2 DEF Collects
  <2>3. \A c \in 0 .. n + 1 : g[c] = IF c = 0 THEN modules[Main] ELSE g[c - 1] \o modules[c]
    <3> SUFFICES ASSUME NEW c \in 0 .. n + 1
                 PROVE  g[c] = IF c = 0 THEN modules[Main] ELSE g[c - 1] \o modules[c]
      OBVIOUS
    <3>1. CASE c = n + 1
      BY <2>1, <3>1
    <3>2. CASE c # n + 1
      <4>1. c \in 0 .. n /\ (c # 0 => c - 1 \in 0 .. n)
        BY <3>2
      <4> HIDE DEF g
      <4> QED BY <2>1, <2>2, <4>1
    <3> QED BY <3>1, <3>2
  <2>4. g = [c \in 0 .. n + 1 |-> g[c]]
    OBVIOUS
  <2> HIDE DEF g
  <2>5. g = [c \in 0 .. n + 1 |-> IF c = 0 THEN modules[Main] ELSE g[c - 1] \o modules[c]]
    BY <2>3, <2>4
  <2> QED BY <2>5 DEF Collects
<1>3. \E f : Collects(MaxThreads, f)
  <2> DEFINE T == {n \in 0 .. MaxThreads : ~\E f : Collects(n, f)}
  <2>1. SUFFICES ASSUME T # {} PROVE FALSE
    BY DriverAssumption
  <2>2. MaxThreads \in Nat /\ T \in SUBSET (0 .. MaxThreads)
    BY DriverAssumption
  <2>3. PICK n \in T : \A m \in T : n <= m
    BY <2>1, <2>2, LeastNumber
  <2>4. n # 0
    BY <1>1, <2>3
  <2>5. n - 1 \in 0 .. MaxThreads /\ n - 1 \notin T /\ n - 1 \in Nat /\ (n - 1) + 1 = n
    BY <2>2, <2>3, <2>4
  <2>6. PICK f : Collects(n - 1, f)
    BY <2>5
  <2>7. \E g : Collects(n, g)
    BY <1>2, <2>5, <2>6
  <2> QED BY <2>3, <2>7
<1>4. AllModules = CHOOSE f : Collects(MaxThreads, f)
  BY DEF AllModules, Collects
<1> QED BY <1>3, <1>4

LEMMA Unrolled ==
  /\ AllModules[0] = modules[Main]
  /\ \A c \in 1 .. MaxThreads : AllModules[c] = AllModules[c - 1] \o modules[c]
<1>1. \A c \in 0 .. MaxThreads :
        AllModules[c] = IF c = 0 THEN modules[Main] ELSE AllModules[c - 1] \o modules[c]
  BY CollectsAll DEF Collects
<1>2. 0 \in 0 .. MaxThreads /\ \A c \in 1 .. MaxThreads : c \in 0 .. MaxThreads /\ c # 0
  BY DriverAssumption
<1> QED BY <1>1, <1>2

LEMMA Joining ==
  ASSUME NEW a \in Seq(Recs), NEW b \in Seq(Recs)
  PROVE  /\ a \o b \in Seq(Recs)
         /\ \A i \in DOMAIN (a \o b) :
              \/ i \in DOMAIN a /\ (a \o b)[i] = a[i]
              \/ i \notin DOMAIN a /\ i - Len(a) \in DOMAIN b /\ (a \o b)[i] = b[i - Len(a)]
         /\ \A i \in DOMAIN a : i \in DOMAIN (a \o b) /\ (a \o b)[i] = a[i]
         /\ \A j \in DOMAIN b : Len(a) + j \in DOMAIN (a \o b) /\ (a \o b)[Len(a) + j] = b[j]
         /\ \A i, k \in DOMAIN (a \o b) : i - Len(a) = k - Len(a) => i = k
<1> DEFINE s == a \o b
<1>1. /\ s \in Seq(Recs) /\ Len(s) = Len(a) + Len(b)
      /\ \A i \in 1 .. Len(a) + Len(b) : s[i] = IF i <= Len(a) THEN a[i] ELSE b[i - Len(a)]
  BY ConcatProperties
<1> HIDE DEF s
<1>2. /\ DOMAIN s = 1 .. Len(a) + Len(b) /\ DOMAIN a = 1 .. Len(a) /\ DOMAIN b = 1 .. Len(b)
      /\ Len(a) \in Nat /\ Len(b) \in Nat
  BY <1>1, LenProperties
<1>3. \A i \in DOMAIN s : \/ i \in DOMAIN a /\ s[i] = a[i]
                          \/ i \notin DOMAIN a /\ i - Len(a) \in DOMAIN b /\ s[i] = b[i - Len(a)]
  BY <1>1, <1>2
<1>4. \A i \in DOMAIN a : i \in DOMAIN s /\ s[i] = a[i]
  BY <1>1, <1>2
<1>5. \A j \in DOMAIN b : Len(a) + j \in DOMAIN s /\ s[Len(a) + j] = b[j]
  BY <1>1, <1>2
<1>6. \A i, k \in DOMAIN s : i - Len(a) = k - Len(a) => i = k
  BY <1>2
<1> QED BY <1>1, <1>3, <1>4, <1>5, <1>6 DEF s

Contexts(c) == {Main} \cup 1 .. c

Gathered(list, c) ==
  /\ list \in Seq(Recs)
  /\ \A i \in DOMAIN list : \E t \in Contexts(c) : \E j \in DOMAIN modules[t] : list[i] = modules[t][j]
  /\ \A t \in Contexts(c) : \A j \in DOMAIN modules[t] : \E i \in DOMAIN list : list[i] = modules[t][j]
  /\ \A i, k \in DOMAIN list : list[i].source = list[k].source => i = k

LEMMA GatheredNext ==
  ASSUME TypeOK, Distinct, NEW c \in 1 .. MaxThreads, NEW a, Gathered(a, c - 1)
  PROVE  Gathered(a \o modules[c], c)
<1> DEFINE s == a \o modules[c]
<1>1. c \in Threads /\ modules[c] \in Seq(Recs) /\ a \in Seq(Recs)
  BY ModulesFacts DEF Threads, Gathered
<1>2. Contexts(c) = Contexts(c - 1) \cup {c} /\ c \notin Contexts(c - 1) /\ Contexts(c) \subseteq Threads
  BY DriverAssumption DEF Contexts, Threads
<1>3. /\ s \in Seq(Recs)
      /\ \A i \in DOMAIN s :
           \/ i \in DOMAIN a /\ s[i] = a[i]
           \/ i \notin DOMAIN a /\ i - Len(a) \in DOMAIN modules[c] /\ s[i] = modules[c][i - Len(a)]
      /\ \A i \in DOMAIN a : i \in DOMAIN s /\ s[i] = a[i]
      /\ \A j \in DOMAIN modules[c] : Len(a) + j \in DOMAIN s /\ s[Len(a) + j] = modules[c][j]
      /\ \A i, k \in DOMAIN s : i - Len(a) = k - Len(a) => i = k
  BY <1>1, Joining
<1> HIDE DEF s
<1>4. \A i \in DOMAIN s : \E t \in Contexts(c) : \E j \in DOMAIN modules[t] : s[i] = modules[t][j]
  BY <1>2, <1>3 DEF Gathered
<1>5. \A t \in Contexts(c) : \A j \in DOMAIN modules[t] : \E i \in DOMAIN s : s[i] = modules[t][j]
  BY <1>2, <1>3 DEF Gathered
<1>6. ASSUME NEW i \in DOMAIN s, NEW k \in DOMAIN s, s[i].source = s[k].source PROVE i = k
  <2>1. CASE i \in DOMAIN a /\ k \in DOMAIN a
    BY <1>3, <1>6, <2>1 DEF Gathered
  <2>2. CASE i \notin DOMAIN a /\ k \notin DOMAIN a
    BY <1>1, <1>3, <1>6, <2>2 DEF Distinct
  <2>3. ASSUME NEW m \in DOMAIN a, NEW j \in DOMAIN modules[c] PROVE a[m].source # modules[c][j].source
    <3>1. PICK t \in Contexts(c - 1) : \E n \in DOMAIN modules[t] : a[m] = modules[t][n]
      BY DEF Gathered
    <3>2. PICK n \in DOMAIN modules[t] : a[m] = modules[t][n]
      BY <3>1
    <3> QED BY <1>1, <1>2, <3>1, <3>2 DEF Distinct
  <2> QED BY <1>3, <1>6, <2>1, <2>2, <2>3
<1> QED BY <1>3, <1>4, <1>5, <1>6 DEF Gathered, s

LEMMA AllGathered ==
  ASSUME TypeOK, Distinct
  PROVE  \A c \in 0 .. MaxThreads : Gathered(AllModules[c], c)
<1> DEFINE T == {c \in 0 .. MaxThreads : ~Gathered(AllModules[c], c)}
<1>1. SUFFICES ASSUME T # {} PROVE FALSE
  OBVIOUS
<1>2. MaxThreads \in Nat /\ T \in SUBSET (0 .. MaxThreads)
  BY DriverAssumption
<1>3. PICK n \in T : \A m \in T : n <= m
  BY <1>1, <1>2, LeastNumber
<1>4. Gathered(modules[Main], 0)
  <2>1. 1 .. 0 = {}
    OBVIOUS
  <2>2. Main \in Threads /\ Contexts(0) = {Main} /\ modules[Main] \in Seq(Recs)
    BY <2>1, ModulesFacts DEF Contexts, Threads
  <2> QED BY <2>2 DEF Gathered, Distinct
<1>5. n # 0
  BY <1>3, <1>4, Unrolled
<1>6. n \in 1 .. MaxThreads /\ n - 1 \in 0 .. MaxThreads /\ n - 1 \notin T
  BY <1>2, <1>3, <1>5
<1>7. Gathered(AllModules[n - 1], n - 1)
  BY <1>6
<1>8. Gathered(AllModules[n], n)
  BY <1>6, <1>7, GatheredNext, Unrolled
<1> QED BY <1>3, <1>8

(* Sorting keeps the modules and puts them into the order of their names. *)
LEMMA SortKeeps ==
  ASSUME NEW s \in Seq(Recs), NEW list \in Sorted(s),
         \A i, k \in DOMAIN s : s[i].source = s[k].source => i = k
  PROVE  /\ list \in Seq(Recs)
         /\ \A i \in DOMAIN list : \E j \in DOMAIN s : list[i] = s[j]
         /\ \A j \in DOMAIN s : \E i \in DOMAIN list : list[i] = s[j]
         /\ \A i, k \in DOMAIN list : list[i].source = list[k].source => i = k
         /\ \A i, k \in DOMAIN list : i < k => Rank[list[i].name] <= Rank[list[k].name]
<1> DEFINE n == Len(s)
<1>1. PICK o \in [1 .. n -> 1 .. n] :
        /\ \A i, j \in 1 .. n : o[i] = o[j] => i = j
        /\ \A i, j \in 1 .. n : i < j => Rank[s[o[i]].name] <= Rank[s[o[j]].name]
        /\ list = [i \in 1 .. n |-> s[o[i]]]
  BY DEF Sorted
<1>2. n \in Nat /\ DOMAIN s = 1 .. n /\ \A i \in 1 .. n : s[i] \in Recs
  BY LenProperties, ElementOfSeq
<1> HIDE DEF n
<1>3. \A i \in 1 .. n : o[i] \in 1 .. n
  BY <1>1
<1>4. DOMAIN list = 1 .. n /\ \A i \in 1 .. n : list[i] = s[o[i]]
  BY <1>1
<1>5. list \in Seq(Recs)
  <2>1. list \in [1 .. n -> Recs]
    BY <1>1, <1>2, <1>3
  <2> QED BY <1>2, <2>1, SeqDef
<1>6. \A j \in 1 .. n : \E i \in 1 .. n : o[i] = j
  <2>1. IsFiniteSet(1 .. n) /\ o \in Injection(1 .. n, 1 .. n)
    BY <1>1, <1>2, FS_Interval DEF Injection, IsInjective
  <2>2. o \in Surjection(1 .. n, 1 .. n)
    BY <2>1, FS_Injection
  <2> QED BY <2>2 DEF Surjection
<1>7. \A j \in DOMAIN s : \E i \in DOMAIN list : list[i] = s[j]
  BY <1>2, <1>4, <1>6
<1>8. \A i \in DOMAIN list : \E j \in DOMAIN s : list[i] = s[j]
  BY <1>2, <1>3, <1>4
<1>9. \A i, k \in DOMAIN list : list[i].source = list[k].source => i = k
  BY <1>1, <1>2, <1>3, <1>4
<1>10. \A i, k \in DOMAIN list : i < k => Rank[list[i].name] <= Rank[list[k].name]
  BY <1>1, <1>4
<1> QED BY <1>5, <1>7, <1>8, <1>9, <1>10
------------------------------------------------------------------------------
(* The end of the main thread: steps that move modules to its context and order   *)
(* them there. Every source keeps its module.                                    *)
Rearranged ==
  /\ modules' \in [Threads -> Seq(Recs)]
  /\ \A t \in Threads : t # Main => modules'[t] = <<>>
  /\ \A i \in DOMAIN modules'[Main] : \E t \in Threads : \E j \in DOMAIN modules[t] :
       modules'[Main][i] = modules[t][j]
  /\ \A t \in Threads : \A j \in DOMAIN modules[t] : \E i \in DOMAIN modules'[Main] :
       modules'[Main][i] = modules[t][j]
  /\ \A i, k \in DOMAIN modules'[Main] :
       modules'[Main][i].source = modules'[Main][k].source => i = k

LEMMA RearrangedStep ==
  ASSUME DriverInv, Rearranged, NEW p \in {"sort", "done"},
         pc[Main] \in {"merge", "sort"}, pc' = Goes(Main, p),
         UNCHANGED <<line, queue, position, current, containers, output, resultCode>>,
         p = "done" => \A i, k \in DOMAIN modules'[Main] :
           i < k => Rank[modules'[Main][i].name] <= Rank[modules'[Main][k].name]
  PROVE  DriverInv'
<1>1. /\ Compilers' = Compilers /\ CFiles' = CFiles /\ Main \in Threads
      /\ Compilers \subseteq 1 .. MaxThreads /\ CFiles \subseteq Files /\ Files \subseteq Nat
      /\ Threads = 1 .. MaxThreads \cup {Main} /\ Main \notin 1 .. MaxThreads
  BY LineFacts, DriverAssumption DEF DriverInv, Compilers, CFiles, Threads
<1>2. /\ pc' \in [Threads -> MainPlaces \cup CompilerPlaces] /\ pc'[Main] = p
      /\ \A c \in 1 .. MaxThreads : pc'[c] = pc[c]
  BY <1>1, Moves DEF DriverInv, MainPlaces
<1>3. pc[Main] \in Joined /\ p \in Joined /\ ToLoad /\ position = FilesNum + 1
      /\ \A c \in Compilers : pc[c] = "left"
  BY DEF DriverInv, ThreadsInv, LoadInv, Joined
<1>4. \A f : Compiled(f)' <=> Compiled(f)
  <2>1. ASSUME NEW f, Compiled(f) PROVE Compiled(f)'
    <3>1. PICK t \in Threads : \E j \in DOMAIN modules[t] : modules[t][j].source = f
      BY <2>1 DEF Compiled
    <3>2. PICK j \in DOMAIN modules[t] : modules[t][j].source = f
      BY <3>1
    <3>3. \E i \in DOMAIN modules'[Main] : modules'[Main][i].source = f
      BY <3>2 DEF Rearranged
    <3> QED BY <1>1, <3>3 DEF Compiled
  <2>2. ASSUME NEW f, Compiled(f)' PROVE Compiled(f)
    <3>1. PICK t \in Threads : \E j \in DOMAIN modules'[t] : modules'[t][j].source = f
      BY <2>2 DEF Compiled
    <3>2. t = Main
      BY <3>1, EmptySeq DEF Rearranged
    <3>3. PICK i \in DOMAIN modules'[Main] : modules'[Main][i].source = f
      BY <3>1, <3>2
    <3> QED BY <3>3 DEF Rearranged, Compiled
  <2> QED BY <2>1, <2>2
<1>5. \A f : Queued(f)' <=> Queued(f)
  BY DEF Queued, queue
<1>6. \A c \in Compilers : \A f : Holds(c, f)' <=> Holds(c, f)
  BY <1>1, <1>2 DEF Holds
<1>7. TypeOK'
  <2>1. modules' \in [Threads -> Seq([source : Files, name : Files])]
    BY DEF Rearranged, Recs
  <2>2. p \in MainPlaces
    BY DEF MainPlaces
  <2> QED BY <1>1, <1>2, <2>1, <2>2 DEF DriverInv, TypeOK, queue, output
<1>8. ThreadsInv'
  <2>1. p \notin Writing /\ p # "init" /\ p # "exited"
    BY DEF Writing
  <2>2. pc[Main] \notin {"init", "exited"}
    OBVIOUS
  <2> QED BY <1>1, <1>2, <1>3, <2>1, <2>2 DEF DriverInv, ThreadsInv
<1>9. OutputInv'
  BY <1>1, <1>2 DEF DriverInv, OutputInv, output
<1>10. QueueInv'
  <2>1. p \notin Reading
    BY DEF Reading
  <2> QED BY <1>1, <1>2, <2>1 DEF DriverInv, QueueInv, queue
<1>11. HeldInv'
  <2>1. \A c \in Compilers : \A f \in CFiles : Holds(c, f)' =>
          /\ f < position'
          /\ IF pc'[c] = "report" THEN Compiled(f)' \/ f \in line'.bad ELSE ~Compiled(f)'
    BY <1>1, <1>2, <1>4, <1>6 DEF DriverInv, HeldInv
  <2> QED BY <1>1, <1>4, <1>5, <1>6, <2>1 DEF DriverInv, HeldInv
<1>12. DoneInv'
  <2>1. p \notin Writing /\ p # "exited" /\ pc[Main] # "exited"
    BY DEF Writing
  <2> QED BY <1>1, <1>2, <1>4, <2>1 DEF DriverInv, DoneInv, Exited
<1>13. NamedInv'
  <2>1. \A t \in Threads : \A i \in DOMAIN modules[t] :
          /\ modules[t][i].name = modules[t][i].source
          /\ modules[t][i].source \notin line.bad
          /\ modules[t][i].source <= position
          /\ modules[t][i].source # position
    BY DEF DriverInv, NamedInv, Writing
  <2>2. \A i \in DOMAIN modules'[Main] :
          /\ modules'[Main][i].name = modules'[Main][i].source
          /\ modules'[Main][i].source \notin line.bad
          /\ modules'[Main][i].source <= position
          /\ modules'[Main][i].source # position
    BY <2>1 DEF Rearranged
  <2>3. \A t \in Threads : \A i \in DOMAIN modules'[t] : t = Main
    BY EmptySeq DEF Rearranged
  <2> QED BY <1>1, <2>2, <2>3 DEF NamedInv
<1>14. Distinct'
  <2>1. \A t \in Threads : \A i \in DOMAIN modules'[t] : t = Main
    BY EmptySeq DEF Rearranged
  <2> QED BY <2>1 DEF Distinct, Rearranged
<1>15. LoadInv'
  <2>1. ToLoad'
    BY <1>2, <1>3 DEF ToLoad
  <2>2. \A c \in 1 .. MaxThreads : modules'[c] = <<>>
    BY <1>1 DEF Rearranged
  <2> QED BY <1>2, <2>1, <2>2 DEF LoadInv
<1> QED BY <1>7, <1>8, <1>9, <1>10, <1>11, <1>12, <1>13, <1>14, <1>15 DEF DriverInv

LEMMA MergeStep == ASSUME DriverInv, Merge PROVE DriverInv'
<1> DEFINE all == AllModules[line.threads]
<1>1. /\ pc[Main] = "merge" /\ pc' = Goes(Main, "sort")
      /\ modules' = [t \in Threads |-> IF t = Main THEN all ELSE <<>>]
      /\ UNCHANGED <<line, queue, position, current, containers, output, resultCode>>
  BY DEF Merge
<1>2. Gathered(all, line.threads)
  <2>1. line.threads \in 0 .. MaxThreads
    BY LineFacts DEF DriverInv
  <2> QED BY <2>1, AllGathered DEF DriverInv
<1> HIDE DEF all
<1>3. Contexts(line.threads) \subseteq Threads /\ Main \in Threads
      /\ \A t \in Threads : \A j \in DOMAIN modules[t] : t \in Contexts(line.threads)
  BY LineFacts DEF DriverInv, NamedInv, Contexts, Compilers
<1>4. Rearranged
  <2>1. modules' \in [Threads -> Seq(Recs)] /\ modules'[Main] = all
        /\ \A t \in Threads : t # Main => modules'[t] = <<>>
    BY <1>1, <1>2, <1>3, EmptySeq DEF Gathered
  <2> QED BY <1>2, <1>3, <2>1 DEF Gathered, Rearranged
<1> QED BY <1>1, <1>4, RearrangedStep

LEMMA SortStep == ASSUME DriverInv, Sort PROVE DriverInv'
<1>1. /\ pc[Main] = "sort" /\ pc' = Goes(Main, "done")
      /\ UNCHANGED <<line, queue, position, current, containers, output, resultCode>>
  BY DEF Sort
<1>2. PICK list \in Sorted(modules[Main]) : modules' = [modules EXCEPT ![Main] = list]
  BY DEF Sort
<1>3. /\ Main \in Threads /\ modules[Main] \in Seq(Recs) /\ modules \in [Threads -> Seq(Recs)]
      /\ \A i, k \in DOMAIN modules[Main] : modules[Main][i].source = modules[Main][k].source => i = k
  BY LineFacts, ModulesFacts DEF DriverInv, Distinct, TypeOK, Recs
<1>4. \A t \in Threads : t # Main => modules[t] = <<>>
  BY <1>1 DEF DriverInv, LoadInv, Threads
<1>5. /\ list \in Seq(Recs)
      /\ \A i \in DOMAIN list : \E j \in DOMAIN modules[Main] : list[i] = modules[Main][j]
      /\ \A j \in DOMAIN modules[Main] : \E i \in DOMAIN list : list[i] = modules[Main][j]
      /\ \A i, k \in DOMAIN list : list[i].source = list[k].source => i = k
      /\ \A i, k \in DOMAIN list : i < k => Rank[list[i].name] <= Rank[list[k].name]
  BY <1>3, SortKeeps
<1>6. /\ modules' \in [Threads -> Seq(Recs)] /\ modules'[Main] = list
      /\ \A t \in Threads : t # Main => modules'[t] = <<>>
  BY <1>2, <1>3, <1>4, <1>5
<1>7. \A t \in Threads : \A j \in DOMAIN modules[t] : t = Main
  BY <1>4, EmptySeq
<1>8. Rearranged
  BY <1>3, <1>5, <1>6, <1>7 DEF Rearranged
<1> QED BY <1>1, <1>5, <1>6, <1>8, RearrangedStep
------------------------------------------------------------------------------
(* Steps of a compiler. *)
LEMMA CompilerMoves ==
  ASSUME DriverInv, NEW c \in Compilers, NEW p \in CompilerPlaces, p # "new",
         pc[c] \notin {"new", "left"}, pc' = Goes(c, p),
         line' = line, position' = position, current' \in [Threads -> Files \cup {NoFile}],
         \A d \in Threads : d # c => current'[d] = current[d],
         current'[c] \in IF p \in Working THEN CFiles ELSE {NoFile}
  PROVE  /\ pc' \in [Threads -> MainPlaces \cup CompilerPlaces]
         /\ pc'[c] = p /\ pc'[Main] = pc[Main]
         /\ \A t \in Threads : t # c => pc'[t] = pc[t]
         /\ \A d \in 1 .. MaxThreads : pc'[d] \in CompilerPlaces
         /\ c \in 1 .. MaxThreads /\ c \in Threads /\ c # Main
         /\ Compilers' = Compilers /\ CFiles' = CFiles
         /\ Compilers \subseteq Threads
         /\ pc[Main] \notin Joined
         /\ ThreadsInv' /\ LoadInv'
<1>1. /\ c \in 1 .. MaxThreads /\ c \in Threads /\ c # Main
      /\ Compilers' = Compilers /\ CFiles' = CFiles
      /\ Compilers \subseteq Threads /\ Compilers \subseteq 1 .. MaxThreads
      /\ Threads = 1 .. MaxThreads \cup {Main} /\ Main \notin 1 .. MaxThreads
      /\ Compilers = 1 .. line.threads /\ line.threads \in Nat
  BY LineFacts, DriverAssumption DEF DriverInv, Compilers, CFiles, Threads
<1>2. /\ pc' \in [Threads -> MainPlaces \cup CompilerPlaces]
      /\ pc'[c] = p /\ \A t \in Threads : t # c => pc'[t] = pc[t]
  BY <1>1, Moves DEF DriverInv
<1>3. pc'[Main] = pc[Main] /\ \A d \in 1 .. MaxThreads : d # c => pc'[d] = pc[d] /\ current'[d] = current[d]
  BY <1>1, <1>2
<1>4. pc[Main] \notin Joined
  BY DEF DriverInv, ThreadsInv
<1>5. \A d \in 1 .. MaxThreads : pc'[d] \in CompilerPlaces
  BY <1>2, <1>3 DEF DriverInv, TypeOK
<1>6. ThreadsInv'
  <2>1. \A d \in 1 .. MaxThreads : d > line.threads => pc'[d] = "new"
    BY <1>1, <1>3 DEF DriverInv, ThreadsInv
  <2>2. \A d, e \in 1 .. MaxThreads : d < e /\ pc'[e] # "new" => pc'[d] # "new"
    BY <1>1, <1>2, <1>3 DEF DriverInv, ThreadsInv
  <2>3. pc'[Main] \notin {"init", "exited"} => \A d \in Compilers : pc'[d] # "new"
    BY <1>1, <1>2, <1>3 DEF DriverInv, ThreadsInv
  <2>4. \A d \in 1 .. MaxThreads : current'[d] \in IF pc'[d] \in Working THEN CFiles ELSE {NoFile}
    BY <1>2, <1>3 DEF DriverInv, ThreadsInv
  <2>5. current'[Main] = current[Main]
    BY <1>1
  <2> QED BY <1>1, <1>3, <1>4, <2>1, <2>2, <2>3, <2>4, <2>5 DEF DriverInv, ThreadsInv
<1>7. LoadInv'
  BY <1>3, <1>4 DEF LoadInv, ToLoad, Joined
<1> QED BY <1>1, <1>2, <1>3, <1>4, <1>5, <1>6, <1>7

(* It sleeps, is woken without a signal, or leaves. *)
LEMMA IdleStep ==
  ASSUME DriverInv, NEW c \in Compilers, GoToSleep(c) \/ SpuriousWakeup(c) \/ Leave(c)
  PROVE  DriverInv'
<1>1. PICK p \in {"asleep", "awake", "left"} :
        /\ pc[c] \in {"awake", "asleep"} /\ pc' = Goes(c, p)
        /\ p = "left" => ~Empty /\ inputs[start + 1] = Stop
        /\ Standing /\ UNCHANGED output
  BY DEF GoToSleep, SpuriousWakeup, Leave, Standing
<1>2. p \in CompilerPlaces /\ p # "new" /\ p \notin Working /\ p # "report" /\ p # "open" /\ p # "compile"
  BY DEF CompilerPlaces, Working
<1>3. c \in 1 .. MaxThreads /\ current[c] = NoFile /\ pc[c] \notin Working /\ pc[c] # "report"
  BY <1>1, LineFacts DEF DriverInv, ThreadsInv, Working
<1>4. /\ pc' \in [Threads -> MainPlaces \cup CompilerPlaces]
      /\ pc'[c] = p /\ pc'[Main] = pc[Main]
      /\ \A t \in Threads : t # c => pc'[t] = pc[t]
      /\ \A d \in 1 .. MaxThreads : pc'[d] \in CompilerPlaces
      /\ c \in 1 .. MaxThreads /\ c \in Threads /\ c # Main
      /\ Compilers' = Compilers /\ CFiles' = CFiles
      /\ ThreadsInv' /\ LoadInv'
  <2>1. line' = line /\ position' = position /\ current' = current
        /\ current \in [Threads -> Files \cup {NoFile}]
    BY <1>1 DEF Standing, DriverInv, TypeOK
  <2> QED BY <1>1, <1>2, <1>3, <2>1, CompilerMoves
<1>5. TypeOK'
  BY <1>1, <1>4 DEF DriverInv, TypeOK, Standing, queue, output
<1>6. OutputInv'
  BY <1>1, <1>2, <1>4 DEF DriverInv, OutputInv, Standing, output
<1>7. QueueInv'
  <2>1. p = "left" => start + 1 \in 1 .. Len(inputs) /\ inputs[start + 1] = Stop
    BY <1>1, QueueFacts DEF DriverInv, Empty
  <2>2. \A d \in 1 .. MaxThreads :
          pc'[d] = "left" => start + 1 \in 1 .. Len(inputs) /\ inputs[start + 1] = Stop
    BY <1>4, <2>1 DEF DriverInv, QueueInv, Threads
  <2> QED BY <1>1, <1>4, <2>2 DEF DriverInv, QueueInv, Standing, queue
<1>8. Quiet
  BY <1>1, <1>2, <1>3, <1>4 DEF Quiet, Standing, queue, Threads
<1> QED BY <1>4, <1>5, <1>6, <1>7, <1>8, QuietStep DEF DriverInv

LEMMA BuildNameOfCompiler ==
  ASSUME DriverInv, NEW c \in Compilers, BuildName(c)
  PROVE  DriverInv'
<1>1. /\ pc[c] = "name" /\ pc' = Goes(c, "open") /\ Standing
      /\ tempString' = current[c] /\ UNCHANGED <<opened, written>>
  BY DEF BuildName, Standing
<1>2. "open" \in CompilerPlaces /\ "open" \in Working /\ "name" \in Working
  BY DEF CompilerPlaces, Working
<1>3. c \in 1 .. MaxThreads /\ current[c] \in CFiles /\ CFiles \subseteq Files
  BY <1>1, <1>2, LineFacts DEF DriverInv, ThreadsInv
<1>4. /\ pc' \in [Threads -> MainPlaces \cup CompilerPlaces]
      /\ pc'[c] = "open" /\ pc'[Main] = pc[Main]
      /\ \A t \in Threads : t # c => pc'[t] = pc[t]
      /\ \A d \in 1 .. MaxThreads : pc'[d] \in CompilerPlaces
      /\ c \in 1 .. MaxThreads /\ c \in Threads /\ c # Main
      /\ Compilers' = Compilers /\ CFiles' = CFiles
      /\ ThreadsInv' /\ LoadInv'
  <2>1. line' = line /\ position' = position /\ current' = current
        /\ current \in [Threads -> Files \cup {NoFile}]
    BY <1>1 DEF Standing, DriverInv, TypeOK
  <2> QED BY <1>1, <1>2, <1>3, <2>1, CompilerMoves
<1>5. TypeOK'
  BY <1>1, <1>3, <1>4 DEF DriverInv, TypeOK, Standing, queue
<1>6. OutputInv'
  BY <1>1, <1>3, <1>4 DEF DriverInv, OutputInv, Standing
<1>7. QueueInv'
  BY <1>1, <1>4 DEF DriverInv, QueueInv, Standing, queue, Threads
<1>8. Quiet
  BY <1>1, <1>2, <1>4 DEF Quiet, Standing, queue, Threads
<1> QED BY <1>4, <1>5, <1>6, <1>7, <1>8, QuietStep DEF DriverInv

LEMMA OpenOutputOfCompiler ==
  ASSUME DriverInv, NEW c \in Compilers, OpenOutput(c)
  PROVE  DriverInv'
<1>1. /\ pc[c] = "open" /\ pc' = Goes(c, "compile") /\ Standing
      /\ opened' = [opened EXCEPT ![c] = tempString]
      /\ written' = [written EXCEPT ![tempString] = <<>>] /\ UNCHANGED tempString
  BY DEF OpenOutput, Standing
<1>2. "open" \in Working /\ "compile" \in Working /\ "compile" \in CompilerPlaces
  BY DEF CompilerPlaces, Working
<1>3. c \in 1 .. MaxThreads /\ c \in Threads /\ current[c] \in CFiles /\ tempString \in Files
  BY <1>1, <1>2, LineFacts DEF DriverInv, ThreadsInv, OutputInv
<1>4. /\ pc' \in [Threads -> MainPlaces \cup CompilerPlaces]
      /\ pc'[c] = "compile" /\ pc'[Main] = pc[Main]
      /\ \A t \in Threads : t # c => pc'[t] = pc[t]
      /\ \A d \in 1 .. MaxThreads : pc'[d] \in CompilerPlaces
      /\ c \in 1 .. MaxThreads /\ c \in Threads /\ c # Main
      /\ Compilers' = Compilers /\ CFiles' = CFiles
      /\ ThreadsInv' /\ LoadInv'
  <2>1. line' = line /\ position' = position /\ current' = current
        /\ current \in [Threads -> Files \cup {NoFile}]
    BY <1>1 DEF Standing, DriverInv, TypeOK
  <2> QED BY <1>1, <1>2, <1>3, <2>1, CompilerMoves
<1>5. TypeOK'
  <2>1. written' \in [Files -> Seq(Files)] /\ opened' \in [Threads -> Files \cup {NoFile}]
    BY <1>1, <1>3, EmptySeq DEF DriverInv, TypeOK
  <2> QED BY <1>1, <1>3, <1>4, <2>1 DEF DriverInv, TypeOK, Standing, queue
<1>6. OutputInv'
  <2>1. opened'[c] = tempString /\ \A t \in Threads : t # c => opened'[t] = opened[t]
    BY <1>1, <1>3 DEF DriverInv, TypeOK
  <2> QED BY <1>1, <1>3, <1>4, <2>1 DEF DriverInv, OutputInv, Standing
<1>7. QueueInv'
  BY <1>1, <1>4 DEF DriverInv, QueueInv, Standing, queue, Threads
<1>8. Quiet
  BY <1>1, <1>2, <1>4 DEF Quiet, Standing, queue, Threads
<1> QED BY <1>4, <1>5, <1>6, <1>7, <1>8, QuietStep DEF DriverInv
LEMMA TakeInputStep ==
  ASSUME DriverInv, NEW c \in Compilers, TakeInput(c)
  PROVE  DriverInv'
<1> DEFINE f == inputs[start + 1]
           p == IF line.output THEN "name" ELSE "compile"
<1>1. /\ pc[c] = "awake" /\ ~Empty /\ f # Stop /\ pc' = Goes(c, p)
      /\ current' = [current EXCEPT ![c] = f]
      /\ Compacted(inputs, start + 1)
      /\ UNCHANGED <<line, position, containers, output, modules, resultCode>>
  BY DEF TakeInput
<1>2. PICK d : Shifted(d)
  BY <1>1, TakenQueue DEF DriverInv
<1>3. start + 1 \in 1 .. Len(inputs) /\ f \in CFiles /\ CFiles \subseteq Files
  BY <1>1, QueueFacts, LineFacts DEF DriverInv, Empty
<1>4. Queued(f) /\ \A g : Queued(g)' <=> (Queued(g) /\ g # f)
  BY <1>1, <1>2, TakenInput DEF DriverInv
<1>5. f < position
  BY <1>3 DEF DriverInv, QueueInv
<1> HIDE DEF f
<1>6. p \in Working /\ p \in CompilerPlaces /\ p # "new" /\ p # "open" /\ p # "left" /\ p # "report"
      /\ (p = "compile" => ~line.output)
  BY DEF Working, CompilerPlaces
<1> HIDE DEF p
<1>7. c \in Threads /\ "awake" \notin Working
  BY LineFacts DEF DriverInv, Working
<1>8. /\ current' \in [Threads -> Files \cup {NoFile}] /\ current'[c] = f
      /\ \A e \in Threads : e # c => current'[e] = current[e]
  BY <1>1, <1>3, <1>7 DEF DriverInv, TypeOK
<1>9. /\ pc' \in [Threads -> MainPlaces \cup CompilerPlaces]
      /\ pc'[c] = p /\ pc'[Main] = pc[Main]
      /\ \A t \in Threads : t # c => pc'[t] = pc[t]
      /\ \A e \in 1 .. MaxThreads : pc'[e] \in CompilerPlaces
      /\ c \in 1 .. MaxThreads /\ c # Main
      /\ Compilers' = Compilers /\ CFiles' = CFiles /\ Compilers \subseteq Threads
      /\ ThreadsInv' /\ LoadInv'
  <2>1. line' = line /\ position' = position
    BY <1>1
  <2> QED BY <1>1, <1>3, <1>6, <1>8, <2>1, CompilerMoves
<1>10. \A g : Compiled(g)' <=> Compiled(g)
  BY <1>1 DEF Compiled
<1>11. ~Holds(c, f) /\ \A g : ~Holds(c, g)
  BY <1>1, <1>7 DEF Holds
<1>12. \A e \in Compilers : \A g : Holds(e, g)' <=> (Holds(e, g) \/ (e = c /\ g = f))
  BY <1>6, <1>8, <1>9, <1>11 DEF Holds
<1>13. /\ Len(inputs) \in Nat /\ start \in Nat /\ d \in 0 .. start + 1 /\ start' = start + 1 - d
       /\ inputs' \in Seq(CFiles \cup {Stop}) /\ Len(inputs') = Len(inputs) - d
       /\ \A i \in 1 .. Len(inputs') : inputs'[i] = inputs[i + d] /\ i + d \in 1 .. Len(inputs)
  BY <1>2, QueueFacts DEF Shifted, DriverInv
<1>14. TypeOK'
  <2>1. start' \in 0 .. Len(inputs')
    BY <1>3, <1>13
  <2> QED BY <1>1, <1>8, <1>9, <1>13, <2>1 DEF DriverInv, TypeOK, output
<1>15. OutputInv'
  BY <1>1, <1>6, <1>9 DEF DriverInv, OutputInv, output
<1>16. QueueInv'
  <2>1. \A i \in 1 .. Len(inputs') : inputs'[i] \in CFiles => inputs'[i] < position
    BY <1>13 DEF DriverInv, QueueInv
  <2>2. \A i, j \in 1 .. Len(inputs') : inputs'[i] = inputs'[j] => i = j
    <3> SUFFICES ASSUME NEW i \in 1 .. Len(inputs'), NEW j \in 1 .. Len(inputs'), inputs'[i] = inputs'[j]
                 PROVE  i = j
      OBVIOUS
    <3>1. i + d = j + d
      BY <1>13 DEF DriverInv, QueueInv
    <3> QED BY <1>13, <3>1
  <2>3. \A i \in 1 .. Len(inputs') : inputs'[i] = Stop => i = Len(inputs') /\ pc[Main] \notin Reading
    <3> SUFFICES ASSUME NEW i \in 1 .. Len(inputs'), inputs'[i] = Stop
                 PROVE  i = Len(inputs') /\ pc[Main] \notin Reading
      OBVIOUS
    <3>1. i + d = Len(inputs) /\ pc[Main] \notin Reading
      BY <1>13 DEF DriverInv, QueueInv
    <3> QED BY <1>13, <3>1
  <2>4. \A e \in 1 .. MaxThreads : pc[e] # "left"
    BY <1>1 DEF DriverInv, QueueInv, f
  <2>5. \A e \in 1 .. MaxThreads : pc'[e] # "left"
    BY <1>6, <1>9, <2>4 DEF Threads
  <2> QED BY <1>1, <1>9, <2>1, <2>2, <2>3, <2>5 DEF QueueInv
<1>17. HeldInv'
  <2>1. \A g \in CFiles : g \in containers' <=> (Queued(g)' \/ \E e \in Compilers : Holds(e, g)')
    <3>1. \A g \in CFiles : g \in containers <=> (Queued(g) \/ \E e \in Compilers : Holds(e, g))
      BY DEF DriverInv, HeldInv
    <3>2. ASSUME NEW g \in CFiles
          PROVE  (Queued(g)' \/ \E e \in Compilers : Holds(e, g)')
                   <=> (Queued(g) \/ \E e \in Compilers : Holds(e, g))
      BY <1>4, <1>12
    <3> QED BY <1>1, <3>1, <3>2
  <2>2. \A g \in CFiles : Queued(g)' => ~Compiled(g)' /\ \A e \in Compilers : ~Holds(e, g)'
    BY <1>4, <1>10, <1>12 DEF DriverInv, HeldInv
  <2>3. \A e, b \in Compilers : \A g \in CFiles : Holds(e, g)' /\ Holds(b, g)' => e = b
    BY <1>3, <1>4, <1>12 DEF DriverInv, HeldInv
  <2>4. \A e \in Compilers : \A g \in CFiles : Holds(e, g)' =>
          /\ g < position'
          /\ IF pc'[e] = "report" THEN Compiled(g)' \/ g \in line'.bad ELSE ~Compiled(g)'
    <3> SUFFICES ASSUME NEW e \in Compilers, NEW g \in CFiles, Holds(e, g)'
                 PROVE  /\ g < position
                        /\ IF pc'[e] = "report" THEN Compiled(g) \/ g \in line.bad ELSE ~Compiled(g)
      BY <1>1, <1>10
    <3>1. CASE e = c /\ g = f
      BY <1>3, <1>4, <1>5, <1>6, <1>9, <3>1 DEF DriverInv, HeldInv
    <3>2. CASE Holds(e, g)
      <4>1. e # c /\ pc'[e] = pc[e]
        BY <1>9, <1>11, <3>2
      <4> QED BY <3>2, <4>1 DEF DriverInv, HeldInv
    <3> QED BY <1>12, <3>1, <3>2
  <2> QED BY <1>9, <2>1, <2>2, <2>3, <2>4 DEF HeldInv
<1>18. DoneInv'
  BY <1>1, <1>9, <1>10 DEF DriverInv, DoneInv, Exited
<1>19. NamedInv'
  BY <1>1, <1>9 DEF DriverInv, NamedInv
<1>20. Distinct'
  BY <1>1 DEF DriverInv, Distinct
<1> QED BY <1>9, <1>14, <1>15, <1>16, <1>17, <1>18, <1>19, <1>20 DEF DriverInv

LEMMA CompileStep ==
  ASSUME DriverInv, NEW c \in Compilers, Compile(c)
  PROVE  DriverInv'
<1> DEFINE f == current[c]
<1>1. /\ pc[c] = "compile" /\ pc' = Goes(c, "report")
      /\ opened' = [opened EXCEPT ![c] = NoFile]
      /\ UNCHANGED <<line, queue, position, current, containers, tempString, resultCode>>
      /\ IF f \in line.bad
         THEN UNCHANGED <<modules, written>>
         ELSE /\ modules' = [modules EXCEPT ![c] = Append(@, [source |-> f, name |-> f])]
              /\ IF line.output
                 THEN written' = [written EXCEPT ![opened[c]] = Append(@, f)]
                 ELSE UNCHANGED written
  BY DEF Compile
<1>2. "report" \in Working /\ "compile" \in Working /\ "report" \in CompilerPlaces
  BY DEF Working, CompilerPlaces
<1>3. /\ c \in Threads /\ c \in 1 .. MaxThreads /\ f \in CFiles /\ f \in Files
      /\ line.output => opened[c] \in Files
  BY <1>1, <1>2, LineFacts DEF DriverInv, ThreadsInv, OutputInv
<1>4. Holds(c, f) /\ ~Compiled(f) /\ f < position
  BY <1>1, <1>2, <1>3 DEF DriverInv, HeldInv, Holds
<1> HIDE DEF f
<1>5. /\ pc' \in [Threads -> MainPlaces \cup CompilerPlaces]
      /\ pc'[c] = "report" /\ pc'[Main] = pc[Main]
      /\ \A t \in Threads : t # c => pc'[t] = pc[t]
      /\ \A e \in 1 .. MaxThreads : pc'[e] \in CompilerPlaces
      /\ c # Main
      /\ Compilers' = Compilers /\ CFiles' = CFiles /\ Compilers \subseteq Threads
      /\ ThreadsInv' /\ LoadInv'
  <2>1. line' = line /\ position' = position /\ current' = current
        /\ current \in [Threads -> Files \cup {NoFile}]
    BY <1>1 DEF DriverInv, TypeOK
  <2> QED BY <1>1, <1>2, <1>3, <2>1, CompilerMoves DEF f
<1>6. \A g : Queued(g)' <=> Queued(g)
  BY <1>1 DEF Queued, queue
<1>7. \A e \in Compilers : \A g : Holds(e, g)' <=> Holds(e, g)
  BY <1>1, <1>2, <1>5 DEF Holds
<1>8. \A g \in Files : Compiled(g)' <=> (Compiled(g) \/ (g = f /\ f \notin line.bad))
  <2>1. CASE f \in line.bad
    BY <1>1, <2>1 DEF Compiled
  <2>2. CASE f \notin line.bad
    BY <1>1, <1>3, <2>2, AddCompiled DEF DriverInv
  <2> QED BY <2>1, <2>2
<1>9. modules' \in [Threads -> Seq([source : Files, name : Files])]
  <2>1. CASE f \in line.bad
    BY <1>1, <2>1 DEF DriverInv, TypeOK
  <2>2. CASE f \notin line.bad
    BY <1>1, <1>3, <2>2, AddModule DEF DriverInv, Recs
  <2> QED BY <2>1, <2>2
<1>10. opened' \in [Threads -> Files \cup {NoFile}] /\ \A t \in Threads : t # c => opened'[t] = opened[t]
  BY <1>1, <1>3 DEF DriverInv, TypeOK
<1>11. written' \in [Files -> Seq(Files)]
  <2>1. CASE written' = written
    BY <2>1 DEF DriverInv, TypeOK
  <2>2. CASE line.output /\ written' = [written EXCEPT ![opened[c]] = Append(@, f)]
    <3>1. written \in [Files -> Seq(Files)] /\ opened[c] \in Files
      BY <1>3, <2>2 DEF DriverInv, TypeOK
    <3>2. Append(written[opened[c]], f) \in Seq(Files)
      BY <1>3, <3>1, AppendProperties
    <3> QED BY <2>2, <3>1, <3>2
  <2> QED BY <1>1, <2>1, <2>2
<1>12. TypeOK'
  BY <1>1, <1>5, <1>9, <1>10, <1>11 DEF DriverInv, TypeOK, queue
<1>13. OutputInv'
  BY <1>1, <1>5, <1>10 DEF DriverInv, OutputInv
<1>14. QueueInv'
  BY <1>1, <1>5 DEF DriverInv, QueueInv, queue, Threads
<1>15. CFiles \subseteq Files
  BY LineFacts DEF DriverInv
<1>16. HeldInv'
  <2>1. \A g \in CFiles : Queued(g)' => ~Compiled(g)' /\ \A e \in Compilers : ~Holds(e, g)'
    BY <1>4, <1>6, <1>7, <1>8, <1>15 DEF DriverInv, HeldInv
  <2>2. \A e \in Compilers : \A g \in CFiles : Holds(e, g)' =>
          /\ g < position'
          /\ IF pc'[e] = "report" THEN Compiled(g)' \/ g \in line'.bad ELSE ~Compiled(g)'
    <3> SUFFICES ASSUME NEW e \in Compilers, NEW g \in CFiles, Holds(e, g)
                 PROVE  /\ g < position
                        /\ IF pc'[e] = "report" THEN Compiled(g)' \/ g \in line.bad ELSE ~Compiled(g)'
      BY <1>1, <1>7
    <3>1. CASE e = c
      <4>1. g = f
        BY <3>1 DEF Holds, f
      <4> QED BY <1>3, <1>4, <1>5, <1>8, <3>1, <4>1
    <3>2. CASE e # c
      <4>1. g # f
        BY <1>3, <1>4, <3>2 DEF DriverInv, HeldInv
      <4>2. pc'[e] = pc[e]
        BY <1>5, <3>2
      <4> QED BY <1>8, <1>15, <4>1, <4>2 DEF DriverInv, HeldInv
    <3> QED BY <3>1, <3>2
  <2> QED BY <1>1, <1>5, <1>6, <1>7, <2>1, <2>2 DEF DriverInv, HeldInv
<1>17. DoneInv'
  <2>1. \A g \in Files : Compiled(g) => Compiled(g)'
    BY <1>8
  <2>2. pc[Main] \in Writing => Compiled(position)'
    <3>1. pc[Main] \in Writing => position \in Files /\ Compiled(position)
      BY DEF DriverInv, ThreadsInv, DoneInv
    <3>2. \A g \in Files : g = position /\ Compiled(g) => Compiled(position)'
      BY <1>1, <2>1 DEF Compiled
    <3> QED BY <3>1, <3>2
  <2> QED BY <1>1, <1>5, <1>15, <2>1, <2>2 DEF DriverInv, DoneInv, Exited
<1>18. NamedInv'
  <2>1. CASE f \in line.bad
    BY <1>1, <1>5, <2>1 DEF DriverInv, NamedInv
  <2>2. CASE f \notin line.bad
    <3>1. PICK n : Added(c, f, n)
      BY <1>1, <1>3, <2>2, AddModule DEF DriverInv
    <3>2. \A t \in Threads : \A i \in DOMAIN modules'[t] :
            \/ i \in DOMAIN modules[t] /\ modules'[t][i] = modules[t][i]
            \/ t = c /\ modules'[t][i].source = f /\ modules'[t][i].name = f
      BY <3>1 DEF Added
    <3>3. f <= position /\ f # position
      BY <1>3, <1>4 DEF DriverInv, TypeOK, Files
    <3> QED BY <1>1, <1>5, <2>2, <3>2, <3>3 DEF DriverInv, NamedInv
  <2> QED BY <2>1, <2>2
<1>19. Distinct'
  <2>1. CASE f \in line.bad
    BY <1>1, <2>1 DEF DriverInv, Distinct
  <2>2. CASE f \notin line.bad
    BY <1>1, <1>3, <1>4, <2>2, AddDistinct DEF DriverInv
  <2> QED BY <2>1, <2>2
<1> QED BY <1>5, <1>12, <1>13, <1>14, <1>16, <1>17, <1>18, <1>19 DEF DriverInv

LEMMA ReportStep ==
  ASSUME DriverInv, NEW c \in Compilers, Report(c)
  PROVE  DriverInv'
<1> DEFINE f == current[c]
<1>1. /\ pc[c] = "report" /\ pc' = Goes(c, "awake")
      /\ containers' = containers \ {f}
      /\ resultCode' = IF f \in line.bad THEN 1 ELSE resultCode
      /\ current' = [current EXCEPT ![c] = NoFile]
      /\ UNCHANGED <<line, queue, position, output, modules>>
  BY DEF Report
<1>2. "report" \in Working /\ "awake" \notin Working /\ "awake" \in CompilerPlaces
  BY DEF Working, CompilerPlaces
<1>3. /\ c \in Threads /\ c \in 1 .. MaxThreads /\ f \in CFiles /\ f \in Files
      /\ CFiles \subseteq Files
  BY <1>1, <1>2, LineFacts DEF DriverInv, ThreadsInv
<1>4. Holds(c, f) /\ (Compiled(f) \/ f \in line.bad)
  BY <1>1, <1>2, <1>3 DEF DriverInv, HeldInv, Holds
<1>5. /\ current' \in [Threads -> Files \cup {NoFile}] /\ current'[c] = NoFile
      /\ \A e \in Threads : e # c => current'[e] = current[e]
  BY <1>1, <1>3 DEF DriverInv, TypeOK
<1>6. /\ pc' \in [Threads -> MainPlaces \cup CompilerPlaces]
      /\ pc'[c] = "awake" /\ pc'[Main] = pc[Main]
      /\ \A t \in Threads : t # c => pc'[t] = pc[t]
      /\ \A e \in 1 .. MaxThreads : pc'[e] \in CompilerPlaces
      /\ c # Main
      /\ Compilers' = Compilers /\ CFiles' = CFiles /\ Compilers \subseteq Threads
      /\ ThreadsInv'
  <2>1. line' = line /\ position' = position
    BY <1>1
  <2> QED BY <1>1, <1>2, <1>5, <2>1, CompilerMoves
<1>7. pc[Main] \notin Joined
  BY <1>1 DEF DriverInv, ThreadsInv
<1>8. LoadInv'
  BY <1>6, <1>7 DEF LoadInv, ToLoad, Joined
<1>9. \A g : (Queued(g)' <=> Queued(g)) /\ (Compiled(g)' <=> Compiled(g))
  BY <1>1 DEF Queued, Compiled, queue
<1>10. \A e \in Compilers : \A g : Holds(e, g)' <=> (Holds(e, g) /\ e # c)
  BY <1>2, <1>5, <1>6 DEF Holds
<1>11. \A e \in Compilers : e # c => ~Holds(e, f)
  BY <1>3, <1>4 DEF DriverInv, HeldInv
<1>12. \A g : Holds(c, g) => g = f
  BY DEF Holds
<1> HIDE DEF f
<1>13. TypeOK'
  BY <1>1, <1>5, <1>6 DEF DriverInv, TypeOK, queue, output
<1>14. OutputInv'
  BY <1>1, <1>6 DEF DriverInv, OutputInv, output
<1>15. QueueInv'
  BY <1>1, <1>6 DEF DriverInv, QueueInv, queue, Threads
<1>16. HeldInv'
  <2>1. \A g \in CFiles : g \in containers' <=> (Queued(g)' \/ \E e \in Compilers : Holds(e, g)')
    <3>1. \A g \in CFiles : g \in containers <=> (Queued(g) \/ \E e \in Compilers : Holds(e, g))
      BY DEF DriverInv, HeldInv
    <3>2. ~Queued(f)
      BY <1>3, <1>4 DEF DriverInv, HeldInv
    <3>3. \A g \in CFiles : g = f => ~\E e \in Compilers : Holds(e, g)'
      BY <1>10, <1>11
    <3>4. ASSUME NEW g \in CFiles, g # f
          PROVE  (\E e \in Compilers : Holds(e, g)') <=> (\E e \in Compilers : Holds(e, g))
      BY <1>10, <1>12, <3>4
    <3> QED BY <1>1, <1>9, <3>1, <3>2, <3>3, <3>4
  <2>2. \A e \in Compilers : \A g \in CFiles : Holds(e, g)' =>
          /\ g < position'
          /\ IF pc'[e] = "report" THEN Compiled(g)' \/ g \in line'.bad ELSE ~Compiled(g)'
    BY <1>1, <1>6, <1>9, <1>10 DEF DriverInv, HeldInv
  <2>3. \A g \in CFiles : Queued(g)' => ~Compiled(g)' /\ \A e \in Compilers : ~Holds(e, g)'
    BY <1>9, <1>10 DEF DriverInv, HeldInv
  <2>4. \A e, b \in Compilers : \A g \in CFiles : Holds(e, g)' /\ Holds(b, g)' => e = b
    BY <1>10 DEF DriverInv, HeldInv
  <2> QED BY <1>6, <2>1, <2>2, <2>3, <2>4 DEF HeldInv
<1>17. DoneInv'
  <2>1. resultCode' = 1 <=> (resultCode = 1 \/ f \in line.bad)
    BY <1>1
  <2>2. \A g \in CFiles : g < position' /\ g \notin containers' =>
          Compiled(g)' \/ (g \in line.bad /\ resultCode' = 1)
    BY <1>1, <1>4, <1>9, <2>1 DEF DriverInv, DoneInv
  <2>3. resultCode' = 1 /\ ~Exited' => line.bad # {}
    BY <1>6, <2>1 DEF DriverInv, DoneInv, Exited
  <2>4. \A g \in Files \ CFiles : g < position' => Compiled(g)'
    BY <1>1, <1>9 DEF DriverInv, DoneInv
  <2>5. pc'[Main] \in Writing => Compiled(position)'
    BY <1>1, <1>6 DEF DriverInv, DoneInv, Compiled
  <2> QED BY <1>1, <1>6, <2>2, <2>3, <2>4, <2>5 DEF DoneInv
<1>18. NamedInv'
  BY <1>1, <1>6 DEF DriverInv, NamedInv
<1>19. Distinct'
  BY <1>1 DEF DriverInv, Distinct
<1> QED BY <1>6, <1>8, <1>13, <1>14, <1>15, <1>16, <1>17, <1>18, <1>19 DEF DriverInv
------------------------------------------------------------------------------
LEMMA DriverInit == Init => DriverInv
<1> SUFFICES ASSUME Init PROVE DriverInv
  OBVIOUS
<1> USE DEF Init
<1>1. /\ Main \in Threads /\ pc[Main] = "init" /\ \A c \in 1 .. MaxThreads : c \in Threads /\ pc[c] = "new"
      /\ Len(inputs) = 0 /\ \A i : i \notin 1 .. Len(inputs)
  BY DriverAssumption DEF Threads
<1>2. \A t \in Threads : DOMAIN modules[t] = {}
  BY EmptySeq
<1>3. TypeOK
  <2>1. start \in 0 .. Len(inputs) /\ position \in 1 .. FilesNum + 1
    BY <1>1, DriverAssumption
  <2>2. pc \in [Threads -> MainPlaces \cup CompilerPlaces]
    BY DEF MainPlaces, CompilerPlaces
  <2> QED BY <1>1, <2>1, <2>2, EmptySeq DEF TypeOK, MainPlaces, CompilerPlaces
<1>4. Compilers \subseteq 1 .. MaxThreads /\ CFiles \subseteq Files
  BY <1>3, LineFacts
<1>5. \A f : ~Queued(f)
  BY <1>1 DEF Queued
<1>6. \A c \in Compilers : \A f : ~Holds(c, f)
  BY <1>1, <1>4 DEF Holds, Working
<1>7. \A f \in Files : ~(f < position)
  BY DriverAssumption DEF Files
<1>8. ThreadsInv
  BY <1>1 DEF ThreadsInv, Working, Writing, Joined
<1>9. OutputInv
  BY <1>1 DEF OutputInv, Threads
<1>10. QueueInv
  BY <1>1 DEF QueueInv
<1>11. HeldInv
  BY <1>5, <1>6 DEF HeldInv
<1>12. DoneInv
  BY <1>1, <1>4, <1>7 DEF DoneInv, Writing
<1>13. NamedInv /\ Distinct
  BY <1>2 DEF NamedInv, Distinct
<1>14. LoadInv
  BY <1>1 DEF LoadInv, ToLoad, Joined
<1> QED BY <1>3, <1>8, <1>9, <1>10, <1>11, <1>12, <1>13, <1>14 DEF DriverInv

LEMMA DriverStutter == ASSUME DriverInv, UNCHANGED vars PROVE DriverInv'
<1> USE DEF vars
<1>1. Compilers' = Compilers /\ CFiles' = CFiles
  BY DEF Compilers, CFiles
<1>2. TypeOK'
  BY <1>1 DEF DriverInv, TypeOK
<1>3. ThreadsInv' /\ OutputInv'
  BY <1>1 DEF DriverInv, ThreadsInv, OutputInv
<1>4. QueueInv' /\ LoadInv' /\ Distinct'
  BY <1>1 DEF DriverInv, QueueInv, LoadInv, ToLoad, Distinct
<1>5. /\ \A f : (Queued(f)' <=> Queued(f)) /\ (Compiled(f)' <=> Compiled(f))
      /\ \A c, f : Holds(c, f)' <=> Holds(c, f)
  BY DEF Queued, Compiled, Holds
<1>6. HeldInv'
  BY <1>1, <1>5 DEF DriverInv, HeldInv
<1>7. DoneInv'
  BY <1>1, <1>5 DEF DriverInv, DoneInv, Exited
<1>8. NamedInv'
  BY <1>1 DEF DriverInv, NamedInv
<1> QED BY <1>2, <1>3, <1>4, <1>6, <1>7, <1>8 DEF DriverInv

LEMMA DriverNext == DriverInv /\ [Next]_vars => DriverInv'
<1> SUFFICES ASSUME DriverInv, [Next]_vars PROVE DriverInv'
  OBVIOUS
<1>1. CASE MainStep
  BY <1>1, CreateThreadStep, InitDoneStep, SendStep, ReadModuleStep, WriteModuleStep, EndStep,
     JoinStep, MergeStep, SortStep, BuildNameOfMain, OpenOutputOfMain DEF MainStep
<1>2. ASSUME NEW c \in Compilers, CompilerStep(c) \/ SpuriousWakeup(c) PROVE DriverInv'
  BY <1>2, IdleStep, TakeInputStep, BuildNameOfCompiler, OpenOutputOfCompiler, CompileStep,
     ReportStep DEF CompilerStep
<1>3. CASE CreateFails \/ OpenFails \/ OutputFails
  BY <1>3, DieStep DEF CreateFails, OpenFails, OutputFails
<1>4. CASE UNCHANGED vars
  BY <1>4, DriverStutter
<1> QED BY <1>1, <1>2, <1>3, <1>4 DEF Next, Over

(* The invariant of the driver, for any command line and any number of threads. *)
THEOREM DriverInvariant == Spec => []DriverInv
BY DriverInit, DriverNext, PTL DEF Spec

(* The state is well-typed; in particular no step takes an input from behind the  *)
(* end of the queue.                                                            *)
THEOREM TypeCorrect == Spec => []TypeOK
<1>1. DriverInv => TypeOK
  BY DEF DriverInv
<1> QED BY <1>1, DriverInvariant, PTL

(* The text of a source file lives exactly as long as somebody needs it.         *)
THEOREM TextsLive == Spec => []ContainerLives
<1>1. DriverInv => ContainerLives
  BY DEF DriverInv, HeldInv, Holds, ContainerLives
<1> QED BY <1>1, DriverInvariant, PTL

(* No file is compiled twice, or by two compilers at the same time.              *)
THEOREM NoneTwice == Spec => []CompiledOnce
<1> SUFFICES DriverInv => CompiledOnce
  BY DriverInvariant, PTL
<1> SUFFICES ASSUME DriverInv PROVE CompiledOnce
  OBVIOUS
<1>1. ASSUME NEW f \in Files, NEW c \in Compilers, NEW d \in Compilers, current[c] = f, current[d] = f
      PROVE  c = d
  <2>1. c \in 1 .. MaxThreads /\ d \in 1 .. MaxThreads /\ NoFile \notin Files
    BY LineFacts, DriverAssumption DEF DriverInv
  <2>2. pc[c] \in Working /\ pc[d] \in Working /\ f \in CFiles
    BY <1>1, <2>1 DEF DriverInv, ThreadsInv
  <2> QED BY <1>1, <2>2 DEF DriverInv, HeldInv, Holds
<1> QED BY <1>1 DEF DriverInv, Distinct, CompiledOnce

(* When the compilers have been joined, no source is missing and no error is      *)
(* forgotten.                                                                   *)
LEMMA AllThereAtEnd ==
  ASSUME DriverInv, pc[Main] \in Joined
  PROVE  /\ \A f \in Files : Compiled(f) \/ (f \in line.bad /\ resultCode = 1)
         /\ resultCode = IF line.bad = {} THEN 0 ELSE 1
<1>1. /\ 1 \in Compilers /\ Compilers \subseteq 1 .. MaxThreads /\ CFiles \subseteq Files
      /\ line.bad \subseteq CFiles
  BY LineFacts DEF DriverInv, Compilers
<1>2. position = FilesNum + 1 /\ \A c \in Compilers : pc[c] = "left"
  BY DEF DriverInv, ThreadsInv
<1>3. \A f \in CFiles : ~Queued(f)
  BY <1>1, <1>2, NothingBehindMark DEF DriverInv
<1>4. \A c \in Compilers : \A f : ~Holds(c, f)
  BY <1>2 DEF Holds, Working
<1>5. \A f \in CFiles : f \notin containers
  BY <1>3, <1>4 DEF DriverInv, HeldInv
<1>6. \A f \in Files : f < position
  BY <1>2, DriverAssumption DEF Files
<1>7. \A f \in Files : Compiled(f) \/ (f \in line.bad /\ resultCode = 1)
  BY <1>1, <1>5, <1>6 DEF DriverInv, DoneInv
<1>8. \A f \in line.bad : ~Compiled(f)
  BY DEF DriverInv, NamedInv, Compiled
<1>9. line.bad # {} => resultCode = 1
  BY <1>1, <1>7, <1>8
<1>10. resultCode = 1 => line.bad # {}
  BY DEF DriverInv, DoneInv, Exited, Joined
<1> QED BY <1>7, <1>9, <1>10 DEF DriverInv, TypeOK

(* An error of one file reaches the result, though the others compile well after *)
(* it: the program goes on without a file only if the result says so.            *)
THEOREM ErrorsReported == Spec => []ErrorsKept
<1>1. DriverInv => ErrorsKept
  BY AllThereAtEnd DEF ErrorsKept, Joined
<1> QED BY <1>1, DriverInvariant, PTL

(* No two modules have the same name, as those of the C files of one command line: *)
(* c2mir numbers them (module_num).                                             *)
NamesDiffer == \A f, g \in Files : Rank[f] = Rank[g] => f = g

(* The order in which the modules are loaded depends on the command line alone and *)
(* not on which compiler made which of them, or when.                            *)
THEOREM LoadedInOrder == ASSUME NamesDiffer PROVE Spec => []LoadOrder
<1> SUFFICES DriverInv => LoadOrder
  BY DriverInvariant, PTL
<1> SUFFICES ASSUME DriverInv, pc[Main] = "done", resultCode = 0, ~line.output
             PROVE  /\ Len(modules[Main]) = FilesNum
                    /\ \A i, j \in DOMAIN modules[Main] :
                         i < j => Rank[modules[Main][i].source] < Rank[modules[Main][j].source]
  BY DEF LoadOrder
<1> DEFINE list == modules[Main]
           n == Len(list)
<1>1. /\ Main \in Threads /\ list \in Seq(Recs) /\ n \in Nat /\ DOMAIN list = 1 .. n
      /\ \A i \in 1 .. n : list[i].source \in Files /\ list[i].name = list[i].source
  BY LineFacts, ModulesFacts DEF DriverInv, NamedInv, Recs
<1>2. \A i, j \in 1 .. n : list[i].source = list[j].source => i = j
  BY <1>1 DEF DriverInv, Distinct
<1>3. \A f \in Files : \E i \in 1 .. n : list[i].source = f
  <2>1. \A t \in Threads : \A i \in DOMAIN modules[t] : t = Main
    BY EmptySeq DEF DriverInv, LoadInv, ToLoad, Joined, Threads
  <2>2. \A f \in Files : Compiled(f)
    BY AllThereAtEnd DEF Joined
  <2> QED BY <1>1, <2>1, <2>2 DEF Compiled
<1>4. \A i, j \in 1 .. n : i < j => Rank[list[i].name] <= Rank[list[j].name]
  BY <1>1 DEF DriverInv, LoadInv, ToLoad, Joined
<1> HIDE DEF list, n
<1>5. n = FilesNum
  <2> DEFINE source == [i \in 1 .. n |-> list[i].source]
  <2>1. source \in Injection(1 .. n, Files)
    BY <1>1, <1>2 DEF Injection, IsInjective
  <2>2. source \in Surjection(1 .. n, Files)
    BY <1>1, <1>3 DEF Surjection
  <2>3. IsFiniteSet(Files) /\ Cardinality(Files) = FilesNum
    BY FS_Interval, DriverAssumption DEF Files
  <2>4. Cardinality(1 .. n) = n
    BY <1>1, FS_Interval
  <2> HIDE DEF source
  <2>5. Cardinality(1 .. n) = Cardinality(Files)
    BY <2>1, <2>2, <2>3, FS_Injection
  <2> QED BY <2>3, <2>4, <2>5
<1>6. ASSUME NEW i \in 1 .. n, NEW j \in 1 .. n, i < j
      PROVE  Rank[list[i].source] < Rank[list[j].source]
  <2>1. Rank[list[i].source] <= Rank[list[j].source]
    BY <1>1, <1>4, <1>6
  <2>2. list[i].source # list[j].source
    BY <1>1, <1>2, <1>6
  <2>3. Rank[list[i].source] # Rank[list[j].source]
    BY <1>1, <2>2 DEF NamesDiffer
  <2>4. Rank[list[i].source] \in Nat /\ Rank[list[j].source] \in Nat
    BY <1>1, DriverAssumption
  <2> QED BY <2>1, <2>3, <2>4
<1> QED BY <1>1, <1>5, <1>6 DEF list, n

------------------------------------------------------------------------------
(* The queue implements a FIFO queue: what is pending is the part of the array     *)
(* behind its start, which compaction moves as a whole.                          *)
LEMMA BehindFacts ==
  ASSUME NEW S, NEW q \in Seq(S), NEW s \in 0 .. Len(q)
  PROVE  /\ SubSeq(q, s + 1, Len(q)) \in Seq(S)
         /\ Len(SubSeq(q, s + 1, Len(q))) = Len(q) - s
         /\ \A i \in 1 .. Len(q) - s :
              SubSeq(q, s + 1, Len(q))[i] = q[s + i] /\ s + i \in 1 .. Len(q)
<1>1. Len(q) \in Nat /\ s \in Nat /\ s <= Len(q) /\ \A i \in 1 .. Len(q) : q[i] \in S
  BY LenProperties, ElementOfSeq
<1>2. \A i \in s + 1 .. Len(q) : q[i] \in S
  BY <1>1
<1>3. s + 1 \in Int /\ Len(q) \in Int
  BY <1>1
<1> DEFINE B == SubSeq(q, s + 1, Len(q))
<1>4. /\ B \in Seq(S)
      /\ Len(B) = IF s + 1 <= Len(q) THEN Len(q) - (s + 1) + 1 ELSE 0
      /\ \A i \in 1 .. Len(q) - (s + 1) + 1 : B[i] = q[(s + 1) + i - 1]
  BY <1>2, <1>3, SubSeqProperties
<1> HIDE DEF B
<1>5. Len(B) = Len(q) - s
  BY <1>1, <1>4
<1>6. ASSUME NEW i \in 1 .. Len(q) - s PROVE B[i] = q[s + i] /\ s + i \in 1 .. Len(q)
  <2>1. i \in 1 .. Len(q) - (s + 1) + 1 /\ (s + 1) + i - 1 = s + i
    BY <1>1
  <2>2. B[i] = q[s + i]
    BY <1>4, <2>1
  <2> QED BY <1>1, <2>2
<1> QED BY <1>4, <1>5, <1>6 DEF B

LEMMA PendingFacts ==
  ASSUME TypeOK
  PROVE  /\ Pending \in Seq(CFiles \cup {Stop}) /\ Len(Pending) = Len(inputs) - start
         /\ Len(Pending) \in Nat
         /\ \A i \in 1 .. Len(Pending) : Pending[i] = inputs[start + i] /\ start + i \in 1 .. Len(inputs)
<1>1. inputs \in Seq(CFiles \cup {Stop}) /\ start \in 0 .. Len(inputs)
  BY DEF TypeOK
<1>2. /\ Pending \in Seq(CFiles \cup {Stop}) /\ Len(Pending) = Len(inputs) - start
      /\ \A i \in 1 .. Len(inputs) - start :
           Pending[i] = inputs[start + i] /\ start + i \in 1 .. Len(inputs)
  BY <1>1, BehindFacts DEF Pending
<1>3. Len(Pending) \in Nat
  BY <1>2, LenProperties
<1> QED BY <1>2, <1>3

LEMMA NextPendingFacts ==
  ASSUME TypeOK', CFiles' = CFiles
  PROVE  /\ Pending' \in Seq(CFiles \cup {Stop}) /\ Len(Pending') = Len(inputs') - start'
         /\ Len(Pending') \in Nat
         /\ \A i \in 1 .. Len(Pending') :
              Pending'[i] = inputs'[start' + i] /\ start' + i \in 1 .. Len(inputs')
<1>1. inputs' \in Seq(CFiles \cup {Stop}) /\ start' \in 0 .. Len(inputs')
  BY DEF TypeOK
<1>2. Pending' = SubSeq(inputs', start' + 1, Len(inputs'))
  BY DEF Pending
<1>3. /\ Pending' \in Seq(CFiles \cup {Stop}) /\ Len(Pending') = Len(inputs') - start'
      /\ \A i \in 1 .. Len(inputs') - start' :
           Pending'[i] = inputs'[start' + i] /\ start' + i \in 1 .. Len(inputs')
  BY <1>1, <1>2, BehindFacts
<1>4. Len(Pending') \in Nat
  BY <1>3, LenProperties
<1> QED BY <1>3, <1>4

LEMMA SentPending ==
  ASSUME TypeOK, TypeOK', NEW x \in CFiles \cup {Stop}, inputs' = Append(inputs, x), start' = start,
         CFiles' = CFiles
  PROVE  Pending' = Append(Pending, x)
<1>1. /\ Len(inputs') = Len(inputs) + 1 /\ Len(inputs) \in Nat /\ start \in Nat /\ start <= Len(inputs)
      /\ \A i \in 1 .. Len(inputs) : inputs'[i] = inputs[i]
      /\ inputs'[Len(inputs) + 1] = x
  BY SentQueue, QueueFacts
<1>2. /\ Pending \in Seq(CFiles \cup {Stop}) /\ Len(Pending) = Len(inputs) - start
      /\ Len(Pending) \in Nat
      /\ \A i \in 1 .. Len(Pending) : Pending[i] = inputs[start + i] /\ start + i \in 1 .. Len(inputs)
  BY PendingFacts
<1>3. /\ Pending' \in Seq(CFiles \cup {Stop}) /\ Len(Pending') = Len(inputs') - start
      /\ Len(Pending') \in Nat
      /\ \A i \in 1 .. Len(Pending') : Pending'[i] = inputs'[start + i]
  BY NextPendingFacts
<1>4. /\ Append(Pending, x) \in Seq(CFiles \cup {Stop}) /\ Len(Append(Pending, x)) = Len(Pending) + 1
      /\ \A i \in 1 .. Len(Pending) : Append(Pending, x)[i] = Pending[i]
      /\ Append(Pending, x)[Len(Pending) + 1] = x
  BY <1>2, AppendProperties
<1>5. Len(Pending') = Len(Append(Pending, x))
  BY <1>1, <1>2, <1>3, <1>4
<1>6. ASSUME NEW i \in 1 .. Len(Pending') PROVE Pending'[i] = Append(Pending, x)[i]
  <2>1. CASE i \in 1 .. Len(Pending)
    BY <1>1, <1>2, <1>3, <1>4, <2>1
  <2>2. CASE i = Len(Pending) + 1
    <3>1. start + i = Len(inputs) + 1
      BY <1>1, <1>2, <2>2
    <3> QED BY <1>1, <1>3, <1>4, <2>2, <3>1
  <2>3. i \in 1 .. Len(Pending) \/ i = Len(Pending) + 1
    BY <1>2, <1>4, <1>5
  <2> QED BY <2>1, <2>2, <2>3
<1> QED BY <1>3, <1>4, <1>5, <1>6, SeqEqual

LEMMA TakenPending ==
  ASSUME TypeOK, TypeOK', ~Empty, NEW d, Shifted(d), CFiles' = CFiles
  PROVE  Pending # <<>> /\ Head(Pending) = inputs[start + 1] /\ Pending' = Tail(Pending)
<1>1. /\ Len(inputs) \in Nat /\ start \in Nat /\ start + 1 <= Len(inputs)
      /\ d \in 0 .. start + 1 /\ start' = start + 1 - d /\ Len(inputs') = Len(inputs) - d
      /\ \A i \in 1 .. Len(inputs') : inputs'[i] = inputs[i + d]
  BY QueueFacts DEF Empty, Shifted
<1>2. /\ Pending \in Seq(CFiles \cup {Stop}) /\ Len(Pending) = Len(inputs) - start
      /\ Len(Pending) \in Nat
      /\ \A i \in 1 .. Len(Pending) : Pending[i] = inputs[start + i]
  BY PendingFacts
<1>3. /\ Pending' \in Seq(CFiles \cup {Stop}) /\ Len(Pending') = Len(inputs') - start'
      /\ Len(Pending') \in Nat
      /\ \A i \in 1 .. Len(Pending') : Pending'[i] = inputs'[start' + i] /\ start' + i \in 1 .. Len(inputs')
  BY NextPendingFacts
<1>4. Pending # <<>>
  BY <1>1, <1>2, EmptySeq
<1>5. /\ Tail(Pending) \in Seq(CFiles \cup {Stop}) /\ Len(Tail(Pending)) = Len(Pending) - 1
      /\ \A i \in 1 .. Len(Tail(Pending)) : Tail(Pending)[i] = Pending[i + 1]
  BY <1>2, <1>4, HeadTailProperties
<1>6. Head(Pending) = inputs[start + 1]
  <2>1. Head(Pending) = Pending[1]
    BY <1>2, <1>4
  <2> QED BY <1>1, <1>2, <2>1
<1>7. Len(Pending') = Len(Tail(Pending))
  <2>1. Len(Pending') = (Len(inputs) - d) - (start + 1 - d)
    BY <1>1, <1>3
  <2>2. d \in Int
    BY <1>1
  <2> QED BY <1>1, <1>2, <1>5, <2>1, <2>2
<1>8. ASSUME NEW i \in 1 .. Len(Pending') PROVE Pending'[i] = Tail(Pending)[i]
  <2>1. Pending'[i] = inputs[(start' + i) + d] /\ (start' + i) + d = start + (i + 1)
    BY <1>1, <1>3
  <2>2. i + 1 \in 1 .. Len(Pending) /\ Tail(Pending)[i] = Pending[i + 1]
    BY <1>2, <1>5, <1>7
  <2> QED BY <1>2, <2>1, <2>2
<1> QED BY <1>3, <1>4, <1>5, <1>6, <1>7, <1>8, SeqEqual

LEMMA QueueStep ==
  ASSUME DriverInv, DriverInv', [Next]_vars
  PROVE  [Abstract!Next]_Pending
<1>1. CASE Send
  <2>1. /\ position \in CFiles /\ position \in Files /\ pc[Main] = "read"
        /\ inputs' = Append(inputs, position) /\ start' = start /\ CFiles' = CFiles
    BY <1>1, LineFacts DEF Send, DriverInv, CFiles
  <2>2. Pending' = Append(Pending, position)
    BY <2>1, SentPending DEF DriverInv
  <2>3. \A i \in DOMAIN Pending : Pending[i] # Stop
    <3>1. DOMAIN Pending = 1 .. Len(Pending)
      BY PendingFacts, LenProperties DEF DriverInv
    <3>2. \A i \in 1 .. Len(inputs) : inputs[i] # Stop
      BY <2>1 DEF DriverInv, QueueInv, Reading
    <3> QED BY <3>1, <3>2, PendingFacts DEF DriverInv
  <2>4. Abstract!Put(position)
    BY <2>2, <2>3 DEF Abstract!Put, Abstract!Closed
  <2> QED BY <2>1, <2>4 DEF Abstract!Next
<1>2. CASE End
  <2>1. /\ pc[Main] = "read"
        /\ inputs' = Append(inputs, Stop) /\ start' = start /\ CFiles' = CFiles
    BY <1>2 DEF End, CFiles
  <2>2. Pending' = Append(Pending, Stop)
    BY <2>1, SentPending DEF DriverInv
  <2>3. \A i \in DOMAIN Pending : Pending[i] # Stop
    <3>1. DOMAIN Pending = 1 .. Len(Pending)
      BY PendingFacts, LenProperties DEF DriverInv
    <3>2. \A i \in 1 .. Len(inputs) : inputs[i] # Stop
      BY <2>1 DEF DriverInv, QueueInv, Reading
    <3> QED BY <3>1, <3>2, PendingFacts DEF DriverInv
  <2>4. Abstract!Close
    BY <2>2, <2>3 DEF Abstract!Close, Abstract!Closed
  <2> QED BY <2>4 DEF Abstract!Next
<1>3. ASSUME NEW c \in Compilers, TakeInput(c) PROVE Abstract!Next
  <2>1. /\ ~Empty /\ inputs[start + 1] # Stop /\ Compacted(inputs, start + 1) /\ CFiles' = CFiles
    BY <1>3 DEF TakeInput, CFiles
  <2>2. PICK d : Shifted(d)
    BY <2>1, TakenQueue DEF DriverInv
  <2>3. Pending # <<>> /\ Head(Pending) # Stop /\ Pending' = Tail(Pending)
    BY <2>1, <2>2, TakenPending DEF DriverInv
  <2>4. Abstract!Take
    BY <2>3 DEF Abstract!Take
  <2> QED BY <2>4 DEF Abstract!Next
<1>4. CASE UNCHANGED queue
  BY <1>4 DEF queue, Pending
<1>5. \/ Send \/ End \/ (\E c \in Compilers : TakeInput(c)) \/ UNCHANGED queue
  BY DEF Next, vars, MainStep, CompilerStep, CreateThread, InitDone, ReadModule, WriteModule, Join,
     Merge, Sort, BuildName, OpenOutput, GoToSleep, Leave, Compile, Report, SpuriousWakeup,
     CreateFails, OpenFails, OutputFails, Die, Over, queue
<1> QED BY <1>1, <1>2, <1>3, <1>4, <1>5

(* The array with its start, which compaction moves while files are added, is a  *)
(* FIFO queue: the files are taken in the order they were sent, each of them once.  *)
THEOREM QueueIsFifo == Spec => ImplementsQueue
<1>1. Init => Abstract!Init
  <2> SUFFICES ASSUME Init PROVE Pending = <<>>
    BY DEF Abstract!Init
  <2>1. inputs = <<>> /\ start = 0 /\ Len(inputs) = 0
    BY EmptySeq DEF Init
  <2> QED BY <2>1, SubSeqEmpty DEF Pending
<1>2. DriverInv /\ DriverInv' /\ [Next]_vars => [Abstract!Next]_Pending
  BY QueueStep
<1> QED BY <1>1, <1>2, DriverInvariant, PTL DEF Spec, ImplementsQueue, Abstract!Spec
==============================================================================
