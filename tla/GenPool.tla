-------------------------------- MODULE GenPool --------------------------------
(****************************************************************************)
(* The machine code generators of a MIR context and the threads that use     *)
(* them (mir-gen.c with MIR_PARALLEL_GEN): the queue of functions under one   *)
(* mutex, the condition variables generate_signal (workers wait on it) and    *)
(* done_signal (the linking thread and the callers of lazily generated        *)
(* functions wait on it), MIR_gen on a worker, MIR_gen_init and               *)
(* MIR_gen_finish.                                                            *)
(*                                                                          *)
(* The main thread links one module for lazy generation and one for parallel *)
(* generation; application threads call functions through their thunks,       *)
(* while the second module is still being linked. What happens between a      *)
(* lock and the next unlock or wait is one step; MIR_gen works on the         *)
(* function without the lock and is cut where another thread can see it.       *)
(****************************************************************************)
EXTENDS Integers, Sequences, FiniteSets

CONSTANTS
  Workers,        \* the generator threads, gens_num of them
  Apps,           \* the application threads
  Main,           \* the thread that initialises, links and finishes
  ParallelFuncs,  \* functions linked with MIR_set_parallel_gen_interface
  LazyFuncs,      \* functions linked with MIR_set_lazy_gen_interface
  Calls,          \* the functions each application thread may call
  CompactAt,      \* 64 in the code: the queue is compacted only beyond it
  Stop,           \* the NULL item of the queue
  NoFunc

Funcs == ParallelFuncs \cup LazyFuncs
Threads == Workers \cup Apps \cup {Main}

ASSUME PoolAssumption ==
  /\ Workers # {} /\ IsFiniteSet(Workers) /\ IsFiniteSet(Apps)
  /\ Workers \cap Apps = {} /\ Main \notin Workers \cup Apps
  /\ ParallelFuncs \cap LazyFuncs = {}
  /\ Stop \notin Funcs /\ NoFunc \notin Funcs /\ Stop # NoFunc
  /\ Calls \in [Apps -> SUBSET LazyFuncs]
  /\ CompactAt \in Nat

(* When no function is generated by two threads at once: there is one worker, *)
(* or the program keeps to what MIR.md says of the generator instances ("can  *)
(* be used in a different thread to compile different MIR functions") and no   *)
(* two of its threads call the same function for the first time.              *)
OneGenerator == \A v, w \in Workers : v = w
DifferentFunctions == \A a, b \in Apps : a # b => Calls[a] \cap Calls[b] = {}
Disciplined == OneGenerator \/ DifferentFunctions

VARIABLES
  queue,      \* funcs_to_generate
  start,      \* funcs_start
  busy,       \* worker -> busy_p
  data,       \* function -> its item has a CFG attached (func_item->data)
  code,       \* function -> machine_code is set
  thunk,      \* function -> where its thunk leads
  pc,         \* thread -> where it is
  work,       \* thread -> the function a worker generates or a caller waits for
  toPush,     \* functions the main thread has still to queue
  generated,  \* ghost: function -> how many times code was generated
  assertion   \* the assertion of MIR_gen has held so far

vars == <<queue, start, busy, data, code, thunk, pc, work, toPush, generated, assertion>>

items == <<data, code, thunk, generated, assertion>>

(* Threads that sleep on a condition variable wake up to lock the mutex and *)
(* look again.                                                               *)
Woken(p, sleepers) ==
  [t \in Threads |-> IF t \in sleepers /\ p[t] = "asleep" THEN "awake" ELSE p[t]]

Goes(t, place) == [pc EXCEPT ![t] = place]

Waiters == Apps \cup {Main}

Pending == SubSeq(queue, start + 1, Len(queue))

Idle == Len(queue) <= start

Started == {w \in Workers : pc[w] # "new"}

Init ==
  /\ queue = <<>>
  /\ start = 0
  /\ busy = [w \in Workers |-> FALSE]
  /\ data = [f \in Funcs |-> FALSE]
  /\ code = [f \in Funcs |-> FALSE]
  /\ thunk = [f \in Funcs |-> "undefined"]
  /\ pc = [t \in Threads |-> IF t = Main THEN "init" ELSE "new"]
  /\ work = [t \in Workers \cup Apps |-> NoFunc]
  /\ toPush = ParallelFuncs
  /\ generated = [f \in Funcs |-> 0]
  /\ assertion = TRUE

------------------------------------------------------------------------------
(* The main thread.                                                          *)

(* MIR_gen_init: one thread after the other; the new one goes for the lock. *)
CreateThread(w) ==
  /\ pc[Main] = "init"
  /\ pc[w] = "new"
  /\ pc' = Goes(w, "awake")
  /\ UNCHANGED <<queue, start, busy, work, toPush, items>>

(* mir_thread_create fails: the threads there are are told to finish.         *)
SignalFinish ==
  /\ start' = 0
  /\ queue' = <<Stop>>

CreateFails ==
  /\ pc[Main] = "init"
  /\ Started # Workers
  /\ SignalFinish
  /\ pc' = Woken(Goes(Main, "abandon"), Workers)
  /\ UNCHANGED <<busy, work, toPush, items>>

(* MIR_link with MIR_set_lazy_gen_interface; from now on threads can run.    *)
LinkLazy ==
  /\ pc[Main] = "init"
  /\ Started = Workers
  /\ thunk' = [f \in Funcs |-> IF f \in LazyFuncs THEN "wrapper" ELSE thunk[f]]
  /\ pc' = [t \in Threads |-> IF t = Main THEN "link"
                              ELSE IF t \in Apps THEN "running" ELSE pc[t]]
  /\ UNCHANGED <<queue, start, busy, data, code, work, toPush, generated, assertion>>

Push(f) == queue' = Append(queue, f)

(* MIR_set_parallel_gen_interface for a function. *)
PushParallel(f) ==
  /\ pc[Main] = "link"
  /\ f \in toPush
  /\ Push(f)
  /\ toPush' = toPush \ {f}
  /\ pc' = Woken(Goes(Main, IF toPush = {f} THEN "awake" ELSE "link"), Workers)
  /\ UNCHANGED <<start, busy, work, items>>

(* Mutant: only the queue is looked at. *)
QuietIgnoresBusy == Idle

(* MIR_set_parallel_gen_interface for NULL: wait for an empty queue and idle *)
(* workers.                                                                   *)
Quiet == Idle /\ \A w \in Workers : ~busy[w]

WaitForLink ==
  /\ pc[Main] = "awake"
  /\ pc' = Goes(Main, IF Quiet THEN "linked" ELSE "asleep")
  /\ UNCHANGED <<queue, start, busy, work, toPush, items>>

(* MIR_gen_finish, when the program has no other thread left. *)
Finish ==
  /\ pc[Main] = "linked"
  /\ \A a \in Apps : pc[a] = "done"
  /\ SignalFinish
  /\ pc' = Woken(Goes(Main, "join"), Workers)
  /\ UNCHANGED <<busy, work, toPush, items>>

Join ==
  /\ pc[Main] \in {"join", "abandon"}
  /\ \A w \in Started : pc[w] = "exited"
  /\ pc' = Goes(Main, IF pc[Main] = "join" THEN "done" ELSE "failed")
  /\ UNCHANGED <<queue, start, busy, work, toPush, items>>

------------------------------------------------------------------------------
(* Application threads.                                                      *)

(* A call through the thunk of a function that is not generated yet leads to *)
(* the wrapper and from there to gen_and_redirect.                            *)
Call(a, f) ==
  /\ pc[a] = "running"
  /\ f \in Calls[a]
  /\ thunk[f] = "wrapper"
  /\ work' = [work EXCEPT ![a] = f]
  /\ pc' = Goes(a, "calling")
  /\ UNCHANGED <<queue, start, busy, toPush, items>>

(* gen_and_redirect queues the function, and gives up the lock once.         *)
Request(a) ==
  /\ pc[a] = "calling"
  /\ Push(work[a])
  /\ pc' = Woken(Goes(a, "awake"), Workers)
  /\ UNCHANGED <<start, busy, work, toPush, items>>

(* The loop of gen_and_redirect. *)
WaitForCode(a) ==
  /\ pc[a] = "awake"
  /\ IF code[work[a]]
     THEN /\ pc' = Goes(a, "running")
          /\ work' = [work EXCEPT ![a] = NoFunc]
     ELSE /\ pc' = Goes(a, "asleep")
          /\ UNCHANGED work
  /\ UNCHANGED <<queue, start, busy, toPush, items>>

Exit(a) ==
  /\ pc[a] = "running"
  /\ pc' = Goes(a, "done")
  /\ UNCHANGED <<queue, start, busy, work, toPush, items>>

------------------------------------------------------------------------------
(* Workers: the function gen of mir-gen.c.                                    *)

GoToSleep(w) ==
  /\ pc[w] = "awake"
  /\ Idle
  /\ pc' = Goes(w, "asleep")
  /\ UNCHANGED <<queue, start, busy, work, toPush, items>>

(* Mutant: the mark is consumed by the first worker that sees it. *)
LeaveConsumesMark(w) ==
  /\ pc[w] = "awake"
  /\ ~Idle /\ queue[start + 1] = Stop
  /\ start' = start + 1
  /\ pc' = Goes(w, "exited")
  /\ UNCHANGED <<queue, busy, work, toPush, items>>

(* The end mark stays in the queue for the other workers. *)
Leave(w) ==
  /\ pc[w] = "awake"
  /\ ~Idle /\ queue[start + 1] = Stop
  /\ pc' = Goes(w, "exited")
  /\ UNCHANGED <<queue, start, busy, work, toPush, items>>

(* Mutant: compaction that forgets to reset the start. *)
CompactedNoReset(q, s) ==
  /\ queue' = IF s > CompactAt /\ Len(q) < 2 * s THEN SubSeq(q, s + 1, Len(q)) ELSE q
  /\ start' = s

(* Mutant: the function that is taken is moved with the others. *)
CompactedOneMore(q, s) ==
  IF s > CompactAt /\ Len(q) < 2 * s
  THEN queue' = SubSeq(q, s, Len(q)) /\ start' = 0
  ELSE queue' = q /\ start' = s

(* The first function of the queue; a queue that is mostly consumed is moved *)
(* to its beginning.                                                          *)
Compacted(q, s) ==
  IF s > CompactAt /\ Len(q) < 2 * s
  THEN /\ queue' = SubSeq(q, s + 1, Len(q))
       /\ start' = 0
  ELSE /\ queue' = q
       /\ start' = s

TakeJob(w) ==
  /\ pc[w] = "awake"
  /\ ~Idle /\ queue[start + 1] # Stop
  /\ work' = [work EXCEPT ![w] = queue[start + 1]]
  /\ Compacted(queue, start + 1)
  /\ busy' = [busy EXCEPT ![w] = TRUE]
  /\ pc' = Goes(w, "check")
  /\ UNCHANGED <<toPush, items>>

(* MIR_gen, entry: the assertion, and the return when the code is there.     *)
Check(w) ==
  /\ pc[w] = "check"
  /\ assertion' = (assertion /\ ~data[work[w]])
  /\ IF code[work[w]]
     THEN /\ thunk' = [thunk EXCEPT ![work[w]] = "code"]
          /\ pc' = Goes(w, "finish")
     ELSE /\ pc' = Goes(w, "build")
          /\ UNCHANGED thunk
  /\ UNCHANGED <<queue, start, busy, data, code, work, toPush, generated>>

(* The CFG is attached to the item; the passes run. *)
Build(w) ==
  /\ pc[w] = "build"
  /\ data' = [data EXCEPT ![work[w]] = TRUE]
  /\ pc' = Goes(w, "publish")
  /\ UNCHANGED <<queue, start, busy, code, thunk, work, toPush, generated, assertion>>

(* The code is published and the thunk redirected to it. *)
Publish(w) ==
  /\ pc[w] = "publish"
  /\ thunk' = [thunk EXCEPT ![work[w]] = "code"]
  /\ generated' = [generated EXCEPT ![work[w]] = @ + 1]
  /\ pc' = Goes(w, "destroy")
  /\ UNCHANGED <<queue, start, busy, data, code, work, toPush, assertion>>

(* destroy_func_cfg and _MIR_restore_func_insns. *)
Destroy(w) ==
  /\ pc[w] = "destroy"
  /\ data' = [data EXCEPT ![work[w]] = FALSE]
  /\ pc' = Goes(w, "store")
  /\ UNCHANGED <<queue, start, busy, code, thunk, work, toPush, generated, assertion>>

(* Mutant: a signal that wakes nobody. *)
SignalNobody(p, sleepers) == pc' = p

(* pthread_cond_signal: one of the sleepers, if there is one, wakes up. *)
SignalOne(p, sleepers) ==
  IF \E t \in sleepers : p[t] = "asleep"
  THEN \E t \in sleepers : p[t] = "asleep" /\ pc' = [p EXCEPT ![t] = "awake"]
  ELSE pc' = p

(* Mutant: one sleeper is signalled instead of all. *)
StoreSignalsOne(w) ==
  /\ pc[w] = "store"
  /\ code' = [code EXCEPT ![work[w]] = TRUE]
  /\ SignalOne(Goes(w, "finish"), Waiters)
  /\ UNCHANGED <<queue, start, busy, data, thunk, work, toPush, generated, assertion>>

(* Under the lock: machine_code is set and everybody on done_signal woken.   *)
Store(w) ==
  /\ pc[w] = "store"
  /\ code' = [code EXCEPT ![work[w]] = TRUE]
  /\ pc' = Woken(Goes(w, "finish"), Waiters)
  /\ UNCHANGED <<queue, start, busy, data, thunk, work, toPush, generated, assertion>>

(* Back in gen: the worker is free, and ONE sleeper on done_signal is woken. *)
FinishJob(w) ==
  /\ pc[w] = "finish"
  /\ busy' = [busy EXCEPT ![w] = FALSE]
  /\ work' = [work EXCEPT ![w] = NoFunc]
  /\ SignalOne(Goes(w, "awake"), Waiters)
  /\ UNCHANGED <<queue, start, toPush, items>>

(* pthread_cond_wait may return without a signal. *)
SpuriousWakeup(t) ==
  /\ pc[t] = "asleep"
  /\ pc' = Goes(t, "awake")
  /\ UNCHANGED <<queue, start, busy, work, toPush, items>>

------------------------------------------------------------------------------
Over == pc[Main] \in {"done", "failed"} /\ UNCHANGED vars

MainStep ==
  \/ \E w \in Workers : CreateThread(w)
  \/ CreateFails
  \/ LinkLazy
  \/ \E f \in ParallelFuncs : PushParallel(f)
  \/ WaitForLink
  \/ Finish
  \/ Join

AppStep(a) ==
  \/ \E f \in LazyFuncs : Call(a, f)
  \/ Request(a)
  \/ WaitForCode(a)
  \/ Exit(a)

WorkerStep(w) ==
  \/ GoToSleep(w) \/ Leave(w) \/ TakeJob(w)
  \/ Check(w) \/ Build(w) \/ Publish(w) \/ Destroy(w) \/ Store(w) \/ FinishJob(w)

Next ==
  \/ MainStep
  \/ \E a \in Apps : AppStep(a)
  \/ \E w \in Workers : WorkerStep(w)
  \/ \E t \in Threads : SpuriousWakeup(t)
  \/ Over

(* The system schedules every thread that can run, and a thread gets a free   *)
(* lock; whether the program calls another function, ends a thread or finishes *)
(* the generator is its own affair.                                             *)
Fairness ==
  /\ WF_vars(MainStep /\ ~Finish)
  /\ \A a \in Apps : WF_vars(Request(a) \/ WaitForCode(a))
  /\ \A w \in Workers : WF_vars(WorkerStep(w))

Spec == Init /\ [][Next]_vars
FairSpec == Spec /\ Fairness

------------------------------------------------------------------------------
(* The type invariant; the start of the queue stays inside the array.        *)
MainPlaces ==
  {"init", "link", "awake", "asleep", "linked", "join", "done", "abandon", "failed"}
AppPlaces == {"new", "running", "calling", "awake", "asleep", "done"}
InWork == {"check", "build", "publish", "destroy", "store"}
WorkerPlaces == {"new", "awake", "asleep", "finish", "exited"} \cup InWork

TypeOK ==
  /\ queue \in Seq(Funcs \cup {Stop})
  /\ start \in 0 .. Len(queue)
  /\ busy \in [Workers -> BOOLEAN]
  /\ data \in [Funcs -> BOOLEAN]
  /\ code \in [Funcs -> BOOLEAN]
  /\ thunk \in [Funcs -> {"undefined", "wrapper", "code"}]
  /\ pc \in [Threads -> MainPlaces \cup AppPlaces \cup WorkerPlaces]
  /\ pc[Main] \in MainPlaces
  /\ \A a \in Apps : pc[a] \in AppPlaces
  /\ \A w \in Workers : pc[w] \in WorkerPlaces
  /\ work \in [Workers \cup Apps -> Funcs \cup {NoFunc}]
  /\ toPush \subseteq ParallelFuncs
  /\ generated \in [Funcs -> Nat]
  /\ assertion \in BOOLEAN

(* A function is on its way when it is queued or a worker has it and has not *)
(* set its machine_code yet.                                                  *)
Queued(f) == \E i \in start + 1 .. Len(queue) : queue[i] = f
OnItsWay(f) == Queued(f) \/ \E w \in Workers : work[w] = f /\ pc[w] \in InWork

(* gen_and_redirect cannot wait for nothing: a thread that waits for a       *)
(* function finds it generated or on its way.                                 *)
NoLostRequest ==
  \A a \in Apps : pc[a] \in {"awake", "asleep"} => code[work[a]] \/ OnItsWay(work[a])

(* Nobody sleeps while what he waits for is there: no worker while a function *)
(* is queued (the wait on generate_signal), no caller of a function whose     *)
(* code is set, and not the linking thread when the queue is empty and the    *)
(* workers idle, although callers share done_signal with it and gen wakes only *)
(* one sleeper when it becomes idle.                                            *)
NobodyOversleeps ==
  /\ \A w \in Workers : pc[w] = "asleep" => Idle
  /\ \A a \in Apps : pc[a] = "asleep" => ~code[work[a]]
  /\ pc[Main] = "asleep" => ~Quiet

(* When MIR_set_parallel_gen_interface (ctx, NULL) returns, every function of *)
(* the module has its code, its thunk leads there, and no CFG is left on the   *)
(* item (MIR_link may be used again).                                          *)
LinkDone ==
  pc[Main] \in {"linked", "join", "done"} =>
    \A f \in ParallelFuncs : code[f] /\ thunk[f] = "code" /\ ~data[f]

(* The assertion at the entry of MIR_gen: no CFG is attached to the function *)
(* by another generator.                                                      *)
AssertionHolds == assertion

(* A function is generated once, however often it was requested. *)
GeneratedOnce == \A f \in Funcs : generated[f] <= 1

(* A call of a lazily generated function goes on; the linking thread comes    *)
(* back; and MIR_gen_finish, or MIR_gen_init when it fails, joins all workers. *)
CallsReturn == \A a \in Apps : pc[a] = "calling" ~> pc[a] = "running"
LinkEnds == pc[Main] = "link" ~> pc[Main] = "linked"
AllJoined == pc[Main] \in {"join", "abandon"} ~> pc[Main] \in {"done", "failed"}

(* The queue with its start and its compaction is a FIFO queue that gets its *)
(* end mark once: the threads take the functions in the order they were pushed. *)
AbstractQueue == INSTANCE WorkQueue WITH pending <- Pending, Jobs <- Funcs
ImplementsQueue == AbstractQueue!Spec
==============================================================================
