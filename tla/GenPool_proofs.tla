---------------------------- MODULE GenPool_proofs ----------------------------
(****************************************************************************)
(* Proofs about GenPool, for any number of workers, threads and functions.   *)
(****************************************************************************)
EXTENDS GenPool, SequenceTheorems, TLAPS

(* A worker is busy exactly while it has a function. *)
Working == InWork \cup {"finish"}

WorkerOK ==
  /\ \A w \in Workers : busy[w] <=> pc[w] \in Working
  /\ \A w \in Workers : IF pc[w] \in Working THEN work[w] \in Funcs ELSE work[w] = NoFunc

AppOK == \A a \in Apps : pc[a] \in {"calling", "awake", "asleep"} => work[a] \in Calls[a]

(* The threads of the program run between MIR_gen_init and MIR_gen_finish;    *)
(* only these two put the end mark into the queue, and alone.                 *)
Ended == pc[Main] \in {"join", "done", "abandon", "failed"}

PhaseOK ==
  /\ pc[Main] \in {"init", "abandon", "failed"} =>
       toPush = ParallelFuncs /\ \A a \in Apps : pc[a] = "new"
  /\ pc[Main] \in {"join", "done"} => \A a \in Apps : pc[a] = "done"
  /\ pc[Main] \in {"awake", "asleep", "linked", "join", "done"} => toPush = {}
  /\ pc[Main] = "init" =>
       Idle /\ (\A w \in Workers : pc[w] \notin Working) /\ \A f \in Funcs : ~code[f]
  /\ \A i \in 1 .. Len(queue) : queue[i] = Stop <=> Ended

(* machine_code is set after the thunk leads to the code. *)
CodeOK ==
  /\ \A f \in Funcs : code[f] => thunk[f] = "code"
  /\ \A w \in Workers : pc[w] \in {"destroy", "store"} => thunk[work[w]] = "code"
  /\ \A w \in Workers : pc[w] = "finish" => code[work[w]]
  /\ \A f \in Funcs : data[f] =>
       \E w \in Workers : work[w] = f /\ pc[w] \in {"publish", "destroy"}

(* Every function of the linked module is still to be pushed, on its way or   *)
(* generated; when the link has returned, they are generated and left alone.  *)
LinkOK ==
  /\ \A f \in ParallelFuncs : f \in toPush \/ code[f] \/ OnItsWay(f)
  /\ pc[Main] \in {"linked", "join", "done"} =>
       \A f \in ParallelFuncs : code[f] /\ ~OnItsWay(f)

PoolInv ==
  /\ TypeOK /\ WorkerOK /\ AppOK /\ PhaseOK /\ CodeOK /\ LinkOK
  /\ NoLostRequest /\ NobodyOversleeps

(* With different functions, each function is in one place only: still to be *)
(* pushed, about to be requested, queued, with one worker, or generated; and a *)
(* lazy function is on its way only for the thread that waits for it.          *)
AtWork(f) == \E w \in Workers : work[w] = f

QueuedOnce ==
  \A i, j \in start + 1 .. Len(queue) : queue[i] = queue[j] /\ queue[i] # Stop => i = j
QueuedNew == \A f \in Funcs : Queued(f) => ~AtWork(f) /\ ~code[f] /\ f \notin toPush
ToPushNew == \A f \in toPush : ~AtWork(f) /\ ~code[f]
CallingNew == \A a \in Apps : pc[a] = "calling" =>
                ~Queued(work[a]) /\ ~AtWork(work[a]) /\ ~code[work[a]]
InWorkNew == \A w \in Workers : pc[w] \in InWork => ~code[work[w]]
LazyWanted == \A f \in LazyFuncs : OnItsWay(f) =>
                \E a \in Apps : work[a] = f /\ pc[a] \in {"awake", "asleep"}

(* Nobody else works on the function of a worker. *)
OneWorker == \A v, w \in Workers : work[v] = work[w] /\ work[v] # NoFunc => v = w

OnceInv ==
  /\ QueuedOnce /\ QueuedNew /\ ToPushNew /\ CallingNew /\ InWorkNew /\ LazyWanted
  /\ OneWorker

(* What a lone worker builds is not there yet, and was not built before.      *)
BuildsNew ==
  \A w \in Workers : pc[w] \in {"build", "publish", "destroy", "store"} => ~code[work[w]]
GeneratedIsStored ==
  \A f \in Funcs : generated[f] = 0 \/ code[f] \/
    \E w \in Workers : work[w] = f /\ pc[w] \in {"destroy", "store"}

AloneInv == BuildsNew /\ GeneratedIsStored /\ GeneratedOnce /\ AssertionHolds

------------------------------------------------------------------------------
(* The queue: what a push and a take do to the functions that are queued.    *)

LEMMA PushQueues ==
  ASSUME TypeOK, NEW f \in Funcs, Push(f), UNCHANGED start
  PROVE  /\ queue' \in Seq(Funcs \cup {Stop}) /\ start' \in 0 .. Len(queue')
         /\ Len(queue') = Len(queue) + 1 /\ ~Idle'
         /\ \A i \in 1 .. Len(queue) : queue'[i] = queue[i]
         /\ queue'[Len(queue) + 1] = f
         /\ \A g \in Funcs : Queued(g)' <=> Queued(g) \/ g = f
<1>1. /\ queue' \in Seq(Funcs \cup {Stop}) /\ Len(queue') = Len(queue) + 1
      /\ \A i \in 1 .. Len(queue) : queue'[i] = queue[i]
      /\ queue'[Len(queue) + 1] = f
  BY DEF TypeOK, Push
<1>2. start' \in 0 .. Len(queue') /\ ~Idle'
  BY <1>1 DEF TypeOK, Idle
<1>3. ASSUME NEW g \in Funcs PROVE Queued(g)' <=> Queued(g) \/ g = f
  <2>1. Len(queue) \in Nat /\ start \in 0 .. Len(queue) /\ start' = start
    BY DEF TypeOK
  <2>2. Queued(g) => Queued(g)'
    BY <1>1, <2>1 DEF Queued
  <2>3. g = f => Queued(g)'
    BY <1>1, <2>1 DEF Queued
  <2>4. Queued(g)' => Queued(g) \/ g = f
    BY <1>1, <2>1 DEF Queued
  <2> QED BY <2>2, <2>3, <2>4
<1> QED BY <1>1, <1>2, <1>3

LEMMA FinishEmpties ==
  ASSUME TypeOK, PoolAssumption, SignalFinish
  PROVE  /\ queue' \in Seq(Funcs \cup {Stop}) /\ start' \in 0 .. Len(queue')
         /\ Len(queue') = 1 /\ queue'[1] = Stop /\ ~Idle'
         /\ \A g \in Funcs : ~Queued(g)'
<1>1. /\ queue' = <<Stop>> /\ start' = 0 /\ Stop \notin Funcs
  BY DEF SignalFinish, PoolAssumption
<1>2. queue' \in Seq(Funcs \cup {Stop}) /\ Len(queue') = 1 /\ queue'[1] = Stop
  BY <1>1
<1> QED BY <1>1, <1>2 DEF Idle, Queued

(* A queue r with start t is what is left of a queue q when the k-th item is  *)
(* taken and d cells are cut off.                                             *)
LeftOver(q, k, r, t, d) ==
  /\ k = t + d /\ Len(q) = Len(r) + d
  /\ \A i \in 1 .. Len(r) : r[i] = q[i + d]

Occurs(q, k, g) == \E i \in k .. Len(q) : q[i] = g

LEMMA CompactionLeavesRest ==
  ASSUME NEW S, NEW q \in Seq(S), NEW k \in 1 .. Len(q)
  PROVE  /\ SubSeq(q, k + 1, Len(q)) \in Seq(S)
         /\ LeftOver(q, k, SubSeq(q, k + 1, Len(q)), 0, k)
         /\ LeftOver(q, k, q, k, 0)
<1> DEFINE r == SubSeq(q, k + 1, Len(q))
<1>1. r \in Seq(S) /\ Len(q) = Len(r) + k
  OBVIOUS
<1>2. \A i \in 1 .. Len(r) : r[i] = q[i + k]
  OBVIOUS
<1>3. k = 0 + k
  OBVIOUS
<1>4. LeftOver(q, k, q, k, 0)
  BY DEF LeftOver
<1> QED BY <1>1, <1>2, <1>3, <1>4 DEF LeftOver

LEMMA RestOfQueue ==
  ASSUME NEW S, NEW q \in Seq(S), NEW k \in 1 .. Len(q),
         NEW r \in Seq(S), NEW t \in Nat, NEW d \in Nat, LeftOver(q, k, r, t, d), NEW g
  PROVE  /\ t \in 0 .. Len(r)
         /\ Occurs(q, k, g) <=> Occurs(r, t + 1, g) \/ g = q[k]
<1>0. k = t + d /\ Len(q) = Len(r) + d /\ k \in Nat /\ Len(r) \in Nat /\ Len(q) \in Nat
  BY DEF LeftOver
<1>1. ASSUME NEW i \in k .. Len(q), q[i] = g, g # q[k]
      PROVE  \E j \in t + 1 .. Len(r) : r[j] = g
  <2>1. i \in k + 1 .. Len(q)
    BY <1>0, <1>1
  <2>2. PICK j \in Nat : i = j + d
    BY <1>0, <2>1
  <2>3. j \in t + 1 .. Len(r) /\ j \in 1 .. Len(r)
    BY <1>0, <2>1, <2>2
  <2> QED BY <1>1, <2>2, <2>3 DEF LeftOver
<1>2. ASSUME NEW i \in t + 1 .. Len(r), r[i] = g
      PROVE  \E j \in k .. Len(q) : q[j] = g
  <2>1. i \in 1 .. Len(r) /\ i + d \in k .. Len(q)
    BY <1>0, <1>2
  <2> QED BY <1>2, <2>1 DEF LeftOver
<1>3. k \in k .. Len(q)
  BY <1>0
<1>4. t \in 0 .. Len(r)
  BY <1>0
<1> QED BY <1>1, <1>2, <1>3, <1>4 DEF Occurs

LiesBehind(q, k, r, t, d) ==
  \A i \in t + 1 .. Len(r) : r[i] = q[i + d] /\ i + d \in k .. Len(q) /\ i + d # k /\ i \in Nat

LEMMA RestIsBehind ==
  ASSUME NEW S, NEW q \in Seq(S), NEW k \in 1 .. Len(q),
         NEW r \in Seq(S), NEW t \in Nat, NEW d \in Nat, LeftOver(q, k, r, t, d)
  PROVE  LiesBehind(q, k, r, t, d)
<1>1. k = t + d /\ Len(q) = Len(r) + d /\ k \in Nat /\ Len(r) \in Nat /\ Len(q) \in Nat
  BY DEF LeftOver
<1>2. ASSUME NEW i \in t + 1 .. Len(r)
      PROVE  r[i] = q[i + d] /\ i + d \in k .. Len(q) /\ i + d # k /\ i \in Nat
  <2>1. i \in 1 .. Len(r)
    BY <1>1
  <2> QED BY <1>1, <2>1 DEF LeftOver
<1> QED BY <1>2 DEF LiesBehind

LEMMA TakeDequeues ==
  ASSUME TypeOK, ~Idle, Compacted(queue, start + 1)
  PROVE  /\ queue' \in Seq(Funcs \cup {Stop}) /\ start' \in 0 .. Len(queue')
         /\ start + 1 \in 1 .. Len(queue)
         /\ \E d \in Nat : LeftOver(queue, start + 1, queue', start', d)
         /\ \A g \in Funcs : Queued(g) <=> Queued(g)' \/ g = queue[start + 1]
<1>1. /\ queue \in Seq(Funcs \cup {Stop}) /\ start + 1 \in 1 .. Len(queue)
      /\ start \in Nat /\ Len(queue) \in Nat
  BY DEF TypeOK, Idle
<1>2. /\ queue' \in Seq(Funcs \cup {Stop}) /\ start' \in Nat
      /\ \E d \in Nat : LeftOver(queue, start + 1, queue', start', d)
  <2>1. CASE start + 1 > CompactAt /\ Len(queue) < 2 * (start + 1)
    <3>1. queue' = SubSeq(queue, (start + 1) + 1, Len(queue)) /\ start' = 0
      BY <2>1 DEF Compacted
    <3> QED BY <1>1, <3>1, CompactionLeavesRest
  <2>2. CASE ~(start + 1 > CompactAt /\ Len(queue) < 2 * (start + 1))
    <3>1. queue' = queue /\ start' = start + 1
      BY <2>2 DEF Compacted
    <3> QED BY <1>1, <3>1, CompactionLeavesRest
  <2> QED BY <2>1, <2>2
<1>3. PICK d \in Nat : LeftOver(queue, start + 1, queue', start', d)
  BY <1>2
<1>4. ASSUME NEW g PROVE
        /\ start' \in 0 .. Len(queue')
        /\ Occurs(queue, start + 1, g) <=> Occurs(queue', start' + 1, g) \/ g = queue[start + 1]
  BY <1>1, <1>2, <1>3, RestOfQueue
<1>5. ASSUME NEW g \in Funcs PROVE Queued(g) <=> Queued(g)' \/ g = queue[start + 1]
  BY <1>4 DEF Queued, Occurs
<1> QED BY <1>1, <1>2, <1>4, <1>5

(* A step that leaves the queue and the work in progress alone leaves every    *)
(* function where it is.                                                      *)
LEMMA SameWay ==
  ASSUME queue' = queue, start' = start,
         \A w \in Workers : pc'[w] \in InWork <=> pc[w] \in InWork,
         \A w \in Workers : pc[w] \in InWork => work'[w] = work[w]
  PROVE  \A g \in Funcs : OnItsWay(g)' <=> OnItsWay(g)
<1>1. \A g \in Funcs : Queued(g)' <=> Queued(g)
  BY DEF Queued
<1> QED BY <1>1 DEF OnItsWay

(* CreateThread keeps the invariant. *)
LEMMA CreateThreadPreserves ==
  ASSUME PoolInv, PoolAssumption, NEW w \in Workers, CreateThread(w)
  PROVE  PoolInv'
<1>9. \A g \in Funcs : OnItsWay(g)' <=> OnItsWay(g)
  BY SameWay
     DEF PoolInv, TypeOK, WorkerOK, Threads, PoolAssumption, InWork, Working, CreateThread, Goes,
         Woken, items
<1>1. TypeOK'
  BY
     DEF PoolInv, TypeOK, Threads, Funcs, PoolAssumption, WorkerOK, Working, MainPlaces,
         AppPlaces, WorkerPlaces, InWork, CreateThread, items, Goes, Woken
<1>2. WorkerOK'
  BY
     DEF PoolInv, TypeOK, Threads, Funcs, PoolAssumption, WorkerOK, Working, InWork, CreateThread,
         items, Goes, Woken
<1>3. AppOK'
  BY DEF PoolInv, TypeOK, Threads, Funcs, PoolAssumption, AppOK, CreateThread, items, Goes, Woken
<1>4. PhaseOK'
  BY
     DEF PoolInv, TypeOK, Threads, Funcs, PoolAssumption, PhaseOK, Ended, Idle, Working, InWork,
         CreateThread, items, Goes, Woken
<1>5. CodeOK'
  BY
     DEF PoolInv, TypeOK, Threads, Funcs, PoolAssumption, CodeOK, InWork, WorkerOK, Working,
         PhaseOK, CreateThread, items, Goes, Woken
<1>6. LinkOK'
  BY <1>9
     DEF PoolInv, TypeOK, Threads, Funcs, PoolAssumption, LinkOK, AppOK, PhaseOK, CreateThread,
         items, Goes, Woken
<1>7. NoLostRequest'
  BY <1>9
     DEF PoolInv, TypeOK, Threads, Funcs, PoolAssumption, NoLostRequest, AppOK, PhaseOK,
         CreateThread, items, Goes, Woken
<1>8. NobodyOversleeps'
  BY
     DEF PoolInv, TypeOK, Threads, Funcs, PoolAssumption, NobodyOversleeps, Idle, Quiet, Waiters,
         CreateThread, items, Goes, Woken
<1> QED BY <1>1, <1>2, <1>3, <1>4, <1>5, <1>6, <1>7, <1>8 DEF PoolInv

(* CreateFails keeps the invariant. *)
LEMMA CreateFailsPreserves ==
  ASSUME PoolInv, PoolAssumption, CreateFails
  PROVE  PoolInv'
<1>0. /\ TypeOK
      /\ queue' \in Seq(Funcs \cup {Stop}) /\ start' \in 0 .. Len(queue')
      /\ Len(queue') = 1 /\ queue'[1] = Stop /\ ~Idle'
      /\ \A g \in Funcs : ~Queued(g)'
  BY FinishEmpties DEF PoolInv, CreateFails
<1>1. TypeOK'
  BY <1>0
     DEF PoolInv, TypeOK, Threads, Funcs, PoolAssumption, WorkerOK, Working, MainPlaces,
         AppPlaces, WorkerPlaces, InWork, CreateFails, items, Goes, Woken
<1>2. WorkerOK'
  BY <1>0
     DEF PoolInv, TypeOK, Threads, Funcs, PoolAssumption, WorkerOK, Working, InWork, CreateFails,
         items, Goes, Woken
<1>3. AppOK'
  BY <1>0
     DEF PoolInv, TypeOK, Threads, Funcs, PoolAssumption, AppOK, CreateFails, items, Goes, Woken
<1>4. PhaseOK'
  BY <1>0
     DEF PoolInv, TypeOK, Threads, Funcs, PoolAssumption, PhaseOK, Ended, Idle, Working, InWork,
         CreateFails, items, Goes, Woken
<1>5. CodeOK'
  BY <1>0
     DEF PoolInv, TypeOK, Threads, Funcs, PoolAssumption, CodeOK, InWork, WorkerOK, Working,
         PhaseOK, CreateFails, items, Goes, Woken
<1>6. LinkOK'
  BY <1>0
     DEF PoolInv, TypeOK, Threads, Funcs, PoolAssumption, LinkOK, AppOK, PhaseOK, CreateFails,
         items, Goes, Woken
<1>7. NoLostRequest'
  BY <1>0
     DEF PoolInv, TypeOK, Threads, Funcs, PoolAssumption, NoLostRequest, AppOK, PhaseOK,
         CreateFails, items, Goes, Woken
<1>8. NobodyOversleeps'
  BY <1>0
     DEF PoolInv, TypeOK, Threads, Funcs, PoolAssumption, NobodyOversleeps, Idle, Quiet, Waiters,
         CreateFails, items, Goes, Woken
<1> QED BY <1>1, <1>2, <1>3, <1>4, <1>5, <1>6, <1>7, <1>8 DEF PoolInv

(* LinkLazy keeps the invariant. *)
LEMMA LinkLazyPreserves ==
  ASSUME PoolInv, PoolAssumption, LinkLazy
  PROVE  PoolInv'
<1>9. \A g \in Funcs : OnItsWay(g)' <=> OnItsWay(g)
  BY SameWay
     DEF PoolInv, TypeOK, WorkerOK, Threads, PoolAssumption, InWork, Working, LinkLazy, Goes,
         Woken, items
<1>1. TypeOK'
  BY
     DEF PoolInv, TypeOK, Threads, Funcs, PoolAssumption, WorkerOK, Working, MainPlaces,
         AppPlaces, WorkerPlaces, InWork, LinkLazy, items, Goes, Woken
<1>2. WorkerOK'
  BY
     DEF PoolInv, TypeOK, Threads, Funcs, PoolAssumption, WorkerOK, Working, InWork, LinkLazy,
         items, Goes, Woken
<1>3. AppOK'
  BY DEF PoolInv, TypeOK, Threads, Funcs, PoolAssumption, AppOK, LinkLazy, items, Goes, Woken
<1>4. PhaseOK'
  BY
     DEF PoolInv, TypeOK, Threads, Funcs, PoolAssumption, PhaseOK, Ended, Idle, Working, InWork,
         LinkLazy, items, Goes, Woken
<1>5. CodeOK'
  BY
     DEF PoolInv, TypeOK, Threads, Funcs, PoolAssumption, CodeOK, InWork, WorkerOK, Working,
         PhaseOK, LinkLazy, items, Goes, Woken
<1>6. LinkOK'
  BY <1>9
     DEF PoolInv, TypeOK, Threads, Funcs, PoolAssumption, LinkOK, AppOK, PhaseOK, LinkLazy, items,
         Goes, Woken
<1>7. NoLostRequest'
  BY <1>9
     DEF PoolInv, TypeOK, Threads, Funcs, PoolAssumption, NoLostRequest, AppOK, PhaseOK, LinkLazy,
         items, Goes, Woken
<1>8. NobodyOversleeps'
  BY
     DEF PoolInv, TypeOK, Threads, Funcs, PoolAssumption, NobodyOversleeps, Idle, Quiet, Waiters,
         LinkLazy, items, Goes, Woken
<1> QED BY <1>1, <1>2, <1>3, <1>4, <1>5, <1>6, <1>7, <1>8 DEF PoolInv

(* PushParallel keeps the invariant. *)
LEMMA PushParallelPreserves ==
  ASSUME PoolInv, PoolAssumption, NEW f \in ParallelFuncs, PushParallel(f)
  PROVE  PoolInv'
<1>0. /\ TypeOK /\ f \in Funcs
      /\ queue' \in Seq(Funcs \cup {Stop}) /\ start' \in 0 .. Len(queue')
      /\ Len(queue') = Len(queue) + 1 /\ ~Idle'
      /\ \A i \in 1 .. Len(queue) : queue'[i] = queue[i]
      /\ queue'[Len(queue) + 1] = f
      /\ \A g \in Funcs : Queued(g)' <=> Queued(g) \/ g = f
  BY PushQueues DEF PoolInv, PushParallel, Funcs
<1>9. \A g \in Funcs : OnItsWay(g)' <=> OnItsWay(g) \/ g = f
  BY <1>0
     DEF PoolInv, TypeOK, PoolAssumption, Threads, InWork, PushParallel, Goes, Woken, OnItsWay
<1>1. TypeOK'
  BY <1>0
     DEF PoolInv, TypeOK, Threads, Funcs, PoolAssumption, WorkerOK, Working, MainPlaces,
         AppPlaces, WorkerPlaces, InWork, PushParallel, items, Goes, Woken
<1>2. WorkerOK'
  BY <1>0
     DEF PoolInv, TypeOK, Threads, Funcs, PoolAssumption, WorkerOK, Working, InWork, PushParallel,
         items, Goes, Woken
<1>3. AppOK'
  BY <1>0
     DEF PoolInv, TypeOK, Threads, Funcs, PoolAssumption, AppOK, PushParallel, items, Goes, Woken
<1>4. PhaseOK'
  <2>1. f # Stop /\ ~Ended /\ ~Ended' /\ pc[Main] # "init" /\ pc'[Main] # "init"
    BY <1>0
       DEF PoolInv, TypeOK, PhaseOK, Ended, PushParallel, PoolAssumption, Threads, Goes, Woken,
           Funcs
  <2>2. Len(queue) \in Nat
    BY <1>0 DEF TypeOK
  <2>3. \A i \in 1 .. Len(queue') : i \in 1 .. Len(queue) \/ i = Len(queue) + 1
    BY <1>0, <2>2
  <2>4. \A i \in 1 .. Len(queue') : queue'[i] = Stop <=> Ended'
    BY <1>0, <2>1, <2>3 DEF PoolInv, PhaseOK
  <2> QED BY <1>0, <2>1, <2>4
     DEF PoolInv, TypeOK, PhaseOK, Ended, PushParallel, PoolAssumption, Threads, Goes, Woken
<1>5. CodeOK'
  BY <1>0
     DEF PoolInv, TypeOK, Threads, Funcs, PoolAssumption, CodeOK, InWork, WorkerOK, Working,
         PhaseOK, PushParallel, items, Goes, Woken
<1>6. LinkOK'
  BY <1>0, <1>9
     DEF PoolInv, TypeOK, Threads, Funcs, PoolAssumption, LinkOK, AppOK, PhaseOK, PushParallel,
         items, Goes, Woken
<1>7. NoLostRequest'
  BY <1>0, <1>9
     DEF PoolInv, TypeOK, Threads, Funcs, PoolAssumption, NoLostRequest, AppOK, PhaseOK,
         PushParallel, items, Goes, Woken
<1>8. NobodyOversleeps'
  BY <1>0
     DEF PoolInv, TypeOK, Threads, Funcs, PoolAssumption, NobodyOversleeps, Idle, Quiet, Waiters,
         PushParallel, items, Goes, Woken
<1> QED BY <1>1, <1>2, <1>3, <1>4, <1>5, <1>6, <1>7, <1>8 DEF PoolInv

(* WaitForLink keeps the invariant. *)
LEMMA WaitForLinkPreserves ==
  ASSUME PoolInv, PoolAssumption, WaitForLink
  PROVE  PoolInv'
<1>9. \A g \in Funcs : OnItsWay(g)' <=> OnItsWay(g)
  BY SameWay
     DEF PoolInv, TypeOK, WorkerOK, Threads, PoolAssumption, InWork, Working, WaitForLink, Goes,
         Woken, items
<1>1. TypeOK'
  BY
     DEF PoolInv, TypeOK, Threads, Funcs, PoolAssumption, WorkerOK, Working, MainPlaces,
         AppPlaces, WorkerPlaces, InWork, WaitForLink, items, Goes, Woken
<1>2. WorkerOK'
  BY
     DEF PoolInv, TypeOK, Threads, Funcs, PoolAssumption, WorkerOK, Working, InWork, WaitForLink,
         items, Goes, Woken
<1>3. AppOK'
  BY DEF PoolInv, TypeOK, Threads, Funcs, PoolAssumption, AppOK, WaitForLink, items, Goes, Woken
<1>4. PhaseOK'
  BY
     DEF PoolInv, TypeOK, Threads, Funcs, PoolAssumption, PhaseOK, Ended, Idle, Working, InWork,
         WaitForLink, items, Goes, Woken
<1>5. CodeOK'
  BY
     DEF PoolInv, TypeOK, Threads, Funcs, PoolAssumption, CodeOK, InWork, WorkerOK, Working,
         PhaseOK, WaitForLink, items, Goes, Woken
<1>6. LinkOK'
  <2>1. pc'[Main] = "linked" => \A f \in ParallelFuncs : ~OnItsWay(f)
    BY
       DEF PoolInv, TypeOK, WorkerOK, Threads, WaitForLink, Goes, Quiet, Idle, OnItsWay, Queued,
           Working
  <2> QED BY <1>9, <2>1
     DEF PoolInv, TypeOK, Threads, Funcs, LinkOK, PhaseOK, WaitForLink, items, Goes
<1>7. NoLostRequest'
  BY <1>9
     DEF PoolInv, TypeOK, Threads, Funcs, PoolAssumption, NoLostRequest, AppOK, PhaseOK,
         WaitForLink, items, Goes, Woken
<1>8. NobodyOversleeps'
  BY
     DEF PoolInv, TypeOK, Threads, Funcs, PoolAssumption, NobodyOversleeps, Idle, Quiet, Waiters,
         WaitForLink, items, Goes, Woken
<1> QED BY <1>1, <1>2, <1>3, <1>4, <1>5, <1>6, <1>7, <1>8 DEF PoolInv

(* Finish keeps the invariant. *)
LEMMA FinishPreserves ==
  ASSUME PoolInv, PoolAssumption, Finish
  PROVE  PoolInv'
<1>0. /\ TypeOK
      /\ queue' \in Seq(Funcs \cup {Stop}) /\ start' \in 0 .. Len(queue')
      /\ Len(queue') = 1 /\ queue'[1] = Stop /\ ~Idle'
      /\ \A g \in Funcs : ~Queued(g)'
  BY FinishEmpties DEF PoolInv, Finish
<1>9. \A g \in Funcs : OnItsWay(g)' => OnItsWay(g)
  BY <1>0
     DEF PoolInv, TypeOK, Threads, PoolAssumption, Finish, items, Goes, Woken, OnItsWay, InWork
<1>1. TypeOK'
  BY <1>0
     DEF PoolInv, TypeOK, Threads, Funcs, PoolAssumption, WorkerOK, Working, MainPlaces,
         AppPlaces, WorkerPlaces, InWork, Finish, items, Goes, Woken
<1>2. WorkerOK'
  BY <1>0
     DEF PoolInv, TypeOK, Threads, Funcs, PoolAssumption, WorkerOK, Working, InWork, Finish,
         items, Goes, Woken
<1>3. AppOK'
  BY <1>0 DEF PoolInv, TypeOK, Threads, Funcs, PoolAssumption, AppOK, Finish, items, Goes, Woken
<1>4. PhaseOK'
  BY <1>0
     DEF PoolInv, TypeOK, Threads, Funcs, PoolAssumption, PhaseOK, Ended, Idle, Working, InWork,
         Finish, items, Goes, Woken
<1>5. CodeOK'
  BY <1>0
     DEF PoolInv, TypeOK, Threads, Funcs, PoolAssumption, CodeOK, InWork, WorkerOK, Working,
         PhaseOK, Finish, items, Goes, Woken
<1>6. LinkOK'
  BY <1>9
     DEF PoolInv, TypeOK, Threads, Funcs, PoolAssumption, LinkOK, PhaseOK, Finish, items, Goes,
         Woken
<1>7. NoLostRequest'
  BY <1>0
     DEF PoolInv, TypeOK, Threads, Funcs, PoolAssumption, NoLostRequest, AppOK, PhaseOK, Finish,
         items, Goes, Woken
<1>8. NobodyOversleeps'
  BY <1>0
     DEF PoolInv, TypeOK, Threads, Funcs, PoolAssumption, NobodyOversleeps, Idle, Quiet, Waiters,
         Finish, items, Goes, Woken
<1> QED BY <1>1, <1>2, <1>3, <1>4, <1>5, <1>6, <1>7, <1>8 DEF PoolInv

(* Join keeps the invariant. *)
LEMMA JoinPreserves ==
  ASSUME PoolInv, PoolAssumption, Join
  PROVE  PoolInv'
<1>9. \A g \in Funcs : OnItsWay(g)' <=> OnItsWay(g)
  BY SameWay
     DEF PoolInv, TypeOK, WorkerOK, Threads, PoolAssumption, InWork, Working, Join, Goes, Woken,
         items
<1>1. TypeOK'
  BY
     DEF PoolInv, TypeOK, Threads, Funcs, PoolAssumption, WorkerOK, Working, MainPlaces,
         AppPlaces, WorkerPlaces, InWork, Join, items, Goes, Woken
<1>2. WorkerOK'
  BY
     DEF PoolInv, TypeOK, Threads, Funcs, PoolAssumption, WorkerOK, Working, InWork, Join, items,
         Goes, Woken
<1>3. AppOK'
  BY DEF PoolInv, TypeOK, Threads, Funcs, PoolAssumption, AppOK, Join, items, Goes, Woken
<1>4. PhaseOK'
  BY
     DEF PoolInv, TypeOK, Threads, Funcs, PoolAssumption, PhaseOK, Ended, Idle, Working, InWork,
         Join, items, Goes, Woken
<1>5. CodeOK'
  BY
     DEF PoolInv, TypeOK, Threads, Funcs, PoolAssumption, CodeOK, InWork, WorkerOK, Working,
         PhaseOK, Join, items, Goes, Woken
<1>6. LinkOK'
  BY <1>9
     DEF PoolInv, TypeOK, Threads, Funcs, PoolAssumption, LinkOK, AppOK, PhaseOK, Join, items,
         Goes, Woken
<1>7. NoLostRequest'
  BY <1>9
     DEF PoolInv, TypeOK, Threads, Funcs, PoolAssumption, NoLostRequest, AppOK, PhaseOK, Join,
         items, Goes, Woken
<1>8. NobodyOversleeps'
  BY
     DEF PoolInv, TypeOK, Threads, Funcs, PoolAssumption, NobodyOversleeps, Idle, Quiet, Waiters,
         Join, items, Goes, Woken
<1> QED BY <1>1, <1>2, <1>3, <1>4, <1>5, <1>6, <1>7, <1>8 DEF PoolInv

(* Call keeps the invariant. *)
LEMMA CallPreserves ==
  ASSUME PoolInv, PoolAssumption, NEW a \in Apps, NEW f \in LazyFuncs, Call(a, f)
  PROVE  PoolInv'
<1>9. \A g \in Funcs : OnItsWay(g)' <=> OnItsWay(g)
  BY SameWay
     DEF PoolInv, TypeOK, WorkerOK, Threads, PoolAssumption, InWork, Working, Call, Goes, Woken,
         items
<1>1. TypeOK'
  BY
     DEF PoolInv, TypeOK, Threads, Funcs, PoolAssumption, WorkerOK, Working, MainPlaces,
         AppPlaces, WorkerPlaces, InWork, Call, items, Goes, Woken
<1>2. WorkerOK'
  BY
     DEF PoolInv, TypeOK, Threads, Funcs, PoolAssumption, WorkerOK, Working, InWork, Call, items,
         Goes, Woken
<1>3. AppOK'
  BY DEF PoolInv, TypeOK, Threads, Funcs, PoolAssumption, AppOK, Call, items, Goes, Woken
<1>4. PhaseOK'
  BY
     DEF PoolInv, TypeOK, Threads, Funcs, PoolAssumption, PhaseOK, Ended, Idle, Working, InWork,
         Call, items, Goes, Woken
<1>5. CodeOK'
  BY
     DEF PoolInv, TypeOK, Threads, Funcs, PoolAssumption, CodeOK, InWork, WorkerOK, Working,
         PhaseOK, Call, items, Goes, Woken
<1>6. LinkOK'
  BY <1>9
     DEF PoolInv, TypeOK, Threads, Funcs, PoolAssumption, LinkOK, AppOK, PhaseOK, Call, items,
         Goes, Woken
<1>7. NoLostRequest'
  BY <1>9
     DEF PoolInv, TypeOK, Threads, Funcs, PoolAssumption, NoLostRequest, AppOK, PhaseOK, Call,
         items, Goes, Woken
<1>8. NobodyOversleeps'
  BY
     DEF PoolInv, TypeOK, Threads, Funcs, PoolAssumption, NobodyOversleeps, Idle, Quiet, Waiters,
         Call, items, Goes, Woken
<1> QED BY <1>1, <1>2, <1>3, <1>4, <1>5, <1>6, <1>7, <1>8 DEF PoolInv

(* Request keeps the invariant. *)
LEMMA RequestPreserves ==
  ASSUME PoolInv, PoolAssumption, NEW a \in Apps, Request(a)
  PROVE  PoolInv'
<1>0. /\ TypeOK /\ work[a] \in LazyFuncs /\ work[a] \in Funcs
      /\ queue' \in Seq(Funcs \cup {Stop}) /\ start' \in 0 .. Len(queue')
      /\ Len(queue') = Len(queue) + 1 /\ ~Idle'
      /\ \A i \in 1 .. Len(queue) : queue'[i] = queue[i]
      /\ queue'[Len(queue) + 1] = work[a]
      /\ \A g \in Funcs : Queued(g)' <=> Queued(g) \/ g = work[a]
  <2>1. TypeOK /\ work[a] \in LazyFuncs /\ work[a] \in Funcs
    BY DEF PoolInv, AppOK, Request, PoolAssumption, Funcs
  <2>2. Push(work[a]) /\ UNCHANGED start
    BY DEF Request
  <2> QED BY <2>1, <2>2, PushQueues
<1>9. \A g \in Funcs : OnItsWay(g)' <=> OnItsWay(g) \/ g = work[a]
  BY <1>0 DEF PoolInv, TypeOK, PoolAssumption, Threads, InWork, Request, Goes, Woken, OnItsWay
<1>1. TypeOK'
  BY <1>0
     DEF PoolInv, TypeOK, Threads, Funcs, PoolAssumption, WorkerOK, Working, MainPlaces,
         AppPlaces, WorkerPlaces, InWork, Request, items, Goes, Woken
<1>2. WorkerOK'
  BY <1>0
     DEF PoolInv, TypeOK, Threads, Funcs, PoolAssumption, WorkerOK, Working, InWork, Request,
         items, Goes, Woken
<1>3. AppOK'
  BY <1>0 DEF PoolInv, TypeOK, Threads, Funcs, PoolAssumption, AppOK, Request, items, Goes, Woken
<1>4. PhaseOK'
  <2>1. work[a] # Stop /\ ~Ended /\ ~Ended' /\ pc[Main] # "init" /\ pc'[Main] # "init"
    BY <1>0
       DEF PoolInv, TypeOK, PhaseOK, Ended, Request, PoolAssumption, Threads, Goes, Woken, Funcs
  <2>2. Len(queue) \in Nat
    BY <1>0 DEF TypeOK
  <2>3. \A i \in 1 .. Len(queue') : i \in 1 .. Len(queue) \/ i = Len(queue) + 1
    BY <1>0, <2>2
  <2>4. \A i \in 1 .. Len(queue') : queue'[i] = Stop <=> Ended'
    BY <1>0, <2>1, <2>3 DEF PoolInv, PhaseOK
  <2> QED BY <1>0, <2>1, <2>4
     DEF PoolInv, TypeOK, PhaseOK, Ended, Request, PoolAssumption, Threads, Goes, Woken
<1>5. CodeOK'
  <2>1. /\ code' = code /\ thunk' = thunk /\ data' = data
        /\ \A w \in Workers : /\ work'[w] = work[w]
                              /\ pc'[w] = pc[w] \/ (pc[w] = "asleep" /\ pc'[w] = "awake")
    BY <1>0 DEF TypeOK, Request, items, Goes, Woken, Threads, PoolAssumption
  <2> QED BY <2>1 DEF PoolInv, CodeOK
<1>6. LinkOK'
  BY <1>0, <1>9
     DEF PoolInv, TypeOK, Threads, Funcs, PoolAssumption, LinkOK, AppOK, PhaseOK, Request, items,
         Goes, Woken
<1>7. NoLostRequest'
  BY <1>0, <1>9
     DEF PoolInv, TypeOK, Threads, Funcs, PoolAssumption, NoLostRequest, AppOK, PhaseOK, Request,
         items, Goes, Woken
<1>8. NobodyOversleeps'
  BY <1>0
     DEF PoolInv, TypeOK, Threads, Funcs, PoolAssumption, NobodyOversleeps, Idle, Quiet, Waiters,
         Request, items, Goes, Woken
<1> QED BY <1>1, <1>2, <1>3, <1>4, <1>5, <1>6, <1>7, <1>8 DEF PoolInv

(* WaitForCode keeps the invariant. *)
LEMMA WaitForCodePreserves ==
  ASSUME PoolInv, PoolAssumption, NEW a \in Apps, WaitForCode(a)
  PROVE  PoolInv'
<1>0. /\ pc[a] = "awake" /\ \A t \in Threads : t # a => pc'[t] = pc[t]
      /\ pc' \in [Threads -> MainPlaces \cup AppPlaces \cup WorkerPlaces]
      /\ work' \in [Workers \cup Apps -> Funcs \cup {NoFunc}]
      /\ \A t \in Workers \cup Apps : t # a => work'[t] = work[t]
      /\ \/ pc'[a] = "running"
         \/ pc'[a] = "asleep" /\ ~code[work[a]] /\ work'[a] = work[a]
      /\ UNCHANGED <<queue, start, busy, toPush, items>>
      /\ a \in Threads /\ a # Main /\ a \notin Workers /\ Main \in Threads /\ Workers \subseteq Threads /\ Apps \subseteq Threads
      /\ Main \notin Workers
  <2>1. /\ a \in Threads /\ a # Main /\ a \notin Workers /\ Main \in Threads /\ Workers \subseteq Threads /\ Apps \subseteq Threads
        /\ Main \notin Workers
    BY DEF PoolAssumption, Threads
  <2>2. CASE code[work[a]]
    BY <2>1, <2>2 DEF PoolInv, TypeOK, WaitForCode, Goes, MainPlaces, AppPlaces
  <2>3. CASE ~code[work[a]]
    BY <2>1, <2>3 DEF PoolInv, TypeOK, WaitForCode, Goes, MainPlaces, AppPlaces
  <2> QED BY <2>2, <2>3
<1>9. \A g \in Funcs : OnItsWay(g)' <=> OnItsWay(g)
  BY <1>0, SameWay
<1>1. TypeOK'
  BY <1>0 DEF PoolInv, TypeOK, MainPlaces, AppPlaces, WorkerPlaces, InWork, items
<1>2. WorkerOK'
  BY <1>0 DEF PoolInv, TypeOK, WorkerOK, items
<1>3. AppOK'
  BY <1>0 DEF PoolInv, TypeOK, AppOK, items
<1>4. PhaseOK'
  BY <1>0 DEF PoolInv, TypeOK, PhaseOK, Ended, Idle, items
<1>5. CodeOK'
  <2>1. /\ code' = code /\ thunk' = thunk /\ data' = data
        /\ \A w \in Workers : pc'[w] = pc[w] /\ work'[w] = work[w]
    BY <1>0 DEF items
  <2> QED BY <2>1 DEF PoolInv, CodeOK
<1>6. LinkOK'
  BY <1>0, <1>9 DEF PoolInv, TypeOK, LinkOK, Funcs, items
<1>7. NoLostRequest'
  BY <1>0, <1>9 DEF PoolInv, TypeOK, NoLostRequest, AppOK, Funcs, PoolAssumption, items
<1>8. NobodyOversleeps'
  BY <1>0 DEF PoolInv, TypeOK, NobodyOversleeps, Idle, Quiet, items
<1> QED BY <1>1, <1>2, <1>3, <1>4, <1>5, <1>6, <1>7, <1>8 DEF PoolInv

(* Exit keeps the invariant. *)
LEMMA ExitPreserves ==
  ASSUME PoolInv, PoolAssumption, NEW a \in Apps, Exit(a)
  PROVE  PoolInv'
<1>9. \A g \in Funcs : OnItsWay(g)' <=> OnItsWay(g)
  BY SameWay
     DEF PoolInv, TypeOK, WorkerOK, Threads, PoolAssumption, InWork, Working, Exit, Goes, Woken,
         items
<1>1. TypeOK'
  BY
     DEF PoolInv, TypeOK, Threads, Funcs, PoolAssumption, WorkerOK, Working, MainPlaces,
         AppPlaces, WorkerPlaces, InWork, Exit, items, Goes, Woken
<1>2. WorkerOK'
  BY
     DEF PoolInv, TypeOK, Threads, Funcs, PoolAssumption, WorkerOK, Working, InWork, Exit, items,
         Goes, Woken
<1>3. AppOK'
  BY DEF PoolInv, TypeOK, Threads, Funcs, PoolAssumption, AppOK, Exit, items, Goes, Woken
<1>4. PhaseOK'
  BY
     DEF PoolInv, TypeOK, Threads, Funcs, PoolAssumption, PhaseOK, Ended, Idle, Working, InWork,
         Exit, items, Goes, Woken
<1>5. CodeOK'
  BY
     DEF PoolInv, TypeOK, Threads, Funcs, PoolAssumption, CodeOK, InWork, WorkerOK, Working,
         PhaseOK, Exit, items, Goes, Woken
<1>6. LinkOK'
  BY <1>9
     DEF PoolInv, TypeOK, Threads, Funcs, PoolAssumption, LinkOK, AppOK, PhaseOK, Exit, items,
         Goes, Woken
<1>7. NoLostRequest'
  BY <1>9
     DEF PoolInv, TypeOK, Threads, Funcs, PoolAssumption, NoLostRequest, AppOK, PhaseOK, Exit,
         items, Goes, Woken
<1>8. NobodyOversleeps'
  BY
     DEF PoolInv, TypeOK, Threads, Funcs, PoolAssumption, NobodyOversleeps, Idle, Quiet, Waiters,
         Exit, items, Goes, Woken
<1> QED BY <1>1, <1>2, <1>3, <1>4, <1>5, <1>6, <1>7, <1>8 DEF PoolInv

(* GoToSleep keeps the invariant. *)
LEMMA GoToSleepPreserves ==
  ASSUME PoolInv, PoolAssumption, NEW w \in Workers, GoToSleep(w)
  PROVE  PoolInv'
<1>9. \A g \in Funcs : OnItsWay(g)' <=> OnItsWay(g)
  BY SameWay
     DEF PoolInv, TypeOK, WorkerOK, Threads, PoolAssumption, InWork, Working, GoToSleep, Goes,
         Woken, items
<1>1. TypeOK'
  BY
     DEF PoolInv, TypeOK, Threads, Funcs, PoolAssumption, WorkerOK, Working, MainPlaces,
         AppPlaces, WorkerPlaces, InWork, GoToSleep, items, Goes, Woken
<1>2. WorkerOK'
  BY
     DEF PoolInv, TypeOK, Threads, Funcs, PoolAssumption, WorkerOK, Working, InWork, GoToSleep,
         items, Goes, Woken
<1>3. AppOK'
  BY DEF PoolInv, TypeOK, Threads, Funcs, PoolAssumption, AppOK, GoToSleep, items, Goes, Woken
<1>4. PhaseOK'
  BY
     DEF PoolInv, TypeOK, Threads, Funcs, PoolAssumption, PhaseOK, Ended, Idle, Working, InWork,
         GoToSleep, items, Goes, Woken
<1>5. CodeOK'
  BY
     DEF PoolInv, TypeOK, Threads, Funcs, PoolAssumption, CodeOK, InWork, WorkerOK, Working,
         PhaseOK, GoToSleep, items, Goes, Woken
<1>6. LinkOK'
  BY <1>9
     DEF PoolInv, TypeOK, Threads, Funcs, PoolAssumption, LinkOK, AppOK, PhaseOK, GoToSleep,
         items, Goes, Woken
<1>7. NoLostRequest'
  BY <1>9
     DEF PoolInv, TypeOK, Threads, Funcs, PoolAssumption, NoLostRequest, AppOK, PhaseOK,
         GoToSleep, items, Goes, Woken
<1>8. NobodyOversleeps'
  BY
     DEF PoolInv, TypeOK, Threads, Funcs, PoolAssumption, NobodyOversleeps, Idle, Quiet, Waiters,
         GoToSleep, items, Goes, Woken
<1> QED BY <1>1, <1>2, <1>3, <1>4, <1>5, <1>6, <1>7, <1>8 DEF PoolInv

(* Leave keeps the invariant. *)
LEMMA LeavePreserves ==
  ASSUME PoolInv, PoolAssumption, NEW w \in Workers, Leave(w)
  PROVE  PoolInv'
<1>9. \A g \in Funcs : OnItsWay(g)' <=> OnItsWay(g)
  BY SameWay
     DEF PoolInv, TypeOK, WorkerOK, Threads, PoolAssumption, InWork, Working, Leave, Goes, Woken,
         items
<1>1. TypeOK'
  BY
     DEF PoolInv, TypeOK, Threads, Funcs, PoolAssumption, WorkerOK, Working, MainPlaces,
         AppPlaces, WorkerPlaces, InWork, Leave, items, Goes, Woken
<1>2. WorkerOK'
  BY
     DEF PoolInv, TypeOK, Threads, Funcs, PoolAssumption, WorkerOK, Working, InWork, Leave, items,
         Goes, Woken
<1>3. AppOK'
  BY DEF PoolInv, TypeOK, Threads, Funcs, PoolAssumption, AppOK, Leave, items, Goes, Woken
<1>4. PhaseOK'
  BY
     DEF PoolInv, TypeOK, Threads, Funcs, PoolAssumption, PhaseOK, Ended, Idle, Working, InWork,
         Leave, items, Goes, Woken
<1>5. CodeOK'
  BY
     DEF PoolInv, TypeOK, Threads, Funcs, PoolAssumption, CodeOK, InWork, WorkerOK, Working,
         PhaseOK, Leave, items, Goes, Woken
<1>6. LinkOK'
  BY <1>9
     DEF PoolInv, TypeOK, Threads, Funcs, PoolAssumption, LinkOK, AppOK, PhaseOK, Leave, items,
         Goes, Woken
<1>7. NoLostRequest'
  BY <1>9
     DEF PoolInv, TypeOK, Threads, Funcs, PoolAssumption, NoLostRequest, AppOK, PhaseOK, Leave,
         items, Goes, Woken
<1>8. NobodyOversleeps'
  BY
     DEF PoolInv, TypeOK, Threads, Funcs, PoolAssumption, NobodyOversleeps, Idle, Quiet, Waiters,
         Leave, items, Goes, Woken
<1> QED BY <1>1, <1>2, <1>3, <1>4, <1>5, <1>6, <1>7, <1>8 DEF PoolInv

(* TakeJob keeps the invariant. *)
LEMMA TakeJobPreserves ==
  ASSUME PoolInv, PoolAssumption, NEW w \in Workers, TakeJob(w)
  PROVE  PoolInv'
<1>0. /\ TypeOK /\ queue[start + 1] \in Funcs
      /\ queue' \in Seq(Funcs \cup {Stop}) /\ start' \in 0 .. Len(queue')
      /\ start + 1 \in 1 .. Len(queue)
      /\ \E d \in Nat : LeftOver(queue, start + 1, queue', start', d)
      /\ \A g \in Funcs : Queued(g) <=> Queued(g)' \/ g = queue[start + 1]
  <2>1. TypeOK /\ ~Idle /\ Compacted(queue, start + 1) /\ queue[start + 1] # Stop
    BY DEF PoolInv, TakeJob
  <2>2. start + 1 \in 1 .. Len(queue) /\ queue[start + 1] \in Funcs
    BY <2>1 DEF TypeOK, Idle
  <2> QED BY <2>1, <2>2, TakeDequeues
<1>9. \A g \in Funcs : OnItsWay(g)' <=> OnItsWay(g)
  <2>1. /\ pc'[w] = "check" /\ work'[w] = queue[start + 1]
        /\ \A v \in Workers : v # w => pc'[v] = pc[v] /\ work'[v] = work[v]
        /\ pc[w] = "awake"
    BY <1>0 DEF TypeOK, Threads, TakeJob, Goes
  <2> QED BY <1>0, <2>1 DEF OnItsWay, InWork
<1>1. TypeOK'
  BY <1>0
     DEF PoolInv, TypeOK, Threads, Funcs, PoolAssumption, WorkerOK, Working, MainPlaces,
         AppPlaces, WorkerPlaces, InWork, TakeJob, items, Goes, Woken
<1>2. WorkerOK'
  BY <1>0
     DEF PoolInv, TypeOK, Threads, Funcs, PoolAssumption, WorkerOK, Working, InWork, TakeJob,
         items, Goes, Woken
<1>3. AppOK'
  BY <1>0 DEF PoolInv, TypeOK, Threads, Funcs, PoolAssumption, AppOK, TakeJob, items, Goes, Woken
<1>4. PhaseOK'
  <2>1. pc'[Main] = pc[Main] /\ toPush' = toPush /\ pc[Main] # "init" /\ \A a \in Apps : pc'[a] = pc[a]
    BY <1>0 DEF PoolInv, TypeOK, PhaseOK, TakeJob, Idle, PoolAssumption, Threads, Goes
  <2>2. PICK d \in Nat : LeftOver(queue, start + 1, queue', start', d)
    BY <1>0
  <2>3. ASSUME NEW i \in 1 .. Len(queue') PROVE queue'[i] = Stop <=> Ended'
    <3>1. i + d \in 1 .. Len(queue) /\ queue'[i] = queue[i + d]
      BY <1>0, <2>2, <2>3 DEF LeftOver, TypeOK
    <3> QED BY <2>1, <3>1 DEF PoolInv, PhaseOK, Ended
  <2> QED BY <2>1, <2>3 DEF PoolInv, PhaseOK, Ended
<1>5. CodeOK'
  BY <1>0
     DEF PoolInv, TypeOK, Threads, Funcs, PoolAssumption, CodeOK, InWork, WorkerOK, Working,
         PhaseOK, TakeJob, items, Goes, Woken
<1>6. LinkOK'
  BY <1>0, <1>9
     DEF PoolInv, TypeOK, Threads, Funcs, PoolAssumption, LinkOK, AppOK, PhaseOK, TakeJob, items,
         Goes, Woken
<1>7. NoLostRequest'
  BY <1>0, <1>9
     DEF PoolInv, TypeOK, Threads, Funcs, PoolAssumption, NoLostRequest, AppOK, PhaseOK, TakeJob,
         items, Goes, Woken
<1>8. NobodyOversleeps'
  <2>1. \A v \in Workers : pc'[v] # "asleep"
    BY <1>0 DEF PoolInv, TypeOK, NobodyOversleeps, TakeJob, Idle, Goes, PoolAssumption, Threads
  <2>2. busy'[w]
    BY <1>0 DEF TypeOK, TakeJob
  <2> QED BY <1>0, <2>1, <2>2
     DEF PoolInv, TypeOK, NobodyOversleeps, TakeJob, Quiet, Goes, PoolAssumption, Threads, items
<1> QED BY <1>1, <1>2, <1>3, <1>4, <1>5, <1>6, <1>7, <1>8 DEF PoolInv

(* Check keeps the invariant. *)
LEMMA CheckPreserves ==
  ASSUME PoolInv, PoolAssumption, NEW w \in Workers, Check(w)
  PROVE  PoolInv'
<1>0. /\ pc[w] = "check" /\ \A t \in Threads : t # w => pc'[t] = pc[t]
      /\ pc' \in [Threads -> MainPlaces \cup AppPlaces \cup WorkerPlaces]
      /\ thunk' \in [Funcs -> {"undefined", "wrapper", "code"}]
      /\ \A f \in Funcs : thunk[f] = "code" => thunk'[f] = "code"
      /\ \/ pc'[w] = "build" /\ ~code[work[w]]
         \/ pc'[w] = "finish" /\ code[work[w]]
      /\ UNCHANGED <<queue, start, busy, data, code, work, toPush, generated>>
      /\ assertion' \in BOOLEAN /\ work[w] \in Funcs
      /\ w \in Threads /\ w # Main /\ w \notin Apps /\ Main \in Threads /\ Workers \subseteq Threads /\ Apps \subseteq Threads
  <2>1. /\ w \in Threads /\ w # Main /\ w \notin Apps /\ Main \in Threads /\ Workers \subseteq Threads /\ Apps \subseteq Threads
        /\ work[w] \in Funcs
    BY DEF PoolAssumption, Threads, Check, PoolInv, WorkerOK, Working, InWork
  <2>2. /\ pc' = [pc EXCEPT ![w] = IF code[work[w]] THEN "finish" ELSE "build"]
        /\ thunk' = IF code[work[w]] THEN [thunk EXCEPT ![work[w]] = "code"] ELSE thunk
        /\ assertion' = (assertion /\ ~data[work[w]])
        /\ UNCHANGED <<queue, start, busy, data, code, work, toPush, generated>> /\ pc[w] = "check"
    BY DEF Check, Goes
  <2>3. assertion' \in BOOLEAN
    BY <2>2
  <2> QED BY <2>1, <2>2, <2>3 DEF PoolInv, TypeOK, WorkerPlaces, InWork
<1>9. \A g \in Funcs : (OnItsWay(g)' => OnItsWay(g)) /\ (OnItsWay(g) => OnItsWay(g)' \/ code[g])
  <2>1. /\ pc[w] = "check" /\ (pc'[w] = "build" \/ (pc'[w] = "finish" /\ code[work[w]]))
        /\ \A v \in Workers : v # w => pc'[v] = pc[v]
        /\ queue' = queue /\ start' = start /\ work' = work
    BY DEF PoolInv, TypeOK, Threads, Check, Goes
  <2>2. \A g \in Funcs : Queued(g)' <=> Queued(g)
    BY <2>1 DEF Queued
  <2> QED BY <2>1, <2>2 DEF OnItsWay, InWork
<1>1. TypeOK'
  BY <1>0 DEF PoolInv, TypeOK, MainPlaces, AppPlaces, WorkerPlaces, InWork
<1>2. WorkerOK'
  BY <1>0 DEF PoolInv, TypeOK, WorkerOK, Working, InWork
<1>3. AppOK'
  BY <1>0 DEF PoolInv, TypeOK, AppOK
<1>4. PhaseOK'
  BY <1>0 DEF PoolInv, TypeOK, PhaseOK, Ended, Idle, Working, InWork
<1>5. CodeOK'
  <2>1. \A v \in Workers : v # w => pc'[v] = pc[v]
    BY <1>0
  <2>2. \A f \in Funcs : data'[f] => \E v \in Workers : work'[v] = f /\ pc'[v] \in {"publish", "destroy"}
    BY <1>0, <2>1 DEF PoolInv, CodeOK
  <2>3. \A v \in Workers : pc'[v] \in Working => work'[v] \in Funcs
    BY <1>0, <2>1 DEF PoolInv, WorkerOK, Working, InWork
  <2>4. \A v \in Workers : pc'[v] \in {"destroy", "store"} => thunk'[work'[v]] = "code"
    BY <1>0, <2>1, <2>3 DEF PoolInv, CodeOK, Working, InWork
  <2>5. \A v \in Workers : pc'[v] = "finish" => code'[work'[v]]
    BY <1>0, <2>1 DEF PoolInv, CodeOK
  <2>6. \A f \in Funcs : code'[f] => thunk'[f] = "code"
    BY <1>0 DEF PoolInv, CodeOK
  <2> QED BY <2>2, <2>4, <2>5, <2>6 DEF CodeOK
<1>6. LinkOK'
  BY <1>0, <1>9 DEF PoolInv, TypeOK, LinkOK, Funcs
<1>7. NoLostRequest'
  BY <1>0, <1>9 DEF PoolInv, TypeOK, NoLostRequest, AppOK, Funcs, PoolAssumption
<1>8. NobodyOversleeps'
  BY <1>0 DEF PoolInv, TypeOK, NobodyOversleeps, Idle, Quiet
<1> QED BY <1>1, <1>2, <1>3, <1>4, <1>5, <1>6, <1>7, <1>8 DEF PoolInv

(* Build keeps the invariant. *)
LEMMA BuildPreserves ==
  ASSUME PoolInv, PoolAssumption, NEW w \in Workers, Build(w)
  PROVE  PoolInv'
<1>9. \A g \in Funcs : OnItsWay(g)' <=> OnItsWay(g)
  BY SameWay
     DEF PoolInv, TypeOK, WorkerOK, Threads, PoolAssumption, InWork, Working, Build, Goes, Woken,
         items
<1>1. TypeOK'
  BY
     DEF PoolInv, TypeOK, Threads, Funcs, PoolAssumption, WorkerOK, Working, MainPlaces,
         AppPlaces, WorkerPlaces, InWork, Build, items, Goes, Woken
<1>2. WorkerOK'
  BY
     DEF PoolInv, TypeOK, Threads, Funcs, PoolAssumption, WorkerOK, Working, InWork, Build, items,
         Goes, Woken
<1>3. AppOK'
  BY DEF PoolInv, TypeOK, Threads, Funcs, PoolAssumption, AppOK, Build, items, Goes, Woken
<1>4. PhaseOK'
  BY
     DEF PoolInv, TypeOK, Threads, Funcs, PoolAssumption, PhaseOK, Ended, Idle, Working, InWork,
         Build, items, Goes, Woken
<1>5. CodeOK'
  BY
     DEF PoolInv, TypeOK, Threads, Funcs, PoolAssumption, CodeOK, InWork, WorkerOK, Working,
         PhaseOK, Build, items, Goes, Woken
<1>6. LinkOK'
  BY <1>9
     DEF PoolInv, TypeOK, Threads, Funcs, PoolAssumption, LinkOK, AppOK, PhaseOK, Build, items,
         Goes, Woken
<1>7. NoLostRequest'
  BY <1>9
     DEF PoolInv, TypeOK, Threads, Funcs, PoolAssumption, NoLostRequest, AppOK, PhaseOK, Build,
         items, Goes, Woken
<1>8. NobodyOversleeps'
  BY
     DEF PoolInv, TypeOK, Threads, Funcs, PoolAssumption, NobodyOversleeps, Idle, Quiet, Waiters,
         Build, items, Goes, Woken
<1> QED BY <1>1, <1>2, <1>3, <1>4, <1>5, <1>6, <1>7, <1>8 DEF PoolInv

(* Publish keeps the invariant. *)
LEMMA PublishPreserves ==
  ASSUME PoolInv, PoolAssumption, NEW w \in Workers, Publish(w)
  PROVE  PoolInv'
<1>9. \A g \in Funcs : OnItsWay(g)' <=> OnItsWay(g)
  BY SameWay
     DEF PoolInv, TypeOK, WorkerOK, Threads, PoolAssumption, InWork, Working, Publish, Goes,
         Woken, items
<1>1. TypeOK'
  BY
     DEF PoolInv, TypeOK, Threads, Funcs, PoolAssumption, WorkerOK, Working, MainPlaces,
         AppPlaces, WorkerPlaces, InWork, Publish, items, Goes, Woken
<1>2. WorkerOK'
  BY
     DEF PoolInv, TypeOK, Threads, Funcs, PoolAssumption, WorkerOK, Working, InWork, Publish,
         items, Goes, Woken
<1>3. AppOK'
  BY DEF PoolInv, TypeOK, Threads, Funcs, PoolAssumption, AppOK, Publish, items, Goes, Woken
<1>4. PhaseOK'
  BY
     DEF PoolInv, TypeOK, Threads, Funcs, PoolAssumption, PhaseOK, Ended, Idle, Working, InWork,
         Publish, items, Goes, Woken
<1>5. CodeOK'
  BY
     DEF PoolInv, TypeOK, Threads, Funcs, PoolAssumption, CodeOK, InWork, WorkerOK, Working,
         PhaseOK, Publish, items, Goes, Woken
<1>6. LinkOK'
  BY <1>9
     DEF PoolInv, TypeOK, Threads, Funcs, PoolAssumption, LinkOK, AppOK, PhaseOK, Publish, items,
         Goes, Woken
<1>7. NoLostRequest'
  BY <1>9
     DEF PoolInv, TypeOK, Threads, Funcs, PoolAssumption, NoLostRequest, AppOK, PhaseOK, Publish,
         items, Goes, Woken
<1>8. NobodyOversleeps'
  BY
     DEF PoolInv, TypeOK, Threads, Funcs, PoolAssumption, NobodyOversleeps, Idle, Quiet, Waiters,
         Publish, items, Goes, Woken
<1> QED BY <1>1, <1>2, <1>3, <1>4, <1>5, <1>6, <1>7, <1>8 DEF PoolInv

(* Destroy keeps the invariant. *)
LEMMA DestroyPreserves ==
  ASSUME PoolInv, PoolAssumption, NEW w \in Workers, Destroy(w)
  PROVE  PoolInv'
<1>9. \A g \in Funcs : OnItsWay(g)' <=> OnItsWay(g)
  BY SameWay
     DEF PoolInv, TypeOK, WorkerOK, Threads, PoolAssumption, InWork, Working, Destroy, Goes,
         Woken, items
<1>1. TypeOK'
  BY
     DEF PoolInv, TypeOK, Threads, Funcs, PoolAssumption, WorkerOK, Working, MainPlaces,
         AppPlaces, WorkerPlaces, InWork, Destroy, items, Goes, Woken
<1>2. WorkerOK'
  BY
     DEF PoolInv, TypeOK, Threads, Funcs, PoolAssumption, WorkerOK, Working, InWork, Destroy,
         items, Goes, Woken
<1>3. AppOK'
  BY DEF PoolInv, TypeOK, Threads, Funcs, PoolAssumption, AppOK, Destroy, items, Goes, Woken
<1>4. PhaseOK'
  BY
     DEF PoolInv, TypeOK, Threads, Funcs, PoolAssumption, PhaseOK, Ended, Idle, Working, InWork,
         Destroy, items, Goes, Woken
<1>5. CodeOK'
  BY
     DEF PoolInv, TypeOK, Threads, Funcs, PoolAssumption, CodeOK, InWork, WorkerOK, Working,
         PhaseOK, Destroy, items, Goes, Woken
<1>6. LinkOK'
  BY <1>9
     DEF PoolInv, TypeOK, Threads, Funcs, PoolAssumption, LinkOK, AppOK, PhaseOK, Destroy, items,
         Goes, Woken
<1>7. NoLostRequest'
  BY <1>9
     DEF PoolInv, TypeOK, Threads, Funcs, PoolAssumption, NoLostRequest, AppOK, PhaseOK, Destroy,
         items, Goes, Woken
<1>8. NobodyOversleeps'
  BY
     DEF PoolInv, TypeOK, Threads, Funcs, PoolAssumption, NobodyOversleeps, Idle, Quiet, Waiters,
         Destroy, items, Goes, Woken
<1> QED BY <1>1, <1>2, <1>3, <1>4, <1>5, <1>6, <1>7, <1>8 DEF PoolInv

(* Store keeps the invariant. *)
LEMMA StorePreserves ==
  ASSUME PoolInv, PoolAssumption, NEW w \in Workers, Store(w)
  PROVE  PoolInv'
<1>9. \A g \in Funcs : (OnItsWay(g)' => OnItsWay(g)) /\ (OnItsWay(g) => OnItsWay(g)' \/ code'[g])
  <2>1. /\ pc[w] = "store" /\ pc'[w] = "finish" /\ work[w] \in Funcs
        /\ code' = [code EXCEPT ![work[w]] = TRUE] /\ code \in [Funcs -> BOOLEAN]
        /\ \A v \in Workers : v # w => pc'[v] = pc[v]
        /\ queue' = queue /\ start' = start /\ work' = work
    BY
       DEF PoolInv, TypeOK, WorkerOK, Working, InWork, PoolAssumption, Threads, Store, Goes,
           Woken, Waiters
  <2>2. \A g \in Funcs : Queued(g)' <=> Queued(g)
    BY <2>1 DEF Queued
  <2>3. code'[work[w]]
    BY <2>1
  <2> QED BY <2>1, <2>2, <2>3 DEF OnItsWay, InWork
<1>1. TypeOK'
  BY
     DEF PoolInv, TypeOK, Threads, Funcs, PoolAssumption, WorkerOK, Working, MainPlaces,
         AppPlaces, WorkerPlaces, InWork, Store, items, Goes, Woken
<1>2. WorkerOK'
  BY
     DEF PoolInv, TypeOK, Threads, Funcs, PoolAssumption, WorkerOK, Working, InWork, Store, items,
         Goes, Woken
<1>3. AppOK'
  BY DEF PoolInv, TypeOK, Threads, Funcs, PoolAssumption, AppOK, Store, items, Goes, Woken
<1>4. PhaseOK'
  BY
     DEF PoolInv, TypeOK, Threads, Funcs, PoolAssumption, PhaseOK, Ended, Idle, Working, InWork,
         Store, items, Goes, Woken
<1>5. CodeOK'
  <2>1. /\ \A v \in Workers : v # w => pc'[v] = pc[v]
        /\ pc[w] = "store" /\ pc'[w] = "finish" /\ work[w] \in Funcs
        /\ code' = [code EXCEPT ![work[w]] = TRUE] /\ code \in [Funcs -> BOOLEAN]
        /\ data' = data /\ thunk' = thunk /\ work' = work
    BY
       DEF PoolInv, TypeOK, WorkerOK, Working, InWork, PoolAssumption, Threads, Store, Goes,
           Woken, Waiters
  <2>2. \A f \in Funcs : data'[f] => \E v \in Workers : work'[v] = f /\ pc'[v] \in {"publish", "destroy"}
    BY <2>1 DEF PoolInv, CodeOK
  <2>3. /\ \A f \in Funcs : code'[f] <=> code[f] \/ f = work[w]
        /\ thunk[work[w]] = "code"
    BY <2>1 DEF PoolInv, CodeOK
  <2>4. \A v \in Workers : pc[v] \in Working => work[v] \in Funcs
    BY DEF PoolInv, WorkerOK
  <2>5. \A v \in Workers : pc'[v] = "finish" => code'[work'[v]]
    BY <2>1, <2>3, <2>4 DEF PoolInv, CodeOK, Working
  <2>6. \A v \in Workers : pc'[v] \in {"destroy", "store"} => thunk'[work'[v]] = "code"
    BY <2>1 DEF PoolInv, CodeOK
  <2> QED BY <2>1, <2>2, <2>3, <2>5, <2>6 DEF PoolInv, CodeOK
<1>6. LinkOK'
  BY <1>9
     DEF PoolInv, TypeOK, Threads, Funcs, PoolAssumption, LinkOK, AppOK, PhaseOK, Store, items,
         Goes, Woken
<1>7. NoLostRequest'
  BY <1>9
     DEF PoolInv, TypeOK, Threads, Funcs, PoolAssumption, NoLostRequest, AppOK, PhaseOK, Store,
         items, Goes, Woken
<1>8. NobodyOversleeps'
  BY
     DEF PoolInv, TypeOK, Threads, Funcs, PoolAssumption, NobodyOversleeps, Idle, Quiet, Waiters,
         Store, items, Goes, Woken
<1> QED BY <1>1, <1>2, <1>3, <1>4, <1>5, <1>6, <1>7, <1>8 DEF PoolInv

(* FinishJob keeps the invariant. *)
LEMMA FinishJobPreserves ==
  ASSUME PoolInv, PoolAssumption, NEW w \in Workers, FinishJob(w)
  PROVE  PoolInv'
<1>0. /\ TypeOK /\ w # Main /\ w \notin Apps
      /\ pc' \in [Threads -> MainPlaces \cup AppPlaces \cup WorkerPlaces]
      /\ pc'[w] = "awake"
      /\ \A t \in Threads : pc'[t] # pc[t] => t = w \/ (t \in Waiters /\ pc[t] = "asleep" /\ pc'[t] = "awake")
      /\ \A t \in Waiters : pc'[t] = "asleep" => \E u \in Waiters : pc[u] = "asleep" /\ pc'[u] = "awake"
  <2>1. TypeOK /\ w # Main /\ w \notin Apps /\ SignalOne(Goes(w, "awake"), Waiters)
    BY DEF PoolInv, FinishJob, PoolAssumption
  <2>2. CASE \E u \in Waiters : Goes(w, "awake")[u] = "asleep"
    <3>1. PICK u \in Waiters : Goes(w, "awake")[u] = "asleep" /\ pc' = [Goes(w, "awake") EXCEPT ![u] = "awake"]
      BY <2>1, <2>2 DEF SignalOne
    <3> QED BY <2>1, <3>1 DEF Goes, TypeOK, Threads, Waiters, MainPlaces, WorkerPlaces
  <2>3. CASE \A u \in Waiters : Goes(w, "awake")[u] # "asleep"
    <3>1. pc' = Goes(w, "awake")
      BY <2>1, <2>3 DEF SignalOne
    <3> QED BY <2>1, <2>3, <3>1 DEF Goes, TypeOK, Threads, Waiters, MainPlaces, WorkerPlaces
  <2> QED BY <2>2, <2>3
<1>9. \A g \in Funcs : OnItsWay(g)' <=> OnItsWay(g)
  BY <1>0, SameWay
     DEF PoolInv, TypeOK, WorkerOK, Threads, PoolAssumption, InWork, Working, FinishJob, Goes,
         Woken, items
<1>1. TypeOK'
  BY <1>0
     DEF PoolInv, TypeOK, Threads, Funcs, PoolAssumption, WorkerOK, Working, MainPlaces,
         AppPlaces, WorkerPlaces, InWork, FinishJob, items, Goes, Woken
<1>2. WorkerOK'
  BY <1>0
     DEF PoolInv, TypeOK, Threads, Funcs, PoolAssumption, WorkerOK, Working, InWork, FinishJob,
         items, Goes, Woken
<1>3. AppOK'
  BY <1>0
     DEF PoolInv, TypeOK, Threads, Funcs, PoolAssumption, AppOK, FinishJob, items, Goes, Woken
<1>4. PhaseOK'
  BY <1>0
     DEF PoolInv, TypeOK, Threads, Funcs, PoolAssumption, PhaseOK, Ended, Idle, Working, InWork,
         FinishJob, items, Goes, Woken
<1>5. CodeOK'
  BY <1>0
     DEF PoolInv, TypeOK, Threads, Funcs, PoolAssumption, CodeOK, InWork, WorkerOK, Working,
         PhaseOK, FinishJob, items, Goes, Woken
<1>6. LinkOK'
  BY <1>0, <1>9
     DEF PoolInv, TypeOK, Threads, Funcs, PoolAssumption, LinkOK, AppOK, PhaseOK, FinishJob,
         items, Goes, Woken
<1>7. NoLostRequest'
  BY <1>0, <1>9
     DEF PoolInv, TypeOK, Threads, Funcs, PoolAssumption, NoLostRequest, AppOK, PhaseOK,
         FinishJob, items, Goes, Woken
<1>8. NobodyOversleeps'
  <2>1. /\ \A v \in Workers : pc'[v] = "asleep" => Idle'
        /\ \A a \in Apps : pc'[a] = "asleep" => pc[a] = "asleep" /\ ~code'[work'[a]] /\ work'[a] = work[a]
    BY <1>0
       DEF PoolInv, TypeOK, NobodyOversleeps, FinishJob, Idle, items, Threads, PoolAssumption,
           Waiters
  <2>2. ASSUME pc'[Main] = "asleep", Quiet' PROVE FALSE
    <3>1. PICK u \in Waiters : pc[u] = "asleep" /\ pc'[u] = "awake"
      BY <1>0, <2>2 DEF Waiters
    <3>2. u \in Apps /\ work[u] \in Funcs /\ ~code[work[u]]
      BY <2>2, <3>1 DEF Waiters, PoolInv, NobodyOversleeps, AppOK, PoolAssumption, Funcs
    <3>3. ~Queued(work[u])
      BY <1>0, <2>2 DEF Quiet, Idle, Queued, FinishJob, TypeOK
    <3>4. PICK v \in Workers : work[v] = work[u] /\ pc[v] \in InWork
      BY <3>1, <3>2, <3>3 DEF PoolInv, NoLostRequest, OnItsWay
    <3>5. busy[v] /\ v # w
      BY <3>4 DEF PoolInv, WorkerOK, Working, InWork, FinishJob
    <3> QED BY <1>0, <2>2, <3>5 DEF Quiet, FinishJob, TypeOK
  <2> QED BY <2>1, <2>2 DEF NobodyOversleeps
<1> QED BY <1>1, <1>2, <1>3, <1>4, <1>5, <1>6, <1>7, <1>8 DEF PoolInv

(* SpuriousWakeup keeps the invariant. *)
LEMMA SpuriousWakeupPreserves ==
  ASSUME PoolInv, PoolAssumption, NEW t \in Threads, SpuriousWakeup(t)
  PROVE  PoolInv'
<1>9. \A g \in Funcs : OnItsWay(g)' <=> OnItsWay(g)
  BY SameWay
     DEF PoolInv, TypeOK, WorkerOK, Threads, PoolAssumption, InWork, Working, SpuriousWakeup,
         Goes, Woken, items
<1>1. TypeOK'
  BY
     DEF PoolInv, TypeOK, Threads, Funcs, PoolAssumption, WorkerOK, Working, MainPlaces,
         AppPlaces, WorkerPlaces, InWork, SpuriousWakeup, items, Goes, Woken
<1>2. WorkerOK'
  BY
     DEF PoolInv, TypeOK, Threads, Funcs, PoolAssumption, WorkerOK, Working, InWork,
         SpuriousWakeup, items, Goes, Woken
<1>3. AppOK'
  BY
     DEF PoolInv, TypeOK, Threads, Funcs, PoolAssumption, AppOK, SpuriousWakeup, items, Goes,
         Woken
<1>4. PhaseOK'
  BY
     DEF PoolInv, TypeOK, Threads, Funcs, PoolAssumption, PhaseOK, Ended, Idle, Working, InWork,
         SpuriousWakeup, items, Goes, Woken
<1>5. CodeOK'
  BY
     DEF PoolInv, TypeOK, Threads, Funcs, PoolAssumption, CodeOK, InWork, WorkerOK, Working,
         PhaseOK, SpuriousWakeup, items, Goes, Woken
<1>6. LinkOK'
  BY <1>9
     DEF PoolInv, TypeOK, Threads, Funcs, PoolAssumption, LinkOK, AppOK, PhaseOK, SpuriousWakeup,
         items, Goes, Woken
<1>7. NoLostRequest'
  BY <1>9
     DEF PoolInv, TypeOK, Threads, Funcs, PoolAssumption, NoLostRequest, AppOK, PhaseOK,
         SpuriousWakeup, items, Goes, Woken
<1>8. NobodyOversleeps'
  BY
     DEF PoolInv, TypeOK, Threads, Funcs, PoolAssumption, NobodyOversleeps, Idle, Quiet, Waiters,
         SpuriousWakeup, items, Goes, Woken
<1> QED BY <1>1, <1>2, <1>3, <1>4, <1>5, <1>6, <1>7, <1>8 DEF PoolInv

LEMMA PoolInit ==
  ASSUME PoolAssumption, Init
  PROVE  PoolInv
<1>1. TypeOK
  BY DEF Init, TypeOK, PoolAssumption, Threads, Funcs, MainPlaces, AppPlaces, WorkerPlaces, InWork
<1>2. WorkerOK /\ AppOK /\ PhaseOK /\ CodeOK /\ LinkOK
  BY DEF Init, WorkerOK, AppOK, PhaseOK, CodeOK, LinkOK, Working, InWork, Ended, Idle, Threads,
         Funcs, PoolAssumption
<1>3. NoLostRequest /\ NobodyOversleeps
  BY DEF Init, NoLostRequest, NobodyOversleeps, Threads, PoolAssumption
<1> QED BY <1>1, <1>2, <1>3 DEF PoolInv

LEMMA PoolStutters ==
  ASSUME PoolInv, UNCHANGED vars
  PROVE  PoolInv'
<1>1. \A g \in Funcs : OnItsWay(g)' <=> OnItsWay(g)
  BY SameWay DEF vars
<1>2. TypeOK' /\ WorkerOK' /\ AppOK' /\ PhaseOK' /\ CodeOK'
  BY DEF vars, PoolInv, TypeOK, WorkerOK, AppOK, PhaseOK, CodeOK, Ended, Idle
<1>3. LinkOK' /\ NoLostRequest' /\ NobodyOversleeps'
  BY DEF vars, PoolInv, LinkOK, NoLostRequest, NobodyOversleeps, OnItsWay, Queued, Idle, Quiet
<1> QED BY <1>2, <1>3 DEF PoolInv

(* Every step keeps the invariant. *)
LEMMA PoolStep ==
  ASSUME PoolAssumption, PoolInv, [Next]_vars
  PROVE  PoolInv'
<1>1. CASE MainStep
  BY <1>1, CreateThreadPreserves, CreateFailsPreserves, LinkLazyPreserves, PushParallelPreserves,
     WaitForLinkPreserves, FinishPreserves, JoinPreserves DEF MainStep
<1>2. ASSUME NEW a \in Apps, AppStep(a) PROVE PoolInv'
  BY <1>2, CallPreserves, RequestPreserves, WaitForCodePreserves, ExitPreserves DEF AppStep
<1>3. ASSUME NEW w \in Workers, WorkerStep(w) PROVE PoolInv'
  BY <1>3, GoToSleepPreserves, LeavePreserves, TakeJobPreserves, CheckPreserves, BuildPreserves,
     PublishPreserves, DestroyPreserves, StorePreserves, FinishJobPreserves DEF WorkerStep
<1>4. ASSUME NEW t \in Threads, SpuriousWakeup(t) PROVE PoolInv'
  BY <1>4, SpuriousWakeupPreserves
<1>5. CASE UNCHANGED vars
  BY <1>5, PoolStutters
<1> QED BY <1>1, <1>2, <1>3, <1>4, <1>5 DEF Next, Over

(* The inductive invariant of the pool, for every number of threads. *)
THEOREM PoolInvariant == Spec => []PoolInv
<1>1. Init => PoolInv
  BY PoolInit, PoolAssumption
<1>2. PoolInv /\ [Next]_vars => PoolInv'
  BY PoolStep, PoolAssumption
<1> QED BY <1>1, <1>2, PTL DEF Spec

(* The type invariant; funcs_start never leaves the array. *)
THEOREM TypeCorrect == Spec => []TypeOK
<1>1. PoolInv => TypeOK
  BY DEF PoolInv
<1> QED BY <1>1, PoolInvariant, PTL

(* A caller of a lazily generated function waits only for what is generated or *)
(* on its way.                                                                  *)
THEOREM RequestsAreKept == Spec => []NoLostRequest
<1>1. PoolInv => NoLostRequest
  BY DEF PoolInv
<1> QED BY <1>1, PoolInvariant, PTL

(* Nobody sleeps on a condition variable while what he waits for is there:     *)
(* mir_cond_signal in gen wakes the right sleeper.                              *)
THEOREM WakeupsSuffice == Spec => []NobodyOversleeps
<1>1. PoolInv => NobodyOversleeps
  BY DEF PoolInv
<1> QED BY <1>1, PoolInvariant, PTL

(* A parallel link returns with all of its module generated, through           *)
(* compaction, lazy requests of other threads and any number of workers.       *)
THEOREM LinkCompletes == Spec => []LinkDone
<1>1. ASSUME PoolInv, pc[Main] \in {"linked", "join", "done"}, NEW f \in ParallelFuncs
      PROVE  code[f] /\ thunk[f] = "code" /\ ~data[f]
  <2>1. code[f] /\ ~OnItsWay(f) /\ f \in Funcs
    BY <1>1 DEF PoolInv, LinkOK, Funcs
  <2>2. ~data[f]
    BY <1>1, <2>1 DEF PoolInv, CodeOK, OnItsWay, InWork
  <2> QED BY <1>1, <2>1, <2>2 DEF PoolInv, CodeOK
<1>2. PoolInv => LinkDone
  BY <1>1 DEF LinkDone
<1> QED BY <1>2, PoolInvariant, PTL

------------------------------------------------------------------------------
(* Different functions. *)

(* A step that moves no function from one place to the next. *)
LEMMA OnceStays ==
  ASSUME OnceInv, UNCHANGED <<queue, start, work, toPush, code>>,
         \A a \in Apps : pc'[a] = "calling" => pc[a] = "calling",
         \A a \in Apps : pc[a] \in {"awake", "asleep"} => pc'[a] \in {"awake", "asleep"},
         \A w \in Workers : pc'[w] \in InWork => pc[w] \in InWork
  PROVE  OnceInv'
<1>1. /\ \A f : AtWork(f)' <=> AtWork(f)
      /\ \A f : Queued(f)' <=> Queued(f)
      /\ \A f : OnItsWay(f)' => OnItsWay(f)
  BY DEF AtWork, Queued, OnItsWay
<1>2. QueuedOnce' /\ OneWorker' /\ InWorkNew'
  BY DEF OnceInv, QueuedOnce, OneWorker, InWorkNew
<1>3. QueuedNew' /\ ToPushNew' /\ CallingNew'
  BY <1>1 DEF OnceInv, QueuedNew, ToPushNew, CallingNew
<1>4. LazyWanted'
  BY <1>1 DEF OnceInv, LazyWanted
<1> QED BY <1>2, <1>3, <1>4 DEF OnceInv

(* The end of the pool: nobody waits, and only end marks are left. *)
LEMMA FinishKeepsOnce ==
  ASSUME PoolAssumption, PoolInv, OnceInv, CreateFails \/ Finish
  PROVE  OnceInv'
<1>1. /\ UNCHANGED <<work, toPush, code>>
      /\ \A a \in Apps : pc[a] \in {"new", "done"} /\ pc'[a] = pc[a]
      /\ \A w \in Workers : pc'[w] \in InWork <=> pc[w] \in InWork
  BY
     DEF CreateFails, Finish, PoolInv, TypeOK, PhaseOK, PoolAssumption, Threads, Goes, Woken,
         items,
         InWork
<1>2. Len(queue') = 1 /\ start' = 0 /\ \A f \in Funcs : ~Queued(f)'
  BY FinishEmpties DEF CreateFails, Finish, PoolInv, SignalFinish
<1>3. \A f : AtWork(f)' <=> AtWork(f)
  BY <1>1 DEF AtWork
<1>4. QueuedOnce' /\ OneWorker' /\ InWorkNew'
  BY <1>1, <1>2 DEF OnceInv, QueuedOnce, OneWorker, InWorkNew
<1>5. QueuedNew' /\ ToPushNew' /\ CallingNew'
  BY <1>1, <1>2, <1>3 DEF OnceInv, QueuedNew, ToPushNew, CallingNew
<1>6. LazyWanted'
  BY <1>1, <1>2 DEF OnceInv, LazyWanted, OnItsWay, Funcs
<1> QED BY <1>4, <1>5, <1>6 DEF OnceInv

(* The new item of the queue was not in it. *)
LEMMA PushKeepsQueuedOnce ==
  ASSUME PoolAssumption, TypeOK, QueuedOnce, NEW f \in Funcs, ~Queued(f), Push(f), UNCHANGED start
  PROVE  QueuedOnce'
<1>1. /\ Len(queue) \in Nat /\ start \in Nat /\ start' = start
      /\ Len(queue') = Len(queue) + 1
      /\ \A i \in 1 .. Len(queue) : queue'[i] = queue[i]
      /\ queue'[Len(queue) + 1] = f
  BY PushQueues DEF TypeOK
<1>2. \A i \in start + 1 .. Len(queue) : queue[i] # f
  BY DEF Queued
<1>3. \A i \in start' + 1 .. Len(queue') :
        i = Len(queue) + 1 \/ (i \in start + 1 .. Len(queue) /\ i \in 1 .. Len(queue))
  BY <1>1
<1> QED BY <1>1, <1>2, <1>3 DEF QueuedOnce

LEMMA PushParallelKeepsOnce ==
  ASSUME PoolAssumption, PoolInv, OnceInv, NEW f \in ParallelFuncs, PushParallel(f)
  PROVE  OnceInv'
<1>1. /\ f \in Funcs /\ f \in toPush /\ f \notin LazyFuncs
      /\ toPush' = toPush \ {f} /\ UNCHANGED <<start, work, code>> /\ Push(f)
      /\ \A a \in Apps : pc'[a] = pc[a]
      /\ \A w \in Workers : pc'[w] \in InWork <=> pc[w] \in InWork
  BY DEF PushParallel, PoolInv, TypeOK, PoolAssumption, Threads, Funcs, Goes, Woken, items, InWork
<1>2. ~Queued(f) /\ ~AtWork(f) /\ ~code[f]
  BY <1>1 DEF OnceInv, QueuedNew, ToPushNew
<1>3. /\ \A g \in Funcs : Queued(g)' <=> Queued(g) \/ g = f
      /\ \A g : AtWork(g)' <=> AtWork(g)
  BY <1>1, PushQueues DEF PoolInv, AtWork
<1>4. QueuedOnce'
  BY <1>1, <1>2, PushKeepsQueuedOnce DEF PoolInv, OnceInv
<1>5. QueuedNew' /\ ToPushNew'
  BY <1>1, <1>2, <1>3 DEF OnceInv, QueuedNew, ToPushNew
<1>6. CallingNew' /\ InWorkNew' /\ OneWorker'
  BY <1>1, <1>3
     DEF OnceInv, CallingNew, InWorkNew, OneWorker, PoolInv, AppOK, PoolAssumption, Funcs
<1>7. LazyWanted'
  BY <1>1, <1>3 DEF OnceInv, LazyWanted, OnItsWay, Funcs
<1> QED BY <1>4, <1>5, <1>6, <1>7 DEF OnceInv

LEMMA CallKeepsOnce ==
  ASSUME PoolAssumption, DifferentFunctions, PoolInv, OnceInv,
         NEW a \in Apps, NEW f \in LazyFuncs, Call(a, f)
  PROVE  OnceInv'
<1>1. /\ f \in Funcs /\ f \in Calls[a] /\ f # NoFunc /\ f \notin toPush /\ thunk[f] # "code"
      /\ pc[a] = "running" /\ pc'[a] = "calling" /\ work'[a] = f /\ a \notin Workers
      /\ UNCHANGED <<queue, start, toPush, code>>
      /\ \A t \in Threads : t # a => pc'[t] = pc[t]
      /\ \A t \in Workers \cup Apps : t # a => work'[t] = work[t]
      /\ Workers \subseteq Threads /\ Apps \subseteq Threads
  BY DEF Call, PoolInv, TypeOK, PoolAssumption, Threads, Funcs, Goes, items
<1>2. ~code[f]
  BY <1>1 DEF PoolInv, CodeOK
<1>3. ~OnItsWay(f)
  BY <1>1 DEF OnceInv, LazyWanted, PoolInv, AppOK, DifferentFunctions
<1>4. ~Queued(f) /\ ~AtWork(f)
  <2>1. ASSUME NEW w \in Workers, work[w] = f PROVE FALSE
    <3>1. pc[w] \in Working
      BY <1>1, <2>1 DEF PoolInv, WorkerOK
    <3> QED BY <1>2, <1>3, <2>1, <3>1 DEF Working, OnItsWay, PoolInv, CodeOK
  <2> QED BY <1>3, <2>1 DEF AtWork, OnItsWay
<1>5. /\ \A g : Queued(g)' <=> Queued(g)
      /\ \A g : AtWork(g)' <=> AtWork(g)
      /\ \A g : OnItsWay(g)' <=> OnItsWay(g)
  BY <1>1 DEF Queued, AtWork, OnItsWay
<1>6. QueuedOnce' /\ OneWorker' /\ InWorkNew'
  BY <1>1 DEF OnceInv, QueuedOnce, OneWorker, InWorkNew
<1>7. QueuedNew' /\ ToPushNew'
  BY <1>1, <1>5 DEF OnceInv, QueuedNew, ToPushNew
<1>8. CallingNew'
  BY <1>1, <1>2, <1>4, <1>5 DEF OnceInv, CallingNew
<1>9. LazyWanted'
  <2>1. ASSUME NEW g \in LazyFuncs, OnItsWay(g)'
        PROVE  \E b \in Apps : work'[b] = g /\ pc'[b] \in {"awake", "asleep"}
    <3>1. PICK b \in Apps : work[b] = g /\ pc[b] \in {"awake", "asleep"}
      BY <1>5, <2>1 DEF OnceInv, LazyWanted
    <3> QED BY <1>1, <3>1
  <2> QED BY <2>1 DEF LazyWanted
<1> QED BY <1>6, <1>7, <1>8, <1>9 DEF OnceInv

LEMMA RequestKeepsOnce ==
  ASSUME PoolAssumption, DifferentFunctions, PoolInv, OnceInv, NEW a \in Apps, Request(a)
  PROVE  OnceInv'
<1> DEFINE f == work[a]
<1>1. /\ f \in Funcs /\ f \in Calls[a] /\ f \notin toPush
      /\ pc[a] = "calling" /\ pc'[a] = "awake"
      /\ UNCHANGED <<start, work, toPush, code>> /\ Push(f)
      /\ \A b \in Apps : b # a => pc'[b] = pc[b]
      /\ \A w \in Workers : pc'[w] \in InWork <=> pc[w] \in InWork
  BY
     DEF Request, PoolInv, TypeOK, AppOK, PoolAssumption, Threads, Funcs, Goes, Woken, items,
         InWork
<1>2. ~Queued(f) /\ ~AtWork(f) /\ ~code[f]
  BY <1>1 DEF OnceInv, CallingNew
<1>3. /\ \A g \in Funcs : Queued(g)' <=> Queued(g) \/ g = f
      /\ \A g : AtWork(g)' <=> AtWork(g)
  BY <1>1, PushQueues DEF PoolInv, AtWork
<1>4. QueuedOnce'
  BY <1>1, <1>2, PushKeepsQueuedOnce DEF PoolInv, OnceInv
<1>5. QueuedNew' /\ ToPushNew' /\ InWorkNew' /\ OneWorker'
  BY <1>1, <1>2, <1>3 DEF OnceInv, QueuedNew, ToPushNew, InWorkNew, OneWorker
<1>6. CallingNew'
  <2>1. ASSUME NEW b \in Apps, pc'[b] = "calling"
        PROVE  b # a /\ pc[b] = "calling" /\ work[b] # f /\ work[b] \in Funcs
    BY <1>1, <2>1 DEF PoolInv, AppOK, DifferentFunctions, PoolAssumption, Funcs
  <2> QED BY <1>1, <1>3, <2>1 DEF OnceInv, CallingNew
<1>7. LazyWanted'
  <2>1. ASSUME NEW g \in LazyFuncs, OnItsWay(g)'
        PROVE  \E b \in Apps : work'[b] = g /\ pc'[b] \in {"awake", "asleep"}
    <3>1. CASE g = f
      BY <1>1, <3>1
    <3>2. CASE g # f
      <4>1. OnItsWay(g)
        BY <1>1, <1>3, <2>1, <3>2 DEF OnItsWay, Funcs
      <4> QED BY <1>1, <3>2, <4>1 DEF OnceInv, LazyWanted
    <3> QED BY <3>1, <3>2
  <2> QED BY <2>1 DEF LazyWanted
<1> QED BY <1>4, <1>5, <1>6, <1>7 DEF OnceInv

LEMMA WaitForCodeKeepsOnce ==
  ASSUME PoolAssumption, DifferentFunctions, PoolInv, OnceInv, NEW a \in Apps, WaitForCode(a)
  PROVE  OnceInv'
<1>0. /\ a \in Threads /\ a # Main /\ a \notin Workers /\ Workers \subseteq Threads
      /\ Apps \subseteq Threads
  BY DEF PoolAssumption, Threads
<1>1. CASE ~code[work[a]]
  BY <1>0, <1>1, OnceStays DEF WaitForCode, PoolInv, TypeOK, Goes, items
<1>2. CASE code[work[a]]
  <2>1. /\ pc[a] = "awake" /\ pc'[a] = "running" /\ work[a] \in Funcs /\ work[a] \in Calls[a]
        /\ UNCHANGED <<queue, start, toPush, code>>
        /\ \A t \in Threads : t # a => pc'[t] = pc[t]
        /\ \A t \in Workers \cup Apps : t # a => work'[t] = work[t]
    BY <1>0, <1>2 DEF WaitForCode, PoolInv, TypeOK, AppOK, PoolAssumption, Funcs, Goes, items
  <2>2. /\ \A g : Queued(g)' <=> Queued(g)
        /\ \A g : AtWork(g)' <=> AtWork(g)
        /\ \A g : OnItsWay(g)' <=> OnItsWay(g)
    BY <1>0, <2>1 DEF Queued, AtWork, OnItsWay
  <2>3. ~OnItsWay(work[a])
    BY <1>2, <2>1 DEF OnceInv, QueuedNew, InWorkNew, OnItsWay
  <2>4. QueuedOnce' /\ OneWorker' /\ InWorkNew'
    BY <1>0, <2>1 DEF OnceInv, QueuedOnce, OneWorker, InWorkNew
  <2>5. QueuedNew' /\ ToPushNew' /\ CallingNew'
    BY <1>0, <2>1, <2>2 DEF OnceInv, QueuedNew, ToPushNew, CallingNew
  <2>6. LazyWanted'
    <3>1. ASSUME NEW g \in LazyFuncs, OnItsWay(g)'
          PROVE  \E b \in Apps : work'[b] = g /\ pc'[b] \in {"awake", "asleep"}
      <4>1. PICK b \in Apps : work[b] = g /\ pc[b] \in {"awake", "asleep"}
        BY <2>2, <3>1 DEF OnceInv, LazyWanted
      <4> QED BY <1>0, <2>1, <2>2, <2>3, <3>1, <4>1
    <3> QED BY <3>1 DEF LazyWanted
  <2> QED BY <2>4, <2>5, <2>6 DEF OnceInv
<1> QED BY <1>1, <1>2

LEMMA TakeJobKeepsOnce ==
  ASSUME PoolAssumption, PoolInv, OnceInv, NEW w \in Workers, TakeJob(w)
  PROVE  OnceInv'
<1>0. TypeOK /\ ~Idle /\ Compacted(queue, start + 1) /\ queue[start + 1] # Stop
  BY DEF PoolInv, TakeJob
<1>a. PICK f \in Funcs : f = queue[start + 1]
  BY <1>0 DEF TypeOK, Idle
<1>1. /\ start + 1 \in 1 .. Len(queue) /\ f \in Funcs /\ f = queue[start + 1] /\ f # Stop
      /\ \E d \in Nat : LeftOver(queue, start + 1, queue', start', d)
      /\ \A g \in Funcs : Queued(g) <=> Queued(g)' \/ g = f
      /\ queue \in Seq(Funcs \cup {Stop}) /\ queue' \in Seq(Funcs \cup {Stop}) /\ start' \in Nat
  <2>1. queue \in Seq(Funcs \cup {Stop}) /\ f # Stop
    BY <1>0, <1>a DEF TypeOK
  <2> QED BY <1>0, <1>a, <2>1, TakeDequeues
<1>2. /\ pc[w] = "awake" /\ pc'[w] = "check" /\ work'[w] = f /\ f # NoFunc /\ f # Stop
      /\ UNCHANGED <<toPush, code>> /\ w \notin Apps
      /\ \A t \in Threads : t # w => pc'[t] = pc[t]
      /\ \A t \in Workers \cup Apps : t # w => work'[t] = work[t]
      /\ Workers \subseteq Threads /\ Apps \subseteq Threads
  BY <1>1 DEF TakeJob, PoolInv, TypeOK, PoolAssumption, Threads, Goes, items
<1>3. PICK d \in Nat : LeftOver(queue, start + 1, queue', start', d)
  BY <1>1
<1>4. \A i \in start' + 1 .. Len(queue') :
        /\ queue'[i] = queue[i + d] /\ i + d \in start + 1 .. Len(queue) /\ i + d # start + 1
  <2>1. LiesBehind(queue, start + 1, queue', start', d)
    BY <1>1, <1>3, RestIsBehind
  <2> QED BY <2>1 DEF LiesBehind
<1>5. ~Queued(f)' /\ Queued(f) /\ ~AtWork(f) /\ ~code[f] /\ f \notin toPush
  <2>1. Queued(f) /\ start + 1 \in start + 1 .. Len(queue)
    BY <1>1
  <2>2. ASSUME NEW i \in start' + 1 .. Len(queue'), queue'[i] = f PROVE FALSE
    <3>1. i + d \in start + 1 .. Len(queue) /\ i + d # start + 1 /\ queue[i + d] = f
      BY <1>4, <2>2
    <3> QED BY <1>1, <2>1, <3>1 DEF OnceInv, QueuedOnce
  <2>3. ~Queued(f)'
    BY <2>2 DEF Queued
  <2> QED BY <1>1, <2>1, <2>3 DEF OnceInv, QueuedNew
<1>6. \A g : AtWork(g)' => AtWork(g) \/ g = f
  BY <1>2 DEF AtWork
<1>7. QueuedOnce'
  <2>1. ASSUME NEW i \in start' + 1 .. Len(queue'), NEW j \in start' + 1 .. Len(queue'),
               queue'[i] = queue'[j], queue'[i] # Stop
        PROVE  i = j
    <3>1. i + d = j + d
      BY <1>4, <2>1 DEF OnceInv, QueuedOnce
    <3> QED BY <1>1, <1>3, <3>1
  <2> QED BY <2>1 DEF QueuedOnce
<1>8. QueuedNew' /\ ToPushNew'
  <2>1. ASSUME NEW g \in Funcs, Queued(g)'
        PROVE  ~AtWork(g)' /\ ~code'[g] /\ g \notin toPush'
    <3>1. Queued(g) /\ g # f
      BY <1>1, <1>5, <2>1
    <3> QED BY <1>2, <1>6, <3>1 DEF OnceInv, QueuedNew
  <2>2. ToPushNew'
    BY <1>2, <1>5, <1>6 DEF OnceInv, ToPushNew
  <2> QED BY <2>1, <2>2 DEF QueuedNew
<1>9. CallingNew'
  <2>1. ASSUME NEW a \in Apps, pc'[a] = "calling"
        PROVE  pc[a] = "calling" /\ work'[a] = work[a] /\ work[a] \in Funcs
    BY <1>2, <2>1 DEF PoolInv, AppOK, PoolAssumption, Funcs
  <2> QED BY <1>1, <1>2, <1>5, <1>6, <2>1 DEF OnceInv, CallingNew
<1>10. InWorkNew' /\ OneWorker'
  BY <1>1, <1>2, <1>5 DEF OnceInv, InWorkNew, OneWorker, AtWork
<1>11. LazyWanted'
  <2>1. ASSUME NEW g \in LazyFuncs, OnItsWay(g)' PROVE OnItsWay(g)
    BY <1>1, <1>2, <1>5, <2>1 DEF OnItsWay, Funcs
  <2> QED BY <1>2, <2>1 DEF OnceInv, LazyWanted
<1> QED BY <1>7, <1>8, <1>9, <1>10, <1>11 DEF OnceInv

LEMMA StoreKeepsOnce ==
  ASSUME PoolAssumption, PoolInv, OnceInv, NEW w \in Workers, Store(w)
  PROVE  OnceInv'
<1>1. /\ pc[w] = "store" /\ pc'[w] = "finish" /\ work[w] \in Funcs /\ work[w] # NoFunc
      /\ UNCHANGED <<queue, start, work, toPush>>
      /\ \A g \in Funcs : code'[g] <=> code[g] \/ g = work[w]
      /\ \A v \in Workers : v # w => pc'[v] = pc[v]
      /\ \A a \in Apps : pc'[a] = "calling" => pc[a] = "calling"
      /\ \A a \in Apps : pc[a] \in {"awake", "asleep"} => pc'[a] \in {"awake", "asleep"}
  BY DEF Store, PoolInv, TypeOK, WorkerOK, Working, InWork, PoolAssumption, Threads, Goes, Woken,
         Waiters
<1>2. /\ \A g : Queued(g)' <=> Queued(g)
      /\ \A g : AtWork(g)' <=> AtWork(g)
      /\ AtWork(work[w])
  BY <1>1 DEF Queued, AtWork
<1>3. \A g : OnItsWay(g)' => OnItsWay(g)
  BY <1>1, <1>2 DEF OnItsWay, InWork
<1>4. QueuedOnce' /\ OneWorker'
  BY <1>1 DEF OnceInv, QueuedOnce, OneWorker
<1>5. QueuedNew'
  BY <1>1, <1>2 DEF OnceInv, QueuedNew
<1>6. ToPushNew'
  BY <1>1, <1>2 DEF OnceInv, ToPushNew, PoolInv, TypeOK, Funcs
<1>7. CallingNew'
  BY <1>1, <1>2 DEF OnceInv, CallingNew, PoolInv, AppOK, PoolAssumption, Funcs
<1>8. InWorkNew'
  <2>1. ASSUME NEW v \in Workers, pc'[v] \in InWork PROVE ~code'[work'[v]]
    <3>1. v # w /\ pc[v] \in InWork /\ work[v] \in Funcs
      BY <1>1, <2>1 DEF InWork, PoolInv, WorkerOK, Working
    <3>2. work[v] # work[w]
      BY <1>1, <3>1 DEF OnceInv, OneWorker
    <3> QED BY <1>1, <3>1, <3>2 DEF OnceInv, InWorkNew
  <2> QED BY <2>1 DEF InWorkNew
<1>9. LazyWanted'
  BY <1>1, <1>3 DEF OnceInv, LazyWanted
<1> QED BY <1>4, <1>5, <1>6, <1>7, <1>8, <1>9 DEF OnceInv

LEMMA FinishJobKeepsOnce ==
  ASSUME PoolAssumption, PoolInv, OnceInv, NEW w \in Workers, FinishJob(w)
  PROVE  OnceInv'
<1>1. /\ work'[w] = NoFunc /\ w \notin Apps /\ pc'[w] = "awake"
      /\ UNCHANGED <<queue, start, toPush, code>>
      /\ \A t \in Workers \cup Apps : t # w => work'[t] = work[t]
      /\ \A v \in Workers : v # w => pc'[v] = pc[v]
      /\ \A a \in Apps : pc'[a] = "calling" => pc[a] = "calling"
      /\ \A a \in Apps : pc[a] \in {"awake", "asleep"} => pc'[a] \in {"awake", "asleep"}
  <2>1. /\ work'[w] = NoFunc /\ w \notin Apps
        /\ UNCHANGED <<queue, start, toPush, code>>
        /\ \A t \in Workers \cup Apps : t # w => work'[t] = work[t]
        /\ SignalOne(Goes(w, "awake"), Waiters)
    BY DEF FinishJob, PoolInv, TypeOK, PoolAssumption, items
  <2>2. CASE \E u \in Waiters : Goes(w, "awake")[u] = "asleep"
    <3>1. PICK u \in Waiters : Goes(w, "awake")[u] = "asleep" /\ pc' = [Goes(w, "awake") EXCEPT ![u] = "awake"]
      BY <2>1, <2>2 DEF SignalOne
    <3> QED BY <2>1, <3>1 DEF Goes, PoolInv, TypeOK, Threads, Waiters, PoolAssumption
  <2>3. CASE \A u \in Waiters : Goes(w, "awake")[u] # "asleep"
    <3>1. pc' = Goes(w, "awake")
      BY <2>1, <2>3 DEF SignalOne
    <3> QED BY <2>1, <3>1 DEF Goes, PoolInv, TypeOK, Threads, Waiters, PoolAssumption
  <2> QED BY <2>2, <2>3
<1>2. /\ \A g : Queued(g)' <=> Queued(g)
      /\ \A g \in Funcs : AtWork(g)' => AtWork(g)
      /\ \A g \in Funcs : OnItsWay(g)' => OnItsWay(g)
  BY <1>1 DEF Queued, AtWork, OnItsWay, InWork, PoolAssumption
<1>3. QueuedOnce' /\ OneWorker' /\ InWorkNew'
  BY <1>1 DEF OnceInv, QueuedOnce, OneWorker, InWorkNew, InWork
<1>4. QueuedNew' /\ ToPushNew'
  BY <1>1, <1>2 DEF OnceInv, QueuedNew, ToPushNew, PoolInv, TypeOK, Funcs
<1>5. CallingNew'
  <2>1. ASSUME NEW a \in Apps, pc'[a] = "calling"
        PROVE  pc[a] = "calling" /\ work'[a] = work[a] /\ work[a] \in Funcs
    BY <1>1, <2>1 DEF PoolInv, AppOK, PoolAssumption, Funcs
  <2> QED BY <1>1, <1>2, <2>1 DEF OnceInv, CallingNew
<1>6. LazyWanted'
  BY <1>1, <1>2 DEF OnceInv, LazyWanted, Funcs
<1> QED BY <1>3, <1>4, <1>5, <1>6 DEF OnceInv

LEMMA OnceStep ==
  ASSUME PoolAssumption, DifferentFunctions, PoolInv, OnceInv, [Next]_vars
  PROVE  OnceInv'
<1>1. ASSUME NEW w \in Workers, CreateThread(w) PROVE OnceInv'
  BY <1>1, OnceStays
     DEF CreateThread, PoolInv, TypeOK, PoolAssumption, Threads, Goes, items, InWork
<1>2. CASE LinkLazy
  BY <1>2, OnceStays DEF LinkLazy, PhaseOK, PoolInv, TypeOK, PoolAssumption, Threads, InWork
<1>3. CASE WaitForLink \/ Join
  BY <1>3, OnceStays
     DEF WaitForLink, Join, PoolInv, TypeOK, PoolAssumption, Threads, Goes, items, InWork
<1>4. CASE CreateFails \/ Finish
  BY <1>4, FinishKeepsOnce
<1>5. ASSUME NEW f \in ParallelFuncs, PushParallel(f) PROVE OnceInv'
  BY <1>5, PushParallelKeepsOnce
<1>6. ASSUME NEW a \in Apps, AppStep(a) PROVE OnceInv'
  <2>1. CASE Exit(a)
    BY <2>1, OnceStays DEF Exit, PoolInv, TypeOK, PoolAssumption, Threads, Goes, items, InWork
  <2> QED BY <1>6, <2>1, CallKeepsOnce, RequestKeepsOnce, WaitForCodeKeepsOnce DEF AppStep
<1>7. ASSUME NEW w \in Workers, WorkerStep(w) PROVE OnceInv'
  <2>1. CASE GoToSleep(w) \/ Leave(w)
    BY <2>1, OnceStays
       DEF GoToSleep, Leave, PoolInv, TypeOK, PoolAssumption, Threads, Goes, items, InWork
  <2>2. CASE Check(w)
    BY <2>2, OnceStays DEF Check, PoolInv, TypeOK, PoolAssumption, Threads, Goes, InWork
  <2>3. CASE Build(w) \/ Publish(w) \/ Destroy(w)
    BY <2>3, OnceStays
       DEF Build, Publish, Destroy, PoolInv, TypeOK, PoolAssumption, Threads, Goes, InWork
  <2> QED BY <1>7, <2>1, <2>2, <2>3, TakeJobKeepsOnce, StoreKeepsOnce, FinishJobKeepsOnce
     DEF WorkerStep
<1>8. ASSUME NEW t \in Threads, SpuriousWakeup(t) PROVE OnceInv'
  BY <1>8, OnceStays
     DEF SpuriousWakeup, PoolInv, TypeOK, PoolAssumption, Threads, Goes, items, InWork
<1>9. CASE UNCHANGED vars
  BY <1>9, OnceStays DEF vars
<1> QED BY <1>1, <1>2, <1>3, <1>4, <1>5, <1>6, <1>7, <1>8, <1>9 DEF Next, MainStep, Over

LEMMA OnceInit ==
  ASSUME PoolAssumption, Init
  PROVE  OnceInv
<1>1. queue = <<>> /\ start = 0 /\ \A f \in Funcs : ~Queued(f) /\ ~OnItsWay(f)
  BY DEF Init, Queued, OnItsWay, Threads, PoolAssumption, InWork
<1>2. \A f \in Funcs : ~AtWork(f) /\ ~code[f]
  BY DEF Init, AtWork, PoolAssumption
<1>3. QueuedOnce /\ QueuedNew /\ ToPushNew
  BY <1>1, <1>2 DEF Init, QueuedOnce, QueuedNew, ToPushNew, Funcs
<1>4. CallingNew /\ InWorkNew /\ LazyWanted /\ OneWorker
  BY <1>1
     DEF Init, CallingNew, InWorkNew, LazyWanted, OneWorker, Threads, PoolAssumption, InWork,
         Funcs
<1> QED BY <1>3, <1>4 DEF OnceInv

(* One worker for each function, because of either discipline. *)
LEMMA OneWorkerEach == ASSUME Disciplined PROVE Spec => []OneWorker
<1>1. CASE OneGenerator
  <2>1. OneWorker
    BY <1>1 DEF OneGenerator, OneWorker
  <2> QED BY <2>1, PTL
<1>2. CASE DifferentFunctions
  <2>1. Init => OnceInv
    BY OnceInit, PoolAssumption
  <2>2. PoolInv /\ OnceInv /\ [Next]_vars => OnceInv'
    BY <1>2, OnceStep, PoolAssumption
  <2>3. OnceInv => OneWorker
    BY DEF OnceInv
  <2> QED BY <2>1, <2>2, <2>3, PoolInvariant, PTL DEF Spec
<1> QED BY <1>1, <1>2 DEF Disciplined

------------------------------------------------------------------------------
(* A worker alone with its function generates it once. *)

(* A step that leaves alone what is generated and who generates it. *)
LEMMA AloneStays ==
  ASSUME AloneInv, UNCHANGED <<code, generated, assertion>>,
         \A w \in Workers : pc'[w] \in {"build", "publish", "destroy", "store"} =>
           work'[w] = work[w] /\ (pc[w] = pc'[w] \/ (pc[w] = "check" /\ ~code[work[w]])),
         \A w \in Workers : pc[w] \in {"destroy", "store"} => pc'[w] = pc[w] /\ work'[w] = work[w]
  PROVE  AloneInv'
<1>1. BuildsNew'
  BY DEF AloneInv, BuildsNew
<1>2. GeneratedIsStored'
  BY DEF AloneInv, GeneratedIsStored
<1> QED BY <1>1, <1>2 DEF AloneInv, GeneratedOnce, AssertionHolds

LEMMA WorkerAlone ==
  ASSUME PoolAssumption, PoolInv, OneWorker, AloneInv, NEW w \in Workers, WorkerStep(w)
  PROVE  AloneInv'
<1>0. Workers \subseteq Threads /\ w # Main /\ w \notin Apps /\ w \in Threads
  BY DEF Threads, PoolAssumption
<1>1. CASE GoToSleep(w) \/ Leave(w)
  BY <1>0, <1>1, AloneStays DEF GoToSleep, Leave, PoolInv, TypeOK, Goes, items
<1>2. CASE TakeJob(w)
  BY <1>0, <1>2, AloneStays DEF TakeJob, PoolInv, TypeOK, Goes, items
<1>3. CASE Check(w)
  <2>1. work[w] \in Funcs /\ work[w] # NoFunc
    BY <1>3 DEF Check, PoolInv, WorkerOK, Working, InWork, PoolAssumption
  <2>2. ~data[work[w]]
    BY <1>3, <2>1 DEF Check, PoolInv, CodeOK, OneWorker
  <2>3. assertion' = assertion
    BY <1>3, <2>2 DEF Check, AloneInv, AssertionHolds
  <2> QED BY <1>0, <1>3, <2>3, AloneStays DEF Check, PoolInv, TypeOK, Goes
<1>4. CASE Build(w)
  <2>1. BuildsNew' /\ GeneratedIsStored'
    BY <1>0, <1>4 DEF Build, PoolInv, TypeOK, Goes, AloneInv, BuildsNew, GeneratedIsStored
  <2> QED BY <1>4, <2>1 DEF Build, AloneInv, GeneratedOnce, AssertionHolds
<1>5. CASE Publish(w)
  <2>1. /\ work[w] \in Funcs /\ work[w] # NoFunc /\ pc[w] = "publish" /\ pc'[w] = "destroy"
        /\ UNCHANGED <<code, work, assertion>> /\ \A v \in Workers : v # w => pc'[v] = pc[v]
        /\ generated' = [generated EXCEPT ![work[w]] = @ + 1] /\ generated \in [Funcs -> Nat]
    BY <1>0, <1>5 DEF Publish, PoolInv, TypeOK, WorkerOK, Working, InWork, PoolAssumption, Goes
  <2>2. generated[work[w]] = 0
    BY <2>1 DEF AloneInv, BuildsNew, GeneratedIsStored, OneWorker
  <2>3. /\ generated'[work[w]] = 1
        /\ \A f \in Funcs : f # work[w] => generated'[f] = generated[f]
    BY <2>1, <2>2
  <2>4. GeneratedOnce' /\ BuildsNew'
    BY <2>1, <2>3 DEF AloneInv, GeneratedOnce, BuildsNew
  <2>5. GeneratedIsStored'
    BY <2>1, <2>3 DEF AloneInv, GeneratedIsStored
  <2> QED BY <2>1, <2>4, <2>5 DEF AloneInv, AssertionHolds
<1>6. CASE Destroy(w)
  <2>1. BuildsNew' /\ GeneratedIsStored'
    BY <1>0, <1>6 DEF Destroy, PoolInv, TypeOK, Goes, AloneInv, BuildsNew, GeneratedIsStored
  <2> QED BY <1>6, <2>1 DEF Destroy, AloneInv, GeneratedOnce, AssertionHolds
<1>7. CASE Store(w)
  <2>1. /\ work[w] \in Funcs /\ work[w] # NoFunc /\ pc[w] = "store" /\ pc'[w] = "finish"
        /\ UNCHANGED <<work, generated, assertion>> /\ \A v \in Workers : v # w => pc'[v] = pc[v]
        /\ \A g \in Funcs : code'[g] <=> code[g] \/ g = work[w]
    BY <1>0, <1>7
       DEF Store, PoolInv, TypeOK, WorkerOK, Working, InWork, PoolAssumption, Goes, Woken,
                      Waiters
  <2>2. BuildsNew'
    <3>1. ASSUME NEW v \in Workers, pc'[v] \in {"build", "publish", "destroy", "store"}
          PROVE  ~code'[work'[v]]
      <4>1. v # w /\ pc[v] = pc'[v] /\ work[v] \in Funcs
        BY <2>1, <3>1 DEF PoolInv, WorkerOK, Working, InWork
      <4>2. work[v] # work[w]
        BY <2>1, <4>1 DEF OneWorker
      <4> QED BY <2>1, <3>1, <4>1, <4>2 DEF AloneInv, BuildsNew
    <3> QED BY <3>1 DEF BuildsNew
  <2>3. GeneratedIsStored'
    <3>1. ASSUME NEW f \in Funcs, generated[f] # 0, ~code'[f]
          PROVE  \E v \in Workers : work'[v] = f /\ pc'[v] \in {"destroy", "store"}
      <4>1. PICK v \in Workers : work[v] = f /\ pc[v] \in {"destroy", "store"}
        BY <2>1, <3>1 DEF AloneInv, GeneratedIsStored
      <4> QED BY <2>1, <3>1, <4>1
    <3> QED BY <2>1, <3>1 DEF GeneratedIsStored
  <2> QED BY <2>1, <2>2, <2>3 DEF AloneInv, GeneratedOnce, AssertionHolds
<1>8. CASE FinishJob(w)
  <2>1. /\ pc[w] = "finish" /\ pc'[w] = "awake" /\ \A v \in Workers : v # w => pc'[v] = pc[v]
        /\ \A v \in Workers : v # w => work'[v] = work[v]
    <3>1. SignalOne(Goes(w, "awake"), Waiters) /\ work' = [work EXCEPT ![w] = NoFunc] /\ pc[w] = "finish"
      BY <1>8 DEF FinishJob
    <3>2. CASE \E u \in Waiters : Goes(w, "awake")[u] = "asleep"
      <4>1. PICK u \in Waiters : pc' = [Goes(w, "awake") EXCEPT ![u] = "awake"]
        BY <3>1, <3>2 DEF SignalOne
      <4> QED BY <1>0, <3>1, <4>1 DEF Goes, PoolInv, TypeOK, Waiters, PoolAssumption
    <3>3. CASE \A u \in Waiters : Goes(w, "awake")[u] # "asleep"
      BY <1>0, <3>1, <3>3 DEF SignalOne, Goes, PoolInv, TypeOK
    <3> QED BY <3>2, <3>3
  <2> QED BY <1>8, <2>1, AloneStays DEF FinishJob, items
<1> QED BY <1>1, <1>2, <1>3, <1>4, <1>5, <1>6, <1>7, <1>8 DEF WorkerStep

LEMMA AloneStep ==
  ASSUME PoolAssumption, PoolInv, OneWorker, AloneInv, [Next]_vars
  PROVE  AloneInv'
<1>1. CASE MainStep
  <2> USE DEF PoolInv, TypeOK, PoolAssumption, Threads, Goes, Woken, items
  <2>1. ASSUME NEW w \in Workers, CreateThread(w) PROVE AloneInv'
    BY <2>1, AloneStays DEF CreateThread
  <2>2. CASE CreateFails \/ Finish
    <3>1. /\ UNCHANGED <<code, generated, assertion, work>>
          /\ \A w \in Workers : pc'[w] = pc[w] \/ (pc[w] = "asleep" /\ pc'[w] = "awake")
      BY <2>2 DEF CreateFails, Finish
    <3> QED BY <3>1, AloneStays
  <2>3. CASE LinkLazy
    BY <2>3, AloneStays DEF LinkLazy
  <2>4. ASSUME NEW f \in ParallelFuncs, PushParallel(f) PROVE AloneInv'
    BY <2>4, AloneStays DEF PushParallel
  <2>5. CASE WaitForLink \/ Join
    BY <2>5, AloneStays DEF WaitForLink, Join
  <2> QED BY <1>1, <2>1, <2>2, <2>3, <2>4, <2>5 DEF MainStep
<1>2. ASSUME NEW a \in Apps, AppStep(a) PROVE AloneInv'
  <2>1. CASE WaitForCode(a)
    BY <2>1, AloneStays DEF WaitForCode, PoolInv, TypeOK, PoolAssumption, Threads, Goes, items
  <2> QED BY <1>2, <2>1, AloneStays
     DEF AppStep, Call, Request, Exit, PoolInv, TypeOK, PoolAssumption, Threads, Goes, Woken, items
<1>3. ASSUME NEW t \in Threads, SpuriousWakeup(t) PROVE AloneInv'
  BY <1>3, AloneStays DEF SpuriousWakeup, PoolInv, TypeOK, Goes, items, Threads
<1>4. CASE UNCHANGED vars
  BY <1>4, AloneStays DEF vars
<1> QED BY <1>1, <1>2, <1>3, <1>4, WorkerAlone DEF Next, Over

LEMMA AloneInvariant == ASSUME Disciplined PROVE Spec => []AloneInv
<1>1. Init => AloneInv
  BY PoolAssumption
     DEF Init, AloneInv, BuildsNew, GeneratedIsStored, GeneratedOnce, AssertionHolds,
                        Threads
<1>2. PoolInv /\ OneWorker /\ AloneInv /\ [Next]_vars => AloneInv'
  BY AloneStep, PoolAssumption
<1> QED BY <1>1, <1>2, OneWorkerEach, PoolInvariant, PTL DEF Spec

(* With one worker, or with callers of different functions, the assertion at   *)
(* the entry of MIR_gen holds, for any number of functions and threads.         *)
THEOREM AssertionSafe == ASSUME Disciplined PROVE Spec => []AssertionHolds
<1>1. AloneInv => AssertionHolds
  BY DEF AloneInv
<1> QED BY <1>1, AloneInvariant, PTL

(* And no function is generated twice. *)
THEOREM OneGeneration == ASSUME Disciplined PROVE Spec => []GeneratedOnce
<1>1. AloneInv => GeneratedOnce
  BY DEF AloneInv
<1> QED BY <1>1, AloneInvariant, PTL

------------------------------------------------------------------------------
(* The queue implements a FIFO queue: what is pending is the part of the array     *)
(* behind its start, which compaction moves as a whole.                           *)
Cells == Funcs \cup {Stop}

LEMMA BehindFacts ==
  ASSUME NEW S, NEW q \in Seq(S), NEW s \in 0 .. Len(q)
  PROVE  /\ SubSeq(q, s + 1, Len(q)) \in Seq(S)
         /\ Len(SubSeq(q, s + 1, Len(q))) = Len(q) - s
         /\ \A i \in 1 .. Len(q) - s :
              SubSeq(q, s + 1, Len(q))[i] = q[s + i] /\ s + i \in 1 .. Len(q)
<1>1. Len(q) \in Nat /\ s \in Nat /\ s <= Len(q) /\ \A i \in 1 .. Len(q) : q[i] \in S
  BY LenProperties, ElementOfSeq
<1>2. \A i \in s + 1 .. Len(q) : q[i] \in S
  BY <1>1
<1>3. s + 1 \in Int /\ Len(q) \in Int
  BY <1>1
<1> DEFINE B == SubSeq(q, s + 1, Len(q))
<1>4. /\ B \in Seq(S)
      /\ Len(B) = IF s + 1 <= Len(q) THEN Len(q) - (s + 1) + 1 ELSE 0
      /\ \A i \in 1 .. Len(q) - (s + 1) + 1 : B[i] = q[(s + 1) + i - 1]
  BY <1>2, <1>3, SubSeqProperties
<1> HIDE DEF B
<1>5. Len(B) = Len(q) - s
  BY <1>1, <1>4
<1>6. ASSUME NEW i \in 1 .. Len(q) - s PROVE B[i] = q[s + i] /\ s + i \in 1 .. Len(q)
  <2>1. i \in 1 .. Len(q) - (s + 1) + 1 /\ (s + 1) + i - 1 = s + i
    BY <1>1
  <2>2. B[i] = q[s + i]
    BY <1>4, <2>1
  <2> QED BY <1>1, <2>2
<1> QED BY <1>4, <1>5, <1>6 DEF B

(* What is behind the start, in this state and in the next.                     *)
LEMMA PendingFacts ==
  ASSUME TypeOK
  PROVE  /\ Pending \in Seq(Cells) /\ Len(Pending) = Len(queue) - start /\ Len(Pending) \in Nat
         /\ \A i \in 1 .. Len(Pending) : Pending[i] = queue[start + i] /\ start + i \in 1 .. Len(queue)
<1>1. queue \in Seq(Cells) /\ start \in 0 .. Len(queue)
  BY DEF TypeOK, Cells
<1>2. /\ Pending \in Seq(Cells) /\ Len(Pending) = Len(queue) - start
      /\ \A i \in 1 .. Len(queue) - start :
           Pending[i] = queue[start + i] /\ start + i \in 1 .. Len(queue)
  BY <1>1, BehindFacts DEF Pending
<1>3. Len(Pending) \in Nat
  BY <1>2, LenProperties
<1> QED BY <1>2, <1>3

LEMMA NextPendingFacts ==
  ASSUME TypeOK'
  PROVE  /\ Pending' \in Seq(Cells) /\ Len(Pending') = Len(queue') - start' /\ Len(Pending') \in Nat
         /\ \A i \in 1 .. Len(Pending') :
              Pending'[i] = queue'[start' + i] /\ start' + i \in 1 .. Len(queue')
<1>1. queue' \in Seq(Cells) /\ start' \in 0 .. Len(queue')
  BY DEF TypeOK, Cells
<1>2. Pending' = SubSeq(queue', start' + 1, Len(queue'))
  BY DEF Pending
<1>3. /\ Pending' \in Seq(Cells) /\ Len(Pending') = Len(queue') - start'
      /\ \A i \in 1 .. Len(queue') - start' :
           Pending'[i] = queue'[start' + i] /\ start' + i \in 1 .. Len(queue')
  BY <1>1, <1>2, BehindFacts
<1>4. Len(Pending') \in Nat
  BY <1>3, LenProperties
<1> QED BY <1>3, <1>4

LEMMA PushedPending ==
  ASSUME TypeOK, TypeOK', NEW f \in Funcs, Push(f), start' = start
  PROVE  Pending' = Append(Pending, f)
<1>1. /\ Len(queue') = Len(queue) + 1 /\ Len(queue) \in Nat /\ start \in Nat /\ start <= Len(queue)
      /\ \A i \in 1 .. Len(queue) : queue'[i] = queue[i]
      /\ queue'[Len(queue) + 1] = f
  BY PushQueues DEF TypeOK
<1>2. /\ Pending \in Seq(Cells) /\ Len(Pending) = Len(queue) - start /\ Len(Pending) \in Nat
      /\ \A i \in 1 .. Len(Pending) : Pending[i] = queue[start + i] /\ start + i \in 1 .. Len(queue)
  BY PendingFacts
<1>3. /\ Pending' \in Seq(Cells) /\ Len(Pending') = Len(queue') - start /\ Len(Pending') \in Nat
      /\ \A i \in 1 .. Len(Pending') : Pending'[i] = queue'[start + i]
  BY NextPendingFacts
<1>4. f \in Cells
  BY DEF Cells
<1>5. /\ Append(Pending, f) \in Seq(Cells) /\ Len(Append(Pending, f)) = Len(Pending) + 1
      /\ \A i \in 1 .. Len(Pending) : Append(Pending, f)[i] = Pending[i]
      /\ Append(Pending, f)[Len(Pending) + 1] = f
  BY <1>2, <1>4, AppendProperties
<1>6. Len(Pending') = Len(Append(Pending, f))
  BY <1>1, <1>2, <1>3, <1>5
<1>7. ASSUME NEW i \in 1 .. Len(Pending') PROVE Pending'[i] = Append(Pending, f)[i]
  <2>1. CASE i \in 1 .. Len(Pending)
    BY <1>1, <1>2, <1>3, <1>5, <2>1
  <2>2. CASE i = Len(Pending) + 1
    <3>1. start + i = Len(queue) + 1
      BY <1>1, <1>2, <2>2
    <3> QED BY <1>1, <1>3, <1>5, <2>2, <3>1
  <2>3. i \in 1 .. Len(Pending) \/ i = Len(Pending) + 1
    BY <1>2, <1>5, <1>6
  <2> QED BY <2>1, <2>2, <2>3
<1> QED BY <1>3, <1>5, <1>6, <1>7, SeqEqual

LEMMA RestBehind ==
  ASSUME NEW S, NEW q \in Seq(S), NEW s \in 0 .. Len(q), s + 1 <= Len(q),
         NEW r \in Seq(S), NEW t \in 0 .. Len(r), NEW d \in Nat, LeftOver(q, s + 1, r, t, d)
  PROVE  /\ SubSeq(q, s + 1, Len(q)) # <<>>
         /\ Head(SubSeq(q, s + 1, Len(q))) = q[s + 1]
         /\ SubSeq(r, t + 1, Len(r)) = Tail(SubSeq(q, s + 1, Len(q)))
<1> DEFINE B == SubSeq(q, s + 1, Len(q))
<1> DEFINE C == SubSeq(r, t + 1, Len(r))
<1>1. /\ B \in Seq(S) /\ Len(B) = Len(q) - s
      /\ \A i \in 1 .. Len(q) - s : B[i] = q[s + i] /\ s + i \in 1 .. Len(q)
  BY BehindFacts
<1>2. /\ C \in Seq(S) /\ Len(C) = Len(r) - t
      /\ \A i \in 1 .. Len(r) - t : C[i] = r[t + i] /\ t + i \in 1 .. Len(r)
  BY BehindFacts
<1> HIDE DEF B, C
<1>3. Len(q) \in Nat /\ Len(r) \in Nat /\ s \in Nat /\ t \in Nat
  BY LenProperties
<1>4. s + 1 = t + d /\ Len(q) = Len(r) + d /\ \A i \in 1 .. Len(r) : r[i] = q[i + d]
  BY DEF LeftOver
<1>5. B # <<>>
  BY <1>1, <1>3, EmptySeq
<1>6. /\ Tail(B) \in Seq(S) /\ Len(Tail(B)) = Len(B) - 1 /\ Head(B) = B[1]
      /\ \A i \in 1 .. Len(Tail(B)) : Tail(B)[i] = B[i + 1]
  BY <1>1, <1>5, HeadTailProperties
<1>7. Head(B) = q[s + 1]
  BY <1>1, <1>3, <1>6
<1>8. Len(C) = Len(Tail(B)) /\ Len(C) = Len(q) - (s + 1)
  <2>1. Len(C) = Len(r) - t /\ Len(Tail(B)) = (Len(q) - s) - 1
    BY <1>1, <1>2, <1>6
  <2>2. Len(r) - t = Len(q) - (s + 1)
    <3>1. Len(q) - (s + 1) = (Len(r) + d) - (t + d)
      BY <1>4
    <3>2. (Len(r) + d) - (t + d) = Len(r) - t
      BY <1>3
    <3> QED BY <3>1, <3>2
  <2> QED BY <1>3, <2>1, <2>2
<1>9. ASSUME NEW i \in 1 .. Len(C) PROVE C[i] = Tail(B)[i]
  <2>1. i \in Nat /\ i \in 1 .. Len(r) - t /\ i + 1 \in 1 .. Len(q) - s
    BY <1>2, <1>3, <1>8
  <2>2. C[i] = q[(t + i) + d] /\ B[i + 1] = q[s + (i + 1)]
    BY <1>1, <1>2, <1>4, <2>1
  <2>3. (t + i) + d = s + (i + 1)
    <3>1. (t + i) + d = (t + d) + i /\ s + (i + 1) = (s + 1) + i
      BY <1>3, <2>1
    <3> QED BY <1>4, <3>1
  <2> QED BY <1>6, <1>8, <2>2, <2>3
<1>10. C = Tail(B)
  BY <1>2, <1>6, <1>8, <1>9, SeqEqual
<1> QED BY <1>5, <1>7, <1>10 DEF B, C

LEMMA TakenPending ==
  ASSUME TypeOK, TypeOK', ~Idle, Compacted(queue, start + 1)
  PROVE  Pending # <<>> /\ Head(Pending) = queue[start + 1] /\ Pending' = Tail(Pending)
<1>1. PICK d \in Nat : LeftOver(queue, start + 1, queue', start', d)
  BY TakeDequeues
<1>2. /\ queue \in Seq(Cells) /\ start \in 0 .. Len(queue)
      /\ queue' \in Seq(Cells) /\ start' \in 0 .. Len(queue')
  BY DEF TypeOK, Cells
<1>3. start + 1 <= Len(queue)
  BY <1>2, LenProperties DEF Idle
<1>4. Pending' = SubSeq(queue', start' + 1, Len(queue'))
  BY DEF Pending
<1> QED BY <1>1, <1>2, <1>3, <1>4, RestBehind DEF Pending

LEMMA FinishedPending ==
  ASSUME SignalFinish
  PROVE  Pending' = <<Stop>>
<1>1. queue' = <<Stop>> /\ start' = 0 /\ Len(queue') = 1
  BY DEF SignalFinish
<1>2. queue' \in Seq({Stop}) /\ start' \in 0 .. Len(queue')
  BY <1>1
<1>3. Pending' = SubSeq(queue', start' + 1, Len(queue'))
  BY DEF Pending
<1>4. /\ Pending' \in Seq({Stop}) /\ Len(Pending') = 1
      /\ \A i \in 1 .. 1 : Pending'[i] = Stop
  <2>1. /\ Pending' \in Seq({Stop}) /\ Len(Pending') = Len(queue') - start'
        /\ \A i \in 1 .. Len(queue') - start' : Pending'[i] = queue'[start' + i]
    BY <1>2, <1>3, BehindFacts
  <2> QED BY <1>1, <2>1
<1>5. /\ <<Stop>> \in Seq({Stop}) /\ Len(<<Stop>>) = 1 /\ \A i \in 1 .. 1 : <<Stop>>[i] = Stop
  OBVIOUS
<1> QED BY <1>4, <1>5, SeqEqual

(* Functions are pushed only while there is no end mark.                        *)
LEMMA PushedBeforeEnd ==
  ASSUME PoolInv, PoolInv', NEW f \in Funcs, Push(f), start' = start, ~Ended
  PROVE  AbstractQueue!Put(f)
<1>1. Pending' = Append(Pending, f)
  BY PushedPending DEF PoolInv
<1>2. DOMAIN Pending = 1 .. Len(Pending)
  BY PendingFacts, LenProperties DEF PoolInv
<1>3. \A i \in DOMAIN Pending : Pending[i] # Stop
  BY <1>2, PendingFacts DEF PoolInv, PhaseOK
<1> QED BY <1>1, <1>3 DEF AbstractQueue!Put, AbstractQueue!Closed

LEMMA QueueStep ==
  ASSUME PoolAssumption, PoolInv, PoolInv', [Next]_vars
  PROVE  [AbstractQueue!Next]_Pending
<1>1. ASSUME NEW f \in ParallelFuncs, PushParallel(f) PROVE AbstractQueue!Put(f)
  <2>1. f \in Funcs /\ Push(f) /\ start' = start /\ ~Ended
    BY <1>1 DEF PushParallel, Funcs, Ended
  <2> QED BY <2>1, PushedBeforeEnd
<1>2. ASSUME NEW a \in Apps, Request(a) PROVE work[a] \in Funcs /\ AbstractQueue!Put(work[a])
  <2>1. work[a] \in Funcs
    BY <1>2 DEF Request, PoolInv, AppOK, PoolAssumption, Funcs
  <2>2. ~Ended
    BY <1>2 DEF Request, PoolInv, PhaseOK, Ended
  <2>3. Push(work[a]) /\ start' = start
    BY <1>2 DEF Request
  <2> QED BY <2>1, <2>2, <2>3, PushedBeforeEnd
<1>3. ASSUME NEW w \in Workers, TakeJob(w) PROVE AbstractQueue!Take
  <2>1. ~Idle /\ queue[start + 1] # Stop /\ Compacted(queue, start + 1)
    BY <1>3 DEF TakeJob
  <2>2. Pending # <<>> /\ Head(Pending) = queue[start + 1] /\ Pending' = Tail(Pending)
    BY <2>1, TakenPending DEF PoolInv
  <2> QED BY <2>1, <2>2 DEF AbstractQueue!Take
<1>4. CASE CreateFails \/ Finish
  <2>1. Pending' = <<Stop>>
    BY <1>4, FinishedPending DEF CreateFails, Finish
  <2>2. pc[Main] \in {"init", "linked"}
    BY <1>4 DEF CreateFails, Finish
  <2>3. \A i \in 1 .. Len(queue) : queue[i] # Stop
    BY <2>2 DEF PoolInv, PhaseOK, Ended
  <2>4. DOMAIN Pending = 1 .. Len(Pending)
    BY PendingFacts, LenProperties DEF PoolInv
  <2>5. \A i \in DOMAIN Pending : Pending[i] # Stop
    BY <2>3, <2>4, PendingFacts DEF PoolInv
  <2> QED BY <2>1, <2>5 DEF AbstractQueue!Close, AbstractQueue!Closed, AbstractQueue!Next
<1>5. CASE UNCHANGED <<queue, start>>
  BY <1>5 DEF Pending
<1>6. \/ \E f \in ParallelFuncs : PushParallel(f)
      \/ \E a \in Apps : Request(a)
      \/ \E w \in Workers : TakeJob(w)
      \/ CreateFails \/ Finish \/ UNCHANGED <<queue, start>>
  BY DEF Next, vars, MainStep, AppStep, WorkerStep, CreateThread, LinkLazy, WaitForLink, Join, Call,
     WaitForCode, Exit, GoToSleep, Leave, Check, Build, Publish, Destroy, Store, FinishJob,
     SpuriousWakeup, Over
<1>7. (\E f \in Funcs : AbstractQueue!Put(f)) \/ AbstractQueue!Take => AbstractQueue!Next
  BY DEF AbstractQueue!Next
<1> QED BY <1>1, <1>2, <1>3, <1>4, <1>5, <1>6, <1>7 DEF Funcs

(* The array with its start, which compaction moves, is a FIFO queue: the functions *)
(* are taken in the order they were pushed, each of them once, and the end mark     *)
(* replaces what is left.                                                         *)
THEOREM QueueIsFifo == Spec => ImplementsQueue
<1>1. Init => AbstractQueue!Init
  <2> SUFFICES ASSUME Init PROVE Pending = <<>>
    BY DEF AbstractQueue!Init
  <2>1. queue = <<>> /\ start = 0 /\ Len(queue) = 0
    BY EmptySeq DEF Init
  <2> QED BY <2>1, SubSeqEmpty DEF Pending
<1>2. PoolInv /\ PoolInv' /\ [Next]_vars => [AbstractQueue!Next]_Pending
  BY QueueStep, PoolAssumption
<1> QED BY <1>1, <1>2, PoolInvariant, PTL DEF Spec, ImplementsQueue, AbstractQueue!Spec
==============================================================================
