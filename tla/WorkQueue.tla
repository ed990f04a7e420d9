------------------------------- MODULE WorkQueue -------------------------------
(****************************************************************************)
(* The work queue of a pool of threads, without threads: jobs are taken in    *)
(* the order they were put, each by one worker, and after the end mark Stop    *)
(* nothing is put any more and no second mark; every worker may see the mark.    *)
(****************************************************************************)
EXTENDS Sequences

CONSTANTS Jobs, Stop

VARIABLES pending

Init == pending = <<>>

Closed == \E i \in DOMAIN pending : pending[i] = Stop

Put(job) == ~Closed /\ pending' = Append(pending, job)

Take == pending # <<>> /\ Head(pending) # Stop /\ pending' = Tail(pending)

(* The end, once: after what is pending, or instead of it. *)
Close == ~Closed /\ pending' \in {Append(pending, Stop), <<Stop>>}

Next == (\E job \in Jobs : Put(job)) \/ Take \/ Close

Spec == Init /\ [][Next]_pending
==============================================================================
