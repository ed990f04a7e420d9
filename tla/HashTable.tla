------------------------------- MODULE HashTable -------------------------------
(****************************************************************************)
(* The hash table behind the symbol, macro, item and register tables of MIR  *)
(* and c2mir (mir-htab.h): open addressing over an array of entries that      *)
(* refer to an array of elements in the order of their insertion. A deleted   *)
(* element leaves a mark in both arrays until the table grows; then the        *)
(* elements are inserted anew, in place.                                       *)
(*                                                                          *)
(* A call is cut into the steps of its rebuild; indices of elements begin     *)
(* with 1.                                                                    *)
(****************************************************************************)
EXTENDS Integers, Sequences, FiniteSets

CONSTANTS
  Keys,      \* what eq_func compares
  Vals,      \* the rest of an element
  Hash,      \* key -> the value of hash_func
  Sizes,     \* bound: the lengths that entries may get
  MinSize,   \* the length of entries at the start
  Gone,      \* an element whose hash is HTAB_DELETED_HASH
  NoElement, \* *res when a call leaves it alone
  Idle       \* no call

Empty == -1    \* HTAB_EMPTY_IND
Deleted == -2  \* HTAB_DELETED_IND

Element == [key : Keys, val : Vals]

(* 0 marks deleted elements. *)
HashOf(k) == IF Hash[k] = 0 THEN 1 ELSE Hash[k]

(* peterb, 11 bits shorter with each step, and the slot that is looked at. *)
Peterb[k \in Keys, n \in Nat] ==
  IF n = 0 THEN HashOf(k) ELSE Peterb[k, n - 1] \div 2048

Probe[k \in Keys, length \in Sizes, n \in Nat] ==
  IF n = 0 THEN HashOf(k) % length
  ELSE (5 * Probe[k, length, n - 1] + Peterb[k, n] + 1) % length

(* After three steps nothing is left of the hash, and the rest is a cycle. *)
Path ==
  [k \in Keys |->
    [length \in Sizes |-> [n \in 0 .. length + 2 |-> Probe[k, length, n]]]]

Actions == {"find", "insert", "replace", "delete", "clear"}

Operation == [action : Actions, el : Element]

ASSUME TableAssumption ==
  /\ Hash \in [Keys -> Nat]
  /\ Sizes \subseteq Nat /\ MinSize \in Sizes
  /\ \A length \in Sizes : length >= 4 /\ length % 2 = 0
  /\ Gone \notin Element /\ NoElement \notin Element /\ Idle \notin Operation

(* The path of a key leads through every slot: for the powers of 2 that the   *)
(* code uses, which TLC confirms for the sizes of a run.                       *)
ASSUME PathAssumption ==
  \A k \in Keys, length \in Sizes :
    {Path[k][length][n] : n \in 0 .. length + 2} = 0 .. length - 1

VARIABLES
  entries,  \* slot -> the index of an element, Empty or Deleted
  size,     \* the length of entries, twice that of els
  els,      \* the elements up to els_bound, during a rebuild up to the old one
  bound,    \* els_bound
  elsNum,   \* els_num
  scan,     \* the element that the rebuild is at, 0 without a rebuild
  op,       \* the call that is being worked on
  reply     \* what the last call gave back

vars == <<entries, size, els, bound, elsNum, scan, op, reply>>

Answer(found, res, freed, count) ==
  [found |-> found, res |-> res, freed |-> freed, count |-> count]

Init ==
  /\ size = MinSize
  /\ entries = [i \in 0 .. size - 1 |-> Empty]
  /\ els = <<>>
  /\ bound = 0
  /\ elsNum = 0
  /\ scan = 0
  /\ op = Idle
  /\ reply = Answer(FALSE, NoElement, {}, 0)

------------------------------------------------------------------------------
(* The search. *)

Entry(k, n) == entries[Path[k][size][n]]

(* Mutant: a deleted slot ends the search. *)
StopsAtDeleted(k, n) ==
  \/ Entry(k, n) < 0
  \/ Entry(k, n) > 0 /\ els[Entry(k, n)].key = k

(* It goes past deleted slots and other keys. *)
Stops(k, n) ==
  \/ Entry(k, n) = Empty
  \/ Entry(k, n) > 0 /\ els[Entry(k, n)].key = k

(* How far the search goes for a key. *)
Steps(k) ==
  CHOOSE n \in 0 .. size + 2 : Stops(k, n) /\ \A m \in 0 .. n - 1 : ~Stops(k, m)

Index(k) == Entry(k, Steps(k))

Found(k) == Index(k) > 0

(* An insertion takes the LAST deleted slot that the search has passed,       *)
(* though its variable is called first_deleted_entry.                          *)
FreeSlot(k) ==
  LET passed == {n \in 0 .. Steps(k) - 1 : Entry(k, n) = Deleted}
  IN IF passed = {} THEN Path[k][size][Steps(k)]
     ELSE Path[k][size][CHOOSE n \in passed : \A m \in passed : m <= n]

------------------------------------------------------------------------------
(* A call grows the table first, if it may insert and els is full.            *)
(* Mutant: the marks of deleted elements are not counted. *)
FullOfLive == elsNum = size \div 2

Full == Len(els) = size \div 2

NeedsRoom == op # Idle /\ op.action \in {"insert", "replace"} /\ Full

Call(action, e) ==
  /\ op = Idle
  /\ action \in {"insert", "replace"} /\ Full => 2 * size \in Sizes
  /\ op' = [action |-> action, el |-> e]
  /\ UNCHANGED <<entries, size, els, bound, elsNum, scan, reply>>

Grow ==
  /\ NeedsRoom
  /\ scan = 0
  /\ size' = 2 * size
  /\ entries' = [i \in 0 .. 2 * size - 1 |-> Empty]
  /\ bound' = 0
  /\ elsNum' = 0
  /\ scan' = 1
  /\ UNCHANGED <<els, op, reply>>

(* The branch of an insertion that finds no element with the key. *)
Store(e) ==
  /\ entries' = [entries EXCEPT ![FreeSlot(e.key)] = bound + 1]
  /\ els' = IF bound < Len(els) THEN [els EXCEPT ![bound + 1] = e] ELSE Append(els, e)
  /\ bound' = bound + 1
  /\ elsNum' = elsNum + 1

Keep == UNCHANGED <<entries, els, bound, elsNum>>

(* The next element of the old table: the slots of els behind bound are read, *)
(* those up to bound are written.                                              *)
Reinsert ==
  /\ scan \in 1 .. Len(els)
  /\ scan' = scan + 1
  /\ IF els[scan] = Gone \/ Found(els[scan].key) THEN Keep ELSE Store(els[scan])
  /\ UNCHANGED <<size, op, reply>>

EndRebuild ==
  /\ scan > Len(els)
  /\ scan' = 0
  /\ els' = SubSeq(els, 1, bound)
  /\ UNCHANGED <<entries, size, bound, elsNum, op, reply>>

(* The rest of the call. *)
Ready(action) == op # Idle /\ op.action = action /\ scan = 0 /\ ~NeedsRoom

Old == els[Index(op.el.key)]

Find ==
  /\ Ready("find")
  /\ Keep
  /\ reply' = Answer(Found(op.el.key), IF Found(op.el.key) THEN Old ELSE NoElement,
                     {}, elsNum)

Insert ==
  /\ Ready("insert")
  /\ IF Found(op.el.key)
     THEN Keep /\ reply' = Answer(TRUE, Old, {}, elsNum)
     ELSE Store(op.el) /\ reply' = Answer(FALSE, op.el, {}, elsNum + 1)

Replace ==
  /\ Ready("replace")
  /\ IF Found(op.el.key)
     THEN /\ els' = [els EXCEPT ![Index(op.el.key)] = op.el]
          /\ reply' = Answer(TRUE, op.el, {Old}, elsNum)
          /\ UNCHANGED <<entries, bound, elsNum>>
     ELSE Store(op.el) /\ reply' = Answer(FALSE, op.el, {}, elsNum + 1)

(* Mutant: the entry still refers to the element. *)
RemoveKeepsEntry(k) ==
  /\ UNCHANGED entries
  /\ els' = [els EXCEPT ![Index(k)] = Gone]
  /\ elsNum' = elsNum - 1
  /\ UNCHANGED bound

Remove(k) ==
  /\ entries' = [entries EXCEPT ![Path[k][size][Steps(k)]] = Deleted]
  /\ els' = [els EXCEPT ![Index(k)] = Gone]
  /\ elsNum' = elsNum - 1
  /\ UNCHANGED bound

Delete ==
  /\ Ready("delete")
  /\ IF Found(op.el.key)
     THEN Remove(op.el.key) /\ reply' = Answer(TRUE, NoElement, {Old}, elsNum - 1)
     ELSE Keep /\ reply' = Answer(FALSE, NoElement, {}, elsNum)

(* HTAB_CLEAR keeps the size. *)
Clear ==
  /\ Ready("clear")
  /\ entries' = [i \in 0 .. size - 1 |-> Empty]
  /\ els' = <<>>
  /\ bound' = 0
  /\ elsNum' = 0
  /\ reply' = Answer(FALSE, NoElement, {els[i] : i \in 1 .. bound} \ {Gone}, 0)

Return == (Find \/ Insert \/ Replace \/ Delete \/ Clear) /\ op' = Idle /\ UNCHANGED <<size, scan>>

Next ==
  \/ \E action \in Actions, e \in Element : Call(action, e)
  \/ Grow
  \/ Reinsert
  \/ EndRebuild
  \/ Return

Spec == Init /\ [][Next]_vars

------------------------------------------------------------------------------
(* No search goes on for ever: whatever was inserted and deleted before, the   *)
(* path of every key leads to an empty entry or to the key (the loop without an *)
(* end at mir-htab.h:180). Deleted elements leave entries that are not empty,   *)
(* and only the growth, which counts them, removes them.                        *)
SearchEnds ==
  \A k \in Keys : \E n \in 0 .. size + 2 : Entry(k, n) = Empty

(* The two arrays agree: each element that was inserted and not deleted has one *)
(* entry; deleted ones and the rest of the old array during a rebuild have none. *)
EntriesExact ==
  /\ \A s \in 0 .. size - 1 :
       entries[s] > 0 => entries[s] <= bound /\ els[entries[s]] # Gone
  /\ \A s, t \in 0 .. size - 1 : entries[s] = entries[t] /\ entries[s] > 0 => s = t
  /\ \A i \in 1 .. bound : els[i] # Gone => \E s \in 0 .. size - 1 : entries[s] = i

(* The elements of the table; during a rebuild also those still to be inserted. *)
LiveIndices ==
  {i \in 1 .. Len(els) : els[i] # Gone /\ (i <= bound \/ (scan # 0 /\ i >= scan))}

Live == {els[i] : i \in LiveIndices}

(* Every call answers as a set of elements with different keys answers to that  *)
(* call with that key (the promise sees op), gives each element that leaves the  *)
(* table to free_func once, and counts right; the rebuild and its recursive      *)
(* calls are invisible.                                                          *)
Promise == INSTANCE MapPromise WITH contents <- Live
ImplementsMap == Promise!Spec
==============================================================================
