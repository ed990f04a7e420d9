------------------------------ MODULE MapPromise ------------------------------
(****************************************************************************)
(* What the users of HTAB rely on: a set of elements with different keys, and *)
(* to the call that was made the one answer that the set determines.          *)
(* HashTable implements it with open addressing.                               *)
(****************************************************************************)
EXTENDS FiniteSets

CONSTANTS Keys, Vals, NoElement, Idle

VARIABLES
  contents,  \* the elements of the table
  op,        \* the call that is being worked on, Idle between the calls
  reply      \* what the last call gave back

Element == [key : Keys, val : Vals]
Actions == {"find", "insert", "replace", "delete", "clear"}

(* The answer to a call: whether there was an element with the key, the value *)
(* of *res, what was given to free_func, and els_num behind it.                *)
Answer(found, res, freed, count) ==
  [found |-> found, res |-> res, freed |-> freed, count |-> count]

With(k) == {e \in contents : e.key = k}

Init == contents = {} /\ op = Idle /\ reply = Answer(FALSE, NoElement, {}, 0)

Call(action, e) ==
  /\ op = Idle
  /\ op' = [action |-> action, el |-> e]
  /\ UNCHANGED <<contents, reply>>

(* The end of the call that was made. *)
Return(action) == op # Idle /\ op.action = action /\ op' = Idle

Find ==
  /\ Return("find")
  /\ contents' = contents
  /\ \/ /\ With(op.el.key) = {}
        /\ reply' = Answer(FALSE, NoElement, {}, Cardinality(contents))
     \/ \E e \in With(op.el.key) : reply' = Answer(TRUE, e, {}, Cardinality(contents))

(* An insertion keeps the element that is there. *)
Insert ==
  /\ Return("insert")
  /\ \/ /\ With(op.el.key) = {}
        /\ contents' = contents \cup {op.el}
        /\ reply' = Answer(FALSE, op.el, {}, Cardinality(contents'))
     \/ \E old \in With(op.el.key) :
          /\ contents' = contents
          /\ reply' = Answer(TRUE, old, {}, Cardinality(contents))

Replace ==
  /\ Return("replace")
  /\ contents' = (contents \ With(op.el.key)) \cup {op.el}
  /\ reply' = Answer(With(op.el.key) # {}, op.el, With(op.el.key), Cardinality(contents'))

Delete ==
  /\ Return("delete")
  /\ contents' = contents \ With(op.el.key)
  /\ reply' = Answer(With(op.el.key) # {}, NoElement, With(op.el.key), Cardinality(contents'))

Clear ==
  /\ Return("clear")
  /\ contents' = {}
  /\ reply' = Answer(FALSE, NoElement, contents, 0)

Next ==
  \/ \E action \in Actions, e \in Element : Call(action, e)
  \/ Find \/ Insert \/ Replace \/ Delete \/ Clear

Spec == Init /\ [][Next]_<<contents, op, reply>>
==============================================================================
