------------------------------ MODULE HeapPromise ------------------------------
(****************************************************************************)
(* What a C program may rely on when it calls malloc, calloc, realloc and    *)
(* free, and when it uses the address of a string literal: allocations with   *)
(* contents of their own, that no call changes behind the program's back. The *)
(* call is visible: each has to do what this call promises, and no other.      *)
(* RuntimeHeap implements it with a map of blocks over one byte array.         *)
(****************************************************************************)
EXTENDS Integers

CONSTANTS
  Addresses,    \* where an allocation can start
  RequestSizes, \* the sizes the program asks for
  ByteValues,   \* the contents of a byte
  Strings,      \* the literals
  StrLen        \* their lengths

VARIABLES
  allocated,  \* pointer -> contents, a function on 0 .. size - 1
  literals,   \* literal -> address
  called      \* the last call of the program, with its arguments

promised == <<allocated, literals, called>>

Called(call, args) == [call |-> call, args |-> args]

Span(start, size) == start .. (start + size - 1)

InUse == (UNION {{p + i : i \in DOMAIN allocated[p]} : p \in DOMAIN allocated})
         \cup (UNION {Span(literals[s], StrLen[s] + 1) : s \in DOMAIN literals})

(* p can be given out: it is not a pointer in use, and neither are its bytes. *)
Available(p, size) ==
  /\ p \in Addresses
  /\ p \notin DOMAIN allocated
  /\ Span(p, size) \cap InUse = {}

With(map, key, value) ==
  [k \in (DOMAIN map) \cup {key} |-> IF k = key THEN value ELSE map[k]]

Without(map, key) == [k \in (DOMAIN map) \ {key} |-> map[k]]

Init ==
  /\ allocated = [p \in {} |-> 0]
  /\ literals = [s \in {} |-> 0]
  /\ called = Called("main", <<>>)

(* The contents of a new allocation are whatever was there. *)
Malloc(p, size) ==
  /\ called' = Called("malloc", <<size>>)
  /\ Available(p, size)
  /\ \E contents \in [0 .. (size - 1) -> ByteValues] :
       allocated' = With(allocated, p, contents)
  /\ UNCHANGED literals

Calloc(p, count, size) ==
  /\ called' = Called("calloc", <<count, size>>)
  /\ Available(p, count * size)
  /\ allocated' = With(allocated, p, [i \in 0 .. (count * size - 1) |-> 0])
  /\ UNCHANGED literals

(* The contents move, up to the smaller of the two sizes; the old pointer is *)
(* the program's no more.                                                     *)
Realloc(old, new, size) ==
  /\ called' = Called("realloc", <<old, size>>)
  /\ old \in DOMAIN allocated
  /\ Available(new, size)
  /\ \E contents \in [0 .. (size - 1) -> ByteValues] :
       /\ \A i \in DOMAIN contents \cap DOMAIN allocated[old] :
            contents[i] = allocated[old][i]
       /\ allocated' = With(Without(allocated, old), new, contents)
  /\ UNCHANGED literals

Free(p) ==
  /\ called' = Called("free", <<p>>)
  /\ p \in DOMAIN allocated
  /\ allocated' = Without(allocated, p)
  /\ UNCHANGED literals

Write(p, i, value) ==
  /\ called' = Called("write", <<p, i, value>>)
  /\ p \in DOMAIN allocated
  /\ i \in DOMAIN allocated[p]
  /\ allocated' = [allocated EXCEPT ![p][i] = value]
  /\ UNCHANGED literals

Literal(s, p) ==
  /\ called' = Called("literal", <<s>>)
  /\ s \notin DOMAIN literals
  /\ Available(p, StrLen[s] + 1)
  /\ literals' = With(literals, s, p)
  /\ UNCHANGED allocated

Next ==
  \/ \E p \in Addresses, size \in RequestSizes : Malloc(p, size)
  \/ \E p \in Addresses, n, m \in RequestSizes : Calloc(p, n, m)
  \/ \E old, new \in Addresses, size \in RequestSizes : Realloc(old, new, size)
  \/ \E p \in Addresses : Free(p)
  \/ \E p \in DOMAIN allocated :
       \E i \in DOMAIN allocated[p], value \in ByteValues : Write(p, i, value)
  \/ \E s \in Strings, p \in Addresses : Literal(s, p)

Spec == Init /\ [][Next]_promised
==============================================================================
