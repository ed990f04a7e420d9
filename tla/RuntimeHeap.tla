------------------------------ MODULE RuntimeHeap ------------------------------
(****************************************************************************)
(* The heap of the Java runtime of translated programs                      *)
(* (mir2j/runtime/mir2j/Runtime.java): the map of memory blocks behind       *)
(* malloc, calloc, realloc and free, the growth of the byte array, and the   *)
(* table of interned string literals, which live on the same heap.           *)
(*                                                                          *)
(* The client is the translated program: it frees, reallocates and writes    *)
(* only what it was given and still owns, as a well defined C program does,   *)
(* and may pass NULL to free and realloc. It asks for at least one byte and    *)
(* for less than 2^31: malloc(0) and sizes the cast makes negative break the   *)
(* map, as the README says, and are left out.                                  *)
(****************************************************************************)
EXTENDS Integers

CONSTANTS
  HeapStart,      \* heapStartAddress
  InitialMemory,  \* initial length of the byte array
  Doublings,      \* the lengths the array can have, each twice another one
  MemoryBound,    \* bound of the model: no array is longer than this
  IntBound,       \* 2^31 in the code: a Java int is in -IntBound .. IntBound - 1
  RequestSizes,   \* the sizes the program asks for
  Bytes,          \* the byte values the program writes; 0 is one of them
  Strings,        \* the string literals, each also the value of its own bytes
  StrLen          \* their lengths

ByteValues == Bytes \cup Strings

ASSUME HeapAssumption ==
  /\ HeapStart \in Nat \ {0}
  /\ InitialMemory \in Doublings
  /\ HeapStart <= InitialMemory
  /\ Doublings \subseteq Nat
  /\ \A n \in Doublings : n > InitialMemory => \E m \in Doublings : n = 2 * m
  /\ MemoryBound \in Nat
  /\ \A n \in Doublings : n <= MemoryBound
  /\ IntBound \in Nat /\ MemoryBound < IntBound
  /\ RequestSizes \subseteq 1 .. (IntBound - 1)
  /\ \A n, m \in RequestSizes : n * m < IntBound
  /\ 0 \in Bytes
  /\ Strings \cap Bytes = {}
  /\ StrLen \in [Strings -> Nat]

VARIABLES
  blocks,     \* memoryBlockMap: start address -> [size, free]
  memLength,  \* memory.length
  cells,      \* the bytes of memory, from the heap start on
  stringMap,  \* literal -> address
  live,       \* ghost: what the program owns, pointer -> requested size
  abandoned,  \* ghost: blocks whose content realloc has moved elsewhere
  thrown,     \* the address whose use has thrown and ended the program, or None
  called      \* ghost: the last call of the program that came back

vars == <<blocks, memLength, cells, stringMap, live, abandoned, thrown, called>>

Called(call, args) == [call |-> call, args |-> args]

Addresses == HeapStart .. (MemoryBound - 1)

Null == 0
None == -1

Region(start, size) == start .. (start + size - 1)

Block(size, free) == [size |-> size, free |-> free]

Put(map, key, value) ==
  [k \in (DOMAIN map) \cup {key} |-> IF k = key THEN value ELSE map[k]]

Remove(map, key) == [k \in (DOMAIN map) \ {key} |-> map[k]]

(* The cast (int) of a long in 0 .. 2 * IntBound - 1. *)
AsInt(n) == IF n < IntBound THEN n ELSE n - 2 * IntBound

------------------------------------------------------------------------------
(* Mutant: one doubling, whatever the need. *)
EnsureMemoryOnce(minSize) ==
  IF minSize > memLength THEN memLength' = 2 * memLength ELSE UNCHANGED memLength

(* growMemory: the length is doubled until it is at least minSize. *)
EnsureMemory(minSize) ==
  IF minSize > memLength
  THEN \E n \in Doublings :
         /\ n >= minSize
         /\ \A m \in Doublings : m >= minSize => n <= m
         /\ memLength' = n
  ELSE UNCHANGED memLength

(* addBlock on the map bs: the put replaces what was at the address. *)
AddBlock(bs, address, size, free) ==
  /\ EnsureMemory(address + size)
  /\ blocks' = Put(bs, address, Block(size, free))

Fits(size) == {a \in DOMAIN blocks : blocks[a].free /\ blocks[a].size >= size}

FirstFit(a, size) == a \in Fits(size) /\ \A b \in Fits(size) : a <= b

IsLast(a) == a \in DOMAIN blocks /\ \A b \in DOMAIN blocks : b <= a

IsTop(t) == IF DOMAIN blocks = {}
            THEN t = HeapStart
            ELSE \E a \in DOMAIN blocks : IsLast(a) /\ t = a + blocks[a].size

(* Mutants of the split: the block keeps its size; one byte is lost; a block *)
(* that fits exactly stays free.                                             *)
SplitWith(size, address, first, gap) ==
  /\ FirstFit(address, size)
  /\ LET rest == blocks[address].size - size
     IN IF rest > gap
        THEN AddBlock([blocks EXCEPT ![address] = first],
                      address + size + gap, rest - gap, TRUE)
        ELSE /\ blocks' = [blocks EXCEPT ![address].free = FALSE]
             /\ UNCHANGED memLength

SplitWithoutResize(size, address) ==
  SplitWith(size, address, Block(blocks[address].size, FALSE), 0)

SplitLosesByte(size, address) == SplitWith(size, address, Block(size, FALSE), 1)

ExactFitStaysFree(size, address) ==
  /\ FirstFit(address, size)
  /\ IF blocks[address].size > size
     THEN SplitWith(size, address, Block(size, FALSE), 0)
     ELSE UNCHANGED <<blocks, memLength>>

(* The first half of malloc: the first free block that is large enough, cut *)
(* in two when it is larger.                                                *)
ReuseBlock(size, address) ==
  /\ FirstFit(address, size)
  /\ LET rest == blocks[address].size - size
     IN IF rest > 0
        THEN AddBlock([blocks EXCEPT ![address] = Block(size, FALSE)],
                      address + size, rest, TRUE)
        ELSE /\ blocks' = [blocks EXCEPT ![address].free = FALSE]
             /\ UNCHANGED memLength

(* The second half: a new block after the last one. *)
ExtendHeap(size, address) ==
  /\ Fits(size) = {}
  /\ IsTop(address)
  /\ AddBlock(blocks, address, size, FALSE)

MallocAt(size, address) == ReuseBlock(size, address) \/ ExtendHeap(size, address)

(* Mutants: the last byte is not copied; one byte too many is filled. *)
CopiedShort(from, to, length) ==
  [a \in Addresses |-> IF a \in Region(to, length - 1) THEN cells[from + (a - to)]
                                                       ELSE cells[a]]

FilledLong(to, length, value) ==
  [a \in Addresses |-> IF a \in Region(to, length + 1) THEN value ELSE cells[a]]

Copied(from, to, length) ==
  [a \in Addresses |-> IF a \in Region(to, length) THEN cells[from + (a - to)]
                                                   ELSE cells[a]]

Filled(to, length, value) ==
  [a \in Addresses |-> IF a \in Region(to, length) THEN value ELSE cells[a]]

------------------------------------------------------------------------------
Init ==
  /\ blocks = [a \in {} |-> Block(0, FALSE)]
  /\ memLength = InitialMemory
  /\ cells = [a \in Addresses |-> 0]
  /\ stringMap = [s \in {} |-> 0]
  /\ live = [p \in {} |-> 0]
  /\ abandoned = {}
  /\ thrown = None
  /\ called = Called("main", <<>>)

Malloc(size) ==
  /\ called' = Called("malloc", <<size>>)
  /\ \E address \in Addresses :
       /\ MallocAt(AsInt(size), address)
       /\ live' = Put(live, address, size)
       /\ UNCHANGED <<cells, stringMap, abandoned, thrown>>

Calloc(count, size) ==
  /\ called' = Called("calloc", <<count, size>>)
  /\ \E address \in Addresses :
       /\ MallocAt(AsInt(count * size), address)
       /\ cells' = Filled(address, AsInt(count * size), 0)
       /\ live' = Put(live, address, count * size)
       /\ UNCHANGED <<stringMap, abandoned, thrown>>

(* "Can't find memory block": the lookup of realloc and free has failed. *)
ThrowUnknown(p) ==
  /\ p \notin DOMAIN blocks
  /\ thrown' = p
  /\ UNCHANGED <<blocks, memLength, cells, stringMap, live, abandoned, called>>

(* The block of p is looked up before malloc and its size read behind it, when *)
(* malloc may have changed the map. realloc never frees the block it has      *)
(* copied: it is out of use for good.                                         *)
ReallocKnown(p, size) ==
  /\ called' = Called("realloc", <<p, size>>)
  /\ p \in DOMAIN blocks
  /\ \E address \in Addresses :
       /\ MallocAt(AsInt(size), address)
       /\ LET old == blocks'[p].size
              length == IF old < AsInt(size) THEN old ELSE AsInt(size)
          IN cells' = Copied(p, address, length)
       /\ live' = Put(Remove(live, p), address, size)
  /\ abandoned' = abandoned \cup {p}
  /\ UNCHANGED <<stringMap, thrown>>

Realloc(p, size) ==
  /\ p \in DOMAIN live \cup {Null}
  /\ ThrowUnknown(p) \/ ReallocKnown(p, size)

FreeKnown(p) ==
  /\ called' = Called("free", <<p>>)
  /\ p \in DOMAIN blocks
  /\ blocks' = [blocks EXCEPT ![p].free = TRUE]
  /\ live' = Remove(live, p)
  /\ UNCHANGED <<memLength, cells, stringMap, abandoned, thrown>>

Free(p) ==
  /\ p \in DOMAIN live \cup {Null}
  /\ ThrowUnknown(p) \/ FreeKnown(p)

(* mir_write_byte by the program inside what it owns; an index at or after *)
(* memory.length throws.                                                   *)
Write(p, i, value) ==
  /\ p \in DOMAIN live
  /\ i \in 0 .. (live[p] - 1)
  /\ IF p + i < memLength
     THEN /\ cells' = [cells EXCEPT ![p + i] = value]
          /\ called' = Called("write", <<p, i, value>>)
          /\ UNCHANGED thrown
     ELSE /\ thrown' = p + i
          /\ UNCHANGED <<cells, called>>
  /\ UNCHANGED <<blocks, memLength, stringMap, live, abandoned>>

(* mir_get_string_ptr: the first use of a literal allocates and writes it. *)
GetStringPtr(s) ==
  /\ s \notin DOMAIN stringMap
  /\ called' = Called("literal", <<s>>)
  /\ \E address \in Addresses :
       /\ MallocAt(StrLen[s] + 1, address)
       /\ stringMap' = Put(stringMap, s, address)
       /\ cells' = [a \in Addresses |->
                      IF a \in Region(address, StrLen[s]) THEN s
                      ELSE IF a = address + StrLen[s] THEN 0
                      ELSE cells[a]]
  /\ UNCHANGED <<live, abandoned, thrown>>

Next ==
  /\ thrown = None
  /\ \/ \E size \in RequestSizes : Malloc(size)
     \/ \E count, size \in RequestSizes : Calloc(count, size)
     \/ \E p \in Addresses \cup {Null}, size \in RequestSizes : Realloc(p, size)
     \/ \E p \in Addresses \cup {Null} : Free(p)
     \/ \E p, i \in 0 .. MemoryBound, value \in Bytes : Write(p, i, value)
     \/ \E s \in Strings : GetStringPtr(s)

Spec == Init /\ [][Next]_vars

------------------------------------------------------------------------------
TypeOK ==
  /\ DOMAIN blocks \subseteq Addresses
  /\ \A a \in DOMAIN blocks : blocks[a] \in [size : Nat \ {0}, free : BOOLEAN]
  /\ memLength \in Doublings
  /\ cells \in [Addresses -> ByteValues]
  /\ DOMAIN stringMap \subseteq Strings
  /\ \A s \in DOMAIN stringMap : stringMap[s] \in DOMAIN blocks
  /\ DOMAIN live \subseteq Addresses
  /\ \A p \in DOMAIN live : live[p] \in Nat \ {0}
  /\ abandoned \subseteq DOMAIN blocks
  /\ thrown \in Int

(* addBlock, the split of malloc and its "last block": no two blocks of the *)
(* map share a byte, whatever was split, freed and reused before.            *)
BlocksDisjoint ==
  \A a, b \in DOMAIN blocks : a < b => a + blocks[a].size <= b

(* Splitting loses no byte: the blocks cover the heap without a gap, from   *)
(* its start to the end of the last one.                                     *)
BlocksCover ==
  \A a \in DOMAIN blocks :
    /\ IsLast(a) \/ a + blocks[a].size \in DOMAIN blocks
    /\ HeapStart \in DOMAIN blocks

(* growMemory is called for every block that needs it: a block lies inside  *)
(* the byte array, so that no access to what malloc gave out can throw.      *)
BlocksInMemory == \A a \in DOMAIN blocks : a + blocks[a].size <= memLength

(* A block is in use by exactly one owner: the program, a string literal, or *)
(* nobody any more, once realloc has moved its content; every other block    *)
(* can be given out again. A block in use is as large as its owner asked.     *)
Accounted ==
  /\ \A a \in DOMAIN blocks :
       ~blocks[a].free <=> \/ a \in DOMAIN live
                           \/ a \in abandoned
                           \/ \E s \in DOMAIN stringMap : stringMap[s] = a
  /\ DOMAIN live \cap abandoned = {}
  /\ \A s \in DOMAIN stringMap : stringMap[s] \notin DOMAIN live \cup abandoned
  /\ \A s, t \in DOMAIN stringMap : stringMap[s] = stringMap[t] => s = t
  /\ \A p \in DOMAIN live : p \in DOMAIN blocks /\ blocks[p].size = live[p]
  /\ \A s \in DOMAIN stringMap : blocks[stringMap[s]].size = StrLen[s] + 1

(* mir_get_string_ptr hands out the same address for the same literal for   *)
(* ever: the literal is still there, with its end byte, whatever else the    *)
(* program has allocated, copied, freed and written.                         *)
LiteralsIntact ==
  \A s \in DOMAIN stringMap :
    /\ \A i \in 0 .. (StrLen[s] - 1) : cells[stringMap[s] + i] = s
    /\ cells[stringMap[s] + StrLen[s]] = 0

(* A program that is within its rights never meets the exceptions of free,  *)
(* of realloc or of an access outside the byte array, unless it relies on    *)
(* free(NULL) or realloc(NULL, n), which the runtime does not know.          *)
OnlyNullThrows == thrown \in {None, Null}

(* What malloc, calloc, realloc and mir_get_string_ptr give out shares no   *)
(* byte with anything the program or a literal holds at that moment.         *)
Held == {<<p, live[p]>> : p \in DOMAIN live}
        \cup {<<stringMap[s], StrLen[s] + 1>> : s \in DOMAIN stringMap}

GivenOut == \A new \in Held' \ Held, old \in Held :
              Region(new[1], new[2]) \cap Region(old[1], old[2]) = {}

FreshRegions == [][GivenOut]_vars

(* What C promises about a heap, see HeapPromise.                            *)
Contents ==
  [p \in DOMAIN live |-> [i \in 0 .. (live[p] - 1) |-> cells[p + i]]]

Promise == INSTANCE HeapPromise WITH allocated <- Contents, literals <- stringMap

(* The block map implements the promise: every call of the program does what *)
(* C promises of this call (calloc's bytes are zero, realloc's are the old     *)
(* ones), and growth and splitting are invisible.                            *)
ImplementsPromise == Promise!Spec
==============================================================================
