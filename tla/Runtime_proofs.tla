---------------------------- MODULE Runtime_proofs ----------------------------
(****************************************************************************)
(* The Java runtime. For every heap, every set of request sizes and every set   *)
(* of literals: the blocks never overlap, each is inside the byte array, and    *)
(* each in use has exactly one owner (RuntimeHeap). For every size of the stack *)
(* and all programs: the memory of functions does not overlap, returns leave    *)
(* the stack as it was, and va_lists give the arguments of their own calls      *)
(* (RuntimeCalls).                                                            *)
(****************************************************************************)
EXTENDS RuntimeHeap, RuntimeCalls, TLAPS

------------------------------------------------------------------------------
(* The heap.                                                                  *)

(* The strengthening: none of the parts is inductive without the others.    *)
(* Disjointness of the split needs the sizes to be positive (TypeOK), reuse  *)
(* needs the owner of a block in use to be known (Accounted).                *)
HeapInv == TypeOK /\ BlocksDisjoint /\ BlocksInMemory /\ Accounted

(* The cast to int changes no size the program asks for. *)
LEMMA AsIntIdentity ==
  ASSUME NEW n \in 1 .. (IntBound - 1)
  PROVE  AsInt(n) = n
BY HeapAssumption DEF AsInt

(* What one malloc does to the block map, whoever asks. *)
Allocated(size, address) ==
  /\ DOMAIN blocks' \subseteq Addresses
  /\ \A a \in DOMAIN blocks' : blocks'[a] \in [size : Nat \ {0}, free : BOOLEAN]
  /\ memLength' \in Doublings
  /\ BlocksDisjoint'
  /\ BlocksInMemory'
  /\ address \in DOMAIN blocks'
  /\ blocks'[address] = Block(size, FALSE)
  /\ address \in DOMAIN blocks => blocks[address].free
  /\ DOMAIN blocks \subseteq DOMAIN blocks'
  /\ \A a \in DOMAIN blocks : a # address => blocks'[a] = blocks[a]
  /\ \A a \in DOMAIN blocks' : a \in DOMAIN blocks \/ a = address \/ blocks'[a].free

LEMMA Growth ==
  ASSUME NEW minSize \in Nat, memLength \in Doublings, EnsureMemory(minSize)
  PROVE  /\ memLength' \in Doublings
         /\ memLength' >= memLength
         /\ memLength' >= minSize
BY HeapAssumption DEF EnsureMemory

LEMMA ReuseEffect ==
  ASSUME HeapInv, NEW size \in Nat \ {0}, NEW address \in Addresses,
         ReuseBlock(size, address)
  PROVE  Allocated(size, address)
<1> DEFINE old  == blocks[address].size
           rest == old - size
<1>1. /\ address \in DOMAIN blocks
      /\ blocks[address].free
      /\ old \in Nat /\ old >= size
      /\ address \in Nat
      /\ address >= HeapStart
  BY HeapAssumption DEF HeapInv, TypeOK, ReuseBlock, FirstFit, Fits, Addresses
<1>2. address + old <= memLength /\ memLength \in Nat /\ memLength <= MemoryBound
  BY <1>1, HeapAssumption DEF HeapInv, TypeOK, BlocksInMemory
<1>3. CASE rest > 0
  <2> DEFINE bs == [blocks EXCEPT ![address] = Block(size, FALSE)]
             cut == address + size
  <2>1. AddBlock(bs, cut, rest, TRUE)
    BY <1>3 DEF ReuseBlock
  <2>2. cut \notin DOMAIN blocks
    <3> SUFFICES ASSUME cut \in DOMAIN blocks PROVE FALSE
      OBVIOUS
    <3> QED BY <1>1, <1>3 DEF HeapInv, BlocksDisjoint
  <2>3. /\ DOMAIN blocks' = (DOMAIN blocks) \cup {cut}
        /\ blocks'[cut] = Block(rest, TRUE)
        /\ blocks'[address] = Block(size, FALSE)
        /\ \A a \in DOMAIN blocks : a # address => blocks'[a] = blocks[a]
    BY <1>1, <2>1, <2>2 DEF AddBlock, Put
  <2>4. memLength' \in Doublings /\ memLength' >= memLength
    BY <1>1, <1>3, <2>1, Growth DEF AddBlock, HeapInv, TypeOK
  <2>5. memLength' \in Nat
    BY <2>4, HeapAssumption
  <2>6. cut \in Addresses
    BY <1>1, <1>2, <1>3, HeapAssumption DEF Addresses
  <2>7. \A a \in DOMAIN blocks' : blocks'[a] \in [size : Nat \ {0}, free : BOOLEAN]
    <3> SUFFICES ASSUME NEW a \in DOMAIN blocks'
                 PROVE  blocks'[a] \in [size : Nat \ {0}, free : BOOLEAN]
      OBVIOUS
    <3>1. Block(rest, TRUE) \in [size : Nat \ {0}, free : BOOLEAN]
      BY <1>1, <1>3 DEF Block
    <3>2. Block(size, FALSE) \in [size : Nat \ {0}, free : BOOLEAN]
      BY DEF Block
    <3>3. CASE a \in DOMAIN blocks /\ a # address
      BY <2>3, <3>3 DEF HeapInv, TypeOK
    <3> QED BY <2>3, <3>1, <3>2, <3>3
  <2>8. BlocksDisjoint'
    <3> SUFFICES ASSUME NEW a \in DOMAIN blocks', NEW b \in DOMAIN blocks', a < b
                 PROVE  a + blocks'[a].size <= b
      BY DEF BlocksDisjoint
    <3>1. DOMAIN blocks \subseteq Int
      BY DEF HeapInv, TypeOK, Addresses
    <3>2. \A c \in DOMAIN blocks : blocks[c].size \in Nat
      BY DEF HeapInv, TypeOK
    <3>3. \A c, d \in DOMAIN blocks : c < d => c + blocks[c].size <= d
      BY DEF HeapInv, BlocksDisjoint
    <3>4. CASE a = cut
      <4>1. b \in DOMAIN blocks /\ address < b
        BY <1>1, <2>3, <3>4, <3>1
      <4>2. address + old <= b
        BY <1>1, <3>3, <4>1
      <4> QED BY <1>1, <2>3, <3>4, <3>1, <4>1, <4>2 DEF Block
    <3>5. CASE a = address
      <4>1. CASE b = cut
        BY <2>3, <3>5, <4>1, <1>1 DEF Block
      <4>2. CASE b # cut
        <5>1. b \in DOMAIN blocks /\ address + old <= b
          BY <1>1, <2>3, <3>3, <3>5, <4>2
        <5> QED BY <1>1, <2>3, <3>1, <3>5, <5>1 DEF Block
      <4> QED BY <4>1, <4>2
    <3>6. CASE a # address /\ a # cut
      <4>1. a \in DOMAIN blocks /\ blocks'[a] = blocks[a]
        BY <2>3, <3>6
      <4>2. CASE b = cut
        <5>1. a < address
          <6> SUFFICES ASSUME address < a PROVE FALSE
            BY <1>1, <3>1, <3>6, <4>1
          <6>1. address + old <= a
            BY <1>1, <3>3, <4>1
          <6> QED BY <1>1, <1>3, <3>1, <4>1, <4>2, <6>1
        <5>2. a + blocks[a].size <= address
          BY <1>1, <3>3, <4>1, <5>1
        <5> QED BY <1>1, <3>1, <3>2, <4>1, <4>2, <5>2
      <4>3. CASE b # cut
        BY <2>3, <3>3, <4>1, <4>3
      <4> QED BY <4>2, <4>3
    <3> QED BY <3>4, <3>5, <3>6
  <2>9. BlocksInMemory'
    <3> SUFFICES ASSUME NEW a \in DOMAIN blocks'
                 PROVE  a + blocks'[a].size <= memLength'
      BY DEF BlocksInMemory
    <3>1. CASE a = cut
      BY <1>1, <1>2, <1>3, <2>3, <2>4, <2>5, <3>1 DEF Block
    <3>2. CASE a = address
      BY <1>1, <1>2, <2>3, <2>4, <2>5, <3>2 DEF Block
    <3>3. CASE a # cut /\ a # address
      BY <1>2, <2>3, <2>4, <2>5, <3>3
         DEF HeapInv, BlocksInMemory, TypeOK, Addresses
    <3> QED BY <3>1, <3>2, <3>3
  <2> QED
    BY <1>1, <2>3, <2>4, <2>6, <2>7, <2>8, <2>9 DEF Allocated, HeapInv, TypeOK, Block
<1>4. CASE ~(rest > 0)
  <2>1. old = size
    BY <1>1, <1>4
  <2>2. /\ DOMAIN blocks' = DOMAIN blocks
        /\ blocks'[address] = Block(size, FALSE)
        /\ \A a \in DOMAIN blocks : a # address => blocks'[a] = blocks[a]
        /\ memLength' = memLength
    BY <1>1, <1>4, <2>1 DEF ReuseBlock, HeapInv, TypeOK, Block
  <2>3. \A a \in DOMAIN blocks : blocks'[a].size = blocks[a].size
    BY <2>1, <2>2 DEF Block
  <2>4. \A a \in DOMAIN blocks' : blocks'[a] \in [size : Nat \ {0}, free : BOOLEAN]
    <3>1. Block(size, FALSE) \in [size : Nat \ {0}, free : BOOLEAN]
      BY DEF Block
    <3> QED BY <2>2, <3>1 DEF HeapInv, TypeOK
  <2>5. BlocksDisjoint' /\ BlocksInMemory'
    BY <2>2, <2>3 DEF HeapInv, BlocksDisjoint, BlocksInMemory
  <2> QED
    BY <1>1, <2>2, <2>4, <2>5 DEF Allocated, HeapInv, TypeOK
<1> QED BY <1>3, <1>4

LEMMA ExtendEffect ==
  ASSUME HeapInv, NEW size \in Nat \ {0}, NEW address \in Addresses,
         ExtendHeap(size, address)
  PROVE  Allocated(size, address)
<1>1. /\ DOMAIN blocks \subseteq Addresses
      /\ \A a \in DOMAIN blocks : blocks[a] \in [size : Nat \ {0}, free : BOOLEAN]
      /\ \A a \in DOMAIN blocks : a \in Int /\ blocks[a].size \in Nat \ {0}
      /\ address \in Nat
  BY HeapAssumption DEF HeapInv, TypeOK, Addresses
<1>2. \A a \in DOMAIN blocks : a + blocks[a].size <= address
  <2> SUFFICES ASSUME NEW a \in DOMAIN blocks
               PROVE  a + blocks[a].size <= address
    OBVIOUS
  <2>1. PICK b \in DOMAIN blocks : IsLast(b) /\ address = b + blocks[b].size
    BY DEF ExtendHeap, IsTop
  <2>2. a <= b
    BY <2>1 DEF IsLast
  <2>3. CASE a = b
    BY <1>1, <2>1, <2>3
  <2>4. CASE a < b
    <3>1. a + blocks[a].size <= b
      BY <2>4 DEF HeapInv, BlocksDisjoint
    <3> QED BY <1>1, <2>1, <3>1
  <2> QED BY <1>1, <2>2, <2>3, <2>4
<1>3. address \notin DOMAIN blocks
  BY <1>1, <1>2
<1>4. /\ memLength' \in Doublings
      /\ memLength' >= memLength
      /\ memLength' >= address + size
      /\ memLength \in Nat /\ memLength' \in Nat
  <2>1. EnsureMemory(address + size) /\ address + size \in Nat
    BY <1>1 DEF ExtendHeap, AddBlock
  <2>2. memLength \in Doublings
    BY DEF HeapInv, TypeOK
  <2>3. /\ memLength' \in Doublings
        /\ memLength' >= memLength
        /\ memLength' >= address + size
    BY <2>1, <2>2, Growth
  <2> QED BY <2>2, <2>3, HeapAssumption
<1>5. /\ DOMAIN blocks' = (DOMAIN blocks) \cup {address}
      /\ blocks'[address] = Block(size, FALSE)
      /\ \A a \in DOMAIN blocks : blocks'[a] = blocks[a]
  BY <1>3 DEF ExtendHeap, AddBlock, Put
<1>6. \A a \in DOMAIN blocks' : blocks'[a] \in [size : Nat \ {0}, free : BOOLEAN]
  <2>1. Block(size, FALSE) \in [size : Nat \ {0}, free : BOOLEAN]
    BY DEF Block
  <2> QED BY <1>1, <1>5, <2>1
<1>7. BlocksDisjoint'
  <2> SUFFICES ASSUME NEW a \in DOMAIN blocks', NEW b \in DOMAIN blocks', a < b
               PROVE  a + blocks'[a].size <= b
    BY DEF BlocksDisjoint
  <2>1. a # address
    <3> SUFFICES ASSUME a = address PROVE FALSE
      OBVIOUS
    <3>1. b \in DOMAIN blocks
      BY <1>1, <1>5
    <3>2. b + blocks[b].size <= address
      BY <1>2, <3>1
    <3> QED BY <1>1, <3>1, <3>2
  <2>2. a \in DOMAIN blocks /\ blocks'[a] = blocks[a]
    BY <1>5, <2>1
  <2>3. CASE b = address
    BY <1>2, <2>2, <2>3
  <2>4. CASE b \in DOMAIN blocks
    BY <2>2, <2>4 DEF HeapInv, BlocksDisjoint
  <2> QED BY <1>5, <2>3, <2>4
<1>8. BlocksInMemory'
  <2> SUFFICES ASSUME NEW a \in DOMAIN blocks'
               PROVE  a + blocks'[a].size <= memLength'
    BY DEF BlocksInMemory
  <2>1. CASE a = address
    BY <1>4, <1>5, <2>1 DEF Block
  <2>2. CASE a \in DOMAIN blocks
    <3>1. a + blocks[a].size <= memLength
      BY <2>2 DEF HeapInv, BlocksInMemory
    <3> QED BY <1>1, <1>4, <1>5, <2>2, <3>1
  <2> QED BY <1>5, <2>1, <2>2
<1> QED
  BY <1>1, <1>3, <1>4, <1>5, <1>6, <1>7, <1>8 DEF Allocated

LEMMA MallocEffect ==
  ASSUME HeapInv, NEW size \in Nat \ {0}, NEW address \in Addresses,
         MallocAt(size, address)
  PROVE  Allocated(size, address)
BY ReuseEffect, ExtendEffect DEF MallocAt

(* A malloc takes nothing from any owner, and its block has none yet. *)
LEMMA OwnersKept ==
  ASSUME HeapInv, NEW size, NEW address, Allocated(size, address)
  PROVE  /\ address \notin DOMAIN live
         /\ address \notin abandoned
         /\ \A s \in DOMAIN stringMap : stringMap[s] # address
         /\ \A a \in (DOMAIN live) \cup abandoned :
              a \in DOMAIN blocks' /\ blocks'[a] = blocks[a]
         /\ \A s \in DOMAIN stringMap :
              /\ stringMap[s] \in DOMAIN blocks'
              /\ blocks'[stringMap[s]] = blocks[stringMap[s]]
         /\ \A a \in DOMAIN blocks' :
              ~blocks'[a].free <=> \/ a = address
                                  \/ a \in DOMAIN live
                                  \/ a \in abandoned
                                  \/ \E s \in DOMAIN stringMap : stringMap[s] = a
<1>0. \A a \in DOMAIN blocks :
        a \in DOMAIN blocks' /\ (a # address => blocks'[a] = blocks[a])
  BY DEF Allocated
<1>1. address \notin DOMAIN live /\ address \notin abandoned
  BY DEF HeapInv, TypeOK, Accounted, Allocated
<1>2. \A s \in DOMAIN stringMap : stringMap[s] # address
  BY DEF HeapInv, TypeOK, Accounted, Allocated
<1>3. ~blocks'[address].free
  BY DEF Allocated, Block
<1>4. \A a \in (DOMAIN live) \cup abandoned :
        a \in DOMAIN blocks /\ a \in DOMAIN blocks' /\ blocks'[a] = blocks[a]
  <2> TAKE a \in (DOMAIN live) \cup abandoned
  <2>1. a \in DOMAIN blocks
    BY DEF HeapInv, TypeOK, Accounted
  <2>2. a # address
    BY <1>1
  <2> QED BY <1>0, <2>1, <2>2
<1>5. \A s \in DOMAIN stringMap :
        /\ stringMap[s] \in DOMAIN blocks
        /\ stringMap[s] \in DOMAIN blocks'
        /\ blocks'[stringMap[s]] = blocks[stringMap[s]]
  <2> TAKE s \in DOMAIN stringMap
  <2>1. stringMap[s] \in DOMAIN blocks
    BY DEF HeapInv, TypeOK
  <2> QED BY <1>0, <1>2, <2>1
<1>6. ASSUME NEW a \in DOMAIN blocks'
      PROVE  ~blocks'[a].free <=> \/ a = address
                                  \/ a \in DOMAIN live
                                  \/ a \in abandoned
                                  \/ \E s \in DOMAIN stringMap : stringMap[s] = a
  <2>1. CASE a = address
    BY <1>3, <2>1
  <2>2. CASE a # address /\ a \in DOMAIN blocks
    BY <2>2 DEF HeapInv, Accounted, Allocated
  <2>3. CASE a # address /\ a \notin DOMAIN blocks
    BY <1>4, <1>5, <2>3 DEF Allocated
  <2> QED BY <2>1, <2>2, <2>3
<1> QED BY <1>1, <1>2, <1>4, <1>5, <1>6

(* The part of the type invariant that a malloc of any caller keeps. *)
LEMMA TypesKept ==
  ASSUME HeapInv, NEW size, NEW address, Allocated(size, address)
  PROVE  /\ DOMAIN blocks' \subseteq Addresses
         /\ \A a \in DOMAIN blocks' : blocks'[a] \in [size : Nat \ {0}, free : BOOLEAN]
         /\ memLength' \in Doublings
         /\ \A s \in DOMAIN stringMap : stringMap[s] \in DOMAIN blocks'
         /\ abandoned \subseteq DOMAIN blocks'
BY OwnersKept DEF Allocated

LEMMA MallocStep ==
  ASSUME HeapInv, NEW size \in RequestSizes, Malloc(size)
  PROVE  HeapInv'
<1>1. PICK address \in Addresses :
        /\ MallocAt(AsInt(size), address)
        /\ live' = Put(live, address, size)
        /\ UNCHANGED <<cells, stringMap, abandoned, thrown>>
  BY DEF Malloc
<1>2. AsInt(size) = size /\ size \in Nat \ {0}
  BY AsIntIdentity, HeapAssumption
<1>3. Allocated(size, address)
  BY <1>1, <1>2, MallocEffect
<1>4. /\ DOMAIN live' = (DOMAIN live) \cup {address}
      /\ live'[address] = size
      /\ \A p \in DOMAIN live : p # address => live'[p] = live[p]
  BY <1>1 DEF Put
<1>5. TypeOK'
  BY <1>1, <1>2, <1>3, <1>4, TypesKept DEF HeapInv, TypeOK
<1>6. Accounted'
  <2>1. /\ address \notin DOMAIN live
        /\ address \notin abandoned
        /\ \A s \in DOMAIN stringMap : stringMap[s] # address
    BY <1>3, OwnersKept
  <2>2. \A p \in DOMAIN live' : p \in DOMAIN blocks' /\ blocks'[p].size = live'[p]
    BY <1>3, <1>4, OwnersKept DEF HeapInv, Accounted, Allocated, Block
  <2>3. \A s \in DOMAIN stringMap : blocks'[stringMap[s]].size = StrLen[s] + 1
    BY <1>3, OwnersKept DEF HeapInv, Accounted
  <2> QED
    BY <1>1, <1>3, <1>4, <2>1, <2>2, <2>3, OwnersKept DEF HeapInv, Accounted
<1> QED BY <1>3, <1>5, <1>6 DEF HeapInv, Allocated

LEMMA CallocStep ==
  ASSUME HeapInv, NEW count \in RequestSizes, NEW size \in RequestSizes,
         Calloc(count, size)
  PROVE  HeapInv'
<1> DEFINE total == count * size
<1>1. PICK address \in Addresses :
        /\ MallocAt(AsInt(total), address)
        /\ cells' = Filled(address, AsInt(total), 0)
        /\ live' = Put(live, address, total)
        /\ UNCHANGED <<stringMap, abandoned, thrown>>
  BY DEF Calloc
<1>2. AsInt(total) = total /\ total \in Nat \ {0}
  <2>1. count \in Nat \ {0} /\ size \in Nat \ {0} /\ total < IntBound
    BY HeapAssumption
  <2>2. total \in Nat /\ total > 0
    BY <2>1, SMT
  <2> HIDE DEF total
  <2> QED BY <2>1, <2>2, AsIntIdentity, HeapAssumption
<1> HIDE DEF total
<1>3. Allocated(total, address)
  BY <1>1, <1>2, MallocEffect
<1>4. /\ DOMAIN live' = (DOMAIN live) \cup {address}
      /\ live'[address] = total
      /\ \A p \in DOMAIN live : p # address => live'[p] = live[p]
  BY <1>1 DEF Put
<1>5. cells' \in [Addresses -> ByteValues]
  BY <1>1, HeapAssumption DEF Filled, HeapInv, TypeOK, ByteValues
<1>6. TypeOK'
  BY <1>1, <1>2, <1>3, <1>4, <1>5, TypesKept DEF HeapInv, TypeOK
<1>7. Accounted'
  <2>1. /\ address \notin DOMAIN live
        /\ address \notin abandoned
        /\ \A s \in DOMAIN stringMap : stringMap[s] # address
    BY <1>3, OwnersKept
  <2>2. \A p \in DOMAIN live' : p \in DOMAIN blocks' /\ blocks'[p].size = live'[p]
    BY <1>3, <1>4, OwnersKept DEF HeapInv, Accounted, Allocated, Block
  <2>3. \A s \in DOMAIN stringMap : blocks'[stringMap[s]].size = StrLen[s] + 1
    BY <1>3, OwnersKept DEF HeapInv, Accounted
  <2> QED
    BY <1>1, <1>3, <1>4, <2>1, <2>2, <2>3, OwnersKept DEF HeapInv, Accounted
<1> QED BY <1>3, <1>6, <1>7 DEF HeapInv, Allocated

(* An exception ends the program and changes nothing else. *)
LEMMA ThrowStep ==
  ASSUME HeapInv, NEW p \in Int, ThrowUnknown(p)
  PROVE  HeapInv'
<1>1. UNCHANGED <<blocks, memLength, cells, stringMap, live, abandoned>> /\ thrown' \in Int
  BY DEF ThrowUnknown
<1> QED BY <1>1 DEF HeapInv, TypeOK, BlocksDisjoint, BlocksInMemory, Accounted

(* malloc leaves the block that realloc copies as it was. *)
LEMMA ReallocEffect ==
  ASSUME HeapInv, NEW p \in DOMAIN live, NEW size \in RequestSizes,
         ReallocKnown(p, size)
  PROVE  \E address \in Addresses :
           /\ MallocAt(AsInt(size), address)
           /\ cells' = Copied(p, address, IF blocks[p].size < AsInt(size)
                                          THEN blocks[p].size ELSE AsInt(size))
           /\ live' = Put(Remove(live, p), address, size)
           /\ abandoned' = abandoned \cup {p}
           /\ UNCHANGED <<stringMap, thrown>>
<1>1. PICK address \in Addresses :
        /\ MallocAt(AsInt(size), address)
        /\ cells' = Copied(p, address, IF blocks'[p].size < AsInt(size)
                                       THEN blocks'[p].size ELSE AsInt(size))
        /\ live' = Put(Remove(live, p), address, size)
        /\ abandoned' = abandoned \cup {p}
        /\ UNCHANGED <<stringMap, thrown>>
  BY DEF ReallocKnown
<1>2. AsInt(size) = size /\ size \in Nat \ {0}
  BY AsIntIdentity, HeapAssumption
<1>3. Allocated(size, address)
  BY <1>1, <1>2, MallocEffect
<1>4. blocks'[p] = blocks[p]
  BY <1>3, OwnersKept
<1> QED BY <1>1, <1>4

LEMMA ReallocStep ==
  ASSUME HeapInv, NEW p \in DOMAIN live, NEW size \in RequestSizes,
         ReallocKnown(p, size)
  PROVE  HeapInv'
<1> DEFINE length == IF blocks[p].size < AsInt(size) THEN blocks[p].size ELSE AsInt(size)
<1>1. PICK address \in Addresses :
        /\ MallocAt(AsInt(size), address)
        /\ cells' = Copied(p, address, length)
        /\ live' = Put(Remove(live, p), address, size)
        /\ abandoned' = abandoned \cup {p}
        /\ UNCHANGED <<stringMap, thrown>>
  BY ReallocEffect
<1>2. AsInt(size) = size /\ size \in Nat \ {0}
  BY AsIntIdentity, HeapAssumption
<1>3. Allocated(size, address)
  BY <1>1, <1>2, MallocEffect
<1>4. /\ DOMAIN live' = ((DOMAIN live) \ {p}) \cup {address}
      /\ live'[address] = size
      /\ \A q \in DOMAIN live : q # address /\ q # p => live'[q] = live[q]
  BY <1>1 DEF Put, Remove
<1>5. p \in DOMAIN blocks /\ blocks[p] \in [size : Nat \ {0}, free : BOOLEAN]
  BY DEF HeapInv, TypeOK, Accounted
<1>6. cells' \in [Addresses -> ByteValues]
  <2>1. ASSUME NEW a \in Addresses, a \in Region(address, length)
        PROVE  p + (a - address) \in Addresses
    <3>1. p \in Nat /\ p >= HeapStart /\ address \in Nat /\ a \in Nat
      BY HeapAssumption DEF HeapInv, TypeOK, Addresses
    <3>2. length \in Nat /\ length <= blocks[p].size
      BY <1>2, <1>5
    <3>3. p + blocks[p].size <= MemoryBound
      <4>1. p + blocks[p].size <= memLength
        BY <1>5 DEF HeapInv, BlocksInMemory
      <4>2. memLength \in Nat /\ memLength <= MemoryBound
        BY HeapAssumption DEF HeapInv, TypeOK
      <4> QED BY <1>5, <3>1, <4>1, <4>2, HeapAssumption
    <3>4. a >= address /\ a < address + length
      BY <2>1, <3>1, <3>2 DEF Region
    <3> HIDE DEF length
    <3> QED BY <1>5, <3>1, <3>2, <3>3, <3>4, HeapAssumption DEF Addresses
  <2> HIDE DEF length
  <2> QED BY <1>1, <2>1 DEF Copied, HeapInv, TypeOK
<1>7. /\ address \notin DOMAIN live
      /\ address \notin abandoned
      /\ \A s \in DOMAIN stringMap : stringMap[s] # address
  BY <1>3, OwnersKept
<1>8. TypeOK'
  <2>1. abandoned' \subseteq DOMAIN blocks'
    BY <1>1, <1>3, TypesKept, OwnersKept
  <2>2. DOMAIN live' \subseteq Addresses /\ \A q \in DOMAIN live' : live'[q] \in Nat \ {0}
    BY <1>2, <1>4 DEF HeapInv, TypeOK
  <2> QED
    BY <1>1, <1>3, <1>6, <2>1, <2>2, TypesKept DEF HeapInv, TypeOK
<1>9. Accounted'
  <2>1. \A q \in DOMAIN live' : q \in DOMAIN blocks' /\ blocks'[q].size = live'[q]
    BY <1>3, <1>4, OwnersKept DEF HeapInv, Accounted, Allocated, Block
  <2>2. \A s \in DOMAIN stringMap : blocks'[stringMap[s]].size = StrLen[s] + 1
    BY <1>3, OwnersKept DEF HeapInv, Accounted
  <2>3. \A a \in DOMAIN blocks' :
          ~blocks'[a].free <=> \/ a \in DOMAIN live'
                              \/ a \in abandoned'
                              \/ \E s \in DOMAIN stringMap : stringMap[s] = a
    BY <1>1, <1>3, <1>4, OwnersKept
  <2>4. DOMAIN live' \cap abandoned' = {}
    BY <1>1, <1>4, <1>7 DEF HeapInv, Accounted
  <2>5. \A s \in DOMAIN stringMap : stringMap[s] \notin DOMAIN live' \cup abandoned'
    BY <1>1, <1>4, <1>7 DEF HeapInv, Accounted
  <2> QED
    BY <1>1, <2>1, <2>2, <2>3, <2>4, <2>5 DEF HeapInv, Accounted
<1> QED BY <1>3, <1>8, <1>9 DEF HeapInv, Allocated

LEMMA FreeStep ==
  ASSUME HeapInv, NEW p \in DOMAIN live, FreeKnown(p)
  PROVE  HeapInv'
<1>1. /\ DOMAIN blocks' = DOMAIN blocks
      /\ \A a \in DOMAIN blocks : blocks'[a].size = blocks[a].size
      /\ \A a \in DOMAIN blocks : a # p => blocks'[a] = blocks[a]
      /\ blocks'[p].free
  BY DEF FreeKnown, HeapInv, TypeOK
<1>2. \A a \in DOMAIN blocks : blocks'[a] \in [size : Nat \ {0}, free : BOOLEAN]
  BY DEF FreeKnown, HeapInv, TypeOK
<1>3. /\ DOMAIN live' = (DOMAIN live) \ {p}
      /\ \A q \in DOMAIN live' : live'[q] = live[q]
      /\ UNCHANGED <<memLength, cells, stringMap, abandoned, thrown>>
  BY DEF FreeKnown, Remove
<1>4. TypeOK'
  BY <1>1, <1>2, <1>3 DEF HeapInv, TypeOK
<1>5. BlocksDisjoint' /\ BlocksInMemory'
  BY <1>1, <1>3 DEF HeapInv, BlocksDisjoint, BlocksInMemory
<1>6. Accounted'
  <2>1. p \notin abandoned /\ \A s \in DOMAIN stringMap : stringMap[s] # p
    BY DEF HeapInv, Accounted
  <2>2. \A a \in DOMAIN blocks' :
          ~blocks'[a].free <=> \/ a \in DOMAIN live'
                              \/ a \in abandoned'
                              \/ \E s \in DOMAIN stringMap' : stringMap'[s] = a
    BY <1>1, <1>3, <2>1 DEF HeapInv, Accounted
  <2>3. \A s \in DOMAIN stringMap : stringMap[s] \in DOMAIN blocks
    BY DEF HeapInv, TypeOK
  <2> QED BY <1>1, <1>3, <2>2, <2>3 DEF HeapInv, Accounted
<1> QED BY <1>4, <1>5, <1>6 DEF HeapInv

LEMMA WriteStep ==
  ASSUME HeapInv, NEW p \in Int, NEW i \in Int, NEW value \in Bytes,
         Write(p, i, value)
  PROVE  HeapInv'
<1>1. UNCHANGED <<blocks, memLength, stringMap, live, abandoned>>
  BY DEF Write
<1>2. cells' \in [Addresses -> ByteValues] /\ thrown' \in Int
  BY DEF Write, HeapInv, TypeOK, ByteValues
<1> QED BY <1>1, <1>2 DEF HeapInv, TypeOK, BlocksDisjoint, BlocksInMemory, Accounted

LEMMA GetStringPtrStep ==
  ASSUME HeapInv, NEW s \in Strings, GetStringPtr(s)
  PROVE  HeapInv'
<1> DEFINE size == StrLen[s] + 1
<1>1. PICK address \in Addresses :
        /\ MallocAt(size, address)
        /\ stringMap' = Put(stringMap, s, address)
        /\ cells' = [a \in Addresses |->
                       IF a \in Region(address, StrLen[s]) THEN s
                       ELSE IF a = address + StrLen[s] THEN 0
                       ELSE cells[a]]
  BY DEF GetStringPtr
<1>2. s \notin DOMAIN stringMap /\ UNCHANGED <<live, abandoned, thrown>>
  BY DEF GetStringPtr
<1>3. size \in Nat \ {0}
  BY HeapAssumption
<1>4. Allocated(size, address)
  BY <1>1, <1>3, MallocEffect
<1>5. /\ DOMAIN stringMap' = (DOMAIN stringMap) \cup {s}
      /\ stringMap'[s] = address
      /\ \A t \in DOMAIN stringMap : stringMap'[t] = stringMap[t]
  BY <1>1, <1>2 DEF Put
<1>6. cells' \in [Addresses -> ByteValues]
  BY <1>1, HeapAssumption DEF HeapInv, TypeOK, ByteValues
<1>7. address \in DOMAIN blocks' /\ blocks'[address].size = StrLen[s] + 1
  BY <1>4 DEF Allocated, Block
<1> HIDE DEF size
<1>8. TypeOK'
  BY <1>2, <1>4, <1>5, <1>6, <1>7, TypesKept DEF HeapInv, TypeOK
<1>9. /\ address \notin DOMAIN live
      /\ address \notin abandoned
      /\ \A t \in DOMAIN stringMap : stringMap[t] # address
  BY <1>4, OwnersKept
<1>10. Accounted'
  <2>1. \A q \in DOMAIN live : q \in DOMAIN blocks' /\ blocks'[q].size = live[q]
    BY <1>4, OwnersKept DEF HeapInv, Accounted
  <2>2. \A t \in DOMAIN stringMap' : blocks'[stringMap'[t]].size = StrLen[t] + 1
    BY <1>4, <1>5, <1>7, OwnersKept DEF HeapInv, Accounted
  <2>3. \A a \in DOMAIN blocks' :
          ~blocks'[a].free <=> \/ a \in DOMAIN live'
                              \/ a \in abandoned'
                              \/ \E t \in DOMAIN stringMap' : stringMap'[t] = a
    BY <1>2, <1>4, <1>5, OwnersKept
  <2>4. \A t \in DOMAIN stringMap' : stringMap'[t] \notin DOMAIN live' \cup abandoned'
    BY <1>2, <1>5, <1>9 DEF HeapInv, Accounted
  <2>5. \A t, u \in DOMAIN stringMap' : stringMap'[t] = stringMap'[u] => t = u
    BY <1>5, <1>9 DEF HeapInv, Accounted
  <2>6. DOMAIN live' \cap abandoned' = {}
    BY <1>2 DEF HeapInv, Accounted
  <2> QED BY <1>2, <2>1, <2>2, <2>3, <2>4, <2>5, <2>6 DEF Accounted
<1> QED BY <1>4, <1>8, <1>10 DEF HeapInv, Allocated

LEMMA HeapInvInit == Init => HeapInv
BY HeapAssumption
   DEF Init, HeapInv, TypeOK, BlocksDisjoint, BlocksInMemory, Accounted,
       ByteValues, None, Addresses

LEMMA HeapInvNext == HeapInv /\ [Next]_vars => HeapInv'
<1> SUFFICES ASSUME HeapInv, [Next]_vars
             PROVE  HeapInv'
  OBVIOUS
<1>1. ASSUME NEW size \in RequestSizes, Malloc(size)
      PROVE  HeapInv'
  BY <1>1, MallocStep
<1>2. ASSUME NEW count \in RequestSizes, NEW size \in RequestSizes, Calloc(count, size)
      PROVE  HeapInv'
  BY <1>2, CallocStep
<1>3. Null \notin DOMAIN blocks /\ Addresses \cup {Null} \subseteq Int
  BY HeapAssumption DEF HeapInv, TypeOK, Addresses, Null
<1>4. DOMAIN live \subseteq DOMAIN blocks
  BY DEF HeapInv, Accounted
<1>5. ASSUME NEW p \in Addresses \cup {Null}, NEW size \in RequestSizes, Realloc(p, size)
      PROVE  HeapInv'
  <2>1. CASE ThrowUnknown(p)
    BY <1>3, <2>1, ThrowStep
  <2>2. CASE ReallocKnown(p, size)
    <3>1. p \in DOMAIN live
      BY <1>3, <1>5, <2>2 DEF Realloc, ReallocKnown
    <3> QED BY <2>2, <3>1, ReallocStep
  <2> QED BY <1>5, <2>1, <2>2 DEF Realloc
<1>6. ASSUME NEW p \in Addresses \cup {Null}, Free(p)
      PROVE  HeapInv'
  <2>1. CASE ThrowUnknown(p)
    BY <1>3, <2>1, ThrowStep
  <2>2. CASE FreeKnown(p)
    <3>1. p \in DOMAIN live
      BY <1>3, <1>6, <2>2 DEF Free, FreeKnown
    <3> QED BY <2>2, <3>1, FreeStep
  <2> QED BY <1>6, <2>1, <2>2 DEF Free
<1>7. ASSUME NEW p \in 0 .. MemoryBound, NEW i \in 0 .. MemoryBound,
             NEW value \in Bytes, Write(p, i, value)
      PROVE  HeapInv'
  BY <1>7, WriteStep
<1>8. ASSUME NEW s \in Strings, GetStringPtr(s)
      PROVE  HeapInv'
  BY <1>8, GetStringPtrStep
<1>9. CASE UNCHANGED vars
  BY <1>9 DEF vars, HeapInv, TypeOK, BlocksDisjoint, BlocksInMemory, Accounted
<1> QED
  BY <1>1, <1>2, <1>5, <1>6, <1>7, <1>8, <1>9 DEF Next

(* Blocks never overlap, lie inside the array, and have exactly one owner,  *)
(* however the program calls malloc, calloc, realloc, free and its literals. *)
THEOREM HeapInvariant == Spec => []HeapInv
BY HeapInvInit, HeapInvNext, PTL DEF Spec

(* The type invariant alone. *)
THEOREM TypeCorrect == Spec => []TypeOK
<1>1. HeapInv => TypeOK
  BY DEF HeapInv
<1> QED BY <1>1, HeapInvariant, PTL

(* No two blocks share a byte. *)
THEOREM Disjointness == Spec => []BlocksDisjoint
<1>1. HeapInv => BlocksDisjoint
  BY DEF HeapInv
<1> QED BY <1>1, HeapInvariant, PTL

(* Every byte malloc has given out exists in the array. *)
THEOREM MemoryCoversBlocks == Spec => []BlocksInMemory
<1>1. HeapInv => BlocksInMemory
  BY DEF HeapInv
<1> QED BY <1>1, HeapInvariant, PTL

(* Every block in use has exactly one owner and the size it asked for. *)
THEOREM Accounting == Spec => []Accounted
<1>1. HeapInv => Accounted
  BY DEF HeapInv
<1> QED BY <1>1, HeapInvariant, PTL

------------------------------------------------------------------------------
(* What is given out is fresh. *)
LEMMA Apart ==
  ASSUME NEW a \in Int, NEW b \in Int, NEW n \in Nat, NEW m \in Nat,
         a + n <= b \/ b + m <= a
  PROVE  Region(a, n) \cap Region(b, m) = {}
BY DEF Region

(* A region held is a block in use of that size. *)
LEMMA HeldBlocks ==
  ASSUME HeapInv, NEW h \in Held
  PROVE  /\ h[1] \in DOMAIN blocks
         /\ blocks[h[1]].size = h[2]
         /\ \/ h[1] \in DOMAIN live
            \/ \E s \in DOMAIN stringMap : stringMap[s] = h[1]
<1>1. CASE \E p \in DOMAIN live : h = <<p, live[p]>>
  BY <1>1 DEF HeapInv, Accounted
<1>2. CASE \E s \in DOMAIN stringMap : h = <<stringMap[s], StrLen[s] + 1>>
  BY <1>2 DEF HeapInv, TypeOK, Accounted
<1> QED BY <1>1, <1>2 DEF Held

LEMMA NewApart ==
  ASSUME HeapInv, HeapInv', NEW size \in Nat \ {0}, NEW address \in Addresses,
         Allocated(size, address), Held' \subseteq Held \cup {<<address, size>>}
  PROVE  GivenOut
<1> SUFFICES ASSUME NEW new \in Held' \ Held, NEW old \in Held
             PROVE  Region(new[1], new[2]) \cap Region(old[1], old[2]) = {}
  BY DEF GivenOut
<1>1. new[1] = address /\ new[2] = size
  OBVIOUS
<1>2. /\ old[1] \in DOMAIN blocks
      /\ blocks[old[1]].size = old[2]
      /\ \/ old[1] \in DOMAIN live
         \/ \E s \in DOMAIN stringMap : stringMap[s] = old[1]
  BY HeldBlocks
<1>3. old[1] # address /\ old[1] \in DOMAIN blocks' /\ blocks'[old[1]] = blocks[old[1]]
  BY <1>2, OwnersKept
<1>4. address \in DOMAIN blocks' /\ blocks'[address].size = size
  BY DEF Allocated, Block
<1>5. old[1] \in Int /\ address \in Int /\ old[2] \in Nat
  BY <1>2 DEF HeapInv, TypeOK, Addresses
<1>6. old[1] + old[2] <= address \/ address + size <= old[1]
  BY <1>2, <1>3, <1>4, <1>5 DEF HeapInv, BlocksDisjoint
<1> QED BY <1>1, <1>5, <1>6, Apart

LEMMA NothingGivenOut ==
  ASSUME Held' \subseteq Held
  PROVE  GivenOut
BY DEF GivenOut

LEMMA FreshStep == HeapInv /\ HeapInv' /\ [Next]_vars => [GivenOut]_vars
<1> SUFFICES ASSUME HeapInv, HeapInv', [Next]_vars, ~UNCHANGED vars
             PROVE  GivenOut
  OBVIOUS
<1>1. ASSUME NEW size \in RequestSizes, Malloc(size)
      PROVE  GivenOut
  <2>1. PICK address \in Addresses :
          MallocAt(size, address) /\ live' = Put(live, address, size) /\ UNCHANGED stringMap
    BY <1>1, AsIntIdentity, HeapAssumption DEF Malloc
  <2>2. size \in Nat \ {0}
    BY HeapAssumption
  <2>3. Held' \subseteq Held \cup {<<address, size>>}
    BY <2>1 DEF Held, Put
  <2> QED BY <2>1, <2>2, <2>3, MallocEffect, NewApart
<1>2. ASSUME NEW count \in RequestSizes, NEW m \in RequestSizes, Calloc(count, m)
      PROVE  GivenOut
  <2> DEFINE size == count * m
  <2>1. size \in Nat \ {0} /\ size < IntBound
    <3>1. count \in Nat \ {0} /\ m \in Nat \ {0} /\ size < IntBound
      BY HeapAssumption
    <3> QED BY <3>1, SMT
  <2>2. PICK address \in Addresses :
          MallocAt(AsInt(size), address) /\ live' = Put(live, address, size) /\ UNCHANGED stringMap
    BY <1>2 DEF Calloc
  <2> HIDE DEF size
  <2>3. AsInt(size) = size
    BY <2>1, AsIntIdentity, HeapAssumption
  <2>4. Held' \subseteq Held \cup {<<address, size>>}
    BY <2>2 DEF Held, Put
  <2> QED BY <2>1, <2>2, <2>3, <2>4, MallocEffect, NewApart
<1>3. ASSUME NEW p \in Addresses \cup {Null}, ThrowUnknown(p)
      PROVE  GivenOut
  <2>1. Held' = Held
    BY <1>3 DEF ThrowUnknown, Held
  <2> QED BY <2>1, NothingGivenOut
<1>4. ASSUME NEW p \in Addresses \cup {Null}, NEW size \in RequestSizes, ReallocKnown(p, size)
      PROVE  GivenOut
  <2>1. PICK address \in Addresses :
          /\ MallocAt(AsInt(size), address)
          /\ live' = Put(Remove(live, p), address, size)
          /\ UNCHANGED stringMap
    BY <1>4 DEF ReallocKnown
  <2>2. size \in Nat \ {0} /\ AsInt(size) = size
    BY AsIntIdentity, HeapAssumption
  <2>3. Held' \subseteq Held \cup {<<address, size>>}
    BY <2>1 DEF Held, Put, Remove
  <2> QED BY <2>1, <2>2, <2>3, MallocEffect, NewApart
<1>5. ASSUME NEW p \in Addresses \cup {Null}, FreeKnown(p)
      PROVE  GivenOut
  <2>1. Held' \subseteq Held
    BY <1>5 DEF FreeKnown, Held, Remove
  <2> QED BY <2>1, NothingGivenOut
<1>6. ASSUME NEW p, NEW i, NEW value, Write(p, i, value)
      PROVE  GivenOut
  <2>1. Held' = Held
    BY <1>6 DEF Write, Held
  <2> QED BY <2>1, NothingGivenOut
<1>7. ASSUME NEW s \in Strings, GetStringPtr(s)
      PROVE  GivenOut
  <2> DEFINE size == StrLen[s] + 1
  <2>1. PICK address \in Addresses :
          MallocAt(size, address) /\ stringMap' = Put(stringMap, s, address)
    BY <1>7 DEF GetStringPtr
  <2>2. UNCHANGED live
    BY <1>7 DEF GetStringPtr
  <2>3. size \in Nat \ {0}
    BY HeapAssumption
  <2>4. Held' \subseteq Held \cup {<<address, size>>}
    BY <2>1, <2>2 DEF Held, Put
  <2> HIDE DEF size
  <2> QED BY <2>1, <2>3, <2>4, MallocEffect, NewApart
<1> QED
  BY <1>1, <1>2, <1>3, <1>4, <1>5, <1>6, <1>7 DEF Next, Realloc, Free

(* Whatever malloc, calloc, realloc and mir_get_string_ptr give out shares  *)
(* no byte with what the program and the literals hold.                      *)
THEOREM Freshness == Spec => FreshRegions
BY HeapInvariant, FreshStep, PTL DEF Spec, FreshRegions

------------------------------------------------------------------------------
(* The literals: every write of the program, every zeroing of calloc and     *)
(* every copy of realloc is in a block of another owner.                       *)
LEMMA LiteralOutside ==
  ASSUME HeapInv, NEW s \in DOMAIN stringMap, NEW b \in DOMAIN blocks,
         b # stringMap[s], NEW x \in Region(b, blocks[b].size)
  PROVE  x \notin Region(stringMap[s], StrLen[s] + 1)
<1> DEFINE a == stringMap[s]
<1>1. a \in DOMAIN blocks /\ blocks[a].size = StrLen[s] + 1
  BY DEF HeapInv, TypeOK, Accounted
<1>2. a \in Int /\ b \in Int /\ blocks[a].size \in Nat /\ blocks[b].size \in Nat
  BY <1>1 DEF HeapInv, TypeOK, Addresses
<1>3. a + blocks[a].size <= b \/ b + blocks[b].size <= a
  BY <1>1, <1>2 DEF HeapInv, BlocksDisjoint
<1>4. Region(a, blocks[a].size) \cap Region(b, blocks[b].size) = {}
  <2> HIDE DEF a
  <2> QED BY <1>2, <1>3, Apart
<1> QED BY <1>1, <1>4

(* LiteralsIntact says that the bytes of a literal are LiteralByte.          *)
LiteralByte(s, x) == IF x = stringMap[s] + StrLen[s] THEN 0 ELSE s

LiteralsHold ==
  \A s \in DOMAIN stringMap :
    \A x \in Region(stringMap[s], StrLen[s] + 1) : cells[x] = LiteralByte(s, x)

LEMMA LiteralsHoldIntact == HeapInv /\ LiteralsHold => LiteralsIntact
<1> SUFFICES ASSUME HeapInv, LiteralsHold, NEW s \in DOMAIN stringMap
             PROVE  /\ \A i \in 0 .. (StrLen[s] - 1) : cells[stringMap[s] + i] = s
                    /\ cells[stringMap[s] + StrLen[s]] = 0
  BY DEF LiteralsIntact
<1>1. stringMap[s] \in Int /\ StrLen[s] \in Nat
  BY HeapAssumption DEF HeapInv, TypeOK, Addresses
<1>2. \A i \in 0 .. StrLen[s] : stringMap[s] + i \in Region(stringMap[s], StrLen[s] + 1)
  BY <1>1 DEF Region
<1>3. \A i \in 0 .. StrLen[s] :
        cells[stringMap[s] + i] = IF i = StrLen[s] THEN 0 ELSE s
  BY <1>1, <1>2 DEF LiteralsHold, LiteralByte
<1> QED BY <1>1, <1>3

LEMMA LiteralOutsideNew ==
  ASSUME HeapInv, NEW size \in Nat \ {0}, NEW address \in Addresses,
         Allocated(size, address), NEW s \in DOMAIN stringMap,
         NEW x \in Region(address, size)
  PROVE  x \notin Region(stringMap[s], StrLen[s] + 1)
<1> DEFINE a == stringMap[s]
           n == StrLen[s] + 1
<1>1. /\ a \in DOMAIN blocks' /\ a # address
      /\ blocks'[a] = blocks[a] /\ blocks[a].size = n
      /\ n \in Nat /\ a \in Int /\ address \in Int
  <2>1. a \in DOMAIN blocks' /\ a # address /\ blocks'[a] = blocks[a]
    BY OwnersKept
  <2>2. blocks[a].size = n /\ a \in DOMAIN blocks
    BY DEF HeapInv, TypeOK, Accounted
  <2> QED BY <2>1, <2>2 DEF HeapInv, TypeOK, Addresses
<1>2. address \in DOMAIN blocks' /\ blocks'[address].size = size /\ BlocksDisjoint'
  BY DEF Allocated, Block
<1> HIDE DEF a, n
<1>3. a + n <= address \/ address + size <= a
  BY <1>1, <1>2 DEF BlocksDisjoint
<1>4. Region(a, n) \cap Region(address, size) = {}
  BY <1>1, <1>3, Apart
<1> QED BY <1>4 DEF a, n

(* A step that keeps the literals of the table and writes outside of them. *)
LEMMA LiteralsUndisturbed ==
  ASSUME LiteralsHold, UNCHANGED stringMap,
         \A s \in DOMAIN stringMap :
           \A x \in Region(stringMap[s], StrLen[s] + 1) : cells'[x] = cells[x]
  PROVE  LiteralsHold'
BY DEF LiteralsHold, LiteralByte

LEMMA LiteralInAddresses ==
  ASSUME HeapInv, NEW s \in DOMAIN stringMap, NEW x \in Region(stringMap[s], StrLen[s] + 1)
  PROVE  x \in Addresses
<1> DEFINE a == stringMap[s]
           n == StrLen[s] + 1
<1>1. a \in DOMAIN blocks /\ blocks[a].size = n /\ a \in Addresses
  BY DEF HeapInv, TypeOK, Accounted
<1>2. a + n <= memLength /\ memLength \in Nat /\ memLength <= MemoryBound /\ n \in Nat
  BY <1>1, HeapAssumption DEF HeapInv, TypeOK, BlocksInMemory
<1>3. x \in Region(a, n)
  OBVIOUS
<1> HIDE DEF a, n
<1> QED BY <1>1, <1>2, <1>3, HeapAssumption DEF Region, Addresses

LEMMA LiteralsNext == HeapInv /\ LiteralsHold /\ [Next]_vars => LiteralsHold'
<1> SUFFICES ASSUME HeapInv, LiteralsHold, [Next]_vars
             PROVE  LiteralsHold'
  OBVIOUS
<1>1. ASSUME NEW size \in RequestSizes, Malloc(size)
      PROVE  LiteralsHold'
  BY <1>1, LiteralsUndisturbed DEF Malloc
<1>2. ASSUME NEW count \in RequestSizes, NEW m \in RequestSizes, Calloc(count, m)
      PROVE  LiteralsHold'
  <2> DEFINE size == count * m
  <2>1. size \in Nat \ {0} /\ size < IntBound
    <3>1. count \in Nat \ {0} /\ m \in Nat \ {0} /\ size < IntBound
      BY HeapAssumption
    <3> QED BY <3>1, SMT
  <2>2. PICK address \in Addresses :
          MallocAt(AsInt(size), address) /\ cells' = Filled(address, AsInt(size), 0)
    BY <1>2 DEF Calloc
  <2>3. UNCHANGED stringMap
    BY <1>2 DEF Calloc
  <2> HIDE DEF size
  <2>4. AsInt(size) = size
    BY <2>1, AsIntIdentity, HeapAssumption
  <2>5. Allocated(size, address)
    BY <2>1, <2>2, <2>4, MallocEffect
  <2>6. ASSUME NEW s \in DOMAIN stringMap, NEW x \in Region(stringMap[s], StrLen[s] + 1)
        PROVE  cells'[x] = cells[x]
    BY <2>1, <2>2, <2>4, <2>5, <2>6, LiteralOutsideNew, LiteralInAddresses DEF Filled
  <2> QED BY <2>3, <2>6, LiteralsUndisturbed
<1>3. ASSUME NEW p, ThrowUnknown(p)
      PROVE  LiteralsHold'
  BY <1>3, LiteralsUndisturbed DEF ThrowUnknown
<1>4. ASSUME NEW p \in DOMAIN live, NEW size \in RequestSizes, ReallocKnown(p, size)
      PROVE  LiteralsHold'
  <2> DEFINE length == IF blocks[p].size < AsInt(size) THEN blocks[p].size ELSE AsInt(size)
  <2>1. size \in Nat \ {0} /\ AsInt(size) = size
    BY AsIntIdentity, HeapAssumption
  <2>2. PICK address \in Addresses :
          MallocAt(AsInt(size), address) /\ cells' = Copied(p, address, length)
    BY <1>4, ReallocEffect
  <2>3. UNCHANGED stringMap
    BY <1>4, ReallocEffect
  <2>4. Allocated(size, address)
    BY <2>1, <2>2, MallocEffect
  <2>5. Region(address, length) \subseteq Region(address, size)
    <3>1. p \in DOMAIN blocks
      BY DEF HeapInv, Accounted
    <3>2. length \in Nat /\ length <= size /\ address \in Int
      BY <2>1, <3>1 DEF HeapInv, TypeOK, Addresses
    <3> HIDE DEF length
    <3> QED BY <2>1, <3>2 DEF Region
  <2> HIDE DEF length
  <2>6. ASSUME NEW s \in DOMAIN stringMap, NEW x \in Region(stringMap[s], StrLen[s] + 1)
        PROVE  cells'[x] = cells[x]
    BY <2>1, <2>2, <2>4, <2>5, LiteralOutsideNew, LiteralInAddresses DEF Copied
  <2> QED BY <2>3, <2>6, LiteralsUndisturbed
<1>5. ASSUME NEW p, FreeKnown(p)
      PROVE  LiteralsHold'
  BY <1>5, LiteralsUndisturbed DEF FreeKnown
<1>6. ASSUME NEW p \in Int, NEW i \in Int, NEW value \in Bytes, Write(p, i, value)
      PROVE  LiteralsHold'
  <2>1. p \in DOMAIN live /\ i \in 0 .. (live[p] - 1) /\ UNCHANGED stringMap
    BY <1>6 DEF Write
  <2>2. p \in DOMAIN blocks /\ blocks[p].size = live[p] /\ live[p] \in Nat
    BY <2>1 DEF HeapInv, TypeOK, Accounted
  <2>3. p + i \in Region(p, blocks[p].size)
    BY <2>1, <2>2 DEF Region
  <2>4. ASSUME NEW s \in DOMAIN stringMap
        PROVE  p + i \notin Region(stringMap[s], StrLen[s] + 1)
    <3>1. p # stringMap[s]
      BY <2>1 DEF HeapInv, Accounted
    <3> QED BY <2>2, <2>3, <3>1, LiteralOutside
  <2>5. \A x \in Addresses : x # p + i => cells'[x] = cells[x]
    BY <1>6 DEF Write, HeapInv, TypeOK
  <2>6. ASSUME NEW s \in DOMAIN stringMap, NEW x \in Region(stringMap[s], StrLen[s] + 1)
        PROVE  cells'[x] = cells[x]
    BY <2>4, <2>5, LiteralInAddresses
  <2> QED BY <2>1, <2>6, LiteralsUndisturbed
<1>7. ASSUME NEW s \in Strings, GetStringPtr(s)
      PROVE  LiteralsHold'
  <2> DEFINE size == StrLen[s] + 1
  <2>1. PICK address \in Addresses :
          /\ MallocAt(size, address)
          /\ stringMap' = Put(stringMap, s, address)
          /\ cells' = [a \in Addresses |->
                         IF a \in Region(address, StrLen[s]) THEN s
                         ELSE IF a = address + StrLen[s] THEN 0
                         ELSE cells[a]]
    BY <1>7 DEF GetStringPtr
  <2>2. /\ s \notin DOMAIN stringMap
        /\ DOMAIN stringMap' = (DOMAIN stringMap) \cup {s}
        /\ stringMap'[s] = address
        /\ \A t \in DOMAIN stringMap : stringMap'[t] = stringMap[t]
    BY <1>7, <2>1 DEF GetStringPtr, Put
  <2>3. size \in Nat \ {0} /\ StrLen[s] \in Nat /\ address \in Int
    BY HeapAssumption DEF Addresses
  <2>4. Allocated(size, address)
    BY <2>1, <2>3, MallocEffect
  <2>5. Region(address, size) \subseteq Addresses
    <3>1. address + size <= memLength' /\ memLength' \in Nat /\ memLength' <= MemoryBound
      BY <2>4, HeapAssumption DEF Allocated, BlocksInMemory, Block
    <3> HIDE DEF size
    <3> QED BY <2>3, <3>1, HeapAssumption DEF Region, Addresses
  <2>6. ASSUME NEW x \in Region(address, size)
        PROVE  cells'[x] = IF x = address + StrLen[s] THEN 0 ELSE s
    BY <2>1, <2>3, <2>5 DEF Region
  <2>7. ASSUME NEW t \in DOMAIN stringMap, NEW x \in Region(stringMap[t], StrLen[t] + 1)
        PROVE  cells'[x] = cells[x]
    <3>1. x \notin Region(address, size) /\ x \in Addresses
      BY <2>3, <2>4, LiteralOutsideNew, LiteralInAddresses
    <3>2. x \notin Region(address, StrLen[s]) /\ x # address + StrLen[s]
      BY <2>3, <3>1 DEF Region
    <3> QED BY <2>1, <3>1, <3>2
  <2> HIDE DEF size
  <2>8. SUFFICES ASSUME NEW t \in DOMAIN stringMap',
                        NEW x \in Region(stringMap'[t], StrLen[t] + 1)
                 PROVE  cells'[x] = IF x = stringMap'[t] + StrLen[t] THEN 0 ELSE t
    BY DEF LiteralsHold, LiteralByte
  <2>9. CASE t = s
    BY <2>2, <2>6, <2>9 DEF size
  <2>10. CASE t \in DOMAIN stringMap
    BY <2>2, <2>7, <2>10 DEF LiteralsHold, LiteralByte
  <2> QED BY <2>2, <2>9, <2>10
<1>8. CASE UNCHANGED vars
  BY <1>8, LiteralsUndisturbed DEF vars
<1>9. Null \notin DOMAIN blocks
  BY HeapAssumption DEF HeapInv, TypeOK, Addresses, Null
<1>10. ASSUME NEW p \in Addresses \cup {Null}, NEW size \in RequestSizes, Realloc(p, size)
       PROVE  LiteralsHold'
  BY <1>3, <1>4, <1>9, <1>10 DEF Realloc, ReallocKnown
<1> QED
  BY <1>1, <1>2, <1>3, <1>5, <1>6, <1>7, <1>8, <1>10 DEF Next, Free

(* The address of a literal always finds the literal, end byte included.    *)
THEOREM LiteralsStay == Spec => []LiteralsIntact
<1>1. Init => LiteralsHold
  BY DEF Init, LiteralsHold
<1>2. Spec => []LiteralsHold
  BY <1>1, LiteralsNext, HeapInvariant, PTL DEF Spec
<1> QED BY <1>2, HeapInvariant, LiteralsHoldIntact, PTL

(* Only NULL makes the runtime throw: free and realloc find every block the *)
(* program owns, and every byte of it is in the array.                       *)
LEMMA ThrowNext == HeapInv /\ OnlyNullThrows /\ [Next]_vars => OnlyNullThrows'
<1> SUFFICES ASSUME HeapInv, OnlyNullThrows, [Next]_vars
             PROVE  OnlyNullThrows'
  OBVIOUS
<1>1. ASSUME NEW p \in DOMAIN live \cup {Null}, ThrowUnknown(p)
      PROVE  OnlyNullThrows'
  <2>1. p = Null
    BY <1>1 DEF ThrowUnknown, HeapInv, Accounted
  <2> QED BY <1>1, <2>1 DEF ThrowUnknown, OnlyNullThrows
<1>2. ASSUME NEW p \in Int, NEW i \in Int, NEW value, Write(p, i, value)
      PROVE  OnlyNullThrows'
  <2>1. p \in DOMAIN live /\ i \in 0 .. (live[p] - 1)
    BY <1>2 DEF Write
  <2>2. p \in DOMAIN blocks /\ blocks[p].size = live[p] /\ live[p] \in Nat
    BY <2>1 DEF HeapInv, TypeOK, Accounted
  <2>3. p + live[p] <= memLength /\ memLength \in Int
    BY <2>2, HeapAssumption DEF HeapInv, TypeOK, BlocksInMemory
  <2>4. p + i < memLength
    BY <2>1, <2>2, <2>3
  <2> QED BY <1>2, <2>4 DEF Write, OnlyNullThrows
<1>3. ASSUME UNCHANGED thrown
      PROVE  OnlyNullThrows'
  BY <1>3 DEF OnlyNullThrows
<1>4. ASSUME NEW size, Malloc(size) PROVE UNCHANGED thrown
  BY <1>4 DEF Malloc
<1>5. ASSUME NEW count, NEW size, Calloc(count, size) PROVE UNCHANGED thrown
  BY <1>5 DEF Calloc
<1>6. ASSUME NEW p, NEW size, Realloc(p, size) PROVE OnlyNullThrows'
  BY <1>1, <1>3, <1>6 DEF Realloc, ReallocKnown
<1>7. ASSUME NEW p, Free(p) PROVE OnlyNullThrows'
  BY <1>1, <1>3, <1>7 DEF Free, FreeKnown
<1>8. ASSUME NEW s, GetStringPtr(s) PROVE UNCHANGED thrown
  BY <1>8 DEF GetStringPtr
<1>9. CASE UNCHANGED vars
  BY <1>3, <1>9 DEF vars
<1> QED
  BY <1>2, <1>3, <1>4, <1>5, <1>6, <1>7, <1>8, <1>9, HeapAssumption DEF Next

THEOREM NoOtherException == Spec => []OnlyNullThrows
<1>1. Init => OnlyNullThrows
  BY DEF Init, OnlyNullThrows
<1> QED BY <1>1, ThrowNext, HeapInvariant, PTL DEF Spec

------------------------------------------------------------------------------
(* No gaps: a split cuts a block into two that lie side by side, and a new    *)
(* block begins where the last one ends. With the blocks disjoint this makes  *)
(* them a partition of the heap up to the end of the last one.                *)
Followed(a) == IsLast(a) \/ a + blocks[a].size \in DOMAIN blocks

CoverInv == \A a \in DOMAIN blocks : Followed(a) /\ HeapStart \in DOMAIN blocks

LEMMA BlockFacts ==
  ASSUME HeapInv
  PROVE  \A a \in DOMAIN blocks : a \in Int /\ blocks[a].size \in Nat \ {0}
BY DEF HeapInv, TypeOK, Addresses

LEMMA ReuseCovers ==
  ASSUME HeapInv, CoverInv, NEW size \in Nat \ {0}, NEW address \in Addresses,
         ReuseBlock(size, address)
  PROVE  CoverInv'
<1> DEFINE old  == blocks[address].size
           rest == old - size
<1>1. /\ address \in DOMAIN blocks /\ address \in Int /\ old \in Nat /\ old >= size
      /\ HeapStart \in DOMAIN blocks
  BY BlockFacts DEF ReuseBlock, FirstFit, Fits, Addresses, CoverInv
<1>2. CASE rest > 0
  <2> DEFINE cut == address + size
  <2>1. AddBlock([blocks EXCEPT ![address] = Block(size, FALSE)], cut, rest, TRUE)
    BY <1>2 DEF ReuseBlock
  <2>2. /\ cut \in Int /\ address < cut /\ cut + rest = address + old /\ cut < address + old
        /\ rest \in Int
    BY <1>1, <1>2
  <2> HIDE DEF rest
  <2>3. /\ DOMAIN blocks' = (DOMAIN blocks) \cup {cut}
        /\ blocks'[cut] = Block(rest, TRUE)
        /\ blocks'[address] = Block(size, FALSE)
        /\ \A a \in DOMAIN blocks : a # address /\ a # cut => blocks'[a] = blocks[a]
    <3>1. /\ DOMAIN blocks' = (DOMAIN blocks) \cup {cut}
          /\ \A a \in (DOMAIN blocks) \cup {cut} :
               blocks'[a] = IF a = cut THEN Block(rest, TRUE)
                            ELSE [blocks EXCEPT ![address] = Block(size, FALSE)][a]
      BY <2>1 DEF AddBlock, Put
    <3>2. address # cut
      BY <1>1, <2>2
    <3> HIDE DEF cut
    <3> QED BY <1>1, <3>1, <3>2
  <2> HIDE DEF cut
  <2>4. \A a \in DOMAIN blocks : a # address => a < cut \/ a >= address + old
    <3> SUFFICES ASSUME NEW a \in DOMAIN blocks, a # address
                 PROVE  a < cut \/ a >= address + old
      OBVIOUS
    <3>1. a \in Int /\ blocks[a].size \in Nat \ {0}
      BY BlockFacts
    <3>2. CASE a < address
      BY <1>1, <2>2, <3>1, <3>2
    <3>3. CASE address < a
      BY <1>1, <3>3 DEF HeapInv, BlocksDisjoint
    <3> QED BY <1>1, <3>1, <3>2, <3>3
  <2>5. cut \notin DOMAIN blocks
    BY <1>1, <2>2, <2>4
  <2>6. address + blocks'[address].size = cut /\ cut + blocks'[cut].size = address + old
    <3>1. blocks'[address].size = size /\ blocks'[cut].size = rest
      BY <2>3 DEF Block
    <3> QED BY <2>2, <3>1 DEF cut
  <2>7. CASE address + old \in DOMAIN blocks
    <3>1. ASSUME NEW a \in DOMAIN blocks' PROVE Followed(a)'
      <4>1. CASE a = address
        BY <2>3, <2>6, <4>1 DEF Followed
      <4>2. CASE a = cut
        BY <2>3, <2>6, <2>7, <4>2 DEF Followed
      <4>3. CASE a \in DOMAIN blocks /\ a # address /\ a # cut
        <5>1. blocks'[a] = blocks[a]
          BY <2>3, <4>3
        <5>2. CASE a + blocks[a].size \in DOMAIN blocks
          BY <2>3, <5>1, <5>2 DEF Followed
        <5>3. CASE IsLast(a)
          <6>1. \A b \in DOMAIN blocks : b <= a
            BY <5>3 DEF IsLast
          <6>2. address + old <= a
            BY <2>7, <6>1
          <6>3. a \in Int /\ cut <= a
            BY <1>1, <2>2, <4>3, <6>2, BlockFacts
          <6> QED BY <2>3, <6>1, <6>3 DEF Followed, IsLast
        <5> QED BY <4>3, <5>2, <5>3 DEF CoverInv, Followed
      <4> QED BY <2>3, <4>1, <4>2, <4>3
    <3> QED BY <1>1, <2>3, <3>1 DEF CoverInv
  <2>8. CASE IsLast(address)
    <3>1. \A b \in DOMAIN blocks : b <= address /\ b \in Int
      BY <2>8, BlockFacts DEF IsLast
    <3>2. \A b \in DOMAIN blocks' : b <= cut
      BY <1>1, <2>2, <2>3, <3>1
    <3>3. IsLast(cut)'
      BY <2>3, <3>2 DEF IsLast
    <3>4. ASSUME NEW a \in DOMAIN blocks' PROVE Followed(a)'
      <4>1. CASE a = address
        BY <2>3, <2>6, <4>1 DEF Followed
      <4>2. CASE a = cut
        BY <3>3, <4>2 DEF Followed
      <4>3. CASE a \in DOMAIN blocks /\ a # address /\ a # cut
        <5>1. blocks'[a] = blocks[a]
          BY <2>3, <4>3
        <5>2. ~IsLast(a)
          BY <1>1, <3>1, <4>3 DEF IsLast
        <5>3. a + blocks[a].size \in DOMAIN blocks
          BY <4>3, <5>2 DEF CoverInv, Followed
        <5> QED BY <2>3, <5>1, <5>3 DEF Followed
      <4> QED BY <2>3, <4>1, <4>2, <4>3
    <3> QED BY <1>1, <2>3, <3>4 DEF CoverInv
  <2> QED BY <1>1, <2>7, <2>8 DEF CoverInv, Followed
<1>3. CASE ~(rest > 0)
  <2>1. DOMAIN blocks' = DOMAIN blocks /\ \A a \in DOMAIN blocks : blocks'[a].size = blocks[a].size
    <3>1. blocks' = [blocks EXCEPT ![address].free = FALSE]
      BY <1>3 DEF ReuseBlock
    <3>2. blocks[address] \in [size : Nat \ {0}, free : BOOLEAN]
      BY <1>1 DEF HeapInv, TypeOK
    <3> QED BY <1>1, <3>1, <3>2
  <2> QED BY <1>1, <2>1 DEF CoverInv, Followed, IsLast
<1> QED BY <1>2, <1>3

LEMMA ExtendCovers ==
  ASSUME HeapInv, CoverInv, NEW size \in Nat \ {0}, NEW address \in Addresses,
         ExtendHeap(size, address)
  PROVE  CoverInv'
<1>1. blocks' = Put(blocks, address, Block(size, FALSE)) /\ IsTop(address)
  BY DEF ExtendHeap, AddBlock
<1>2. /\ DOMAIN blocks' = (DOMAIN blocks) \cup {address}
      /\ \A a \in DOMAIN blocks : a # address => blocks'[a] = blocks[a]
  BY <1>1 DEF Put
<1>3. address \in Int
  BY DEF Addresses
<1>4. CASE DOMAIN blocks = {}
  <2>1. address = HeapStart /\ DOMAIN blocks' = {HeapStart}
    BY <1>1, <1>2, <1>4 DEF IsTop
  <2> QED BY <1>3, <2>1 DEF CoverInv, Followed, IsLast
<1>5. CASE DOMAIN blocks # {}
  <2>1. PICK b \in DOMAIN blocks : IsLast(b) /\ address = b + blocks[b].size
    BY <1>1, <1>5 DEF IsTop
  <2>2. \A a \in DOMAIN blocks : a \in Int /\ a < address
    BY <1>3, <2>1, BlockFacts DEF IsLast
  <2>3. IsLast(address)'
    BY <1>2, <1>3, <2>2 DEF IsLast
  <2>4. ASSUME NEW a \in DOMAIN blocks PROVE Followed(a)'
    <3>1. a # address
      BY <1>3, <2>2
    <3>2. blocks'[a] = blocks[a]
      BY <1>2, <3>1
    <3>3. CASE a = b
      BY <1>2, <2>1, <3>2, <3>3 DEF Followed
    <3>4. CASE a # b
      <4>1. ~IsLast(a)
        BY <2>1, <2>2, <3>4 DEF IsLast
      <4>2. a + blocks[a].size \in DOMAIN blocks
        BY <4>1 DEF CoverInv, Followed
      <4> QED BY <1>2, <3>2, <4>2 DEF Followed
    <3> QED BY <3>3, <3>4
  <2>5. HeapStart \in DOMAIN blocks'
    BY <1>2, <1>5 DEF CoverInv
  <2>6. \A a \in DOMAIN blocks' : Followed(a)'
    BY <1>2, <2>3, <2>4 DEF Followed
  <2> QED BY <2>5, <2>6 DEF CoverInv
<1> QED BY <1>4, <1>5

LEMMA MallocCovers ==
  ASSUME HeapInv, CoverInv, NEW size \in Nat \ {0}, NEW address \in Addresses,
         MallocAt(size, address)
  PROVE  CoverInv'
BY ReuseCovers, ExtendCovers DEF MallocAt

LEMMA CoverNext == HeapInv /\ CoverInv /\ [Next]_vars => CoverInv'
<1> SUFFICES ASSUME HeapInv, CoverInv, [Next]_vars PROVE CoverInv'
  OBVIOUS
<1>1. \A n \in RequestSizes : n \in Nat \ {0} /\ AsInt(n) = n
  BY AsIntIdentity, HeapAssumption
<1>2. ASSUME NEW size \in RequestSizes, Malloc(size) PROVE CoverInv'
  BY <1>1, <1>2, MallocCovers DEF Malloc
<1>3. ASSUME NEW count \in RequestSizes, NEW m \in RequestSizes, Calloc(count, m) PROVE CoverInv'
  <2> DEFINE size == count * m
  <2>1. size \in Nat \ {0} /\ size < IntBound
    <3>1. count \in Nat \ {0} /\ m \in Nat \ {0} /\ size < IntBound
      BY HeapAssumption
    <3> QED BY <3>1, SMT
  <2>2. PICK address \in Addresses : MallocAt(AsInt(size), address)
    BY <1>3 DEF Calloc
  <2> HIDE DEF size
  <2>3. AsInt(size) = size
    BY <2>1, AsIntIdentity, HeapAssumption
  <2> QED BY <2>1, <2>2, <2>3, MallocCovers
<1>4. ASSUME NEW p \in Addresses \cup {Null}, NEW size \in RequestSizes, ReallocKnown(p, size)
      PROVE  CoverInv'
  BY <1>1, <1>4, MallocCovers DEF ReallocKnown
<1>5. ASSUME NEW p \in Addresses \cup {Null}, FreeKnown(p) PROVE CoverInv'
  <2>1. DOMAIN blocks' = DOMAIN blocks /\ \A a \in DOMAIN blocks : blocks'[a].size = blocks[a].size
    BY <1>5 DEF FreeKnown, HeapInv, TypeOK
  <2> QED BY <2>1 DEF CoverInv, Followed, IsLast
<1>6. ASSUME NEW s \in Strings, GetStringPtr(s) PROVE CoverInv'
  <2>1. StrLen[s] + 1 \in Nat \ {0}
    BY HeapAssumption
  <2> QED BY <1>6, <2>1, MallocCovers DEF GetStringPtr
<1>7. CASE UNCHANGED blocks
  BY <1>7 DEF CoverInv, Followed, IsLast
<1>8. \/ \E size \in RequestSizes : Malloc(size)
      \/ \E count, m \in RequestSizes : Calloc(count, m)
      \/ \E p \in Addresses \cup {Null}, size \in RequestSizes : ReallocKnown(p, size)
      \/ \E p \in Addresses \cup {Null} : FreeKnown(p)
      \/ \E s \in Strings : GetStringPtr(s)
      \/ UNCHANGED blocks
  BY DEF Next, vars, Realloc, Free, ThrowUnknown, Write
<1> QED BY <1>2, <1>3, <1>4, <1>5, <1>6, <1>7, <1>8

(* Splitting and growing lose no byte: from the heap start on every block     *)
(* begins where another one ends.                                            *)
THEOREM NoGaps == Spec => []BlocksCover
<1>1. Init => CoverInv
  BY DEF Init, CoverInv
<1>2. CoverInv => BlocksCover
  BY DEF CoverInv, Followed, BlocksCover
<1> QED BY <1>1, <1>2, CoverNext, HeapInvariant, PTL DEF Spec

------------------------------------------------------------------------------
(* The block map implements what C promises (HeapPromise). Every allocation is *)
(* the part of the array in its own block: what malloc gives out is available,  *)
(* and what one call writes is seen through no other pointer.                  *)
LEMMA LiveFacts ==
  ASSUME HeapInv
  PROVE  \A p \in DOMAIN live :
           /\ p \in DOMAIN blocks /\ blocks[p].size = live[p]
           /\ p \in Addresses /\ p \in Int /\ live[p] \in Nat \ {0} /\ p + live[p] <= memLength
BY DEF HeapInv, TypeOK, Accounted, BlocksInMemory, Addresses

LEMMA InMemory ==
  ASSUME NEW len \in Doublings, NEW p \in Addresses, NEW n \in Nat, p + n <= len,
         NEW i \in 0 .. (n - 1)
  PROVE  p + i \in Addresses
<1>1. len \in Nat /\ len <= MemoryBound /\ MemoryBound \in Nat /\ HeapStart \in Nat
  BY HeapAssumption
<1>2. p \in Int /\ p >= HeapStart
  BY <1>1 DEF Addresses
<1> QED BY <1>1, <1>2 DEF Addresses

LEMMA LiveApart ==
  ASSUME HeapInv, NEW p \in DOMAIN live, NEW q \in DOMAIN live, p # q,
         NEW i \in 0 .. (live[p] - 1), NEW j \in 0 .. (live[q] - 1)
  PROVE  p + i # q + j
<1>1. /\ p \in DOMAIN blocks /\ blocks[p].size = live[p] /\ p \in Int /\ live[p] \in Nat
      /\ q \in DOMAIN blocks /\ blocks[q].size = live[q] /\ q \in Int /\ live[q] \in Nat
  BY LiveFacts
<1>2. p + live[p] <= q \/ q + live[q] <= p
  BY <1>1 DEF HeapInv, BlocksDisjoint
<1> QED BY <1>1, <1>2

LEMMA NewOutside ==
  ASSUME HeapInv, NEW size \in Nat \ {0}, NEW address \in Addresses,
         Allocated(size, address), NEW p \in DOMAIN live, NEW i \in 0 .. (live[p] - 1)
  PROVE  p # address /\ p + i \notin Region(address, size)
<1>1. p \in Int /\ live[p] \in Nat /\ blocks[p].size = live[p]
  BY LiveFacts
<1>2. p # address /\ p \in DOMAIN blocks' /\ blocks'[p] = blocks[p]
  BY OwnersKept
<1>3. address \in DOMAIN blocks' /\ blocks'[address].size = size /\ address \in Int
  BY DEF Allocated, Block, Addresses
<1>4. p + live[p] <= address \/ address + size <= p
  <2>1. BlocksDisjoint'
    BY DEF Allocated
  <2>2. CASE p < address
    BY <1>1, <1>2, <1>3, <2>1, <2>2 DEF BlocksDisjoint
  <2>3. CASE address < p
    BY <1>1, <1>2, <1>3, <2>1, <2>3 DEF BlocksDisjoint
  <2> QED BY <1>1, <1>2, <1>3, <2>2, <2>3
<1> QED BY <1>1, <1>2, <1>3, <1>4 DEF Region

LEMMA NewAvailable ==
  ASSUME HeapInv, NEW size \in Nat \ {0}, NEW address \in Addresses, Allocated(size, address)
  PROVE  Promise!Available(address, size)
<1>1. DOMAIN Contents = DOMAIN live /\ \A p \in DOMAIN live : DOMAIN Contents[p] = 0 .. (live[p] - 1)
  BY DEF Contents
<1>2. address \notin DOMAIN live
  BY OwnersKept
<1>3. ASSUME NEW x \in Promise!Span(address, size), x \in Promise!InUse PROVE FALSE
  <2>0. x \in Promise!InUse
    BY <1>3
  <2>1. x \in Region(address, size)
    BY DEF Promise!Span, Region
  <2>2. ASSUME NEW p \in DOMAIN live, NEW i \in 0 .. (live[p] - 1), x = p + i PROVE FALSE
    BY <2>1, <2>2, NewOutside
  <2>3. ASSUME NEW s \in DOMAIN stringMap, x \in Promise!Span(stringMap[s], StrLen[s] + 1)
        PROVE FALSE
    <3>1. x \in Region(stringMap[s], StrLen[s] + 1)
      BY <2>3 DEF Promise!Span, Region
    <3> QED BY <2>1, <3>1, LiteralOutsideNew
  <2>4. \/ \E p \in DOMAIN Contents : x \in {p + i : i \in DOMAIN Contents[p]}
        \/ \E s \in DOMAIN stringMap : x \in Promise!Span(stringMap[s], StrLen[s] + 1)
    <3> DEFINE Own == {{p + i : i \in DOMAIN Contents[p]} : p \in DOMAIN Contents}
               Lits == {Promise!Span(stringMap[s], StrLen[s] + 1) : s \in DOMAIN stringMap}
    <3>1. Promise!InUse = (UNION Own) \cup (UNION Lits)
      BY DEF Promise!InUse
    <3>2. CASE x \in UNION Own
      <4>1. PICK y \in Own : x \in y
        BY <3>2
      <4>2. PICK p \in DOMAIN Contents : y = {p + i : i \in DOMAIN Contents[p]}
        BY <4>1
      <4>3. x \in {p + i : i \in DOMAIN Contents[p]}
        BY <4>1, <4>2
      <4> HIDE DEF Own, Lits
      <4>4. \E q \in DOMAIN Contents : x \in {q + i : i \in DOMAIN Contents[q]}
        BY <4>3
      <4> QED BY <4>4
    <3>3. CASE x \in UNION Lits
      BY <3>3
    <3> HIDE DEF Own, Lits
    <3>4. x \in UNION Own \/ x \in UNION Lits
      BY <2>0, <3>1
    <3> QED BY <3>2, <3>3, <3>4
  <2>5. CASE \E p \in DOMAIN Contents : x \in {p + i : i \in DOMAIN Contents[p]}
    <3>1. PICK p \in DOMAIN live : x \in {p + i : i \in 0 .. (live[p] - 1)}
      BY <1>1, <2>5
    <3>2. PICK i \in 0 .. (live[p] - 1) : x = p + i
      BY <3>1
    <3> QED BY <2>2, <3>2
  <2> QED BY <2>3, <2>4, <2>5
<1> QED BY <1>1, <1>2, <1>3 DEF Promise!Available

(* The bytes of what has been given out are bytes of the array.               *)
NewContents(size, address) == [i \in 0 .. (size - 1) |-> cells'[address + i]]

LEMMA NewContentsTyped ==
  ASSUME HeapInv', NEW size \in Nat \ {0}, NEW address \in Addresses, Allocated(size, address)
  PROVE  NewContents(size, address) \in [0 .. (size - 1) -> ByteValues]
<1>1. memLength' \in Doublings /\ address + size <= memLength'
  BY DEF Allocated, Block, BlocksInMemory
<1>2. cells' \in [Addresses -> ByteValues]
  BY DEF HeapInv, TypeOK, ByteValues
<1>3. \A i \in 0 .. (size - 1) : address + i \in Addresses
  BY <1>1, InMemory
<1> QED BY <1>2, <1>3 DEF NewContents

LEMMA ContentsAdded ==
  ASSUME HeapInv, NEW size \in Nat \ {0}, NEW address \in Addresses, address \notin DOMAIN live,
         live' = Put(live, address, size),
         \A q \in DOMAIN live : \A i \in 0 .. (live[q] - 1) : cells'[q + i] = cells[q + i]
  PROVE  Contents' = Promise!With(Contents, address, NewContents(size, address))
<1>1. /\ DOMAIN live' = (DOMAIN live) \cup {address} /\ live'[address] = size
      /\ \A q \in DOMAIN live : live'[q] = live[q]
  BY DEF Put
<1>2. ASSUME NEW q \in DOMAIN live
      PROVE  [i \in 0 .. (live'[q] - 1) |-> cells'[q + i]] = Contents[q]
  BY <1>1 DEF Contents
<1>3. [i \in 0 .. (live'[address] - 1) |-> cells'[address + i]] = NewContents(size, address)
  BY <1>1 DEF NewContents
<1>4. Contents' = [q \in DOMAIN live' |-> [i \in 0 .. (live'[q] - 1) |-> cells'[q + i]]]
  BY DEF Contents
<1>5. DOMAIN Contents = DOMAIN live
  BY DEF Contents
<1> QED BY <1>1, <1>2, <1>3, <1>4, <1>5 DEF Promise!With

LEMMA ContentsMoved ==
  ASSUME HeapInv, NEW p \in DOMAIN live, NEW size \in Nat \ {0}, NEW address \in Addresses,
         address \notin DOMAIN live, live' = Put(Remove(live, p), address, size),
         \A q \in DOMAIN live : \A i \in 0 .. (live[q] - 1) : cells'[q + i] = cells[q + i]
  PROVE  Contents' = Promise!With(Promise!Without(Contents, p), address, NewContents(size, address))
<1>1. /\ DOMAIN live' = ((DOMAIN live) \ {p}) \cup {address} /\ live'[address] = size
      /\ \A q \in (DOMAIN live) \ {p} : live'[q] = live[q]
  BY DEF Put, Remove
<1>2. ASSUME NEW q \in (DOMAIN live) \ {p}
      PROVE  [i \in 0 .. (live'[q] - 1) |-> cells'[q + i]] = Contents[q]
  BY <1>1 DEF Contents
<1>3. [i \in 0 .. (live'[address] - 1) |-> cells'[address + i]] = NewContents(size, address)
  BY <1>1 DEF NewContents
<1>4. Contents' = [q \in DOMAIN live' |-> [i \in 0 .. (live'[q] - 1) |-> cells'[q + i]]]
  BY DEF Contents
<1>5. DOMAIN Contents = DOMAIN live
  BY DEF Contents
<1> QED BY <1>1, <1>2, <1>3, <1>4, <1>5 DEF Promise!With, Promise!Without

LEMMA PromisedMalloc ==
  ASSUME HeapInv, HeapInv', NEW size \in RequestSizes, Malloc(size)
  PROVE  Promise!Next
<1>1. PICK address \in Addresses :
        /\ MallocAt(AsInt(size), address)
        /\ live' = Put(live, address, size)
        /\ UNCHANGED <<cells, stringMap>>
        /\ called' = Promise!Called("malloc", <<size>>)
  BY DEF Malloc, Called, Promise!Called
<1>2. AsInt(size) = size /\ size \in Nat \ {0}
  BY AsIntIdentity, HeapAssumption
<1>3. Allocated(size, address)
  BY <1>1, <1>2, MallocEffect
<1>4. address \notin DOMAIN live
  BY <1>3, OwnersKept
<1>5. Contents' = Promise!With(Contents, address, NewContents(size, address))
  BY <1>1, <1>2, <1>4, ContentsAdded
<1>6. NewContents(size, address) \in [0 .. (size - 1) -> ByteValues]
  BY <1>2, <1>3, NewContentsTyped
<1>7. Promise!Malloc(address, size)
  BY <1>1, <1>2, <1>3, <1>5, <1>6, NewAvailable DEF Promise!Malloc
<1> QED BY <1>7 DEF Promise!Next

LEMMA PromisedCalloc ==
  ASSUME HeapInv, HeapInv', NEW count \in RequestSizes, NEW m \in RequestSizes, Calloc(count, m)
  PROVE  Promise!Next
<1> DEFINE size == count * m
<1>1. size \in Nat \ {0} /\ size < IntBound
  <2>1. count \in Nat \ {0} /\ m \in Nat \ {0} /\ size < IntBound
    BY HeapAssumption
  <2> QED BY <2>1, SMT
<1>2. PICK address \in Addresses :
        /\ MallocAt(AsInt(size), address)
        /\ cells' = Filled(address, AsInt(size), 0)
        /\ live' = Put(live, address, size)
        /\ UNCHANGED stringMap
  BY DEF Calloc
<1>0. called' = Promise!Called("calloc", <<count, m>>)
  BY DEF Calloc, Called, Promise!Called
<1>3. Promise!Calloc(address, count, m) => Promise!Next
  BY DEF Promise!Next
<1> HIDE DEF size
<1>4. AsInt(size) = size
  BY <1>1, AsIntIdentity, HeapAssumption
<1>5. Allocated(size, address)
  BY <1>1, <1>2, <1>4, MallocEffect
<1>6. address \notin DOMAIN live
  BY <1>5, OwnersKept
<1>7. \A q \in DOMAIN live : \A i \in 0 .. (live[q] - 1) : cells'[q + i] = cells[q + i]
  <2> SUFFICES ASSUME NEW q \in DOMAIN live, NEW i \in 0 .. (live[q] - 1)
               PROVE  cells'[q + i] = cells[q + i]
    OBVIOUS
  <2>1. q + i \notin Region(address, size)
    BY <1>1, <1>5, NewOutside
  <2>2. q + i \in Addresses
    BY LiveFacts, InMemory DEF HeapInv, TypeOK
  <2> QED BY <1>2, <1>4, <2>1, <2>2 DEF Filled
<1>8. Contents' = Promise!With(Contents, address, NewContents(size, address))
  BY <1>1, <1>2, <1>6, <1>7, ContentsAdded
<1>9. NewContents(size, address) = [i \in 0 .. (size - 1) |-> 0]
  <2>1. memLength' \in Doublings /\ address + size <= memLength'
    BY <1>5 DEF Allocated, Block, BlocksInMemory
  <2>2. \A i \in 0 .. (size - 1) : address + i \in Addresses
    BY <1>1, <2>1, InMemory
  <2>3. \A i \in 0 .. (size - 1) : address + i \in Region(address, size)
    BY <1>1 DEF Region, Addresses
  <2> QED BY <1>2, <1>4, <2>2, <2>3 DEF Filled, NewContents
<1>10. /\ Promise!Available(address, count * m)
       /\ Contents' = Promise!With(Contents, address, [i \in 0 .. (count * m - 1) |-> 0])
  BY <1>1, <1>5, <1>8, <1>9, NewAvailable DEF size
<1>11. Promise!Calloc(address, count, m)
  BY <1>0, <1>2, <1>10 DEF Promise!Calloc
<1> QED BY <1>3, <1>11

LEMMA PromisedRealloc ==
  ASSUME HeapInv, HeapInv', NEW p \in DOMAIN live, NEW size \in RequestSizes,
         ReallocKnown(p, size)
  PROVE  Promise!Next
<1> DEFINE length == IF blocks[p].size < AsInt(size) THEN blocks[p].size ELSE AsInt(size)
<1>1. PICK address \in Addresses :
        /\ MallocAt(AsInt(size), address)
        /\ cells' = Copied(p, address, length)
        /\ live' = Put(Remove(live, p), address, size)
        /\ UNCHANGED stringMap
  BY ReallocEffect
<1>2. AsInt(size) = size /\ size \in Nat \ {0}
  BY AsIntIdentity, HeapAssumption
<1>3. Allocated(size, address)
  BY <1>1, <1>2, MallocEffect
<1>4. address \notin DOMAIN live
  BY <1>3, OwnersKept
<1>5. /\ live[p] \in Nat \ {0} /\ blocks[p].size = live[p] /\ p \in Addresses
      /\ length = IF live[p] < size THEN live[p] ELSE size
  BY <1>2, LiveFacts
<1> HIDE DEF length
<1>6. length \in Nat /\ length <= size /\ length <= live[p]
  BY <1>2, <1>5
<1>7. \A q \in DOMAIN live : \A i \in 0 .. (live[q] - 1) : cells'[q + i] = cells[q + i]
  <2> SUFFICES ASSUME NEW q \in DOMAIN live, NEW i \in 0 .. (live[q] - 1)
               PROVE  cells'[q + i] = cells[q + i]
    OBVIOUS
  <2>1. q + i \notin Region(address, size)
    BY <1>2, <1>3, NewOutside
  <2>2. q + i \notin Region(address, length)
    BY <1>2, <1>6, <2>1 DEF Region, Addresses
  <2>3. q + i \in Addresses
    BY LiveFacts, InMemory DEF HeapInv, TypeOK
  <2> QED BY <1>1, <2>2, <2>3 DEF Copied
<1>8. Contents' = Promise!With(Promise!Without(Contents, p), address, NewContents(size, address))
  BY <1>1, <1>2, <1>4, <1>7, ContentsMoved
<1>9. NewContents(size, address) \in [0 .. (size - 1) -> ByteValues]
  BY <1>2, <1>3, NewContentsTyped
<1>10. DOMAIN Contents = DOMAIN live /\ Contents[p] = [i \in 0 .. (live[p] - 1) |-> cells[p + i]]
  BY DEF Contents
<1>11. ASSUME NEW i \in (DOMAIN NewContents(size, address)) \cap DOMAIN Contents[p]
       PROVE  NewContents(size, address)[i] = Contents[p][i]
  <2>1. i \in 0 .. (size - 1) /\ i \in 0 .. (live[p] - 1)
    BY <1>10 DEF NewContents
  <2>2. i \in 0 .. (length - 1)
    BY <1>2, <1>5, <1>6, <2>1
  <2>3. address + i \in Addresses
    <3>1. memLength' \in Doublings /\ address + size <= memLength'
      BY <1>3 DEF Allocated, Block, BlocksInMemory
    <3> QED BY <1>2, <2>1, <3>1, InMemory
  <2>4. address + i \in Region(address, length) /\ p + ((address + i) - address) = p + i
    BY <1>5, <1>6, <2>2 DEF Region, Addresses
  <2>5. cells'[address + i] = cells[p + i]
    BY <1>1, <2>3, <2>4 DEF Copied
  <2> QED BY <1>10, <2>1, <2>5 DEF NewContents
<1>12. Promise!Available(address, size)
  BY <1>2, <1>3, NewAvailable
<1>0. called' = Promise!Called("realloc", <<p, size>>)
  BY DEF ReallocKnown, Called, Promise!Called
<1>13. Promise!Realloc(p, address, size)
  BY <1>0, <1>1, <1>8, <1>9, <1>10, <1>11, <1>12 DEF Promise!Realloc
<1> QED BY <1>5, <1>13 DEF Promise!Next

LEMMA PromisedFree ==
  ASSUME HeapInv, NEW p \in DOMAIN live, FreeKnown(p)
  PROVE  Promise!Next
<1>1. /\ DOMAIN live' = (DOMAIN live) \ {p}
      /\ \A q \in DOMAIN live' : live'[q] = live[q]
      /\ UNCHANGED <<cells, stringMap>>
  BY DEF FreeKnown, Remove
<1>2. DOMAIN Contents = DOMAIN live
  BY DEF Contents
<1>3. Contents' = [q \in DOMAIN live' |-> [i \in 0 .. (live'[q] - 1) |-> cells'[q + i]]]
  BY DEF Contents
<1>4. \A q \in DOMAIN live' : [i \in 0 .. (live'[q] - 1) |-> cells'[q + i]] = Contents[q]
  BY <1>1 DEF Contents
<1>5. Contents' = Promise!Without(Contents, p)
  BY <1>1, <1>2, <1>3, <1>4 DEF Promise!Without
<1>0. called' = Promise!Called("free", <<p>>)
  BY DEF FreeKnown, Called, Promise!Called
<1>6. Promise!Free(p) /\ p \in Addresses
  BY <1>0, <1>1, <1>2, <1>5, LiveFacts DEF Promise!Free
<1> QED BY <1>6 DEF Promise!Next

LEMMA PromisedWrite ==
  ASSUME HeapInv, NEW p, NEW i, NEW value \in Bytes, Write(p, i, value)
  PROVE  Promise!Next
<1>1. p \in DOMAIN live /\ i \in 0 .. (live[p] - 1) /\ UNCHANGED <<live, stringMap>>
  BY DEF Write
<1>2. /\ p \in Addresses /\ p \in Int /\ live[p] \in Nat \ {0} /\ p + live[p] <= memLength
      /\ memLength \in Doublings /\ memLength \in Nat /\ i \in Nat
  BY <1>1, LiveFacts, HeapAssumption DEF HeapInv, TypeOK
<1>3. p + i < memLength
  BY <1>1, <1>2
<1>4. /\ cells' = [cells EXCEPT ![p + i] = value]
      /\ called' = Promise!Called("write", <<p, i, value>>)
  BY <1>3 DEF Write, Called, Promise!Called
<1>5. p + i \in Addresses /\ cells \in [Addresses -> ByteValues]
  BY <1>1, <1>2, InMemory DEF HeapInv, TypeOK
<1>6. cells'[p + i] = value /\ \A a \in Addresses : a # p + i => cells'[a] = cells[a]
  BY <1>4, <1>5
<1>7. DOMAIN Contents = DOMAIN live /\ DOMAIN Contents[p] = 0 .. (live[p] - 1)
  BY <1>1 DEF Contents
<1>8. Contents' = [q \in DOMAIN live |-> [j \in 0 .. (live[q] - 1) |-> cells'[q + j]]]
  BY <1>1 DEF Contents
<1>9. ASSUME NEW q \in DOMAIN live, q # p
      PROVE  [j \in 0 .. (live[q] - 1) |-> cells'[q + j]] = Contents[q]
  <2>1. \A j \in 0 .. (live[q] - 1) : cells'[q + j] = cells[q + j]
    <3> SUFFICES ASSUME NEW j \in 0 .. (live[q] - 1) PROVE cells'[q + j] = cells[q + j]
      OBVIOUS
    <3>1. q + j # p + i
      BY <1>1, <1>9, LiveApart
    <3>2. q + j \in Addresses
      BY LiveFacts, InMemory DEF HeapInv, TypeOK
    <3> QED BY <1>6, <3>1, <3>2
  <2> QED BY <2>1 DEF Contents
<1>10. [j \in 0 .. (live[p] - 1) |-> cells'[p + j]] = [Contents[p] EXCEPT ![i] = value]
  <2>1. \A j \in 0 .. (live[p] - 1) : cells'[p + j] = IF j = i THEN value ELSE cells[p + j]
    <3> SUFFICES ASSUME NEW j \in 0 .. (live[p] - 1)
                 PROVE  cells'[p + j] = IF j = i THEN value ELSE cells[p + j]
      OBVIOUS
    <3>1. p + j \in Addresses
      BY <1>2, InMemory
    <3>2. j # i => p + j # p + i
      BY <1>2
    <3> QED BY <1>6, <3>1, <3>2
  <2>2. Contents[p] = [j \in 0 .. (live[p] - 1) |-> cells[p + j]]
    BY <1>1 DEF Contents
  <2> QED BY <2>1, <2>2
<1>11. Contents' = [Contents EXCEPT ![p][i] = value]
  BY <1>7, <1>8, <1>9, <1>10
<1>12. Promise!Write(p, i, value)
  BY <1>1, <1>4, <1>7, <1>11 DEF Promise!Write
<1>13. value \in ByteValues
  BY DEF ByteValues
<1> QED BY <1>1, <1>7, <1>12, <1>13 DEF Promise!Next

LEMMA PromisedLiteral ==
  ASSUME HeapInv, NEW s \in Strings, GetStringPtr(s)
  PROVE  Promise!Next
<1> DEFINE size == StrLen[s] + 1
<1>1. PICK address \in Addresses :
        /\ MallocAt(size, address)
        /\ stringMap' = Put(stringMap, s, address)
        /\ cells' = [a \in Addresses |->
                       IF a \in Region(address, StrLen[s]) THEN s
                       ELSE IF a = address + StrLen[s] THEN 0
                       ELSE cells[a]]
  BY DEF GetStringPtr
<1>2. s \notin DOMAIN stringMap /\ UNCHANGED live
  BY DEF GetStringPtr
<1>3. size \in Nat \ {0} /\ StrLen[s] \in Nat
  BY HeapAssumption
<1>4. Allocated(size, address)
  BY <1>1, <1>3, MallocEffect
<1>5. Promise!Available(address, size)
  BY <1>3, <1>4, NewAvailable
<1>6. \A q \in DOMAIN live : \A i \in 0 .. (live[q] - 1) : cells'[q + i] = cells[q + i]
  <2> SUFFICES ASSUME NEW q \in DOMAIN live, NEW i \in 0 .. (live[q] - 1)
               PROVE  cells'[q + i] = cells[q + i]
    OBVIOUS
  <2>1. q + i \notin Region(address, size)
    BY <1>3, <1>4, NewOutside
  <2>2. q + i \notin Region(address, StrLen[s]) /\ q + i # address + StrLen[s]
    BY <1>3, <2>1 DEF Region, Addresses
  <2>3. q + i \in Addresses
    BY LiveFacts, InMemory DEF HeapInv, TypeOK
  <2> QED BY <1>1, <2>2, <2>3
<1>7. Contents' = Contents
  BY <1>2, <1>6 DEF Contents
<1>8. stringMap' = Promise!With(stringMap, s, address)
  BY <1>1 DEF Put, Promise!With
<1>0. called' = Promise!Called("literal", <<s>>)
  BY DEF GetStringPtr, Called, Promise!Called
<1>9. Promise!Literal(s, address)
  BY <1>0, <1>2, <1>5, <1>7, <1>8 DEF Promise!Literal
<1> QED BY <1>9 DEF Promise!Next

LEMMA PromiseStep ==
  ASSUME HeapInv, HeapInv', [Next]_vars
  PROVE  [Promise!Next]_(Promise!promised)
<1>1. Null \notin DOMAIN blocks
  BY HeapAssumption DEF HeapInv, TypeOK, Addresses, Null
<1>2. ASSUME NEW p, NEW size \in RequestSizes, Realloc(p, size), ReallocKnown(p, size)
      PROVE  Promise!Next
  <2>1. p \in DOMAIN live
    BY <1>1, <1>2 DEF Realloc, ReallocKnown
  <2> QED BY <1>2, <2>1, PromisedRealloc
<1>3. ASSUME NEW p, Free(p), FreeKnown(p) PROVE Promise!Next
  <2>1. p \in DOMAIN live
    BY <1>1, <1>3 DEF Free, FreeKnown
  <2> QED BY <1>3, <2>1, PromisedFree
<1>4. CASE UNCHANGED <<live, cells, stringMap, called>>
  BY <1>4 DEF Contents, Promise!promised
<1>5. \/ \E size \in RequestSizes : Malloc(size)
      \/ \E count, m \in RequestSizes : Calloc(count, m)
      \/ \E p \in Addresses \cup {Null}, size \in RequestSizes :
           Realloc(p, size) /\ ReallocKnown(p, size)
      \/ \E p \in Addresses \cup {Null} : Free(p) /\ FreeKnown(p)
      \/ \E p, i \in 0 .. MemoryBound, value \in Bytes : Write(p, i, value)
      \/ \E s \in Strings : GetStringPtr(s)
      \/ UNCHANGED <<live, cells, stringMap, called>>
  BY DEF Next, vars, Realloc, Free, ThrowUnknown
<1> QED BY <1>2, <1>3, <1>4, <1>5, PromisedMalloc, PromisedCalloc, PromisedWrite, PromisedLiteral

(* Whatever the program allocates, moves, frees and writes, and however the map  *)
(* is split and the array grows: the program sees a heap as C promises it.      *)
THEOREM PromiseKept == Spec => ImplementsPromise
<1>1. Init => Promise!Init
  <2> SUFFICES ASSUME Init PROVE Contents = [p \in {} |-> 0] /\ stringMap = [s \in {} |-> 0]
                                     /\ called = Promise!Called("main", <<>>)
    BY DEF Promise!Init
  <2>1. DOMAIN live = {}
    BY DEF Init
  <2>2. Contents = [p \in {} |-> 0]
    BY <2>1 DEF Contents
  <2> QED BY <2>2 DEF Init, Called, Promise!Called
<1>2. HeapInv /\ HeapInv' /\ [Next]_vars => [Promise!Next]_(Promise!promised)
  BY PromiseStep
<1> QED BY <1>1, <1>2, HeapInvariant, PTL DEF Spec, ImplementsPromise, Promise!Spec

------------------------------------------------------------------------------
(* The stack and variable arguments.                                          *)

Before(r, s) == r.address + r.size <= s.address

(* What holds of one frame: its regions are behind its entry and apart, blocks   *)
(* began between regions and one behind the other, and its va_lists are in its   *)
(* own memory.                                                               *)
FrameInv(f) ==
  /\ StackStart <= f.entry
  /\ \A r \in f.regions : r.size > 0 /\ f.entry <= r.address
  /\ \A r, s \in f.regions : r # s => Before(r, s) \/ Before(s, r)
  /\ \A b \in 1 .. Len(f.blocks) :
       /\ f.entry <= f.blocks[b]
       /\ \A r \in f.regions : r.address + r.size <= f.blocks[b] \/ f.blocks[b] <= r.address
  /\ \A b, c \in 1 .. Len(f.blocks) : b < c => f.blocks[b] <= f.blocks[c]
  /\ \A l \in DOMAIN f.lists : l \in CellsOf(f) /\ f.lists[l] <= Len(f.args)
  /\ ~f.allocates => f.regions = {} /\ f.blocks = <<>>

(* All of a frame lies below a position. *)
Under(f, p) ==
  /\ f.entry <= p
  /\ \A r \in f.regions : r.address + r.size <= p
  /\ \A b \in 1 .. Len(f.blocks) : f.blocks[b] <= p

(* Each frame is below the ones it calls and the stack position. A function      *)
(* without alloca insn takes nothing, and its callees give back what they take.  *)
StackInv ==
  /\ stackPosition \in StackStart .. MaxStackSize
  /\ frames \in Seq(Frames)
  /\ \A i \in 1 .. Depth : FrameInv(frames[i]) /\ Under(frames[i], stackPosition)
  /\ \A i, j \in 1 .. Depth : i < j => Under(frames[i], frames[j].entry)
  /\ \A i \in 1 .. Depth : ~frames[i].allocates =>
       IF i = Depth THEN stackPosition = frames[i].entry
       ELSE frames[i + 1].entry = frames[i].entry

(* A va_list with arguments left is in the map, as far as the program took them. *)
Ready(f, l) ==
  f.lists[l] < Len(f.args) \/ f.args = <<>> =>
    l \in DOMAIN varArgsMap /\ varArgsMap[l] = [args |-> f.args, index |-> f.lists[l]]

ListsInv ==
  /\ DOMAIN varArgsMap \subseteq StackAddresses
  /\ \A l \in DOMAIN varArgsMap :
       /\ varArgsMap[l].args \in Arguments
       /\ varArgsMap[l].index \in 0 .. Len(varArgsMap[l].args)
       /\ varArgsMap[l].index = Len(varArgsMap[l].args) => varArgsMap[l].args = <<>>
  /\ \A k \in 1 .. Depth : \A l \in DOMAIN frames[k].lists : Ready(frames[k], l)

ThrownInv == exception \in {"", "Stack overflow"}

CallsInv == StackInv /\ ListsInv /\ ThrownInv

------------------------------------------------------------------------------
(* Facts about frames.                                                        *)

LEMMA Typing ==
  /\ StackStart \in Nat \ {0} /\ MaxStackSize \in Nat /\ StackStart <= MaxStackSize
  /\ Sizes \subseteq Nat \ {0} /\ MaxArgs \in Nat /\ MaxBlocks \in Nat
BY CallsAssumption DEF CallsAssumption

LEMMA ArgumentsFacts ==
  ASSUME NEW args \in Arguments
  PROVE  args \in Seq(Values) /\ Len(args) \in 0 .. MaxArgs
<1>1. PICK n \in 0 .. MaxArgs : args \in [1 .. n -> Values]
  BY DEF Arguments
<1>2. n \in Nat
  BY <1>1, Typing
<1>3. args \in Seq(Values) /\ Len(args) = n
  BY <1>1, <1>2
<1>4. QED BY <1>1, <1>3

LEMMA FrameFacts ==
  ASSUME NEW f \in Frames
  PROVE  /\ f.allocates \in BOOLEAN /\ f.vararg \in BOOLEAN /\ f.args \in Arguments
         /\ f.entry \in Nat /\ f.regions \subseteq [address : StackAddresses, size : Nat]
         /\ f.blocks \in Seq(Nat) /\ Len(f.blocks) \in Nat
         /\ \A b \in 1 .. Len(f.blocks) : f.blocks[b] \in Nat
         /\ \A r \in f.regions : r.address \in Nat /\ r.size \in Nat
         /\ DOMAIN f.lists \subseteq StackAddresses
         /\ f.lists \in [DOMAIN f.lists -> 0 .. MaxArgs]
<1>1. /\ f.allocates \in BOOLEAN /\ f.vararg \in BOOLEAN /\ f.args \in Arguments
      /\ f.entry \in Nat /\ f.regions \subseteq [address : StackAddresses, size : Nat]
      /\ f.blocks \in Seq(Nat)
      /\ f.lists \in UNION {[l -> 0 .. MaxArgs] : l \in SUBSET StackAddresses}
  BY DEF Frames
<1>2. Len(f.blocks) \in Nat /\ \A b \in 1 .. Len(f.blocks) : f.blocks[b] \in Nat
  BY <1>1
<1>3. \A r \in f.regions : r.address \in Nat /\ r.size \in Nat
  BY <1>1, Typing DEF StackAddresses
<1>4. PICK l \in SUBSET StackAddresses : f.lists \in [l -> 0 .. MaxArgs]
  BY <1>1
<1>5. DOMAIN f.lists \subseteq StackAddresses /\ f.lists \in [DOMAIN f.lists -> 0 .. MaxArgs]
  BY <1>4
<1>6. QED BY <1>1, <1>2, <1>3, <1>5

LEMMA UnderHigher ==
  ASSUME NEW f \in Frames, NEW p \in Nat, NEW q \in Nat, p <= q, Under(f, p)
  PROVE  Under(f, q)
<1>1. /\ f.entry \in Nat /\ \A b \in 1 .. Len(f.blocks) : f.blocks[b] \in Nat
      /\ \A r \in f.regions : r.address \in Nat /\ r.size \in Nat
  BY FrameFacts
<1>2. f.entry <= q
  BY <1>1 DEF Under
<1>3. ASSUME NEW r \in f.regions PROVE r.address + r.size <= q
  <2>1. r.address + r.size \in Nat /\ r.address + r.size <= p
    BY <1>1, <1>3 DEF Under
  <2>2. QED BY <2>1
<1>4. ASSUME NEW b \in 1 .. Len(f.blocks) PROVE f.blocks[b] <= q
  <2>1. f.blocks[b] \in Nat /\ f.blocks[b] <= p
    BY <1>1, <1>4 DEF Under
  <2>2. QED BY <2>1
<1>5. QED BY <1>2, <1>3, <1>4 DEF Under

(* The address of a va_list is in the memory of one function only. *)
LEMMA OneFrame ==
  ASSUME StackInv, NEW i \in 1 .. Depth, NEW j \in 1 .. Depth, i < j,
         NEW a \in CellsOf(frames[i]), a \in CellsOf(frames[j])
  PROVE  FALSE
<1>0. frames[i] \in Frames /\ frames[j] \in Frames
  BY DEF StackInv, Depth
<1>1. PICK r \in frames[i].regions : a \in Cells(r)
  BY DEF CellsOf
<1>2. PICK s \in frames[j].regions : a \in Cells(s)
  BY DEF CellsOf
<1>3. /\ r.address \in Nat /\ r.size \in Nat /\ s.address \in Nat /\ s.size \in Nat
      /\ frames[j].entry \in Nat
  BY <1>0, FrameFacts
<1>4. r.address + r.size <= frames[j].entry
  BY DEF StackInv, Under
<1>5. frames[j].entry <= s.address
  BY DEF StackInv, FrameInv
<1>6. QED BY <1>1, <1>2, <1>3, <1>4, <1>5 DEF Cells

LEMMA OneOwner ==
  ASSUME StackInv, NEW i \in 1 .. Depth, NEW j \in 1 .. Depth,
         NEW a \in CellsOf(frames[i]), a \in CellsOf(frames[j])
  PROVE  i = j
<1>1. Depth \in Nat
  BY DEF StackInv, Depth
<1>2. i < j \/ j < i \/ i = j
  BY <1>1
<1>3. ~(i < j) /\ ~(j < i)
  BY OneFrame
<1>4. QED BY <1>2, <1>3

------------------------------------------------------------------------------
(* The initial state.                                                        *)

LEMMA StartsCallsInv == CallsInit => CallsInv
<1> SUFFICES ASSUME CallsInit PROVE CallsInv
  OBVIOUS
<1>1. frames \in Seq(Frames) /\ Depth = 0
  <2>1. <<>> \in Seq(Frames) /\ Len(<<>>) = 0
    OBVIOUS
  <2>2. QED BY <2>1 DEF CallsInit, Depth
<1>2. \A i \in 1 .. Depth : FALSE
  BY <1>1
<1>3. StackInv
  <2>0. stackPosition = StackStart
    BY DEF CallsInit
  <2>1. stackPosition \in StackStart .. MaxStackSize
    BY <2>0, Typing
  <2>2. \A i \in 1 .. Depth : FrameInv(frames[i]) /\ Under(frames[i], stackPosition)
    BY <1>2
  <2>3. \A i, j \in 1 .. Depth : i < j => Under(frames[i], frames[j].entry)
    BY <1>2
  <2>4. \A i \in 1 .. Depth : ~frames[i].allocates =>
          IF i = Depth THEN stackPosition = frames[i].entry
          ELSE frames[i + 1].entry = frames[i].entry
    BY <1>2
  <2>5. QED BY <1>1, <2>1, <2>2, <2>3, <2>4 DEF StackInv
<1>4. ListsInv
  <2>1. DOMAIN <<>> = {}
    OBVIOUS
  <2>2. varArgsMap = <<>>
    BY DEF CallsInit
  <2>3. DOMAIN varArgsMap = {}
    BY <2>1, <2>2
  <2>4. QED BY <1>2, <2>3 DEF ListsInv
<1>5. QED BY <1>3, <1>4 DEF CallsInit, CallsInv, ThrownInv
------------------------------------------------------------------------------
(* The stack.                                                                *)

(* A change of the innermost frame and the position. *)
LEMMA TopChanges ==
  ASSUME StackInv, Depth > 0, NEW g \in Frames, frames' = [frames EXCEPT ![Depth] = g],
         FrameInv(g), g.entry = Top.entry, g.allocates = Top.allocates,
         stackPosition' \in StackStart .. MaxStackSize, Under(g, stackPosition'),
         Top.allocates \/ stackPosition' = stackPosition
  PROVE  StackInv'
<1>1. /\ frames \in Seq(Frames) /\ Depth \in Nat /\ Depth \in 1 .. Depth /\ Len(frames) = Depth
      /\ stackPosition' \in Nat
  BY Typing DEF StackInv, Depth
<1>2. /\ frames' \in Seq(Frames) /\ Len(frames') = Depth /\ Depth' = Depth
      /\ frames'[Depth] = g
      /\ \A i \in 1 .. Depth : i # Depth => frames'[i] = frames[i]
  BY <1>1 DEF Depth
<1>3. \A i \in 1 .. Depth : frames[i] \in Frames /\ frames'[i] \in Frames
  BY <1>1, <1>2
<1>4. Top.entry \in Nat /\ Top.entry <= stackPosition'
  <2>1. Top \in Frames
    BY <1>1, <1>3 DEF Top
  <2>2. QED BY <2>1, FrameFacts DEF Under
<1>5. ASSUME NEW i \in 1 .. Depth
      PROVE  FrameInv(frames'[i]) /\ Under(frames'[i], stackPosition')
  <2>1. CASE i = Depth
    BY <1>2, <2>1
  <2>2. CASE i # Depth
    <3>1. i < Depth
      BY <1>1, <2>2
    <3>2. FrameInv(frames[i]) /\ Under(frames[i], Top.entry)
      BY <1>1, <3>1 DEF StackInv, Top
    <3>3. Under(frames[i], stackPosition')
      BY <1>1, <1>3, <1>4, <3>2, UnderHigher
    <3>4. QED BY <1>2, <2>2, <3>2, <3>3
  <2>3. QED BY <2>1, <2>2
<1>6. ASSUME NEW i \in 1 .. Depth, NEW j \in 1 .. Depth, i < j
      PROVE  Under(frames'[i], frames'[j].entry)
  <2>1. Under(frames[i], frames[j].entry)
    BY <1>6 DEF StackInv
  <2>2. frames'[i] = frames[i]
    BY <1>1, <1>2, <1>6
  <2>3. frames'[j].entry = frames[j].entry
    BY <1>2 DEF Top
  <2>4. QED BY <2>1, <2>2, <2>3
<1>7. ASSUME NEW i \in 1 .. Depth, ~frames'[i].allocates
      PROVE  IF i = Depth THEN stackPosition' = frames'[i].entry
             ELSE frames'[i + 1].entry = frames'[i].entry
  <2>1. /\ frames'[i].allocates = frames[i].allocates
        /\ frames'[i].entry = frames[i].entry
    BY <1>2 DEF Top
  <2>2. IF i = Depth THEN stackPosition = frames[i].entry
        ELSE frames[i + 1].entry = frames[i].entry
    BY <1>7, <2>1 DEF StackInv
  <2>3. CASE i = Depth
    <3>1. ~Top.allocates
      BY <1>7, <2>1, <2>3 DEF Top
    <3>2. QED BY <2>1, <2>2, <2>3, <3>1
  <2>4. CASE i # Depth
    <3>1. i + 1 \in 1 .. Depth
      BY <1>1, <2>4
    <3>2. frames'[i + 1].entry = frames[i + 1].entry
      BY <1>2, <3>1 DEF Top
    <3>3. QED BY <2>1, <2>2, <2>4, <3>2
  <2>5. QED BY <2>3, <2>4
<1>8. QED BY <1>2, <1>5, <1>6, <1>7 DEF StackInv

(* A change of the va_lists of any frame. *)
LEMMA ListsChange ==
  ASSUME StackInv, NEW k \in 1 .. Depth, NEW g \in Frames, frames' = [frames EXCEPT ![k] = g],
         g.allocates = frames[k].allocates, g.args = frames[k].args, g.entry = frames[k].entry,
         g.regions = frames[k].regions, g.blocks = frames[k].blocks,
         \A l \in DOMAIN g.lists : l \in CellsOf(frames[k]) /\ g.lists[l] <= Len(g.args),
         UNCHANGED stackPosition
  PROVE  StackInv'
<1>1. frames \in Seq(Frames) /\ Depth \in Nat /\ Len(frames) = Depth
  BY DEF StackInv, Depth
<1>2. /\ frames' \in Seq(Frames) /\ Len(frames') = Depth /\ Depth' = Depth
      /\ frames'[k] = g
      /\ \A i \in 1 .. Depth : i # k => frames'[i] = frames[i]
  BY <1>1 DEF Depth
<1>3. FrameInv(frames[k])
  BY DEF StackInv
<1>4. FrameInv(g)
  BY <1>3 DEF FrameInv, CellsOf
<1>5. \A i \in 1 .. Depth : /\ frames'[i].entry = frames[i].entry
                             /\ frames'[i].allocates = frames[i].allocates
                             /\ frames'[i].regions = frames[i].regions
                             /\ frames'[i].blocks = frames[i].blocks
  BY <1>2
<1>6. \A i \in 1 .. Depth : FrameInv(frames'[i])
  BY <1>2, <1>4 DEF StackInv
<1>7. \A i \in 1 .. Depth : \A p : Under(frames[i], p) => Under(frames'[i], p)
  BY <1>5 DEF Under
<1>8. \A i \in 1 .. Depth : Under(frames'[i], stackPosition')
  BY <1>7 DEF StackInv
<1>9. \A i, j \in 1 .. Depth : i < j => Under(frames'[i], frames'[j].entry)
  BY <1>5, <1>7 DEF StackInv
<1>10. ASSUME NEW i \in 1 .. Depth, ~frames'[i].allocates
       PROVE  IF i = Depth THEN stackPosition' = frames'[i].entry
              ELSE frames'[i + 1].entry = frames'[i].entry
  <2>1. IF i = Depth THEN stackPosition = frames[i].entry
        ELSE frames[i + 1].entry = frames[i].entry
    BY <1>5, <1>10 DEF StackInv
  <2>2. i # Depth => i + 1 \in 1 .. Depth
    BY <1>1
  <2>3. QED BY <1>5, <2>1, <2>2
<1>11. stackPosition' \in StackStart .. MaxStackSize
  BY DEF StackInv
<1>12. QED BY <1>2, <1>6, <1>8, <1>9, <1>10, <1>11 DEF StackInv

(* The memory is taken and given back by the innermost frame. *)
LEMMA TopFacts ==
  ASSUME StackInv, Depth > 0
  PROVE  /\ Depth \in 1 .. Depth /\ Len(frames) = Depth /\ Top \in Frames
         /\ FrameInv(Top) /\ Under(Top, stackPosition)
         /\ stackPosition \in Nat
<1>1. Depth \in 1 .. Depth /\ Len(frames) = Depth /\ stackPosition \in Nat
  BY Typing DEF StackInv, Depth
<1>2. Top \in Frames /\ FrameInv(Top) /\ Under(Top, stackPosition)
  BY <1>1 DEF StackInv, Top, Depth
<1>3. QED BY <1>1, <1>2

LEMMA ListsTyped ==
  ASSUME NEW f, DOMAIN f \subseteq StackAddresses, f \in [DOMAIN f -> 0 .. MaxArgs]
  PROVE  f \in UNION {[l -> 0 .. MaxArgs] : l \in SUBSET StackAddresses}
OBVIOUS

LEMMA StackCall == ASSUME StackInv, Call PROVE StackInv'
<1>1. PICK allocates \in BOOLEAN, vararg \in BOOLEAN, args \in Arguments :
        frames' = Append(frames,
          [allocates |-> allocates, vararg |-> vararg, args |-> args, entry |-> stackPosition,
           regions |-> {}, blocks |-> <<>>, lists |-> <<>>])
  BY DEF Call
<1> DEFINE g == [allocates |-> allocates, vararg |-> vararg, args |-> args,
                 entry |-> stackPosition, regions |-> {}, blocks |-> <<>>, lists |-> <<>>]
<1>2. /\ stackPosition' = stackPosition /\ stackPosition \in Nat
      /\ stackPosition \in StackStart .. MaxStackSize
  BY Typing DEF Call, StackInv
<1>3. /\ g.entry = stackPosition /\ g.regions = {} /\ g.blocks = <<>> /\ g.lists = <<>>
      /\ Len(g.blocks) = 0 /\ DOMAIN g.lists = {}
  OBVIOUS
<1>4. g \in Frames
  <2>1. <<>> \in UNION {[l -> 0 .. MaxArgs] : l \in SUBSET StackAddresses}
    <3>1. DOMAIN <<>> = {} /\ <<>> \in [DOMAIN <<>> -> 0 .. MaxArgs]
      OBVIOUS
    <3>2. DOMAIN <<>> \subseteq StackAddresses
      BY <3>1
    <3>3. QED BY <3>1, <3>2, ListsTyped
  <2>2. <<>> \in Seq(Nat)
    OBVIOUS
  <2>3. QED BY <1>2, <2>1, <2>2 DEF Frames
<1>5. FrameInv(g)
  <2>1. StackStart <= g.entry
    BY <1>2, <1>3, Typing
  <2>2. \A b \in 1 .. Len(g.blocks) : FALSE
    BY <1>3
  <2>3. QED BY <1>3, <2>1, <2>2 DEF FrameInv
<1>6. Under(g, stackPosition)
  <2>1. \A b \in 1 .. Len(g.blocks) : FALSE
    BY <1>3
  <2>2. QED BY <1>2, <1>3, <2>1 DEF Under
<1> HIDE DEF g
<1>7. frames \in Seq(Frames) /\ Depth \in Nat /\ Len(frames) = Depth
  BY DEF StackInv, Depth
<1>8. /\ frames' \in Seq(Frames) /\ Depth' = Depth + 1 /\ frames'[Depth + 1] = g
      /\ \A i \in 1 .. Depth : frames'[i] = frames[i]
  <2>1. frames' = Append(frames, g)
    BY <1>1 DEF g
  <2>2. QED BY <1>4, <1>7, <2>1 DEF Depth
<1>9. \A i \in 1 .. Depth' : i = Depth + 1 \/ i \in 1 .. Depth
  BY <1>7, <1>8
<1>10. \A i \in 1 .. Depth' : FrameInv(frames'[i]) /\ Under(frames'[i], stackPosition')
  BY <1>2, <1>5, <1>6, <1>8, <1>9 DEF StackInv
<1>11. ASSUME NEW i \in 1 .. Depth', NEW j \in 1 .. Depth', i < j
       PROVE  Under(frames'[i], frames'[j].entry)
  <2>1. i \in 1 .. Depth /\ frames'[i] = frames[i]
    BY <1>7, <1>8, <1>11
  <2>2. CASE j = Depth + 1
    BY <1>3, <1>8, <2>1, <2>2 DEF StackInv
  <2>3. CASE j \in 1 .. Depth
    BY <1>8, <1>11, <2>1, <2>3 DEF StackInv
  <2>4. QED BY <1>9, <2>2, <2>3
<1>12. ASSUME NEW i \in 1 .. Depth', ~frames'[i].allocates
       PROVE  IF i = Depth' THEN stackPosition' = frames'[i].entry
              ELSE frames'[i + 1].entry = frames'[i].entry
  <2>1. CASE i = Depth + 1
    BY <1>2, <1>3, <1>8, <2>1
  <2>2. CASE i \in 1 .. Depth
    <3>1. i # Depth' /\ frames'[i] = frames[i]
      BY <1>7, <1>8, <2>2
    <3>2. IF i = Depth THEN stackPosition = frames[i].entry
          ELSE frames[i + 1].entry = frames[i].entry
      BY <1>12, <2>2, <3>1 DEF StackInv
    <3>3. CASE i = Depth
      BY <1>3, <1>8, <3>1, <3>2, <3>3
    <3>4. CASE i # Depth
      <4>1. i + 1 \in 1 .. Depth
        BY <1>7, <2>2, <3>4
      <4>2. QED BY <1>8, <3>1, <3>2, <3>4, <4>1
    <3>5. QED BY <3>3, <3>4
  <2>3. QED BY <1>9, <2>1, <2>2
<1>13. QED BY <1>2, <1>8, <1>10, <1>11, <1>12 DEF StackInv

(* A return sets the position back to the entry, or finds it there. *)
LEMMA ReturnBalanced == ASSUME StackInv, Return PROVE stackPosition' = Top.entry
<1>1. Depth > 0 /\ stackPosition' = IF Saves(Top) THEN Top.entry ELSE stackPosition
  BY DEF Return
<1>2. ~Top.allocates => stackPosition = Top.entry
  <2>1. Depth \in 1 .. Depth
    BY <1>1, TopFacts
  <2>2. QED BY <2>1 DEF StackInv, Top
<1>3. QED BY <1>1, <1>2 DEF Saves

LEMMA StackReturn == ASSUME StackInv, Return PROVE StackInv'
<1>0. Depth > 0 /\ stackPosition' = Top.entry
  BY ReturnBalanced DEF Return
<1>1. frames \in Seq(Frames) /\ Depth \in Nat /\ Len(frames) = Depth /\ Depth \in 1 .. Depth
  BY <1>0, TopFacts DEF StackInv
<1>2. /\ frames' \in Seq(Frames) /\ Depth' = Depth - 1
      /\ \A i \in 1 .. Depth' : i \in 1 .. Depth /\ i < Depth /\ frames'[i] = frames[i]
  <2>1. frames' = SubSeq(frames, 1, Depth - 1)
    BY DEF Return
  <2>2. Depth - 1 \in Nat /\ Depth - 1 <= Len(frames)
    BY <1>0, <1>1
  <2>3. /\ SubSeq(frames, 1, Depth - 1) \in Seq(Frames)
        /\ Len(SubSeq(frames, 1, Depth - 1)) = Depth - 1
        /\ \A i \in 1 .. Depth - 1 : SubSeq(frames, 1, Depth - 1)[i] = frames[i]
    BY <1>1, <2>2
  <2>4. Depth' = Depth - 1
    BY <2>1, <2>3 DEF Depth
  <2>5. \A i \in 1 .. Depth - 1 : i \in 1 .. Depth /\ i < Depth
    BY <1>1
  <2>6. QED BY <2>1, <2>3, <2>4, <2>5
<1>3. stackPosition' \in StackStart .. MaxStackSize
  <2>1. /\ Top.entry \in Nat /\ StackStart <= Top.entry /\ Top.entry <= stackPosition
    BY <1>0, TopFacts, FrameFacts DEF FrameInv, Under
  <2>2. stackPosition \in StackStart .. MaxStackSize
    BY DEF StackInv
  <2>3. QED BY <1>0, <2>1, <2>2, Typing
<1>4. \A i \in 1 .. Depth' : FrameInv(frames'[i]) /\ Under(frames'[i], stackPosition')
  BY <1>0, <1>1, <1>2 DEF StackInv, Top
<1>5. \A i, j \in 1 .. Depth' : i < j => Under(frames'[i], frames'[j].entry)
  BY <1>2 DEF StackInv
<1>6. ASSUME NEW i \in 1 .. Depth', ~frames'[i].allocates
      PROVE  IF i = Depth' THEN stackPosition' = frames'[i].entry
             ELSE frames'[i + 1].entry = frames'[i].entry
  <2>1. /\ i \in 1 .. Depth /\ i # Depth /\ frames'[i] = frames[i]
        /\ frames[i + 1].entry = frames[i].entry
    <3>1. i \in 1 .. Depth /\ i < Depth /\ frames'[i] = frames[i]
      BY <1>2
    <3>2. i # Depth
      BY <1>1, <3>1
    <3>3. frames[i + 1].entry = frames[i].entry
      BY <1>6, <3>1, <3>2 DEF StackInv
    <3>4. QED BY <3>1, <3>2, <3>3
  <2>2. CASE i = Depth'
    <3>1. i + 1 = Depth
      BY <1>1, <1>2, <2>2
    <3>2. QED BY <1>0, <2>1, <2>2, <3>1 DEF Top
  <2>3. CASE i # Depth'
    <3>1. i + 1 \in 1 .. Depth'
      BY <1>1, <1>2, <2>3
    <3>2. QED BY <1>2, <2>1, <2>3, <3>1
  <2>4. QED BY <2>2, <2>3
<1>7. QED BY <1>2, <1>3, <1>4, <1>5, <1>6 DEF StackInv

LEMMA StackAllocate == ASSUME StackInv, NEW size \in Sizes, Allocate(size) PROVE StackInv'
<1>1. Depth > 0 /\ Top.allocates /\ size \in Nat \ {0}
  BY Typing DEF Allocate
<1>2. CASE stackPosition + size > MaxStackSize
  <2>1. UNCHANGED <<stackPosition, frames>>
    BY <1>2 DEF Allocate, Throw
  <2>2. QED BY <2>1 DEF StackInv, Depth
<1>3. CASE ~(stackPosition + size > MaxStackSize)
  <2> DEFINE new == [address |-> stackPosition, size |-> size]
             g == [Top EXCEPT !.regions = @ \cup {new}]
  <2>1. stackPosition' = stackPosition + size /\ frames' = [frames EXCEPT ![Depth] = g]
    BY <1>3 DEF Allocate, SetTop
  <2>2. /\ Top \in Frames /\ FrameInv(Top) /\ Under(Top, stackPosition)
        /\ stackPosition \in Nat /\ stackPosition \in StackStart .. MaxStackSize
    BY <1>1, TopFacts DEF StackInv
  <2>3. stackPosition' \in StackStart .. MaxStackSize /\ stackPosition' \in Nat
    BY <1>1, <1>3, <2>1, <2>2, Typing
  <2>4. new \in [address : StackAddresses, size : Nat] /\ new.address = stackPosition /\ new.size = size
    BY <1>1, <1>3, <2>2, Typing DEF StackAddresses
  <2> HIDE DEF new
  <2>5. /\ g.allocates = Top.allocates /\ g.args = Top.args /\ g.entry = Top.entry
        /\ g.regions = Top.regions \cup {new} /\ g.blocks = Top.blocks /\ g.lists = Top.lists
    BY <2>2 DEF Frames
  <2>6. g \in Frames
    BY <2>2, <2>4 DEF Frames
  <2> HIDE DEF g
  <2>7. /\ \A r \in Top.regions : r.address \in Nat /\ r.size \in Nat
        /\ Len(Top.blocks) \in Nat /\ Top.entry \in Nat
        /\ \A b \in 1 .. Len(Top.blocks) : Top.blocks[b] \in Nat
    BY <2>2, FrameFacts
  <2>8. \A r \in Top.regions : r.address + r.size <= new.address
    BY <2>2, <2>4 DEF Under
  <2>9. FrameInv(g)
    <3>1. \A r \in g.regions : r.size > 0 /\ g.entry <= r.address
      BY <1>1, <2>2, <2>4, <2>5 DEF FrameInv, Under
    <3>2. \A r, s \in g.regions : r # s => Before(r, s) \/ Before(s, r)
      BY <2>2, <2>5, <2>8 DEF FrameInv, Before
    <3>3. \A b \in 1 .. Len(g.blocks) :
            /\ g.entry <= g.blocks[b]
            /\ \A r \in g.regions : r.address + r.size <= g.blocks[b] \/ g.blocks[b] <= r.address
      BY <2>2, <2>4, <2>5 DEF FrameInv, Under
    <3>4. \A b, c \in 1 .. Len(g.blocks) : b < c => g.blocks[b] <= g.blocks[c]
      BY <2>2, <2>5 DEF FrameInv
    <3>5. \A l \in DOMAIN g.lists : l \in CellsOf(g) /\ g.lists[l] <= Len(g.args)
      BY <2>2, <2>5 DEF FrameInv, CellsOf
    <3>6. StackStart <= g.entry
      BY <2>2, <2>5 DEF FrameInv
    <3>7. QED BY <1>1, <2>5, <3>1, <3>2, <3>3, <3>4, <3>5, <3>6 DEF FrameInv
  <2>10. Under(g, stackPosition')
    <3>1. stackPosition <= stackPosition' /\ new.address + new.size = stackPosition'
      BY <1>1, <2>1, <2>2, <2>4
    <3>2. Under(Top, stackPosition')
      BY <2>2, <2>3, <3>1, UnderHigher
    <3>3. QED BY <2>3, <2>5, <3>1, <3>2 DEF Under
  <2>11. QED BY <1>1, <2>1, <2>3, <2>5, <2>6, <2>9, <2>10, TopChanges
<1>4. QED BY <1>2, <1>3

LEMMA StackBlockStart == ASSUME StackInv, BlockStart PROVE StackInv'
<1> DEFINE g == [Top EXCEPT !.blocks = Append(@, stackPosition)]
<1>1. /\ Depth > 0 /\ Top.allocates /\ stackPosition' = stackPosition
      /\ frames' = [frames EXCEPT ![Depth] = g]
  BY DEF BlockStart, SetTop
<1>2. /\ Top \in Frames /\ FrameInv(Top) /\ Under(Top, stackPosition)
      /\ stackPosition \in Nat /\ stackPosition \in StackStart .. MaxStackSize
  BY <1>1, TopFacts DEF StackInv
<1>3. /\ Top.blocks \in Seq(Nat) /\ Len(Top.blocks) \in Nat /\ Top.entry \in Nat
      /\ \A b \in 1 .. Len(Top.blocks) : Top.blocks[b] \in Nat
      /\ \A r \in Top.regions : r.address \in Nat /\ r.size \in Nat
  BY <1>2, FrameFacts
<1>4. /\ g.allocates = Top.allocates /\ g.args = Top.args /\ g.entry = Top.entry
      /\ g.regions = Top.regions /\ g.blocks = Append(Top.blocks, stackPosition)
      /\ g.lists = Top.lists
  BY <1>2 DEF Frames
<1>5. g \in Frames
  <2>1. Append(Top.blocks, stackPosition) \in Seq(Nat)
    BY <1>2, <1>3
  <2>2. QED BY <1>2, <2>1 DEF Frames
<1> HIDE DEF g
<1>6. /\ Len(g.blocks) = Len(Top.blocks) + 1 /\ g.blocks[Len(Top.blocks) + 1] = stackPosition
      /\ \A b \in 1 .. Len(Top.blocks) : g.blocks[b] = Top.blocks[b]
  BY <1>2, <1>3, <1>4
<1>7. \A b \in 1 .. Len(g.blocks) : b = Len(Top.blocks) + 1 \/ b \in 1 .. Len(Top.blocks)
  BY <1>3, <1>6
<1>8. FrameInv(g)
  <2>1. \A r \in g.regions : r.size > 0 /\ g.entry <= r.address
    BY <1>2, <1>4 DEF FrameInv
  <2>2. \A r, s \in g.regions : r # s => Before(r, s) \/ Before(s, r)
    BY <1>2, <1>4 DEF FrameInv
  <2>3. \A b \in 1 .. Len(g.blocks) :
          /\ g.entry <= g.blocks[b]
          /\ \A r \in g.regions : r.address + r.size <= g.blocks[b] \/ g.blocks[b] <= r.address
    BY <1>2, <1>4, <1>6, <1>7 DEF FrameInv, Under
  <2>4. ASSUME NEW b \in 1 .. Len(g.blocks), NEW c \in 1 .. Len(g.blocks), b < c
        PROVE  g.blocks[b] <= g.blocks[c]
    <3>1. b \in 1 .. Len(Top.blocks)
      BY <1>3, <1>6, <2>4
    <3>2. CASE c = Len(Top.blocks) + 1
      BY <1>2, <1>6, <3>1, <3>2 DEF Under
    <3>3. CASE c \in 1 .. Len(Top.blocks)
      BY <1>2, <1>6, <2>4, <3>1, <3>3 DEF FrameInv
    <3>4. QED BY <1>7, <3>2, <3>3
  <2>5. \A l \in DOMAIN g.lists : l \in CellsOf(g) /\ g.lists[l] <= Len(g.args)
    BY <1>2, <1>4 DEF FrameInv, CellsOf
  <2>6. StackStart <= g.entry
    BY <1>2, <1>4 DEF FrameInv
  <2>7. QED BY <1>1, <1>4, <2>1, <2>2, <2>3, <2>4, <2>5, <2>6 DEF FrameInv
<1>9. Under(g, stackPosition')
  BY <1>1, <1>2, <1>4, <1>6, <1>7 DEF Under
<1>10. QED BY <1>1, <1>2, <1>4, <1>5, <1>8, <1>9, TopChanges

LEMMA StackBlockEnd == ASSUME StackInv, BlockEnd PROVE StackInv'
<1> DEFINE n == Len(Top.blocks)
           p == Top.blocks[n]
           g == Remaining(Top, p)
<1>1. /\ Depth > 0 /\ Top.blocks # <<>> /\ stackPosition' = p
      /\ frames' = [frames EXCEPT ![Depth] = g]
  BY DEF BlockEnd, SetTop
<1>2. /\ Top \in Frames /\ FrameInv(Top) /\ Under(Top, stackPosition)
      /\ stackPosition \in Nat /\ stackPosition \in StackStart .. MaxStackSize
  BY <1>1, TopFacts DEF StackInv
<1>3. /\ Top.blocks \in Seq(Nat) /\ n \in Nat /\ Top.entry \in Nat
      /\ \A b \in 1 .. n : Top.blocks[b] \in Nat
      /\ \A r \in Top.regions : r.address \in Nat /\ r.size \in Nat
      /\ Top.regions \subseteq [address : StackAddresses, size : Nat]
      /\ DOMAIN Top.lists \subseteq StackAddresses
      /\ Top.lists \in [DOMAIN Top.lists -> 0 .. MaxArgs]
  BY <1>2, FrameFacts
<1>4. n \in 1 .. n /\ p \in Nat
  <2>1. n # 0
    BY <1>1, <1>3
  <2>2. n \in 1 .. n
    BY <1>3, <2>1
  <2>3. QED BY <1>3, <2>2
<1>5. /\ g.allocates = Top.allocates /\ g.args = Top.args /\ g.entry = Top.entry
      /\ g.regions = {r \in Top.regions : r.address < p}
      /\ g.blocks = SubSeq(Top.blocks, 1, n - 1)
      /\ g.lists = [l \in {a \in DOMAIN Top.lists : a < p} |-> Top.lists[l]]
  BY <1>2 DEF Frames, Remaining
<1>6. g \in Frames
  <2>1. SubSeq(Top.blocks, 1, n - 1) \in Seq(Nat)
    BY <1>3, <1>4
  <2>2. [l \in {a \in DOMAIN Top.lists : a < p} |-> Top.lists[l]]
          \in UNION {[l -> 0 .. MaxArgs] : l \in SUBSET StackAddresses}
    <3> DEFINE f == [l \in {a \in DOMAIN Top.lists : a < p} |-> Top.lists[l]]
    <3>1. DOMAIN f \subseteq StackAddresses /\ f \in [DOMAIN f -> 0 .. MaxArgs]
      BY <1>3
    <3> HIDE DEF f
    <3>2. f \in UNION {[l -> 0 .. MaxArgs] : l \in SUBSET StackAddresses}
      BY <3>1, ListsTyped
    <3>3. QED BY <3>2 DEF f
  <2>3. {r \in Top.regions : r.address < p} \subseteq [address : StackAddresses, size : Nat]
    BY <1>3
  <2>4. QED BY <1>2, <2>1, <2>2, <2>3 DEF Frames, Remaining
<1> HIDE DEF g
<1>7. Len(g.blocks) = n - 1 /\ \A b \in 1 .. n - 1 : g.blocks[b] = Top.blocks[b]
  BY <1>3, <1>4, <1>5
<1>8. \A b \in 1 .. Len(g.blocks) : b \in 1 .. n /\ b < n /\ g.blocks[b] = Top.blocks[b]
  BY <1>3, <1>7
<1>9. /\ \A b \in 1 .. n : Top.entry <= Top.blocks[b]
      /\ \A b \in 1 .. n : \A r \in Top.regions :
           r.address + r.size <= Top.blocks[b] \/ Top.blocks[b] <= r.address
      /\ \A b, c \in 1 .. n : b < c => Top.blocks[b] <= Top.blocks[c]
      /\ Top.allocates
  BY <1>1, <1>2 DEF FrameInv
<1> HIDE DEF n
<1>10. \A r \in g.regions : r \in Top.regions /\ r.address + r.size <= p
  BY <1>3, <1>4, <1>5, <1>9
<1>11. FrameInv(g)
  <2>1. \A r \in g.regions : r.size > 0 /\ g.entry <= r.address
    BY <1>2, <1>5, <1>10 DEF FrameInv
  <2>2. \A r, s \in g.regions : r # s => Before(r, s) \/ Before(s, r)
    BY <1>2, <1>10 DEF FrameInv
  <2>3. \A b \in 1 .. Len(g.blocks) :
          /\ g.entry <= g.blocks[b]
          /\ \A r \in g.regions : r.address + r.size <= g.blocks[b] \/ g.blocks[b] <= r.address
    BY <1>5, <1>8, <1>9, <1>10
  <2>4. \A b, c \in 1 .. Len(g.blocks) : b < c => g.blocks[b] <= g.blocks[c]
    BY <1>8, <1>9
  <2>5. ASSUME NEW l \in DOMAIN g.lists
        PROVE  l \in CellsOf(g) /\ g.lists[l] <= Len(g.args)
    <3>1. l \in DOMAIN Top.lists /\ l < p /\ g.lists[l] = Top.lists[l]
      BY <1>5, <2>5
    <3>2. l \in CellsOf(Top) /\ Top.lists[l] <= Len(Top.args)
      BY <1>2, <3>1 DEF FrameInv
    <3>3. PICK r \in Top.regions : l \in Cells(r)
      BY <3>2 DEF CellsOf
    <3>4. r.address <= l /\ l \in Nat
      BY <1>3, <3>3 DEF Cells
    <3>5. r.address < p
      BY <1>3, <1>4, <3>1, <3>4
    <3>6. r \in g.regions
      BY <1>5, <3>5
    <3>7. QED BY <1>5, <3>1, <3>2, <3>3, <3>6 DEF CellsOf
  <2>6. StackStart <= g.entry
    BY <1>2, <1>5 DEF FrameInv
  <2>7. QED BY <1>5, <1>9, <2>1, <2>2, <2>3, <2>4, <2>5, <2>6 DEF FrameInv
<1>12. Under(g, p)
  BY <1>4, <1>5, <1>8, <1>9, <1>10 DEF Under
<1>13. stackPosition' \in StackStart .. MaxStackSize
  <2>1. StackStart <= Top.entry /\ Top.entry <= p /\ p <= stackPosition
    BY <1>2, <1>4, <1>9 DEF FrameInv, Under, n
  <2>2. QED BY <1>1, <1>2, <1>3, <1>4, <2>1, Typing
<1> HIDE DEF p
<1>14. QED BY <1>1, <1>5, <1>6, <1>9, <1>11, <1>12, <1>13, TopChanges

------------------------------------------------------------------------------
(* The va_lists.                                                              *)

LEMMA WithoutFacts ==
  ASSUME NEW f, NEW x
  PROVE  /\ DOMAIN Without(f, x) = DOMAIN f \ {x}
         /\ \A y \in DOMAIN f \ {x} : Without(f, x)[y] = f[y]
BY DEF Without

(* With(f, x, v) and Without(f, x) are va_lists of a frame again. *)
LEMMA WithTyped ==
  ASSUME NEW f, DOMAIN f \subseteq StackAddresses, f \in [DOMAIN f -> 0 .. MaxArgs],
         NEW x \in StackAddresses, NEW v \in 0 .. MaxArgs
  PROVE  With(f, x, v) \in UNION {[l -> 0 .. MaxArgs] : l \in SUBSET StackAddresses}
<1> DEFINE w == With(f, x, v)
<1>1. DOMAIN w \subseteq StackAddresses /\ w \in [DOMAIN w -> 0 .. MaxArgs]
  BY DEF With
<1> HIDE DEF w
<1>2. w \in UNION {[l -> 0 .. MaxArgs] : l \in SUBSET StackAddresses}
  BY <1>1, ListsTyped
<1>3. QED BY <1>2 DEF w

LEMMA WithoutTyped ==
  ASSUME NEW f, DOMAIN f \subseteq StackAddresses, f \in [DOMAIN f -> 0 .. MaxArgs], NEW x
  PROVE  Without(f, x) \in UNION {[l -> 0 .. MaxArgs] : l \in SUBSET StackAddresses}
<1> DEFINE w == Without(f, x)
<1>1. DOMAIN w \subseteq StackAddresses /\ w \in [DOMAIN w -> 0 .. MaxArgs]
  BY DEF Without
<1> HIDE DEF w
<1>2. w \in UNION {[l -> 0 .. MaxArgs] : l \in SUBSET StackAddresses}
  BY <1>1, ListsTyped
<1>3. QED BY <1>2 DEF w

LEMMA CellsAddresses ==
  ASSUME StackInv, NEW k \in 1 .. Depth, NEW l \in CellsOf(frames[k])
  PROVE  l \in StackAddresses
<1>1. /\ frames[k] \in Frames /\ FrameInv(frames[k]) /\ Under(frames[k], stackPosition)
      /\ stackPosition \in StackStart .. MaxStackSize
  BY DEF StackInv, Depth
<1>2. PICK r \in frames[k].regions : l \in Cells(r)
  BY DEF CellsOf
<1>3. r.address \in Nat /\ r.size \in Nat /\ r.address \in StackAddresses
  BY <1>1, FrameFacts
<1>4. r.address + r.size <= stackPosition
  BY <1>1 DEF Under
<1>5. QED BY <1>1, <1>2, <1>3, <1>4, Typing DEF Cells, StackAddresses

(* The map stays, and no va_list comes into use. *)
LEMMA MapKept ==
  ASSUME ListsInv, varArgsMap' = varArgsMap,
         \A k \in 1 .. Depth' : \A l \in DOMAIN frames'[k].lists :
           /\ k \in 1 .. Depth /\ l \in DOMAIN frames[k].lists
           /\ frames'[k].lists[l] = frames[k].lists[l]
           /\ frames'[k].args = frames[k].args
  PROVE  ListsInv'
<1>1. ASSUME NEW k \in 1 .. Depth', NEW l \in DOMAIN frames'[k].lists
      PROVE  Ready(frames[k], l)'
  <2>1. Ready(frames[k], l)
    BY DEF ListsInv
  <2>2. QED BY <2>1 DEF Ready
<1>2. QED BY <1>1 DEF ListsInv

(* What changes is a va_list of one frame, and its entry in the map. *)
LEMMA MapChanges ==
  ASSUME StackInv, ListsInv, NEW k \in 1 .. Depth, NEW l \in CellsOf(frames[k]),
         NEW g, frames' = [frames EXCEPT ![k] = g], g.args = frames[k].args,
         \A x \in DOMAIN g.lists : x # l => x \in DOMAIN frames[k].lists /\ g.lists[x] = frames[k].lists[x],
         \A x : x # l => (x \in DOMAIN varArgsMap' <=> x \in DOMAIN varArgsMap),
         \A x \in DOMAIN varArgsMap : x # l => varArgsMap'[x] = varArgsMap[x],
         l \in DOMAIN varArgsMap' =>
           /\ varArgsMap'[l].args \in Arguments
           /\ varArgsMap'[l].index \in 0 .. Len(varArgsMap'[l].args)
           /\ varArgsMap'[l].index = Len(varArgsMap'[l].args) => varArgsMap'[l].args = <<>>,
         l \in DOMAIN g.lists =>
           (g.lists[l] < Len(g.args) \/ g.args = <<>> =>
              l \in DOMAIN varArgsMap' /\ varArgsMap'[l] = [args |-> g.args, index |-> g.lists[l]])
  PROVE  ListsInv'
<1>1. frames \in Seq(Frames) /\ Depth \in Nat /\ Len(frames) = Depth /\ Depth' = Depth
  BY DEF StackInv, Depth
<1>2. /\ frames'[k] = g
      /\ \A i \in 1 .. Depth : i # k => frames'[i] = frames[i]
  BY <1>1
<1>3. DOMAIN varArgsMap' \subseteq StackAddresses
  <2>1. l \in StackAddresses
    BY CellsAddresses
  <2>2. QED BY <2>1 DEF ListsInv
<1>4. ASSUME NEW x \in DOMAIN varArgsMap'
      PROVE  /\ varArgsMap'[x].args \in Arguments
             /\ varArgsMap'[x].index \in 0 .. Len(varArgsMap'[x].args)
             /\ varArgsMap'[x].index = Len(varArgsMap'[x].args) => varArgsMap'[x].args = <<>>
  <2>1. CASE x = l
    BY <2>1
  <2>2. CASE x # l
    <3>1. x \in DOMAIN varArgsMap /\ varArgsMap'[x] = varArgsMap[x]
      BY <2>2
    <3>2. QED BY <3>1 DEF ListsInv
  <2>3. QED BY <2>1, <2>2
<1>5. ASSUME NEW i \in 1 .. Depth, NEW x \in DOMAIN frames'[i].lists
      PROVE  Ready(frames[i], x)'
  <2>1. CASE i = k /\ x = l
    BY <1>2, <2>1 DEF Ready
  <2>2. CASE i = k /\ x # l
    <3>1. /\ x \in DOMAIN frames[k].lists
          /\ g.lists[x] = frames[k].lists[x] /\ frames'[i] = g
      BY <1>2, <2>2
    <3>2. Ready(frames[k], x)
      BY <3>1 DEF ListsInv
    <3>3. x \in DOMAIN varArgsMap => x \in DOMAIN varArgsMap' /\ varArgsMap'[x] = varArgsMap[x]
      BY <2>2
    <3>4. QED BY <3>1, <3>2, <3>3 DEF Ready
  <2>3. CASE i # k
    <3>1. frames'[i] = frames[i] /\ x \in DOMAIN frames[i].lists
      BY <1>2, <2>3
    <3>2. x \in CellsOf(frames[i])
      BY <3>1 DEF StackInv, FrameInv
    <3>3. x # l
      BY <2>3, <3>2, OneOwner
    <3>4. Ready(frames[i], x)
      BY <3>1 DEF ListsInv
    <3>5. x \in DOMAIN varArgsMap => x \in DOMAIN varArgsMap' /\ varArgsMap'[x] = varArgsMap[x]
      BY <3>3
    <3>6. QED BY <3>1, <3>4, <3>5 DEF Ready
  <2>4. QED BY <2>1, <2>2, <2>3
<1>6. QED BY <1>1, <1>3, <1>4, <1>5 DEF ListsInv

(* One member of a frame of the stack. *)
LEMMA FrameOf ==
  ASSUME StackInv, NEW k \in 1 .. Depth
  PROVE  /\ frames[k] \in Frames /\ FrameInv(frames[k])
         /\ frames[k].args \in Arguments /\ Len(frames[k].args) \in 0 .. MaxArgs
         /\ DOMAIN frames[k].lists \subseteq StackAddresses
         /\ frames[k].lists \in [DOMAIN frames[k].lists -> 0 .. MaxArgs]
         /\ \A l \in DOMAIN frames[k].lists :
              l \in CellsOf(frames[k]) /\ frames[k].lists[l] <= Len(frames[k].args)
<1>1. frames[k] \in Frames /\ FrameInv(frames[k])
  BY DEF StackInv, Depth
<1>2. /\ frames[k].args \in Arguments
      /\ DOMAIN frames[k].lists \subseteq StackAddresses
      /\ frames[k].lists \in [DOMAIN frames[k].lists -> 0 .. MaxArgs]
  BY <1>1, FrameFacts
<1>3. Len(frames[k].args) \in 0 .. MaxArgs
  BY <1>2, ArgumentsFacts
<1>4. QED BY <1>1, <1>2, <1>3 DEF FrameInv

(* A frame with other va_lists. *)
LEMMA OtherLists ==
  ASSUME NEW f \in Frames, NEW lists \in UNION {[l -> 0 .. MaxArgs] : l \in SUBSET StackAddresses}
  PROVE  LET g == [f EXCEPT !.lists = lists] IN
         /\ g \in Frames /\ g.lists = lists
         /\ g.allocates = f.allocates /\ g.args = f.args /\ g.entry = f.entry
         /\ g.regions = f.regions /\ g.blocks = f.blocks
BY DEF Frames

LEMMA ListsVaStart ==
  ASSUME StackInv, ListsInv, NEW l \in StackAddresses, VaStart(l)
  PROVE  StackInv' /\ ListsInv'
<1> DEFINE lists == With(Top.lists, l, 0)
           g == [Top EXCEPT !.lists = lists]
<1>1. /\ Depth \in 1 .. Depth /\ l \in CellsOf(Top) /\ varArgsMap' = Started(l)
      /\ frames' = [frames EXCEPT ![Depth] = g] /\ UNCHANGED stackPosition
  BY TopFacts DEF VaStart, SetTop
<1>2. /\ Top \in Frames /\ Top.args \in Arguments
      /\ Len(Top.args) \in 0 .. MaxArgs
      /\ DOMAIN Top.lists \subseteq StackAddresses
      /\ Top.lists \in [DOMAIN Top.lists -> 0 .. MaxArgs]
      /\ \A x \in DOMAIN Top.lists : x \in CellsOf(Top) /\ Top.lists[x] <= Len(Top.args)
  BY <1>1, FrameOf DEF Top
<1>3. 0 \in 0 .. MaxArgs
  BY Typing
<1>4. lists \in UNION {[m -> 0 .. MaxArgs] : m \in SUBSET StackAddresses}
  BY <1>2, <1>3, WithTyped
<1>5. /\ DOMAIN lists = DOMAIN Top.lists \cup {l} /\ lists[l] = 0
      /\ \A x \in DOMAIN Top.lists : x # l => lists[x] = Top.lists[x]
  BY DEF With
<1> HIDE DEF lists
<1>6. /\ g \in Frames /\ g.lists = lists
      /\ g.allocates = Top.allocates /\ g.args = Top.args /\ g.entry = Top.entry
      /\ g.regions = Top.regions /\ g.blocks = Top.blocks
  BY <1>2, <1>4, OtherLists
<1> HIDE DEF g
<1>7. \A x \in DOMAIN g.lists : x \in CellsOf(Top) /\ g.lists[x] <= Len(g.args)
  BY <1>1, <1>2, <1>5, <1>6
<1>8. StackInv'
  BY <1>1, <1>6, <1>7, ListsChange DEF Top
<1>9. /\ DOMAIN varArgsMap' = DOMAIN varArgsMap \cup {l}
      /\ varArgsMap'[l] = [args |-> Top.args, index |-> 0]
      /\ \A x \in DOMAIN varArgsMap : x # l => varArgsMap'[x] = varArgsMap[x]
  BY <1>1 DEF Started, With
<1>10. /\ varArgsMap'[l].args = Top.args /\ varArgsMap'[l].index = 0
       /\ 0 \in 0 .. Len(Top.args)
       /\ 0 = Len(Top.args) => Top.args = <<>>
  <2>1. Top.args \in Seq(Values)
    BY <1>2, ArgumentsFacts
  <2>2. QED BY <1>2, <1>9, <2>1
<1>11. ListsInv'
  BY <1>1, <1>2, <1>5, <1>6, <1>9, <1>10, MapChanges DEF Top
<1>12. QED BY <1>8, <1>11

(* What va_arg finds in the map, so that it throws nothing. *)
LEMMA ArgumentThere ==
  ASSUME StackInv, ListsInv, NEW k \in 1 .. Depth, NEW l \in DOMAIN frames[k].lists,
         frames[k].lists[l] < Len(frames[k].args) \/ frames[k].lists[l] = 0
  PROVE  /\ l \in DOMAIN varArgsMap
         /\ varArgsMap[l] = [args |-> frames[k].args, index |-> frames[k].lists[l]]
<1>1. Ready(frames[k], l)
  BY DEF ListsInv
<1>2. frames[k].args \in Seq(Values)
  BY FrameOf, ArgumentsFacts
<1>3. frames[k].lists[l] < Len(frames[k].args) \/ frames[k].args = <<>>
  <2>1. Len(frames[k].args) \in Nat /\ (Len(frames[k].args) = 0 => frames[k].args = <<>>)
    BY <1>2
  <2>2. QED BY <2>1
<1>4. QED BY <1>1, <1>3 DEF Ready

LEMMA ListsVaArg ==
  ASSUME StackInv, ListsInv, NEW k \in 1 .. Depth, NEW l \in StackAddresses, VaArg(k, l)
  PROVE  StackInv' /\ ListsInv' /\ UNCHANGED exception
<1> DEFINE f == frames[k]
           index == f.lists[l] + 1
           lists == [f.lists EXCEPT ![l] = index]
           g == [f EXCEPT !.lists = lists]
<1>1. l \in DOMAIN f.lists /\ f.lists[l] < Len(f.args)
  BY DEF VaArg, Uses
<1>2. /\ f \in Frames /\ f.args \in Arguments
      /\ Len(f.args) \in 0 .. MaxArgs
      /\ DOMAIN f.lists \subseteq StackAddresses
      /\ f.lists \in [DOMAIN f.lists -> 0 .. MaxArgs]
      /\ \A x \in DOMAIN f.lists : x \in CellsOf(f) /\ f.lists[x] <= Len(f.args)
  BY FrameOf
<1>3. /\ l \in DOMAIN varArgsMap
      /\ varArgsMap[l].args = f.args /\ varArgsMap[l].index = f.lists[l]
  <2>1. l \in DOMAIN varArgsMap /\ varArgsMap[l] = [args |-> f.args, index |-> f.lists[l]]
    BY <1>1, ArgumentThere
  <2>2. QED BY <2>1
<1>4. f.lists[l] \in 0 .. MaxArgs /\ index \in 0 .. MaxArgs /\ index \in 0 .. Len(f.args)
  BY <1>1, <1>2, Typing
<1>5. /\ varArgsMap' = CleanIfTerminated(l, index)
      /\ frames' = [frames EXCEPT ![k].lists[l] = @ + 1]
      /\ UNCHANGED <<stackPosition, exception>>
  <2>1. ~(index > Len(varArgsMap[l].args)) /\ varArgsMap[l].index + 1 = index
    BY <1>2, <1>3, <1>4
  <2>2. QED BY <1>3, <2>1 DEF VaArg
<1>6. frames' = [frames EXCEPT ![k] = g]
  BY <1>1, <1>2, <1>5 DEF StackInv, Frames
<1>7. lists \in UNION {[m -> 0 .. MaxArgs] : m \in SUBSET StackAddresses}
  <2>1. DOMAIN lists = DOMAIN f.lists /\ lists \in [DOMAIN f.lists -> 0 .. MaxArgs]
    BY <1>2, <1>4
  <2>2. DOMAIN lists \subseteq StackAddresses /\ lists \in [DOMAIN lists -> 0 .. MaxArgs]
    BY <1>2, <2>1
  <2> HIDE DEF lists
  <2>3. QED BY <2>2, ListsTyped
<1>8. /\ DOMAIN lists = DOMAIN f.lists /\ lists[l] = index
      /\ \A x \in DOMAIN f.lists : x # l => lists[x] = f.lists[x]
  BY <1>1, <1>2
<1> HIDE DEF lists
<1>9. /\ g \in Frames /\ g.lists = lists
      /\ g.allocates = f.allocates /\ g.args = f.args /\ g.entry = f.entry
      /\ g.regions = f.regions /\ g.blocks = f.blocks
  BY <1>2, <1>7, OtherLists
<1> HIDE DEF g
<1>10. \A x \in DOMAIN g.lists : x \in CellsOf(f) /\ g.lists[x] <= Len(g.args)
  <2>1. index <= Len(f.args)
    BY <1>2, <1>4
  <2>2. QED BY <1>2, <1>8, <1>9, <2>1
<1>11. StackInv'
  BY <1>5, <1>6, <1>9, <1>10, ListsChange
<1>12. /\ \A x : x # l => (x \in DOMAIN varArgsMap' <=> x \in DOMAIN varArgsMap)
       /\ \A x \in DOMAIN varArgsMap : x # l => varArgsMap'[x] = varArgsMap[x]
       /\ index = Len(f.args) => l \notin DOMAIN varArgsMap'
       /\ index # Len(f.args) =>
            l \in DOMAIN varArgsMap' /\ varArgsMap'[l] = [args |-> f.args, index |-> index]
  <2>1. CASE index = Len(f.args)
    <3>1. varArgsMap' = Without(varArgsMap, l)
      BY <1>3, <1>5, <2>1 DEF CleanIfTerminated
    <3>2. QED BY <2>1, <3>1, WithoutFacts
  <2>2. CASE index # Len(f.args)
    <3>1. varArgsMap' = [varArgsMap EXCEPT ![l].index = index]
      BY <1>3, <1>5, <2>2 DEF CleanIfTerminated
    <3>2. varArgsMap[l] = [args |-> f.args, index |-> f.lists[l]]
      BY <1>1, ArgumentThere
    <3> HIDE DEF index, f
    <3>3. DOMAIN varArgsMap' = DOMAIN varArgsMap
      BY <3>1
    <3>4. \A x \in DOMAIN varArgsMap : x # l => varArgsMap'[x] = varArgsMap[x]
      BY <3>1
    <3>5. varArgsMap'[l] = [varArgsMap[l] EXCEPT !.index = index]
      BY <1>3, <3>1
    <3>6. varArgsMap'[l] = [args |-> f.args, index |-> index]
      BY <3>2, <3>5
    <3>7. QED BY <1>3, <2>2, <3>3, <3>4, <3>6
  <2>3. QED BY <2>1, <2>2
<1>13. l \in DOMAIN varArgsMap' =>
         /\ index # Len(f.args) /\ index < Len(f.args)
         /\ varArgsMap'[l].args = f.args /\ varArgsMap'[l].index = index
  BY <1>2, <1>4, <1>12
<1>14. l \in DOMAIN varArgsMap' =>
         /\ varArgsMap'[l].args \in Arguments
         /\ varArgsMap'[l].index \in 0 .. Len(varArgsMap'[l].args)
         /\ varArgsMap'[l].index = Len(varArgsMap'[l].args) => varArgsMap'[l].args = <<>>
  BY <1>2, <1>4, <1>13
<1>15. g.lists[l] < Len(g.args) \/ g.args = <<>> =>
         l \in DOMAIN varArgsMap' /\ varArgsMap'[l] = [args |-> g.args, index |-> g.lists[l]]
  <2>1. f.args # <<>>
    BY <1>1, <1>2, <1>4
  <2>2. g.lists[l] = index /\ g.args = f.args
    BY <1>8, <1>9
  <2>3. index < Len(f.args) => index # Len(f.args)
    BY <1>2, <1>4
  <2>4. QED BY <1>12, <2>1, <2>2, <2>3
<1>16. \A x \in DOMAIN g.lists : x # l => x \in DOMAIN f.lists /\ g.lists[x] = f.lists[x]
  BY <1>8, <1>9
<1>17. ListsInv'
  <2>1. l \in CellsOf(f)
    BY <1>1, <1>2
  <2>2. QED BY <1>6, <1>9, <1>12, <1>14, <1>15, <1>16, <2>1, MapChanges
<1>18. QED BY <1>5, <1>11, <1>17

(* A va_list and its entry go. *)
LEMMA ListEnds ==
  ASSUME StackInv, ListsInv, NEW k \in 1 .. Depth, NEW l \in DOMAIN frames[k].lists,
         NEW g, g = [frames[k] EXCEPT !.lists = Without(frames[k].lists, l)],
         frames' = [frames EXCEPT ![k] = g],
         varArgsMap' = Without(varArgsMap, l),
         UNCHANGED stackPosition
  PROVE  StackInv' /\ ListsInv'
<1> DEFINE f == frames[k]
           lists == Without(f.lists, l)
<1>1. /\ f \in Frames /\ f.args \in Arguments
      /\ DOMAIN f.lists \subseteq StackAddresses
      /\ f.lists \in [DOMAIN f.lists -> 0 .. MaxArgs]
      /\ \A x \in DOMAIN f.lists : x \in CellsOf(f) /\ f.lists[x] <= Len(f.args)
  BY FrameOf
<1>2. g = [f EXCEPT !.lists = lists]
  OBVIOUS
<1>3. lists \in UNION {[m -> 0 .. MaxArgs] : m \in SUBSET StackAddresses}
  BY <1>1, WithoutTyped
<1>4. DOMAIN lists = DOMAIN f.lists \ {l} /\ \A x \in DOMAIN lists : lists[x] = f.lists[x]
  BY DEF Without
<1> HIDE DEF lists
<1>5. /\ g \in Frames /\ g.lists = lists
      /\ g.allocates = f.allocates /\ g.args = f.args /\ g.entry = f.entry
      /\ g.regions = f.regions /\ g.blocks = f.blocks
  BY <1>1, <1>2, <1>3 DEF Frames
<1>6. \A x \in DOMAIN g.lists : x \in CellsOf(f) /\ g.lists[x] <= Len(g.args)
  BY <1>1, <1>4, <1>5
<1>7. StackInv'
  BY <1>5, <1>6, ListsChange
<1>8. /\ \A x : x # l => (x \in DOMAIN varArgsMap' <=> x \in DOMAIN varArgsMap)
      /\ \A x \in DOMAIN varArgsMap : x # l => varArgsMap'[x] = varArgsMap[x]
      /\ l \notin DOMAIN varArgsMap'
  BY DEF Without
<1>9. l \in CellsOf(f) /\ l \notin DOMAIN g.lists
  BY <1>1, <1>4, <1>5
<1>10. \A x \in DOMAIN g.lists : x # l => x \in DOMAIN f.lists /\ g.lists[x] = f.lists[x]
  BY <1>4, <1>5
<1>11. ListsInv'
  BY <1>5, <1>8, <1>9, <1>10, MapChanges
<1>12. QED BY <1>7, <1>11

LEMMA ListsFormat ==
  ASSUME StackInv, ListsInv, NEW k \in 1 .. Depth, NEW l \in StackAddresses, Format(k, l)
  PROVE  StackInv' /\ ListsInv' /\ UNCHANGED exception
<1>1. l \in DOMAIN frames[k].lists /\ frames[k].lists[l] = 0
  BY DEF Format, Uses
<1>2. l \in DOMAIN varArgsMap
  BY <1>1, ArgumentThere
<1>3. /\ varArgsMap' = CleanIfTerminated(l, Len(varArgsMap[l].args))
      /\ frames' = [frames EXCEPT ![k].lists = Without(@, l)]
      /\ UNCHANGED <<stackPosition, exception>>
  BY <1>2 DEF Format
<1>4. varArgsMap' = Without(varArgsMap, l)
  BY <1>3 DEF CleanIfTerminated
<1>5. frames' = [frames EXCEPT ![k] = [frames[k] EXCEPT !.lists = Without(frames[k].lists, l)]]
  <2>1. k \in DOMAIN frames /\ frames[k] \in Frames
    BY DEF StackInv, Depth
  <2>2. QED BY <1>3, <2>1 DEF Frames
<1>6. QED BY <1>1, <1>3, <1>4, <1>5, ListEnds

LEMMA ListsVaEnd ==
  ASSUME StackInv, ListsInv, NEW l \in StackAddresses, VaEnd(l)
  PROVE  StackInv' /\ ListsInv' /\ UNCHANGED exception
<1>1. /\ Depth \in 1 .. Depth /\ l \in DOMAIN frames[Depth].lists
      /\ varArgsMap' = Without(varArgsMap, l)
      /\ frames' = [frames EXCEPT ![Depth] = [Top EXCEPT !.lists = Without(@, l)]]
      /\ UNCHANGED <<stackPosition, exception>>
  BY DEF VaEnd, Uses, SetTop
<1>2. frames' = [frames EXCEPT ![Depth] = [frames[Depth] EXCEPT !.lists = Without(frames[Depth].lists, l)]]
  <2>1. Top \in Frames
    BY <1>1, TopFacts
  <2>2. QED BY <1>1, <2>1 DEF Top, Frames
<1>3. QED BY <1>1, <1>2, ListEnds

------------------------------------------------------------------------------
(* The induction.                                                            *)

LEMMA ListsCall == ASSUME StackInv, ListsInv, Call PROVE ListsInv'
<1>1. PICK allocates \in BOOLEAN, vararg \in BOOLEAN, args \in Arguments :
        frames' = Append(frames,
          [allocates |-> allocates, vararg |-> vararg, args |-> args, entry |-> stackPosition,
           regions |-> {}, blocks |-> <<>>, lists |-> <<>>])
  BY DEF Call
<1>2. varArgsMap' = varArgsMap
  BY DEF Call
<1>3. frames \in Seq(Frames) /\ Depth \in Nat /\ Len(frames) = Depth
  BY DEF StackInv, Depth
<1>4. /\ Depth' = Depth + 1 /\ DOMAIN frames'[Depth + 1].lists = {}
      /\ \A i \in 1 .. Depth : frames'[i] = frames[i]
  <2> DEFINE g == [allocates |-> allocates, vararg |-> vararg, args |-> args,
                   entry |-> stackPosition, regions |-> {}, blocks |-> <<>>, lists |-> <<>>]
  <2>1. DOMAIN g.lists = {}
    OBVIOUS
  <2>2. frames' = Append(frames, g)
    BY <1>1
  <2> HIDE DEF g
  <2>3. /\ Depth' = Depth + 1 /\ frames'[Depth + 1] = g
        /\ \A i \in 1 .. Depth : frames'[i] = frames[i]
    BY <1>3, <2>2 DEF Depth
  <2>4. QED BY <2>1, <2>3
<1>5. \A i \in 1 .. Depth' : i = Depth + 1 \/ i \in 1 .. Depth
  BY <1>3, <1>4
<1>6. \A k \in 1 .. Depth' : \A l \in DOMAIN frames'[k].lists :
        k \in 1 .. Depth /\ frames'[k] = frames[k]
  BY <1>4, <1>5
<1>7. QED BY <1>2, <1>6, MapKept

LEMMA ListsReturn == ASSUME StackInv, ListsInv, Return PROVE ListsInv'
<1>1. varArgsMap' = varArgsMap /\ Depth > 0 /\ frames' = SubSeq(frames, 1, Depth - 1)
  BY DEF Return
<1>2. frames \in Seq(Frames) /\ Depth \in Nat /\ Len(frames) = Depth
  BY DEF StackInv, Depth
<1>3. Depth - 1 \in Nat /\ Depth - 1 <= Len(frames)
  BY <1>1, <1>2
<1>4. /\ Len(SubSeq(frames, 1, Depth - 1)) = Depth - 1
      /\ \A i \in 1 .. Depth - 1 : SubSeq(frames, 1, Depth - 1)[i] = frames[i]
  BY <1>2, <1>3
<1>5. Depth' = Depth - 1
  BY <1>1, <1>4 DEF Depth
<1>6. \A i \in 1 .. Depth - 1 : i \in 1 .. Depth
  BY <1>2
<1>7. \A k \in 1 .. Depth' : k \in 1 .. Depth /\ frames'[k] = frames[k]
  BY <1>1, <1>4, <1>5, <1>6
<1>8. QED BY <1>1, <1>7, MapKept

(* A change of the innermost frame that leaves the map. *)
LEMMA ListsTop ==
  ASSUME StackInv, ListsInv, Depth > 0, varArgsMap' = varArgsMap,
         NEW g, frames' = [frames EXCEPT ![Depth] = g], g.args = Top.args,
         \A l \in DOMAIN g.lists : l \in DOMAIN Top.lists /\ g.lists[l] = Top.lists[l]
  PROVE  ListsInv'
<1>1. frames \in Seq(Frames) /\ Depth \in 1 .. Depth /\ Len(frames) = Depth /\ Depth' = Depth
  BY TopFacts DEF StackInv, Depth
<1>2. frames'[Depth] = g /\ \A i \in 1 .. Depth : i # Depth => frames'[i] = frames[i]
  BY <1>1
<1>3. \A k \in 1 .. Depth' : \A l \in DOMAIN frames'[k].lists :
        /\ k \in 1 .. Depth /\ l \in DOMAIN frames[k].lists
        /\ frames'[k].lists[l] = frames[k].lists[l]
        /\ frames'[k].args = frames[k].args
  BY <1>1, <1>2 DEF Top
<1>4. QED BY <1>3, MapKept

LEMMA ListsAllocate ==
  ASSUME StackInv, ListsInv, NEW size \in Sizes, Allocate(size) PROVE ListsInv'
<1>1. Depth > 0 /\ varArgsMap' = varArgsMap
  <2>1. CASE stackPosition + size > MaxStackSize
    BY <2>1 DEF Allocate, Throw
  <2>2. CASE ~(stackPosition + size > MaxStackSize)
    BY <2>2 DEF Allocate
  <2>3. QED BY <2>1, <2>2 DEF Allocate
<1>2. CASE stackPosition + size > MaxStackSize
  <2>1. UNCHANGED <<frames, varArgsMap>>
    BY <1>2 DEF Allocate, Throw
  <2>2. QED BY <2>1 DEF ListsInv, Ready, Depth
<1>3. CASE ~(stackPosition + size > MaxStackSize)
  <2> DEFINE g == [Top EXCEPT !.regions = @ \cup {[address |-> stackPosition, size |-> size]}]
  <2>1. frames' = [frames EXCEPT ![Depth] = g]
    BY <1>3 DEF Allocate, SetTop
  <2>2. Top \in Frames
    BY <1>1, TopFacts
  <2>3. g.args = Top.args /\ g.lists = Top.lists
    BY <2>2 DEF Frames
  <2> HIDE DEF g
  <2>4. QED BY <1>1, <2>1, <2>3, ListsTop
<1>4. QED BY <1>2, <1>3

LEMMA ListsBlockStart == ASSUME StackInv, ListsInv, BlockStart PROVE ListsInv'
<1> DEFINE g == [Top EXCEPT !.blocks = Append(@, stackPosition)]
<1>1. Depth > 0 /\ varArgsMap' = varArgsMap /\ frames' = [frames EXCEPT ![Depth] = g]
  BY DEF BlockStart, SetTop
<1>2. Top \in Frames
  BY <1>1, TopFacts
<1>3. g.args = Top.args /\ g.lists = Top.lists
  BY <1>2 DEF Frames
<1> HIDE DEF g
<1>4. QED BY <1>1, <1>3, ListsTop

LEMMA ListsBlockEnd == ASSUME StackInv, ListsInv, BlockEnd PROVE ListsInv'
<1> DEFINE p == Top.blocks[Len(Top.blocks)]
           g == Remaining(Top, p)
<1>1. Depth > 0 /\ varArgsMap' = varArgsMap /\ frames' = [frames EXCEPT ![Depth] = g]
  BY DEF BlockEnd, SetTop
<1> HIDE DEF p
<1>2. g.args = Top.args /\ g.lists = [l \in {a \in DOMAIN Top.lists : a < p} |-> Top.lists[l]]
  BY <1>1, TopFacts DEF Frames, Remaining
<1> HIDE DEF g
<1>3. \A l \in DOMAIN g.lists : l \in DOMAIN Top.lists /\ g.lists[l] = Top.lists[l]
  BY <1>2
<1>4. QED BY <1>1, <1>2, <1>3, ListsTop

LEMMA KeepsCallsInv == ASSUME CallsInv, [CallsNext]_calls_vars PROVE CallsInv'
<1>0. StackInv /\ ListsInv /\ ThrownInv
  BY DEF CallsInv
<1>1. CASE Call
  <2>1. ThrownInv'
    BY <1>0, <1>1 DEF Call, ThrownInv
  <2>2. QED BY <1>0, <1>1, <2>1, StackCall, ListsCall DEF CallsInv
<1>2. CASE Return
  <2>1. ThrownInv'
    BY <1>0, <1>2 DEF Return, ThrownInv
  <2>2. QED BY <1>0, <1>2, <2>1, StackReturn, ListsReturn DEF CallsInv
<1>3. CASE BlockStart
  <2>1. ThrownInv'
    BY <1>0, <1>3 DEF BlockStart, ThrownInv
  <2>2. QED BY <1>0, <1>3, <2>1, StackBlockStart, ListsBlockStart DEF CallsInv
<1>4. CASE BlockEnd
  <2>1. ThrownInv'
    BY <1>0, <1>4 DEF BlockEnd, ThrownInv
  <2>2. QED BY <1>0, <1>4, <2>1, StackBlockEnd, ListsBlockEnd DEF CallsInv
<1>5. ASSUME NEW size \in Sizes, Allocate(size) PROVE CallsInv'
  <2>1. ThrownInv'
    BY <1>0, <1>5 DEF Allocate, Throw, ThrownInv
  <2>2. QED BY <1>0, <1>5, <2>1, StackAllocate, ListsAllocate DEF CallsInv
<1>6. ASSUME NEW l \in StackAddresses, VaStart(l) PROVE CallsInv'
  <2>1. ThrownInv'
    BY <1>0, <1>6 DEF VaStart, ThrownInv
  <2>2. QED BY <1>0, <1>6, <2>1, ListsVaStart DEF CallsInv
<1>7. ASSUME NEW l \in StackAddresses, VaEnd(l) PROVE CallsInv'
  <2>1. QED BY <1>0, <1>7, ListsVaEnd DEF CallsInv, ThrownInv
<1>8. ASSUME NEW l \in StackAddresses, NEW k \in 1 .. Depth, VaArg(k, l) PROVE CallsInv'
  <2>1. QED BY <1>0, <1>8, ListsVaArg DEF CallsInv, ThrownInv
<1>9. ASSUME NEW l \in StackAddresses, NEW k \in 1 .. Depth, Format(k, l) PROVE CallsInv'
  <2>1. QED BY <1>0, <1>9, ListsFormat DEF CallsInv, ThrownInv
<1>10. CASE UNCHANGED calls_vars
  BY <1>0, <1>10 DEF calls_vars, CallsInv, StackInv, ListsInv, ThrownInv, Ready, Depth
<1>11. CASE Over
  BY <1>10, <1>11 DEF Over
<1>12. QED BY <1>1, <1>2, <1>3, <1>4, <1>5, <1>6, <1>7, <1>8, <1>9, <1>10, <1>11 DEF CallsNext

(* All a running program is in: the frames are apart, the position is behind     *)
(* them, and the va_lists in use have the arguments of their calls.             *)
THEOREM CallsInvariant == CallsSpec => []CallsInv
<1>1. CallsInit => CallsInv
  BY StartsCallsInv
<1>2. CallsInv /\ [CallsNext]_calls_vars => CallsInv'
  BY KeepsCallsInv
<1>3. QED BY <1>1, <1>2, PTL DEF CallsSpec

(* Type correctness of the stack, of its frames and of the map of va_lists.      *)
THEOREM CallsTypeCorrect == CallsSpec => []CallsTypeOK
<1>1. CallsInv => CallsTypeOK
  BY DEF CallsInv, StackInv, ListsInv, ThrownInv, CallsTypeOK
<1>2. QED BY <1>1, CallsInvariant, PTL

LEMMA RegionsApart ==
  ASSUME StackInv, NEW i \in 1 .. Depth, NEW j \in 1 .. Depth,
         NEW r \in frames[i].regions, NEW s \in frames[j].regions, i # j \/ r # s
  PROVE  Cells(r) \cap Cells(s) = {}
<1>1. /\ frames[i] \in Frames /\ frames[j] \in Frames
      /\ r.address \in Nat /\ r.size \in Nat /\ s.address \in Nat /\ s.size \in Nat
  BY FrameOf, FrameFacts
<1>2. ASSUME NEW a \in Cells(r), a \in Cells(s) PROVE FALSE
  <2>1. a \in CellsOf(frames[i]) /\ a \in CellsOf(frames[j])
    BY <1>2 DEF CellsOf
  <2>2. i = j
    BY <2>1, OneOwner
  <2>3. Before(r, s) \/ Before(s, r)
    BY <2>2, FrameOf DEF FrameInv
  <2>4. QED BY <1>1, <1>2, <2>3 DEF Before, Cells
<1>3. QED BY <1>2

(* The memory of different functions, and different memory of one function, does  *)
(* not overlap, and the next allocation is behind it all (mir_allocate).          *)
THEOREM MemoryApart == CallsSpec => []FramesApart
<1>1. ASSUME CallsInv PROVE FramesApart
  <2>1. StackInv
    BY <1>1 DEF CallsInv
  <2>2. ASSUME NEW i \in 1 .. Depth, NEW j \in 1 .. Depth,
               NEW r \in frames[i].regions, NEW s \in frames[j].regions
        PROVE  /\ StackStart <= r.address
               /\ r.address + r.size <= stackPosition
               /\ stackPosition <= MaxStackSize
               /\ i # j \/ r # s => Cells(r) \cap Cells(s) = {}
    <3>1. r.address + r.size <= stackPosition
      BY <2>1 DEF StackInv, Under
    <3>2. /\ StackStart <= frames[i].entry /\ frames[i].entry <= r.address
          /\ frames[i] \in Frames /\ stackPosition \in StackStart .. MaxStackSize
      BY <2>1 DEF StackInv, FrameInv, Depth
    <3>3. frames[i].entry \in Int /\ r.address \in Int
      BY <3>2, Typing DEF Frames, StackAddresses
    <3>4. StackStart <= r.address /\ stackPosition <= MaxStackSize
      BY <3>2, <3>3, Typing
    <3>5. QED BY <2>1, <3>1, <3>4, RegionsApart
  <2>3. QED BY <2>2 DEF FramesApart
<1>2. QED BY <1>1, CallsInvariant, PTL

(* Only a return removes a frame, and it leaves the stack as the function found it. *)
THEOREM ReturnsBalanced == CallsSpec => StackBalanced
<1>1. ASSUME CallsInv, [CallsNext]_calls_vars, Len(frames') < Depth PROVE stackPosition' = Top.entry
  <2>1. StackInv /\ frames \in Seq(Frames) /\ Depth \in Nat /\ Len(frames) = Depth
    BY <1>1 DEF CallsInv, StackInv, Depth
  <2>2. \A g, k : frames' = [frames EXCEPT ![k] = g] => Len(frames') = Depth
    BY <2>1
  <2>3. frames' = frames => Len(frames') = Depth
    BY <2>1
  <2>4. CASE Return
    BY <2>1, <2>4, ReturnBalanced
  <2>5. CASE Call
    <3>1. \A g : Len(Append(frames, g)) = Depth + 1
      BY <2>1
    <3>2. Len(frames') = Depth + 1
      BY <2>5, <3>1 DEF Call
    <3>3. QED BY <1>1, <2>1, <3>2
  <2>6. CASE BlockStart
    BY <1>1, <2>1, <2>2, <2>6 DEF BlockStart, SetTop
  <2>7. CASE BlockEnd
    BY <1>1, <2>1, <2>2, <2>7 DEF BlockEnd, SetTop
  <2>8. ASSUME NEW size \in Sizes, Allocate(size) PROVE FALSE
    <3>1. CASE stackPosition + size > MaxStackSize
      <4>1. frames' = frames
        BY <2>8, <3>1 DEF Allocate, Throw
      <4>2. QED BY <1>1, <2>1, <2>3, <4>1
    <3>2. CASE ~(stackPosition + size > MaxStackSize)
      BY <1>1, <2>1, <2>2, <2>8, <3>2 DEF Allocate, SetTop
    <3>3. QED BY <3>1, <3>2
  <2>9. ASSUME NEW l \in StackAddresses, VaStart(l) \/ VaEnd(l) PROVE FALSE
    BY <1>1, <2>1, <2>2, <2>9 DEF VaStart, VaEnd, SetTop
  <2>10. ASSUME NEW l \in StackAddresses, NEW k \in 1 .. Depth, VaArg(k, l) \/ Format(k, l)
         PROVE  FALSE
    <3>1. UNCHANGED frames \/ \E g : frames' = [frames EXCEPT ![k] = g]
      BY <2>10 DEF VaArg, Format, Throw
    <3>2. QED BY <1>1, <2>1, <2>2, <2>3, <3>1
  <2>11. CASE Over \/ UNCHANGED calls_vars
    BY <1>1, <2>1, <2>3, <2>11 DEF Over, calls_vars
  <2>12. QED BY <1>1, <2>4, <2>5, <2>6, <2>7, <2>8, <2>9, <2>10, <2>11 DEF CallsNext
<1>2. CallsInv /\ [CallsNext]_calls_vars => [Len(frames') < Depth => stackPosition' = Top.entry]_calls_vars
  BY <1>1
<1>3. QED BY <1>2, CallsInvariant, PTL DEF CallsSpec, StackBalanced

(* A va_list in use gives the arguments of its own call up to the last, whatever  *)
(* was at its address before, and va_arg and vsprintf throw nothing.             *)
THEOREM ArgumentsGiven == CallsSpec => []GivesArguments
<1>1. CallsInv => GivesArguments
  <2> SUFFICES ASSUME CallsInv PROVE GivesArguments
    OBVIOUS
  <2>1. ASSUME NEW k \in 1 .. Depth, NEW l \in DOMAIN frames[k].lists
        PROVE  ListReady(frames[k], l)
    <3>1. Ready(frames[k], l)
      BY DEF CallsInv, ListsInv
    <3>2. QED BY <3>1 DEF Ready, ListReady
  <2>2. QED BY <2>1 DEF GivesArguments, CallsInv, ThrownInv
<1>2. QED BY <1>1, CallsInvariant, PTL
==============================================================================
