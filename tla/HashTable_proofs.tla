--------------------------- MODULE HashTable_proofs ---------------------------
(****************************************************************************)
(* Proofs about HashTable for any keys, hashes, values and sizes whose paths *)
(* lead through every slot: every search ends, the two arrays agree, and the  *)
(* table implements a set of elements with different keys.                      *)
(****************************************************************************)
EXTENDS HashTable, FiniteSetTheorems, WellFoundedInduction, TLAPS

Slots == 0 .. size - 1
Positions == 0 .. size + 2

Typed ==
  /\ size \in Sizes
  /\ entries \in [Slots -> {Empty, Deleted} \cup (Nat \ {0})]
  /\ els \in Seq(Element \cup {Gone})
  /\ bound \in 0 .. Len(els)
  /\ scan \in Nat
  /\ op \in Operation \cup {Idle}

(* els has at most half as many slots as entries, a quarter in a rebuild,     *)
(* which writes behind the place where it reads.                               *)
Shaped ==
  /\ scan = 0 => bound = Len(els) /\ 2 * Len(els) <= size
  /\ scan # 0 => bound < scan /\ scan <= Len(els) + 1 /\ 4 * Len(els) <= size
                 /\ op # Idle /\ op.action \in {"insert", "replace"}
  /\ NeedsRoom /\ scan = 0 => 2 * size \in Sizes

(* An element is where a search for its key comes by. *)
OnPath(k, i) ==
  \E n \in Positions : Entry(k, n) = i /\ \A m \in 0 .. n - 1 : Entry(k, m) # Empty

Reachable == \A i \in 1 .. bound : els[i] # Gone => OnPath(els[i].key, i)

Distinct == \A i, j \in LiveIndices : els[i].key = els[j].key => i = j

(* Every entry that is not empty was filled for another element of els. *)
Used == {s \in Slots : entries[s] # Empty}
FewUsed == Cardinality(Used) <= bound

Inserted == {els[i] : i \in {j \in 1 .. bound : els[j] # Gone}}
Counted == IsFiniteSet(Inserted) /\ elsNum = Cardinality(Inserted)

TableInv ==
  /\ Typed /\ Shaped /\ EntriesExact /\ Reachable /\ Distinct /\ FewUsed /\ Counted

------------------------------------------------------------------------------
(* A set of naturals has a least element. *)
LEMMA LeastNatural ==
  ASSUME NEW T \in SUBSET Nat, T # {}
  PROVE  \E n \in T : \A m \in T : n <= m
<1>1. PICK t \in T : TRUE
  OBVIOUS
<1> DEFINE Below == {0 .. m : m \in {u \in T : u <= t}}
<1>2. IsFiniteSet(0 .. t)
  BY FS_Interval
<1>3. IsWellFoundedOn(StrictSubsetOrdering(0 .. t), FiniteSubsetsOf(0 .. t))
  BY <1>2, FS_StrictSubsetOrderingWellFounded
<1>4. Below \subseteq FiniteSubsetsOf(0 .. t)
  <2>1. Below \subseteq SUBSET (0 .. t)
    OBVIOUS
  <2>2. QED
    BY <2>1, <1>2, FS_FiniteSubsetsOfFinite
<1>5. Below # {}
  BY <1>1
<1>6. PICK x \in Below : \A y \in Below : ~ (<<y, x>> \in StrictSubsetOrdering(0 .. t))
  BY <1>3, <1>4, <1>5, WFMin
<1>7. PICK n \in T : n <= t /\ x = 0 .. n
  BY <1>6
<1>8. ASSUME NEW m \in T, m < n PROVE FALSE
  <2>1. m <= t /\ 0 .. m \in Below
    BY <1>7, <1>8
  <2>2. n \in 0 .. n /\ n \notin 0 .. m /\ 0 .. m \subseteq 0 .. n
    BY <1>8
  <2>3. 0 .. m \subseteq 0 .. t /\ 0 .. n \subseteq 0 .. t
    BY <2>1, <1>7
  <2>4. <<0 .. m, 0 .. n>> \in StrictSubsetOrdering(0 .. t)
    BY <2>2, <2>3 DEF StrictSubsetOrdering
  <2>5. QED
    BY <2>1, <2>4, <1>6, <1>7
<1>9. QED
  BY <1>7, <1>8

(* ... and a bounded one a greatest. *)
LEMMA GreatestNatural ==
  ASSUME NEW bnd \in Nat, NEW T \in SUBSET (0 .. bnd), T # {}
  PROVE  \E n \in T : \A m \in T : m <= n
<1> DEFINE U == {bnd - m : m \in T}
<1>1. U \in SUBSET Nat /\ U # {}
  <2>1. PICK t \in T : TRUE
    OBVIOUS
  <2>2. bnd - t \in U
    BY <2>1
  <2>3. \A m \in T : bnd - m \in Nat
    OBVIOUS
  <2>4. U \in SUBSET Nat
    BY <2>3
  <2>5. QED
    BY <2>2, <2>4
<1>2. PICK u \in U : \A v \in U : u <= v
  BY <1>1, LeastNatural
<1>3. PICK n \in T : u = bnd - n
  BY <1>2
<1>4. ASSUME NEW m \in T PROVE m <= n
  <2>1. bnd - n <= bnd - m
    BY <1>2, <1>3
  <2>2. QED
    BY <2>1, <1>3
<1>5. QED
  BY <1>4

(* The path of a key stays inside the entries and leads through all of them. *)
LEMMA PathThroughSlots ==
  ASSUME Typed, NEW k \in Keys
  PROVE  /\ size \in Nat /\ size >= 4 /\ size % 2 = 0
         /\ \A n \in Positions : Path[k][size][n] \in Slots
         /\ \A s \in Slots : \E n \in Positions : Path[k][size][n] = s
         /\ \A n \in Positions : Entry(k, n) \in {Empty, Deleted} \cup (Nat \ {0})
<1>1. size \in Sizes /\ size \in Nat /\ size >= 4 /\ size % 2 = 0
  BY TableAssumption DEF Typed
<1>2. {Path[k][size][n] : n \in 0 .. size + 2} = 0 .. size - 1
  BY <1>1, PathAssumption
<1>3. /\ \A n \in Positions : Path[k][size][n] \in Slots
      /\ \A s \in Slots : \E n \in Positions : Path[k][size][n] = s
  BY <1>2 DEF Positions, Slots
<1>4. QED
  BY <1>1, <1>3 DEF Typed, Entry

(* There is an empty entry, and every path leads to it. *)
LEMMA EmptyEntry ==
  ASSUME TableInv
  PROVE  SearchEnds
<1>1. size \in Nat /\ size >= 4 /\ bound \in Nat /\ Len(els) \in Nat
  BY TableAssumption DEF TableInv, Typed
<1>2. bound < size
  BY <1>1 DEF TableInv, Typed, Shaped
<1>3. IsFiniteSet(Slots) /\ Cardinality(Slots) = size
  BY <1>1, FS_Interval DEF Slots
<1>4. Used # Slots
  BY <1>1, <1>2, <1>3 DEF TableInv, FewUsed
<1>5. PICK s \in Slots : entries[s] = Empty
  BY <1>4 DEF Used
<1>6. ASSUME NEW k \in Keys PROVE \E n \in Positions : Entry(k, n) = Empty
  BY <1>5, PathThroughSlots DEF TableInv, Entry
<1>7. QED
  BY <1>6 DEF SearchEnds, Positions

(* So the search stops, at the first place where it can. *)
LEMMA SearchStops ==
  ASSUME TableInv, NEW k \in Keys
  PROVE  /\ Steps(k) \in Positions
         /\ Stops(k, Steps(k))
         /\ \A m \in 0 .. Steps(k) - 1 : ~Stops(k, m)
<1> DEFINE Ends == {n \in Positions : Stops(k, n)}
<1>1. Ends # {} /\ Ends \in SUBSET Nat
  <2>1. PICK n \in Positions : Entry(k, n) = Empty
    BY EmptyEntry DEF SearchEnds, Positions
  <2>2. n \in Ends
    BY <2>1 DEF Stops
  <2>3. size \in Nat
    BY PathThroughSlots DEF TableInv
  <2>4. QED
    BY <2>2, <2>3 DEF Positions
<1>2. PICK n \in Ends : \A m \in Ends : n <= m
  BY <1>1, LeastNatural
<1>3. \A m \in 0 .. n - 1 : ~Stops(k, m)
  <2>1. ASSUME NEW m \in 0 .. n - 1, Stops(k, m) PROVE FALSE
    <3>1. size \in Nat /\ n \in 0 .. size + 2
      BY PathThroughSlots DEF TableInv, Positions
    <3>2. m \in Ends
      BY <3>1, <2>1 DEF Positions
    <3>3. QED
      BY <3>1, <3>2, <1>2
  <2>2. QED
    BY <2>1
<1>4. \E x \in 0 .. size + 2 : Stops(k, x) /\ \A m \in 0 .. x - 1 : ~Stops(k, m)
  BY <1>3 DEF Positions
<1>5. QED
  BY <1>4 DEF Steps, Positions

(* What is found is an element of the table with that key. *)
LEMMA FoundElement ==
  ASSUME TableInv, NEW k \in Keys, Found(k)
  PROVE  /\ Index(k) \in 1 .. bound
         /\ els[Index(k)] \in Element /\ els[Index(k)].key = k
         /\ Path[k][size][Steps(k)] \in Slots
         /\ entries[Path[k][size][Steps(k)]] = Index(k)
<1>1. /\ Steps(k) \in Positions /\ Stops(k, Steps(k))
      /\ Path[k][size][Steps(k)] \in Slots
      /\ Entry(k, Steps(k)) \in {Empty, Deleted} \cup (Nat \ {0})
  BY SearchStops, PathThroughSlots DEF TableInv
<1>2. Entry(k, Steps(k)) > 0 /\ els[Entry(k, Steps(k))].key = k
  BY <1>1 DEF Found, Index, Stops, Empty, Deleted
<1>3. /\ entries[Path[k][size][Steps(k)]] = Index(k)
      /\ Index(k) \in Nat \ {0}
  BY <1>1, <1>2 DEF Entry, Index, Empty, Deleted
<1>4. Index(k) <= bound /\ els[Index(k)] # Gone
  BY <1>1, <1>2, <1>3 DEF TableInv, EntriesExact, Slots, Index
<1>5. Index(k) \in 1 .. bound /\ Index(k) \in 1 .. Len(els)
  BY <1>3, <1>4 DEF TableInv, Typed
<1>6. els[Index(k)] \in Element
  BY <1>4, <1>5 DEF TableInv, Typed
<1>7. QED
  BY <1>1, <1>2, <1>3, <1>5, <1>6 DEF Index

(* When nothing is found there is no element with the key: the search cannot *)
(* have stopped before it.                                                     *)
LEMMA NotFound ==
  ASSUME TableInv, NEW k \in Keys, ~Found(k)
  PROVE  /\ Index(k) = Empty
         /\ \A i \in 1 .. bound : els[i] # Gone => els[i].key # k
<1>1. /\ Steps(k) \in Positions /\ Stops(k, Steps(k))
      /\ \A m \in 0 .. Steps(k) - 1 : ~Stops(k, m)
      /\ \A n \in Positions : Entry(k, n) \in {Empty, Deleted} \cup (Nat \ {0})
      /\ size \in Nat
  BY SearchStops, PathThroughSlots DEF TableInv
<1>2. Index(k) = Empty
  BY <1>1 DEF Found, Index, Stops
<1>3. ASSUME NEW i \in 1 .. bound, els[i] # Gone, els[i].key = k
      PROVE  FALSE
  <2>1. PICK n \in Positions :
          Entry(k, n) = i /\ \A m \in 0 .. n - 1 : Entry(k, m) # Empty
    BY <1>3 DEF TableInv, Reachable, OnPath
  <2>2. Stops(k, n)
    BY <2>1, <1>3 DEF Stops, TableInv, Typed
  <2>3. n \in Nat /\ Steps(k) \in Nat
    BY <1>1 DEF Positions
  <2>4. ~(n < Steps(k))
    BY <2>2, <2>3, <1>1
  <2>5. n # Steps(k)
    BY <2>1, <1>2 DEF Index, Empty
  <2>6. Entry(k, Steps(k)) # Empty
    BY <2>1, <2>3, <2>4, <2>5
  <2>7. QED
    BY <2>6, <1>2 DEF Index
<1>4. QED
  BY <1>2, <1>3

(* The slot for a new element is free, and every slot before it on the path  *)
(* is in use: it is the empty one, or the last deleted one before it.          *)
LEMMA FreeSlotOnPath ==
  ASSUME TableInv, NEW k \in Keys, ~Found(k)
  PROVE  /\ FreeSlot(k) \in Slots
         /\ entries[FreeSlot(k)] \in {Empty, Deleted}
         /\ \E n \in Positions : Path[k][size][n] = FreeSlot(k)
                              /\ \A m \in 0 .. n - 1 : Entry(k, m) # Empty
<1> DEFINE passed == {n \in 0 .. Steps(k) - 1 : Entry(k, n) = Deleted}
<1>1. /\ Steps(k) \in Positions
      /\ \A m \in 0 .. Steps(k) - 1 : Entry(k, m) # Empty
      /\ \A n \in Positions : Path[k][size][n] \in Slots
      /\ size \in Nat
  BY SearchStops, PathThroughSlots DEF TableInv, Stops
<1>2. Entry(k, Steps(k)) = Empty
  BY NotFound DEF Index
<1>3. CASE passed = {}
  <2>1. FreeSlot(k) = Path[k][size][Steps(k)]
    BY <1>3 DEF FreeSlot
  <2>2. entries[FreeSlot(k)] = Empty
    BY <2>1, <1>2 DEF Entry
  <2>3. QED
    BY <2>1, <2>2, <1>1
<1>4. CASE passed # {}
  <2>1. \E n \in passed : \A m \in passed : m <= n
    <3>1. passed \in SUBSET (0 .. size + 2)
      BY <1>1 DEF Positions
    <3>2. size + 2 \in Nat
      BY <1>1
    <3>3. QED
      BY <3>1, <3>2, <1>4, GreatestNatural
  <2>2. PICK n \in passed : FreeSlot(k) = Path[k][size][n]
    BY <2>1, <1>4 DEF FreeSlot
  <2>3. n \in Positions /\ \A m \in 0 .. n - 1 : Entry(k, m) # Empty
    BY <2>2, <1>1 DEF Positions
  <2>4. entries[FreeSlot(k)] = Deleted
    BY <2>2 DEF Entry
  <2>5. QED
    BY <2>2, <2>3, <2>4, <1>1
<1>5. QED
  BY <1>3, <1>4

(* An element that is put behind the others keeps the arrays in order.        *)
LEMMA StoreEffect ==
  ASSUME TableInv, NEW e \in Element, ~Found(e.key), Store(e), size' = size
  PROVE  /\ bound' = bound + 1 /\ bound' \in 1 .. Len(els')
         /\ Len(els') = IF bound < Len(els) THEN Len(els) ELSE Len(els) + 1
         /\ els' \in Seq(Element \cup {Gone})
         /\ els'[bound + 1] = e
         /\ \A i \in 1 .. Len(els) : i # bound + 1 => els'[i] = els[i]
         /\ entries' \in [Slots -> {Empty, Deleted} \cup (Nat \ {0})]
         /\ EntriesExact' /\ Reachable' /\ FewUsed' /\ Counted'
         /\ Inserted' = Inserted \cup {e} /\ elsNum' = elsNum + 1
<1> DEFINE f == FreeSlot(e.key)
<1>0. /\ bound \in Nat /\ bound <= Len(els) /\ Len(els) \in Nat
      /\ size \in Nat /\ size \in Sizes
      /\ els \in Seq(Element \cup {Gone})
      /\ entries \in [Slots -> {Empty, Deleted} \cup (Nat \ {0})]
      /\ e # Gone /\ e.key \in Keys
  BY TableAssumption DEF TableInv, Typed, Element
<1>1. /\ f \in Slots /\ entries[f] \in {Empty, Deleted}
      /\ \E n \in Positions : Path[e.key][size][n] = f
                           /\ \A m \in 0 .. n - 1 : Entry(e.key, m) # Empty
  BY <1>0, FreeSlotOnPath
<1>2. /\ entries' = [entries EXCEPT ![f] = bound + 1]
      /\ bound' = bound + 1 /\ elsNum' = elsNum + 1
      /\ els' = IF bound < Len(els) THEN [els EXCEPT ![bound + 1] = e] ELSE Append(els, e)
  BY DEF Store
<1> HIDE DEF f
<1>3. /\ els' \in Seq(Element \cup {Gone})
      /\ Len(els') = IF bound < Len(els) THEN Len(els) ELSE Len(els) + 1
      /\ els'[bound + 1] = e
      /\ \A i \in 1 .. Len(els) : i # bound + 1 => els'[i] = els[i]
  <2>1. CASE bound < Len(els)
    <3>1. els' = [els EXCEPT ![bound + 1] = e] /\ bound + 1 \in 1 .. Len(els)
      BY <1>0, <1>2, <2>1
    <3>2. QED
      BY <1>0, <2>1, <3>1
  <2>2. CASE ~(bound < Len(els))
    <3>1. els' = Append(els, e) /\ bound = Len(els)
      BY <1>0, <1>2, <2>2
    <3>2. QED
      BY <1>0, <2>2, <3>1
  <2>3. QED
    BY <2>1, <2>2
<1>4. bound' \in 1 .. Len(els')
  <2>1. bound + 1 \in Nat /\ 1 <= bound + 1 /\ Len(els') \in Nat /\ bound + 1 <= Len(els')
    BY <1>0, <1>3
  <2>2. QED
    BY <2>1, <1>2
<1>5. entries' \in [Slots -> {Empty, Deleted} \cup (Nat \ {0})]
  <2> DEFINE Contents == {Empty, Deleted} \cup (Nat \ {0})
  <2>1. bound + 1 \in Contents
    BY <1>0
  <2>2. entries \in [Slots -> Contents]
    BY <1>0
  <2> HIDE DEF Contents
  <2>3. entries' \in [Slots -> Contents]
    BY <2>1, <2>2, <1>2
  <2>4. QED
    BY <2>3 DEF Contents
<1>6. /\ entries'[f] = bound + 1
      /\ \A s \in Slots : s # f => entries'[s] = entries[s]
  BY <1>0, <1>1, <1>2
<1>7. /\ \A s \in Slots : entries[s] > 0 => entries[s] <= bound /\ els[entries[s]] # Gone
      /\ \A s, t \in Slots : entries[s] = entries[t] /\ entries[s] > 0 => s = t
      /\ \A i \in 1 .. bound : els[i] # Gone => \E s \in Slots : entries[s] = i
  BY DEF TableInv, EntriesExact, Slots
<1>8. EntriesExact'
  <2>1. ASSUME NEW s \in Slots, entries'[s] > 0
        PROVE  entries'[s] <= bound + 1 /\ els'[entries'[s]] # Gone
    <3>1. CASE s = f
      BY <3>1, <1>0, <1>3, <1>6
    <3>2. CASE s # f
      <4>1. entries[s] > 0 /\ entries[s] <= bound /\ els[entries[s]] # Gone /\ entries'[s] = entries[s]
        BY <3>2, <2>1, <1>6, <1>7
      <4>2. entries[s] \in Nat
        BY <4>1, <1>0 DEF Empty, Deleted
      <4>3. els'[entries[s]] = els[entries[s]]
        BY <4>1, <4>2, <1>0, <1>3
      <4>4. QED
        BY <4>1, <4>2, <4>3, <1>0
    <3>3. QED
      BY <3>1, <3>2
  <2>2. ASSUME NEW s \in Slots, NEW t \in Slots, entries'[s] = entries'[t], entries'[s] > 0
        PROVE  s = t
    <3>1. \A r \in Slots : r # f /\ entries[r] > 0 => entries'[r] # bound + 1
      BY <1>0, <1>6, <1>7
    <3>2. CASE s = f
      BY <3>1, <3>2, <2>2, <1>6
    <3>3. CASE t = f
      BY <3>1, <3>3, <2>2, <1>6
    <3>4. CASE s # f /\ t # f
      BY <3>4, <2>2, <1>6, <1>7
    <3>5. QED
      BY <3>2, <3>3, <3>4
  <2>3. ASSUME NEW i \in 1 .. bound + 1, els'[i] # Gone
        PROVE  \E s \in Slots : entries'[s] = i
    <3>1. CASE i = bound + 1
      BY <3>1, <1>1, <1>6
    <3>2. CASE i # bound + 1
      <4>1. i \in 1 .. bound /\ i \in 1 .. Len(els)
        BY <3>2, <1>0
      <4>2. PICK s \in Slots : entries[s] = i
        BY <4>1, <3>2, <2>3, <1>3, <1>7
      <4>3. s # f
        BY <4>1, <4>2, <1>1 DEF Empty, Deleted
      <4>4. QED
        BY <4>2, <4>3, <1>6
    <3>3. QED
      BY <3>1, <3>2
  <2>4. QED
    BY <2>1, <2>2, <2>3, <1>2 DEF EntriesExact, Slots
<1>9. \A k \in Keys, n \in Positions :
        /\ Path[k][size][n] \in Slots
        /\ Entry(k, n) # Empty => entries'[Path[k][size][n]] # Empty
        /\ Entry(k, n) > 0 => entries'[Path[k][size][n]] = Entry(k, n)
  <2>1. TAKE k \in Keys, n \in Positions
  <2>2. Path[k][size][n] \in Slots
    BY PathThroughSlots DEF TableInv
  <2>4. CASE Path[k][size][n] = f
    BY <2>2, <2>4, <1>0, <1>1, <1>6 DEF Entry, Empty, Deleted
  <2>5. CASE Path[k][size][n] # f
    BY <2>2, <2>5, <1>6 DEF Entry
  <2>6. QED
    BY <2>2, <2>4, <2>5
<1>10. Reachable'
  <2>1. ASSUME NEW i \in 1 .. bound + 1, els'[i] # Gone
        PROVE  \E n \in Positions : entries'[Path[els'[i].key][size][n]] = i
                                 /\ \A m \in 0 .. n - 1 : entries'[Path[els'[i].key][size][m]] # Empty
    <3>1. CASE i = bound + 1
      <4>1. PICK n \in Positions : Path[e.key][size][n] = f
                                /\ \A m \in 0 .. n - 1 : Entry(e.key, m) # Empty
        BY <1>1
      <4>2. entries'[Path[e.key][size][n]] = i
        BY <4>1, <3>1, <1>6, <1>9, <1>0
      <4>3. \A m \in 0 .. n - 1 : m \in Positions
        BY <1>0 DEF Positions
      <4>4. \A m \in 0 .. n - 1 : entries'[Path[e.key][size][m]] # Empty
        BY <4>1, <4>3, <1>0, <1>9
      <4>5. QED
        BY <4>2, <4>4, <3>1, <1>3
    <3>2. CASE i # bound + 1
      <4>1. i \in 1 .. bound /\ i \in 1 .. Len(els) /\ els'[i] = els[i]
        BY <3>2, <1>0, <1>3
      <4>2. els[i].key \in Keys
        BY <4>1, <2>1, <1>0 DEF Element
      <4>3. PICK n \in Positions : Entry(els[i].key, n) = i
                                /\ \A m \in 0 .. n - 1 : Entry(els[i].key, m) # Empty
        BY <4>1, <2>1 DEF TableInv, Reachable, OnPath
      <4>4. \A m \in 0 .. n - 1 : m \in Positions
        BY <1>0 DEF Positions
      <4>5. \A m \in 0 .. n - 1 : entries'[Path[els[i].key][size][m]] # Empty
        BY <4>2, <4>3, <4>4, <1>9
      <4>6. entries'[Path[els[i].key][size][n]] = i
        BY <4>1, <4>2, <4>3, <1>9
      <4>7. QED
        BY <4>1, <4>5, <4>6
    <3>3. QED
      BY <3>1, <3>2
  <2>2. ASSUME NEW i \in 1 .. bound', els'[i] # Gone
        PROVE  OnPath(els[i].key, i)'
    <3>1. PICK n \in Positions : entries'[Path[els'[i].key][size][n]] = i
                             /\ \A m \in 0 .. n - 1 : entries'[Path[els'[i].key][size][m]] # Empty
      BY <2>1, <2>2, <1>2
    <3>2. QED
      BY <3>1 DEF OnPath, Entry, Positions
  <2>3. QED
    BY <2>2 DEF Reachable
<1>11. FewUsed'
  <2>1. IsFiniteSet(Slots)
    BY <1>0, FS_Interval DEF Slots
  <2>2. IsFiniteSet(Used)
    BY <2>1, FS_Subset DEF Used
  <2>3. Used' \subseteq Used \cup {f}
    BY <1>6 DEF Used, Slots
  <2>4. /\ IsFiniteSet(Used \cup {f})
        /\ Cardinality(Used \cup {f}) = IF f \in Used THEN Cardinality(Used) ELSE Cardinality(Used) + 1
    BY <2>2, FS_AddElement
  <2>5. Cardinality(Used') <= Cardinality(Used \cup {f}) /\ IsFiniteSet(Used')
    BY <2>3, <2>4, FS_Subset
  <2>6. Cardinality(Used) \in Nat /\ Cardinality(Used') \in Nat
    BY <2>2, <2>5, FS_CardinalityType
  <2>7. Cardinality(Used) <= bound
    BY DEF TableInv, FewUsed
  <2>8. QED
    BY <2>4, <2>5, <2>6, <2>7, <1>0, <1>2 DEF FewUsed
<1>12. Inserted' = Inserted \cup {e}
  <2>1. Inserted' = {els'[i] : i \in {j \in 1 .. bound + 1 : els'[j] # Gone}}
    BY <1>2 DEF Inserted
  <2>2. \A i \in 1 .. bound : i \in 1 .. bound + 1 /\ i # bound + 1 /\ els'[i] = els[i]
    BY <1>0, <1>3
  <2>3. \A i \in 1 .. bound + 1 : i = bound + 1 \/ i \in 1 .. bound
    BY <1>0
  <2>4. bound + 1 \in 1 .. bound + 1 /\ els'[bound + 1] # Gone
    BY <1>0, <1>3
  <2>5. QED
    BY <2>1, <2>2, <2>3, <2>4, <1>3 DEF Inserted
<1>13. e \notin Inserted
  <2>1. \A i \in 1 .. bound : els[i] # Gone => els[i].key # e.key
    BY <1>0, NotFound
  <2>2. QED
    BY <2>1 DEF Inserted
<1>14. Counted'
  <2>1. IsFiniteSet(Inserted) /\ elsNum = Cardinality(Inserted)
    BY DEF TableInv, Counted
  <2>2. IsFiniteSet(Inserted \cup {e}) /\ Cardinality(Inserted \cup {e}) = Cardinality(Inserted) + 1
    BY <2>1, <1>13, FS_AddElement
  <2>3. QED
    BY <2>1, <2>2, <1>2, <1>12 DEF Counted
<1>15. QED
  BY <1>2, <1>3, <1>4, <1>5, <1>8, <1>10, <1>11, <1>12, <1>14

------------------------------------------------------------------------------
(* A table without elements and without marks. *)
Blank ==
  /\ size \in Sizes
  /\ entries = [i \in 0 .. size - 1 |-> Empty]
  /\ bound = 0
  /\ elsNum = 0

LEMMA BlankTable == Blank => EntriesExact /\ Reachable /\ FewUsed /\ Counted
<1> SUFFICES ASSUME Blank PROVE EntriesExact /\ Reachable /\ FewUsed /\ Counted
  OBVIOUS
<1>1. size \in Nat /\ \A s \in 0 .. size - 1 : entries[s] = -1
  BY TableAssumption DEF Blank, Empty
<1>2. 1 .. bound = {} /\ bound = 0
  BY DEF Blank
<1>3. EntriesExact
  BY <1>1, <1>2 DEF EntriesExact
<1>4. Reachable
  BY <1>2 DEF Reachable
<1>5. FewUsed
  <2>1. Used = {}
    BY <1>1 DEF Used, Slots, Empty
  <2>2. QED
    BY <2>1, <1>2, FS_EmptySet DEF FewUsed
<1>6. Counted
  <2>1. Inserted = {}
    BY <1>2 DEF Inserted
  <2>2. QED
    BY <2>1, FS_EmptySet DEF Counted, Blank
<1>7. QED
  BY <1>3, <1>4, <1>5, <1>6

(* The abstract set counts its elements with the same operator. *)
LEMMA SameCardinality == \A S : Promise!Cardinality(S) = Cardinality(S)
BY DEF Cardinality, Promise!Cardinality, IsFiniteSet, Promise!IsFiniteSet

LEMMA BlankTableNext == (Blank => EntriesExact /\ Reachable /\ FewUsed /\ Counted)'
BY BlankTable, PTL

(* Between calls the elements of the abstract set are those in els, they are  *)
(* counted by els_num, and a search finds the one with the key.                *)
LEMMA AtRest ==
  ASSUME TableInv, scan = 0
  PROVE  /\ bound = Len(els) /\ bound \in Nat
         /\ LiveIndices = {i \in 1 .. bound : els[i] # Gone}
         /\ Live = Inserted /\ Live \subseteq Element
         /\ IsFiniteSet(Live) /\ Cardinality(Live) = elsNum
         /\ \A k \in Keys : ~Found(k) => Promise!With(k) = {}
         /\ \A k \in Keys : Found(k) => Promise!With(k) = {els[Index(k)]}
<1>1. bound = Len(els) /\ bound \in Nat /\ els \in Seq(Element \cup {Gone})
  BY DEF TableInv, Typed, Shaped
<1>2. LiveIndices = {i \in 1 .. bound : els[i] # Gone}
  BY <1>1 DEF LiveIndices
<1>3. Live = Inserted
  BY <1>2 DEF Live, Inserted
<1>4. Live \subseteq Element
  BY <1>1, <1>2 DEF Live
<1>5. IsFiniteSet(Live) /\ Cardinality(Live) = elsNum
  BY <1>3 DEF TableInv, Counted
<1>6. ASSUME NEW k \in Keys, ~Found(k) PROVE Promise!With(k) = {}
  <2>1. \A i \in 1 .. bound : els[i] # Gone => els[i].key # k
    BY <1>6, NotFound
  <2>2. \A e \in Live : e.key # k
    BY <2>1, <1>2 DEF Live
  <2>3. QED
    BY <2>2 DEF Promise!With
<1>7. ASSUME NEW k \in Keys, Found(k) PROVE Promise!With(k) = {els[Index(k)]}
  <2>1. Index(k) \in 1 .. bound /\ els[Index(k)] \in Element /\ els[Index(k)].key = k
    BY <1>7, FoundElement
  <2>2. Index(k) \in LiveIndices
    BY <2>1, <1>2, TableAssumption
  <2>3. \A i \in LiveIndices : els[i].key = k => i = Index(k)
    BY <2>1, <2>2 DEF TableInv, Distinct
  <2>4. QED
    BY <2>1, <2>2, <2>3 DEF Promise!With, Live
<1>8. QED
  BY <1>1, <1>2, <1>3, <1>4, <1>5, <1>6, <1>7

------------------------------------------------------------------------------
(* The steps. *)

LEMMA InitTable == Init => TableInv /\ Promise!Init
<1> SUFFICES ASSUME Init PROVE TableInv /\ Promise!Init
  OBVIOUS
<1>1. Blank
  BY TableAssumption DEF Init, Blank
<1>2. size \in Nat /\ size >= 4 /\ Len(els) = 0 /\ bound = 0 /\ scan = 0 /\ op = Idle
  BY TableAssumption DEF Init
<1>3. Typed
  BY <1>1, <1>2 DEF Init, Typed, Slots, Blank
<1>4. Shaped
  BY <1>2 DEF Shaped, NeedsRoom
<1>5. LiveIndices = {}
  BY <1>2 DEF LiveIndices
<1>6. Distinct /\ Live = {}
  BY <1>5 DEF Distinct, Live
<1>7. TableInv
  BY <1>1, <1>3, <1>4, <1>6, BlankTable DEF TableInv
<1>8. Promise!Init
  BY <1>6 DEF Init, Promise!Init, Answer, Promise!Answer
<1>9. QED
  BY <1>7, <1>8

LEMMA CallStep ==
  ASSUME TableInv, NEW action \in Actions, NEW e \in Element, Call(action, e)
  PROVE  TableInv' /\ Promise!Call(action, e)
<1>1. /\ UNCHANGED <<entries, size, els, bound, elsNum, scan, reply>>
      /\ op = Idle /\ op' = [action |-> action, el |-> e]
      /\ action \in {"insert", "replace"} /\ Full => 2 * size \in Sizes
  BY DEF Call
<1>2. op' \in Operation
  BY <1>1 DEF Operation
<1>3. scan = 0
  BY <1>1 DEF TableInv, Shaped
<1>4. Typed'
  BY <1>1, <1>2 DEF TableInv, Typed, Slots
<1>5. Shaped'
  BY <1>1, <1>3 DEF TableInv, Shaped, NeedsRoom, Full
<1>6. EntriesExact' /\ Reachable' /\ FewUsed' /\ Counted'
  BY <1>1 DEF TableInv, EntriesExact, Reachable, OnPath, Entry, Positions, FewUsed, Used,
              Slots, Counted, Inserted
<1>7. LiveIndices' = LiveIndices
  BY <1>1 DEF LiveIndices
<1>8. Distinct' /\ Live' = Live
  BY <1>1, <1>7 DEF TableInv, Distinct, Live
<1>9. Promise!Call(action, e)
  BY <1>1, <1>8 DEF Promise!Call
<1>10. QED
  BY <1>4, <1>5, <1>6, <1>8, <1>9 DEF TableInv

LEMMA GrowStep ==
  ASSUME TableInv, Grow
  PROVE  TableInv' /\ Live' = Live
<1>1. /\ scan = 0 /\ scan' = 1 /\ size' = 2 * size /\ bound' = 0 /\ elsNum' = 0
      /\ entries' = [i \in 0 .. size' - 1 |-> Empty]
      /\ UNCHANGED <<els, op>>
      /\ op # Idle /\ op.action \in {"insert", "replace"} /\ Full
  BY DEF Grow, NeedsRoom
<1>2. size' \in Sizes
  BY <1>1 DEF TableInv, Shaped, Grow
<1>3. Blank'
  BY <1>1, <1>2 DEF Blank
<1>4. /\ els \in Seq(Element \cup {Gone}) /\ Len(els) \in Nat /\ bound = Len(els)
      /\ size \in Nat /\ 2 * Len(els) <= size
  BY <1>1, TableAssumption DEF TableInv, Typed, Shaped
<1>5. Typed'
  <2>1. entries' \in [Slots' -> {Empty, Deleted} \cup (Nat \ {0})]
    BY <1>1 DEF Slots
  <2>2. QED
    BY <1>1, <1>2, <1>4, <2>1 DEF TableInv, Typed
<1>6. Shaped'
  BY <1>1, <1>4 DEF Shaped
<1>7. LiveIndices' = LiveIndices
  BY <1>1, <1>4 DEF LiveIndices
<1>8. Distinct' /\ Live' = Live
  BY <1>1, <1>7 DEF TableInv, Distinct, Live
<1>9. QED
  BY <1>3, <1>5, <1>6, <1>8, BlankTableNext DEF TableInv

LEMMA ReinsertStep ==
  ASSUME TableInv, Reinsert
  PROVE  TableInv' /\ Live' = Live
<1>1. /\ scan \in 1 .. Len(els) /\ scan' = scan + 1 /\ UNCHANGED <<size, op>>
      /\ bound < scan /\ 4 * Len(els) <= size
      /\ op # Idle /\ op.action \in {"insert", "replace"}
      /\ bound \in Nat /\ Len(els) \in Nat /\ size \in Nat
      /\ els \in Seq(Element \cup {Gone})
  BY TableAssumption DEF Reinsert, TableInv, Typed, Shaped
<1>2. CASE els[scan] = Gone
  <2>1. UNCHANGED <<entries, els, bound, elsNum>>
    BY <1>2 DEF Reinsert, Keep
  <2>2. Typed' /\ Shaped'
    BY <1>1, <2>1 DEF TableInv, Typed, Shaped, Slots
  <2>3. EntriesExact' /\ Reachable' /\ FewUsed' /\ Counted'
    BY <1>1, <2>1 DEF TableInv, EntriesExact, Reachable, OnPath, Entry, Positions, FewUsed,
                      Used, Slots, Counted, Inserted
  <2>4. LiveIndices' = LiveIndices
    BY <1>1, <1>2, <2>1 DEF LiveIndices
  <2>5. Distinct' /\ Live' = Live
    BY <2>1, <2>4 DEF TableInv, Distinct, Live
  <2>6. QED
    BY <2>2, <2>3, <2>5 DEF TableInv
<1>3. CASE els[scan] # Gone
  <2> DEFINE e == els[scan]
  <2>1. e \in Element /\ e.key \in Keys /\ scan \in LiveIndices
    BY <1>1, <1>3 DEF LiveIndices, Element
  <2>2. ~Found(e.key)
    <3>1. SUFFICES ASSUME Found(e.key) PROVE FALSE
      OBVIOUS
    <3>2. Index(e.key) \in 1 .. bound /\ els[Index(e.key)].key = e.key /\ els[Index(e.key)] # Gone
      BY <2>1, <3>1, FoundElement, TableAssumption
    <3>3. Index(e.key) \in LiveIndices
      BY <1>1, <3>2 DEF LiveIndices
    <3>4. Index(e.key) = scan
      BY <2>1, <3>2, <3>3 DEF TableInv, Distinct
    <3>5. QED
      BY <1>1, <3>2, <3>4
  <2>3. Store(e)
    BY <1>3, <2>2 DEF Reinsert
  <2> HIDE DEF e
  <2>4. /\ bound' = bound + 1 /\ bound' \in 1 .. Len(els')
        /\ Len(els') = IF bound < Len(els) THEN Len(els) ELSE Len(els) + 1
        /\ els' \in Seq(Element \cup {Gone})
        /\ els'[bound + 1] = e
        /\ \A i \in 1 .. Len(els) : i # bound + 1 => els'[i] = els[i]
        /\ entries' \in [Slots -> {Empty, Deleted} \cup (Nat \ {0})]
        /\ EntriesExact' /\ Reachable' /\ FewUsed' /\ Counted'
    BY <2>1, <2>2, <2>3, <1>1, StoreEffect
  <2>5. Len(els') = Len(els)
    BY <1>1, <2>4
  <2>6. Typed'
    BY <1>1, <2>4, <2>5 DEF TableInv, Typed, Slots
  <2>7. Shaped'
    BY <1>1, <2>4, <2>5 DEF Shaped
  <2>8. LiveIndices' = (LiveIndices \ {scan}) \cup {bound + 1}
    <3>1. LiveIndices = {i \in 1 .. Len(els) : els[i] # Gone /\ (i <= bound \/ i >= scan)}
      BY <1>1 DEF LiveIndices
    <3>2. LiveIndices' = {i \in 1 .. Len(els) : els'[i] # Gone /\ (i <= bound + 1 \/ i >= scan + 1)}
      BY <1>1, <2>4, <2>5 DEF LiveIndices
    <3>3. e # Gone
      BY <2>1, TableAssumption
    <3>4. QED
      BY <3>1, <3>2, <3>3, <1>1, <2>4
  <2>9. /\ \A i \in LiveIndices' : i # bound + 1 => i \in LiveIndices /\ i # scan /\ els'[i] = els[i]
        /\ els'[bound + 1] = els[scan]
    BY <2>4, <2>8 DEF LiveIndices, e
  <2>10. Distinct'
    <3>1. ASSUME NEW i \in LiveIndices', NEW j \in LiveIndices', els'[i].key = els'[j].key
          PROVE  i = j
      BY <2>9, <2>1, <3>1 DEF TableInv, Distinct
    <3>2. QED
      BY <3>1 DEF Distinct
  <2>11. Live' = Live
    <3>1. \A i \in LiveIndices : i # scan => i \in LiveIndices' /\ els'[i] = els[i]
      <4>1. \A i \in LiveIndices : i # scan => i # bound + 1
        BY <1>1 DEF LiveIndices
      <4>2. QED
        BY <4>1, <2>8, <2>9
    <3>2. bound + 1 \in LiveIndices'
      BY <2>8
    <3>3. Live' = {els'[i] : i \in LiveIndices'}
      BY DEF Live
    <3>4. QED
      BY <2>1, <2>9, <3>1, <3>2, <3>3 DEF Live
  <2>12. QED
    BY <2>4, <2>6, <2>7, <2>10, <2>11 DEF TableInv
<1>4. QED
  BY <1>2, <1>3

LEMMA EndStep ==
  ASSUME TableInv, EndRebuild
  PROVE  TableInv' /\ Live' = Live
<1>1. /\ scan > Len(els) /\ scan' = 0 /\ els' = SubSeq(els, 1, bound)
      /\ UNCHANGED <<entries, size, bound, elsNum, op>>
      /\ bound \in Nat /\ bound <= Len(els) /\ Len(els) \in Nat /\ 4 * Len(els) <= size
      /\ size \in Nat /\ size >= 4 /\ size % 2 = 0 /\ scan \in Nat
      /\ els \in Seq(Element \cup {Gone})
  <2>1. /\ scan > Len(els) /\ scan' = 0 /\ els' = SubSeq(els, 1, bound)
        /\ UNCHANGED <<entries, size, bound, elsNum, op>>
    BY DEF EndRebuild
  <2>2. /\ els \in Seq(Element \cup {Gone}) /\ Len(els) \in Nat /\ scan \in Nat
        /\ bound \in 0 .. Len(els) /\ size \in Nat /\ size >= 4 /\ size % 2 = 0
    BY TableAssumption DEF TableInv, Typed
  <2>3. scan # 0
    BY <2>1, <2>2
  <2>4. QED
    BY <2>1, <2>2, <2>3 DEF TableInv, Shaped
<1>2. /\ els' \in Seq(Element \cup {Gone}) /\ Len(els') = bound
      /\ \A i \in 1 .. bound : els'[i] = els[i]
  BY <1>1
<1>3. Typed'
  BY <1>1, <1>2 DEF TableInv, Typed, Slots
<1>4. Shaped'
  BY <1>1, <1>2 DEF Shaped, NeedsRoom, Full
<1>5. EntriesExact'
  <2>1. \A s \in Slots : entries[s] > 0 => entries[s] \in 1 .. bound
    BY <1>1 DEF TableInv, EntriesExact, Typed, Slots, Empty, Deleted
  <2>2. QED
    BY <1>1, <1>2, <2>1 DEF TableInv, EntriesExact, Slots
<1>6. Reachable' /\ FewUsed' /\ Counted'
  <2>1. Reachable'
    <3>1. \A i \in 1 .. bound : els[i] # Gone => OnPath(els[i].key, i)
      BY DEF TableInv, Reachable
    <3>2. \A k, i : OnPath(k, i) = \E n \in 0 .. size' + 2 :
             /\ entries'[Path[k][size'][n]] = i
             /\ \A m \in 0 .. n - 1 : entries'[Path[k][size'][m]] # Empty
      BY <1>1 DEF OnPath, Entry, Positions
    <3>3. QED
      BY <3>1, <3>2, <1>1, <1>2 DEF Reachable, OnPath, Entry, Positions
  <2>2. FewUsed'
    BY <1>1 DEF TableInv, FewUsed, Used, Slots
  <2>3. Inserted' = Inserted
    BY <1>1, <1>2 DEF Inserted
  <2>4. QED
    BY <1>1, <2>1, <2>2, <2>3 DEF TableInv, Counted
<1>7. LiveIndices' = LiveIndices
  BY <1>1, <1>2 DEF LiveIndices
<1>8. Distinct' /\ Live' = Live
  <2>1. \A i \in LiveIndices : els'[i] = els[i]
    <3>1. \A i \in LiveIndices : i \in 1 .. bound
      BY <1>1 DEF LiveIndices
    <3>2. QED
      BY <3>1, <1>2
  <2>2. Distinct'
    BY <1>7, <2>1 DEF TableInv, Distinct
  <2>3. Live' = {els'[i] : i \in LiveIndices'}
    BY DEF Live
  <2>4. QED
    BY <2>1, <2>2, <2>3, <1>7 DEF Live
<1>9. QED
  BY <1>3, <1>4, <1>5, <1>6, <1>8 DEF TableInv

LEMMA FindStep ==
  ASSUME TableInv, Find, op' = Idle, UNCHANGED <<size, scan>>
  PROVE  TableInv' /\ Promise!Find
<1>0. Promise!Return("find")
  BY DEF Find, Ready, Promise!Return
<1>1. /\ UNCHANGED <<entries, size, els, bound, elsNum, scan>> /\ scan = 0
      /\ op \in Operation /\ op.el.key \in Keys
  BY DEF Find, Keep, Ready, TableInv, Typed, Operation, Element
<1>2. Typed'
  BY <1>1 DEF TableInv, Typed, Slots
<1>3. Shaped'
  BY <1>1 DEF TableInv, Shaped, NeedsRoom
<1>4. EntriesExact' /\ Reachable' /\ FewUsed' /\ Counted'
  BY <1>1 DEF TableInv, EntriesExact, Reachable, OnPath, Entry, Positions, FewUsed,
                    Used, Slots, Counted, Inserted
<1>5. LiveIndices' = LiveIndices
  BY <1>1 DEF LiveIndices
<1>6. Distinct' /\ Live' = Live
  BY <1>1, <1>5 DEF TableInv, Distinct, Live
<1>7. Promise!Find
  <2>1. /\ Cardinality(Live) = elsNum
        /\ ~Found(op.el.key) => Promise!With(op.el.key) = {}
        /\ Found(op.el.key) => Promise!With(op.el.key) = {Old}
    BY <1>1, AtRest DEF Old
  <2>2. reply' = Answer(Found(op.el.key), IF Found(op.el.key) THEN Old ELSE NoElement,
                        {}, elsNum)
    BY DEF Find
  <2>3. CASE Found(op.el.key)
    <3>1. reply' = Answer(TRUE, Old, {}, elsNum)
      BY <2>2, <2>3
    <3>2. QED
      BY <1>0, <3>1, <2>1, <2>3, <1>6, SameCardinality DEF Promise!Find, Answer, Promise!Answer
  <2>4. CASE ~Found(op.el.key)
    <3>1. reply' = Answer(FALSE, NoElement, {}, elsNum)
      <4>1. (Found(op.el.key)) = FALSE
        BY <2>4 DEF Found
      <4>2. QED
        BY <2>2, <4>1
    <3>2. QED
      BY <1>0, <3>1, <2>1, <2>4, <1>6, SameCardinality DEF Promise!Find, Answer, Promise!Answer
  <2>5. QED
    BY <2>3, <2>4
<1>8. QED
  BY <1>1, <1>2, <1>3, <1>4, <1>6, <1>7 DEF TableInv

(* A call that finds nothing puts its element behind the others. *)
LEMMA StoreStep ==
  ASSUME TableInv, op # Idle, op.action \in {"insert", "replace"}, scan = 0, ~NeedsRoom,
         ~Found(op.el.key), Store(op.el), op' = Idle, UNCHANGED <<size, scan>>
  PROVE  /\ TableInv' /\ op.el \in Element /\ Promise!With(op.el.key) = {}
         /\ Live' = Live \cup {op.el} /\ Cardinality(Live') = elsNum + 1
<1> DEFINE e == op.el
<1>1. e \in Element /\ e.key \in Keys /\ e # Gone
  BY TableAssumption DEF TableInv, Typed, Operation, Element
<1>2. /\ bound = Len(els) /\ bound \in Nat /\ size \in Nat /\ size % 2 = 0
      /\ 2 * Len(els) <= size /\ Len(els) # size \div 2
      /\ LiveIndices = {i \in 1 .. bound : els[i] # Gone}
      /\ Live = Inserted /\ Promise!With(e.key) = {}
  <2>1. Len(els) # size \div 2
    BY DEF NeedsRoom, Full
  <2>2. size \in Nat /\ size % 2 = 0 /\ 2 * Len(els) <= size
    BY TableAssumption DEF TableInv, Typed, Shaped
  <2>3. QED
    BY <2>1, <2>2, <1>1, AtRest
<1> HIDE DEF e
<1>3. /\ bound' = bound + 1 /\ bound' \in 1 .. Len(els')
      /\ Len(els') = IF bound < Len(els) THEN Len(els) ELSE Len(els) + 1
      /\ els' \in Seq(Element \cup {Gone})
      /\ els'[bound + 1] = e
      /\ \A i \in 1 .. Len(els) : i # bound + 1 => els'[i] = els[i]
      /\ entries' \in [Slots -> {Empty, Deleted} \cup (Nat \ {0})]
      /\ EntriesExact' /\ Reachable' /\ FewUsed' /\ Counted'
      /\ Inserted' = Inserted \cup {e} /\ elsNum' = elsNum + 1
  <2>1. ~Found(e.key) /\ Store(e)
    BY DEF e
  <2>2. QED
    BY <2>1, <1>1, StoreEffect
<1>4. Len(els') = bound + 1
  BY <1>2, <1>3
<1>5. Typed'
  BY <1>3 DEF TableInv, Typed, Slots
<1>6. Shaped'
  <2>1. 2 * (bound + 1) <= size
    BY <1>2
  <2>2. QED
    BY <2>1, <1>3, <1>4 DEF Shaped, NeedsRoom
<1>7. LiveIndices' = LiveIndices \cup {bound + 1}
  <2>1. LiveIndices' = {i \in 1 .. bound + 1 : els'[i] # Gone}
    BY <1>3, <1>4 DEF LiveIndices
  <2>2. \A i \in 1 .. bound : els'[i] = els[i]
    BY <1>2, <1>3
  <2>3. QED
    BY <2>1, <2>2, <1>1, <1>2, <1>3
<1>8. Distinct'
  <2>1. \A i \in LiveIndices : els'[i] = els[i] /\ els[i].key # e.key
    <3>1. \A i \in 1 .. bound : els[i] # Gone => els[i].key # e.key
      <4>1. ~Found(e.key)
        BY DEF e
      <4>2. QED
        BY <4>1, <1>1, NotFound
    <3>2. \A i \in 1 .. bound : els'[i] = els[i]
      BY <1>2, <1>3
    <3>3. QED
      BY <3>1, <3>2, <1>2
  <2>2. ASSUME NEW i \in LiveIndices', NEW j \in LiveIndices', els'[i].key = els'[j].key
        PROVE  i = j
    BY <2>1, <2>2, <1>3, <1>7 DEF TableInv, Distinct
  <2>3. QED
    BY <2>2 DEF Distinct
<1>9. TableInv'
  BY <1>3, <1>5, <1>6, <1>8 DEF TableInv
<1>10. Live' = Live \cup {e} /\ Cardinality(Live') = elsNum + 1
  <2>1. Live' = Inserted'
    <3>1. LiveIndices' = {i \in 1 .. bound' : els'[i] # Gone}
      BY <1>3, <1>4 DEF LiveIndices
    <3>2. QED
      BY <3>1 DEF Live, Inserted
  <2>2. QED
    BY <2>1, <1>2, <1>3 DEF Counted
<1>11. QED
  BY <1>1, <1>2, <1>9, <1>10 DEF e

LEMMA InsertStep ==
  ASSUME TableInv, Insert, op' = Idle, UNCHANGED <<size, scan>>
  PROVE  TableInv' /\ Promise!Insert
<1>0. Promise!Return("insert")
  BY DEF Insert, Ready, Promise!Return
<1>1. /\ scan = 0 /\ op # Idle /\ op.action = "insert" /\ ~NeedsRoom
      /\ op \in Operation /\ op.el \in Element /\ op.el.key \in Keys
  BY DEF Insert, Ready, TableInv, Typed, Operation, Element
<1>2. CASE Found(op.el.key)
  <2>1. UNCHANGED <<entries, els, bound, elsNum>> /\ reply' = Answer(TRUE, Old, {}, elsNum)
    BY <1>2 DEF Insert, Keep
  <2>2. Typed'
    BY <2>1 DEF TableInv, Typed, Slots
  <2>3. Shaped'
    BY <1>1, <2>1 DEF TableInv, Shaped, NeedsRoom
  <2>4. EntriesExact' /\ Reachable' /\ FewUsed' /\ Counted'
    BY <2>1 DEF TableInv, EntriesExact, Reachable, OnPath, Entry, Positions, FewUsed,
                      Used, Slots, Counted, Inserted
  <2>5. LiveIndices' = LiveIndices
    BY <2>1 DEF LiveIndices
  <2>6. Distinct' /\ Live' = Live
    BY <2>1, <2>5 DEF TableInv, Distinct, Live
  <2>7. Cardinality(Live) = elsNum /\ Promise!With(op.el.key) = {Old}
    BY <1>1, <1>2, AtRest DEF Old
  <2>8. Promise!Insert
    BY <1>0, <2>1, <2>6, <2>7, SameCardinality DEF Promise!Insert, Answer, Promise!Answer
  <2>9. QED
    BY <1>1, <2>2, <2>3, <2>4, <2>6, <2>8 DEF TableInv
<1>3. CASE ~Found(op.el.key)
  <2>1. Store(op.el) /\ reply' = Answer(FALSE, op.el, {}, elsNum + 1)
    BY <1>3 DEF Insert
  <2>2. /\ TableInv' /\ Promise!With(op.el.key) = {}
        /\ Live' = Live \cup {op.el} /\ Cardinality(Live') = elsNum + 1
    BY <1>1, <1>3, <2>1, StoreStep
  <2>3. Promise!Insert
    BY <1>0, <2>1, <2>2, SameCardinality DEF Promise!Insert, Answer, Promise!Answer
  <2>4. QED
    BY <1>1, <2>2, <2>3
<1>4. QED
  BY <1>2, <1>3

LEMMA ReplaceStep ==
  ASSUME TableInv, Replace, op' = Idle, UNCHANGED <<size, scan>>
  PROVE  TableInv' /\ Promise!Replace
<1>0. Promise!Return("replace")
  BY DEF Replace, Ready, Promise!Return
<1>1. /\ scan = 0 /\ op # Idle /\ op.action = "replace" /\ ~NeedsRoom
      /\ op \in Operation /\ op.el \in Element /\ op.el.key \in Keys
  BY DEF Replace, Ready, TableInv, Typed, Operation, Element
<1>2. CASE ~Found(op.el.key)
  <2>1. Store(op.el) /\ reply' = Answer(FALSE, op.el, {}, elsNum + 1)
    BY <1>2 DEF Replace
  <2>2. /\ TableInv' /\ Promise!With(op.el.key) = {}
        /\ Live' = Live \cup {op.el} /\ Cardinality(Live') = elsNum + 1
    BY <1>1, <1>2, <2>1, StoreStep
  <2>3. Promise!Replace
    BY <1>0, <2>1, <2>2, SameCardinality DEF Promise!Replace, Answer, Promise!Answer
  <2>4. QED
    BY <1>1, <2>2, <2>3
<1>3. CASE Found(op.el.key)
  <2> DEFINE e == op.el
             x == Index(op.el.key)
  <2>1. /\ els' = [els EXCEPT ![x] = e]
        /\ reply' = Answer(TRUE, e, {els[x]}, elsNum)
        /\ UNCHANGED <<entries, bound, elsNum, size, scan>>
    BY <1>3 DEF Replace, Old
  <2>2. /\ x \in 1 .. bound /\ els[x] \in Element /\ els[x].key = e.key
        /\ bound = Len(els) /\ els \in Seq(Element \cup {Gone}) /\ e \in Element /\ e # Gone
        /\ els[x] # Gone
        /\ LiveIndices = {i \in 1 .. bound : els[i] # Gone} /\ Live = Inserted
        /\ IsFiniteSet(Live) /\ Cardinality(Live) = elsNum
        /\ Promise!With(e.key) = {els[x]}
    <3>1. x \in 1 .. bound /\ els[x] \in Element /\ els[x].key = e.key
      BY <1>1, <1>3, FoundElement
    <3>2. e # Gone /\ els[x] # Gone /\ els \in Seq(Element \cup {Gone})
      BY <1>1, <3>1, TableAssumption DEF TableInv, Typed
    <3>3. QED
      BY <1>1, <1>3, <3>1, <3>2, AtRest
  <2> HIDE DEF e, x
  <2>3. /\ els' \in Seq(Element \cup {Gone}) /\ Len(els') = Len(els) /\ els'[x] = e
        /\ \A i \in 1 .. bound : i # x => els'[i] = els[i]
    BY <2>1, <2>2
  <2>4. \A i \in 1 .. bound : (els'[i] # Gone <=> els[i] # Gone)
                           /\ (els[i] # Gone => els'[i].key = els[i].key)
    BY <2>2, <2>3
  <2>5. Typed'
    BY <2>1, <2>3 DEF TableInv, Typed, Slots
  <2>6. Shaped'
    BY <1>1, <2>1, <2>3 DEF TableInv, Shaped, NeedsRoom
  <2>7. EntriesExact'
    <3>1. \A s \in Slots : entries[s] > 0 => entries[s] \in 1 .. bound
      BY DEF TableInv, EntriesExact, Typed, Slots, Empty, Deleted
    <3>2. QED
      BY <2>1, <2>4, <3>1 DEF TableInv, EntriesExact, Slots
  <2>8. Reachable'
    <3>1. \A i \in 1 .. bound : els[i] # Gone => OnPath(els[i].key, i)
      BY DEF TableInv, Reachable
    <3>2. \A k, i : OnPath(k, i) = \E n \in 0 .. size' + 2 :
             /\ entries'[Path[k][size'][n]] = i
             /\ \A m \in 0 .. n - 1 : entries'[Path[k][size'][m]] # Empty
      BY <2>1 DEF OnPath, Entry, Positions
    <3>3. QED
      BY <3>1, <3>2, <2>1, <2>4 DEF Reachable, OnPath, Entry, Positions
  <2>9. FewUsed'
    BY <2>1 DEF TableInv, FewUsed, Used, Slots
  <2>10. LiveIndices' = LiveIndices
    <3>1. LiveIndices' = {i \in 1 .. bound : els'[i] # Gone}
      BY <1>1, <2>1, <2>2, <2>3 DEF LiveIndices
    <3>2. QED
      BY <2>2, <2>4, <3>1
  <2>11. Distinct'
    BY <2>2, <2>4, <2>10 DEF TableInv, Distinct
  <2>12. Live' = (Live \ {els[x]}) \cup {e} /\ Live' = Inserted'
    <3>1. Live' = {els'[i] : i \in LiveIndices}
      BY <2>10 DEF Live
    <3>2. x \in LiveIndices /\ \A i \in LiveIndices : i # x => els'[i] = els[i] /\ els[i] # els[x]
      BY <2>2, <2>3 DEF TableInv, Distinct
    <3>3. Live' = (Live \ {els[x]}) \cup {e}
      BY <2>3, <3>1, <3>2 DEF Live
    <3>4. Inserted' = {els'[i] : i \in {j \in 1 .. bound : els'[j] # Gone}}
      BY <2>1 DEF Inserted
    <3>5. Live' = Inserted'
      BY <2>2, <2>4, <3>1, <3>4
    <3>6. QED
      BY <3>3, <3>5
  <2>13. IsFiniteSet(Live') /\ Cardinality(Live') = elsNum
    <3>1. els[x] \in Live
      BY <2>2 DEF Live
    <3>2. /\ IsFiniteSet(Live \ {els[x]})
          /\ Cardinality(Live \ {els[x]}) = elsNum - 1
      BY <2>2, <3>1, FS_RemoveElement
    <3>3. e \notin Live \ {els[x]}
      <4>1. \A d \in Live : d.key = e.key => d = els[x]
        BY <2>2 DEF Promise!With
      <4>2. QED
        BY <4>1
    <3>4. /\ IsFiniteSet((Live \ {els[x]}) \cup {e})
          /\ Cardinality((Live \ {els[x]}) \cup {e}) = (elsNum - 1) + 1
      BY <3>2, <3>3, FS_AddElement
    <3>5. elsNum \in Nat
      BY <2>2, FS_CardinalityType
    <3>6. QED
      BY <3>4, <3>5, <2>12
  <2>14. Counted'
    BY <2>1, <2>12, <2>13 DEF Counted
  <2>15. Promise!Replace
    <3>1. Live' = (Live \ Promise!With(e.key)) \cup {e}
      BY <2>2, <2>12
    <3>2. reply' = Promise!Answer(Promise!With(e.key) # {}, e, Promise!With(e.key),
                                  Promise!Cardinality(Live'))
      BY <2>1, <2>2, <2>13, SameCardinality DEF Answer, Promise!Answer
    <3>3. QED
      BY <1>0, <3>1, <3>2 DEF Promise!Replace, e
  <2>16. QED
    BY <2>2, <2>5, <2>6, <2>7, <2>8, <2>9, <2>11, <2>14, <2>15 DEF TableInv
<1>4. QED
  BY <1>2, <1>3

LEMMA DeleteStep ==
  ASSUME TableInv, Delete, op' = Idle, UNCHANGED <<size, scan>>
  PROVE  TableInv' /\ Promise!Delete
<1>0. Promise!Return("delete")
  BY DEF Delete, Ready, Promise!Return
<1> DEFINE k == op.el.key
           x == Index(op.el.key)
           s0 == Path[op.el.key][size][Steps(op.el.key)]
<1>1. /\ scan = 0 /\ op \in Operation /\ k \in Keys
  BY DEF Delete, Ready, TableInv, Typed, Operation, Element
<1>2. CASE ~Found(k)
  <2>1. UNCHANGED <<entries, els, bound, elsNum>> /\ reply' = Answer(FALSE, NoElement, {}, elsNum)
    BY <1>2 DEF Delete, Keep
  <2>2. Typed'
    BY <2>1 DEF TableInv, Typed, Slots
  <2>3. Shaped'
    BY <1>1, <2>1 DEF TableInv, Shaped, NeedsRoom
  <2>4. EntriesExact' /\ Reachable' /\ FewUsed' /\ Counted'
    BY <2>1 DEF TableInv, EntriesExact, Reachable, OnPath, Entry, Positions, FewUsed,
                      Used, Slots, Counted, Inserted
  <2>5. LiveIndices' = LiveIndices
    BY <2>1 DEF LiveIndices
  <2>6. Distinct' /\ Live' = Live
    BY <2>1, <2>5 DEF TableInv, Distinct, Live
  <2>7. Cardinality(Live) = elsNum /\ Promise!With(k) = {}
    BY <1>1, <1>2, AtRest
  <2>8. Promise!Delete
    BY <1>0, <2>1, <2>6, <2>7, SameCardinality DEF Promise!Delete, Answer, Promise!Answer
  <2>9. QED
    BY <1>1, <2>2, <2>3, <2>4, <2>6, <2>8 DEF TableInv
<1>3. CASE Found(k)
  <2>1. /\ entries' = [entries EXCEPT ![s0] = Deleted]
        /\ els' = [els EXCEPT ![x] = Gone]
        /\ elsNum' = elsNum - 1
        /\ reply' = Answer(TRUE, NoElement, {els[x]}, elsNum - 1)
        /\ UNCHANGED <<bound, size, scan>>
    BY <1>3 DEF Delete, Remove, Old
  <2>2. /\ x \in 1 .. bound /\ els[x] \in Element /\ els[x].key = k
        /\ s0 \in Slots /\ entries[s0] = x
        /\ bound = Len(els) /\ bound \in Nat /\ els \in Seq(Element \cup {Gone}) /\ els[x] # Gone
        /\ LiveIndices = {i \in 1 .. bound : els[i] # Gone} /\ Live = Inserted
        /\ IsFiniteSet(Live) /\ Cardinality(Live) = elsNum
        /\ Promise!With(k) = {els[x]}
    <3>1. /\ x \in 1 .. bound /\ els[x] \in Element /\ els[x].key = k
          /\ s0 \in Slots /\ entries[s0] = x
      BY <1>1, <1>3, FoundElement
    <3>2. els[x] # Gone /\ els \in Seq(Element \cup {Gone})
      BY <3>1, TableAssumption DEF TableInv, Typed
    <3>3. QED
      BY <1>1, <1>3, <3>1, <3>2, AtRest
  <2> HIDE DEF k, x, s0
  <2>3. /\ els' \in Seq(Element \cup {Gone}) /\ Len(els') = Len(els) /\ els'[x] = Gone
        /\ \A i \in 1 .. bound : i # x => els'[i] = els[i]
    BY <2>1, <2>2
  <2>4. /\ entries' \in [Slots -> {Empty, Deleted} \cup (Nat \ {0})]
        /\ entries'[s0] = Deleted
        /\ \A s \in Slots : s # s0 => entries'[s] = entries[s]
    <3>1. entries \in [Slots -> {Empty, Deleted} \cup (Nat \ {0})]
      BY DEF TableInv, Typed
    <3>2. QED
      BY <2>1, <2>2, <3>1
  <2>5. Typed'
    BY <2>1, <2>3, <2>4 DEF TableInv, Typed, Slots
  <2>6. Shaped'
    BY <1>1, <2>1, <2>3 DEF TableInv, Shaped, NeedsRoom
  <2>7. /\ \A s \in Slots : entries[s] > 0 => entries[s] \in 1 .. bound /\ els[entries[s]] # Gone
        /\ \A s, t \in Slots : entries[s] = entries[t] /\ entries[s] > 0 => s = t
        /\ \A i \in 1 .. bound : els[i] # Gone => \E s \in Slots : entries[s] = i
    BY DEF TableInv, EntriesExact, Typed, Slots, Empty, Deleted
  <2>8. EntriesExact'
    <3>1. \A s \in Slots : entries'[s] > 0 => s # s0 /\ entries'[s] = entries[s]
      BY <2>4 DEF Deleted
    <3>2. \A s \in Slots : entries'[s] > 0 => entries[s] # x
      BY <2>2, <2>7, <3>1
    <3>3. \A s \in Slots : entries'[s] > 0 => entries'[s] <= bound /\ els'[entries'[s]] # Gone
      BY <2>2, <2>3, <2>7, <3>1, <3>2
    <3>4. \A s, t \in Slots : entries'[s] = entries'[t] /\ entries'[s] > 0 => s = t
      BY <2>7, <3>1
    <3>5. \A i \in 1 .. bound : els'[i] # Gone => \E s \in Slots : entries'[s] = i
      BY <2>2, <2>3, <2>4, <2>7
    <3>6. QED
      BY <2>1, <3>3, <3>4, <3>5 DEF EntriesExact, Slots
  <2>9. \A q \in Keys, n \in Positions :
          /\ Path[q][size][n] \in Slots
          /\ Entry(q, n) # Empty => entries'[Path[q][size][n]] # Empty
          /\ Entry(q, n) \in Nat /\ Entry(q, n) # x
               => entries'[Path[q][size][n]] = Entry(q, n)
    <3>1. TAKE q \in Keys, n \in Positions
    <3>2. Path[q][size][n] \in Slots
      BY PathThroughSlots DEF TableInv
    <3>3. CASE Path[q][size][n] = s0
      BY <3>2, <3>3, <2>2, <2>4 DEF Entry, Empty, Deleted
    <3>4. CASE Path[q][size][n] # s0
      BY <3>2, <3>4, <2>4 DEF Entry
    <3>5. QED
      BY <3>2, <3>3, <3>4
  <2>10. Reachable'
    <3>1. ASSUME NEW i \in 1 .. bound', els'[i] # Gone
          PROVE  OnPath(els[i].key, i)'
      <4>1. i \in 1 .. bound /\ i # x /\ els'[i] = els[i] /\ els[i].key \in Keys
        BY <2>1, <2>2, <2>3, <3>1 DEF Element
      <4>2. PICK n \in Positions :
              Entry(els[i].key, n) = i /\ \A m \in 0 .. n - 1 : Entry(els[i].key, m) # Empty
        BY <3>1, <4>1 DEF TableInv, Reachable, OnPath
      <4>3. \A m \in 0 .. n - 1 : m \in Positions
        <5>1. size \in Nat
          BY <1>1, PathThroughSlots DEF TableInv
        <5>2. QED
          BY <5>1 DEF Positions
      <4>4. \A m \in 0 .. n - 1 : entries'[Path[els[i].key][size][m]] # Empty
        BY <4>1, <4>2, <4>3, <2>9
      <4>5. entries'[Path[els[i].key][size][n]] = i
        BY <4>1, <4>2, <2>9
      <4>6. QED
        BY <4>1, <4>4, <4>5, <2>1 DEF OnPath, Entry, Positions
    <3>2. QED
      BY <3>1 DEF Reachable
  <2>11. FewUsed'
    <3>1. Used' = Used
      BY <2>1, <2>2, <2>4 DEF Used, Slots, Empty, Deleted
    <3>2. QED
      BY <3>1, <2>1 DEF TableInv, FewUsed
  <2>12. LiveIndices' = LiveIndices \ {x}
    <3>1. LiveIndices' = {i \in 1 .. bound : els'[i] # Gone}
      BY <1>1, <2>1, <2>2, <2>3 DEF LiveIndices
    <3>2. QED
      BY <2>2, <2>3, <3>1
  <2>13. \A i \in LiveIndices' : i \in LiveIndices /\ i # x /\ els'[i] = els[i]
    BY <2>2, <2>3, <2>12
  <2>14. Distinct'
    BY <2>13 DEF TableInv, Distinct
  <2>15. Live' = Live \ {els[x]} /\ Live' = Inserted'
    <3>1. x \in LiveIndices /\ \A i \in LiveIndices : i # x => els[i] # els[x]
      BY <2>2 DEF TableInv, Distinct
    <3>2. Live' = {els'[i] : i \in LiveIndices'}
      BY DEF Live
    <3>3. Live' = Live \ {els[x]}
      BY <2>12, <2>13, <3>1, <3>2 DEF Live
    <3>4. Inserted' = {els'[i] : i \in {j \in 1 .. bound : els'[j] # Gone}}
      BY <2>1 DEF Inserted
    <3>5. LiveIndices' = {j \in 1 .. bound : els'[j] # Gone}
      BY <2>2, <2>3, <2>12
    <3>6. QED
      BY <3>2, <3>3, <3>4, <3>5
  <2>16. IsFiniteSet(Live') /\ Cardinality(Live') = elsNum - 1
    <3>1. els[x] \in Live
      BY <2>2 DEF Live
    <3>2. QED
      BY <2>2, <2>15, <3>1, FS_RemoveElement
  <2>17. Counted'
    BY <2>1, <2>15, <2>16 DEF Counted
  <2>18. Promise!Delete
    <3>1. Live' = Live \ Promise!With(k)
      BY <2>2, <2>15
    <3>2. reply' = Promise!Answer(Promise!With(k) # {}, NoElement, Promise!With(k),
                                  Promise!Cardinality(Live'))
      BY <2>1, <2>2, <2>16, SameCardinality DEF Answer, Promise!Answer
    <3>3. QED
      BY <1>0, <3>1, <3>2 DEF Promise!Delete, k
  <2>19. QED
    BY <1>1, <2>5, <2>6, <2>8, <2>10, <2>11, <2>14, <2>17, <2>18 DEF TableInv
<1>4. QED
  BY <1>2, <1>3

LEMMA ClearStep ==
  ASSUME TableInv, Clear, op' = Idle, UNCHANGED <<size, scan>>
  PROVE  TableInv' /\ Promise!Clear
<1>0. Promise!Return("clear")
  BY DEF Clear, Ready, Promise!Return
<1>1. /\ scan = 0 /\ size \in Sizes /\ size \in Nat /\ size >= 4
      /\ entries' = [i \in 0 .. size' - 1 |-> Empty]
      /\ els' = <<>> /\ bound' = 0 /\ elsNum' = 0
  BY TableAssumption DEF Clear, Ready, TableInv, Typed
<1>2. Blank'
  BY <1>1 DEF Blank
<1>3. Typed'
  <2>1. entries' \in [Slots' -> {Empty, Deleted} \cup (Nat \ {0})]
    BY <1>1 DEF Slots
  <2>2. QED
    BY <1>1, <2>1 DEF Typed
<1>4. Shaped'
  BY <1>1 DEF Shaped, NeedsRoom
<1>5. LiveIndices' = {}
  BY <1>1 DEF LiveIndices
<1>6. Distinct' /\ Live' = {}
  BY <1>5 DEF Distinct, Live
<1>7. {els[i] : i \in 1 .. bound} \ {Gone} = Live
  <2>1. LiveIndices = {i \in 1 .. bound : els[i] # Gone}
    BY <1>1, AtRest
  <2>2. QED
    BY <2>1 DEF Live
<1>8. Promise!Clear
  <2>1. reply' = Answer(FALSE, NoElement, {els[i] : i \in 1 .. bound} \ {Gone}, 0)
    BY DEF Clear
  <2>2. QED
    BY <1>0, <2>1, <1>6, <1>7 DEF Promise!Clear, Answer, Promise!Answer
<1>9. QED
  BY <1>2, <1>3, <1>4, <1>6, <1>8, BlankTableNext DEF TableInv

(* Every step keeps the invariant, and is a step of the abstract set or none. *)
LEMMA TableStep ==
  TableInv /\ [Next]_vars => TableInv' /\ (Promise!Next \/ UNCHANGED <<Live, op, reply>>)
<1> SUFFICES ASSUME TableInv, [Next]_vars
             PROVE  TableInv' /\ (Promise!Next \/ UNCHANGED <<Live, op, reply>>)
  OBVIOUS
<1>1. ASSUME NEW action \in Actions, NEW e \in Element, Call(action, e)
      PROVE  TableInv' /\ Promise!Next
  <2>1. TableInv' /\ Promise!Call(action, e)
    BY <1>1, CallStep
  <2>2. QED
    BY <2>1 DEF Promise!Next, Actions, Promise!Actions, Element, Promise!Element
<1>2. CASE Grow
  <2>1. UNCHANGED <<op, reply>>
    BY <1>2 DEF Grow
  <2>2. QED
    BY <1>2, <2>1, GrowStep
<1>3. CASE Reinsert
  <2>1. UNCHANGED <<op, reply>>
    BY <1>3 DEF Reinsert
  <2>2. QED
    BY <1>3, <2>1, ReinsertStep
<1>4. CASE EndRebuild
  <2>1. UNCHANGED <<op, reply>>
    BY <1>4 DEF EndRebuild
  <2>2. QED
    BY <1>4, <2>1, EndStep
<1>5. CASE Return
  <2>1. op' = Idle /\ UNCHANGED <<size, scan>>
    BY <1>5 DEF Return
  <2>2. CASE Find
    BY <2>1, <2>2, FindStep DEF Promise!Next
  <2>3. CASE Insert
    BY <2>1, <2>3, InsertStep DEF Promise!Next
  <2>4. CASE Replace
    BY <2>1, <2>4, ReplaceStep DEF Promise!Next
  <2>5. CASE Delete
    BY <2>1, <2>5, DeleteStep DEF Promise!Next
  <2>6. CASE Clear
    BY <2>1, <2>6, ClearStep DEF Promise!Next
  <2>7. QED
    BY <1>5, <2>2, <2>3, <2>4, <2>5, <2>6 DEF Return
<1>6. CASE UNCHANGED vars
  <2>1. UNCHANGED <<entries, size, els, bound, elsNum, scan, op, reply>>
    BY <1>6 DEF vars
  <2>2. Typed' /\ Shaped'
    BY <2>1 DEF TableInv, Typed, Slots, Shaped, NeedsRoom, Full
  <2>3. EntriesExact' /\ Reachable' /\ FewUsed' /\ Counted'
    BY <2>1 DEF TableInv, EntriesExact, Reachable, OnPath, Entry, Positions, FewUsed,
                      Used, Slots, Counted, Inserted
  <2>4. LiveIndices' = LiveIndices
    BY <2>1 DEF LiveIndices
  <2>5. Distinct' /\ Live' = Live
    BY <2>1, <2>4 DEF TableInv, Distinct, Live
  <2>6. QED
    BY <2>1, <2>2, <2>3, <2>5 DEF TableInv
<1>7. QED
  BY <1>1, <1>2, <1>3, <1>4, <1>5, <1>6 DEF Next

(* The invariant of the table, for any keys, hashes, values and sizes. *)
THEOREM TableInvariant == Spec => []TableInv
<1>1. Init => TableInv
  BY InitTable
<1>2. TableInv /\ [Next]_vars => TableInv'
  BY TableStep
<1>3. QED
  BY <1>1, <1>2, PTL DEF Spec

(* No search goes on for ever (mir-htab.h:187): of the marks and elements that  *)
(* fill entries there are never more than els has places, half of the slots.    *)
THEOREM SearchesEnd == Spec => []SearchEnds
<1>1. TableInv => SearchEnds
  BY EmptyEntry
<1>2. QED
  BY <1>1, TableInvariant, PTL

(* Each element has one entry, and every other slot of els none, at every point *)
(* of a rebuild in place.                                                       *)
THEOREM ArraysAgree == Spec => []EntriesExact
<1>1. TableInv => EntriesExact
  BY DEF TableInv
<1>2. QED
  BY <1>1, TableInvariant, PTL

(* The table with its marks, chains and rebuilds answers each call as the set   *)
(* of its elements answers to that call with that element; between a call and   *)
(* its answer the set does not change.                                           *)
THEOREM TableKeepsPromise == Spec => ImplementsMap
<1>1. Init => Promise!Init
  BY InitTable
<1>2. TableInv /\ [Next]_vars => [Promise!Next]_<<Live, op, reply>>
  BY TableStep
<1>3. QED
  BY <1>1, <1>2, TableInvariant, PTL DEF Spec, ImplementsMap, Promise!Spec
==============================================================================
