--------------------------- MODULE ItemTable_proofs ---------------------------
(****************************************************************************)
(* Proofs about ItemTable, for any modules, names and numbers of items.       *)
(****************************************************************************)
EXTENDS ItemTable, FiniteSetTheorems, SequenceTheorems, TLAPS

(* The module that is being made is the only one that is open.               *)
OneOpen == \A m \in Modules : state[m] = "open" <=> current = m

(* Data without a name refer to a named item before them.                     *)
Shaped(list, i) ==
  /\ list[i].kind = "anonymous" => list[i].name = Null
  /\ list[i].kind \in Named => list[i].name \in Names
  /\ list[i].target # 0 =>
       list[i].target \in 1 .. i - 1 /\ list[list[i].target].kind \in Named

(* A list in which position k, or 0 when there is none, stands for name n.     *)
Exports(list, n) == \E j \in DOMAIN list : list[j].kind = "export" /\ list[j].name = n

StandsFor(list, k, n) ==
  /\ list[k].name = n /\ list[k].kind \in Named
  /\ list[k].kind = "definition" => (list[k].exported <=> Exports(list, n))
  /\ \A j \in DOMAIN list : list[j].name = n =>
       /\ list[j].kind \in {"definition", "import"} \/ list[k].kind = "import" => j = k
       /\ list[j].kind = "export" => list[k].kind \in {"definition", "export"}

Led(list, k, n) ==
  IF k = 0 THEN \A j \in DOMAIN list : list[j].name # n
  ELSE k \in DOMAIN list /\ StandsFor(list, k, n)

(* Definitions and data have no address before the load, and afterwards that    *)
(* of their section.                                                           *)
HasMemory(item) == item.kind \in {"definition", "anonymous"}
IsLoaded(m) == state[m] \in {"loaded", "linked"}
Placed(m, i) ==
  HasMemory(items[m][i]) =>
    IF IsLoaded(m)
    THEN /\ items[m][i].addr = <<m, SectionHead(m, i)>>
         /\ items[m][i].offset = i - SectionHead(m, i)
    ELSE items[m][i].addr = Null

(* What a name may mean to a module that imports it.                           *)
Meaning(addr, name) == addr = <<Outside, name>> \/ Version(addr, name)
EnvMeaning == \A n \in Names : env[n] # Null => Meaning(env[n].addr, n)

(* What the link makes of the imports, declarations and references of a module;  *)
(* the environment still knows the imports.                                     *)
Bindings(m) ==
  /\ \A i \in Positions(m) : items[m][i].kind = "import" =>
       env[items[m][i].name] # Null /\ Meaning(items[m][i].addr, items[m][i].name)
  /\ \A i, j \in Positions(m) :
       items[m][i].kind \in Declarations /\ items[m][j].kind = "definition"
         /\ items[m][i].name = items[m][j].name
       => items[m][i].ref = <<m, j>> /\ items[m][i].addr = <<m, j>>
  /\ \A i, j \in Positions(m) :
       items[m][i].target # 0 /\ items[m][items[m][i].target].name = items[m][j].name =>
         /\ items[m][j].kind = "definition" => items[m][i].value = <<m, j>>
         /\ items[m][j].kind = "import" => Meaning(items[m][i].value, items[m][j].name)

ListsInv ==
  /\ TypeOK
  /\ OneOpen
  /\ \A m \in Modules : \A i \in Positions(m) : Shaped(items[m], i)
  /\ \A m \in Modules : \A n \in Names : Led(items[m], table[m][n], n)

ItemInv ==
  /\ ListsInv
  /\ \A m \in Modules : \A i \in Positions(m) : Placed(m, i)
  /\ EnvMeaning
  /\ \A m \in Modules : state[m] = "linked" => Bindings(m)

------------------------------------------------------------------------------
(* The greatest position of a set. *)
LEMMA GreatestPosition ==
  ASSUME NEW i \in Nat, NEW T \in SUBSET (1 .. i), T # {}
  PROVE  Max(T) \in T /\ \A n \in T : n <= Max(T)
<1> DEFINE Ends == {n .. i : n \in T}
<1>1. IsFiniteSet(1 .. i)
  BY FS_Interval
<1>2. IsWellFoundedOn(StrictSubsetOrdering(1 .. i), FiniteSubsetsOf(1 .. i))
  BY <1>1, FS_StrictSubsetOrderingWellFounded
<1>3. Ends \subseteq FiniteSubsetsOf(1 .. i)
  <2>1. Ends \subseteq SUBSET (1 .. i)
    OBVIOUS
  <2> QED BY <2>1, <1>1, FS_FiniteSubsetsOfFinite
<1>4. Ends # {}
  OBVIOUS
<1>5. PICK least \in Ends : \A e \in Ends : ~ (<<e, least>> \in StrictSubsetOrdering(1 .. i))
  BY <1>2, <1>3, <1>4, WFMin
<1>6. PICK n \in T : least = n .. i
  BY <1>5
<1>7. ASSUME NEW m \in T, m > n PROVE FALSE
  <2>1. m .. i \in Ends /\ m .. i \subseteq 1 .. i /\ n .. i \subseteq 1 .. i
    OBVIOUS
  <2>2. n \in n .. i /\ n \notin m .. i /\ m .. i \subseteq n .. i
    BY <1>7
  <2>3. <<m .. i, n .. i>> \in StrictSubsetOrdering(1 .. i)
    BY <2>1, <2>2 DEF StrictSubsetOrdering
  <2> QED BY <2>1, <2>3, <1>5, <1>6
<1>8. n \in T /\ \A m \in T : n >= m
  BY <1>7
<1>9. Max(T) \in T /\ \A m \in T : Max(T) >= m
  BY <1>8 DEF Max
<1> QED BY <1>9

(* What an append after the change of one item makes of a list. *)
LEMMA ChangedAppended ==
  ASSUME NEW S, NEW list \in Seq(S), NEW k \in 1 .. Len(list), NEW a \in S, NEW b \in S,
         NEW longer, longer = Append([list EXCEPT ![k] = a], b)
  PROVE  /\ longer \in Seq(S) /\ Len(longer) = Len(list) + 1
         /\ longer[Len(list) + 1] = b /\ longer[k] = a
         /\ \A i \in 1 .. Len(list) : i # k => longer[i] = list[i]
<1>1. [list EXCEPT ![k] = a] \in Seq(S) /\ Len([list EXCEPT ![k] = a]) = Len(list)
  BY ExceptSeq
<1>2. \A i \in 1 .. Len(list) : [list EXCEPT ![k] = a][i] = IF i = k THEN a ELSE list[i]
  BY ExceptSeq
<1> QED BY <1>1, <1>2, AppendProperties

(* The head of a section is a position that is not behind the item.           *)
Begins(m, j) ==
  ~(items[m][j].kind = "anonymous" /\ j > 1 /\ IsMemory(items[m][j - 1]))

LEMMA HeadOfSection ==
  ASSUME NEW m \in Modules, NEW i \in Nat \ {0}
  PROVE  /\ SectionHead(m, i) \in 1 .. i /\ Begins(m, SectionHead(m, i))
         /\ \A j \in 1 .. i : Begins(m, j) => j <= SectionHead(m, i)
<1> DEFINE T == {j \in 1 .. i : Begins(m, j)}
<1>1. 1 \in T
  BY DEF Begins
<1>2. Max(T) \in T /\ \A j \in T : j <= Max(T)
  BY <1>1, GreatestPosition
<1>3. SectionHead(m, i) = Max(T)
  BY DEF SectionHead, Begins
<1> QED BY <1>2, <1>3

LEMMA HeadOfDefinition ==
  ASSUME NEW m \in Modules, NEW i \in Nat \ {0}, Begins(m, i)
  PROVE  SectionHead(m, i) = i
BY HeadOfSection

LEMMA HeadOfNext ==
  ASSUME NEW m \in Modules, NEW i \in Nat \ {0, 1}, ~Begins(m, i)
  PROVE  SectionHead(m, i) = SectionHead(m, i - 1)
<1>1. /\ SectionHead(m, i) \in 1 .. i /\ Begins(m, SectionHead(m, i))
      /\ \A j \in 1 .. i : Begins(m, j) => j <= SectionHead(m, i)
  BY HeadOfSection
<1>2. /\ SectionHead(m, i - 1) \in 1 .. i - 1 /\ Begins(m, SectionHead(m, i - 1))
      /\ \A j \in 1 .. i - 1 : Begins(m, j) => j <= SectionHead(m, i - 1)
  BY HeadOfSection
<1> QED BY <1>1, <1>2

(* Sections stay as they are while what the items are does. *)
LEMMA HeadStays ==
  ASSUME NEW m \in Modules, NEW i \in Nat \ {0},
         \A j \in 1 .. i : /\ items'[m][j].kind = items[m][j].kind
                           /\ items'[m][j].name = items[m][j].name
  PROVE  SectionHead(m, i)' = SectionHead(m, i)
<1>1. \A j \in 1 .. i : Begins(m, j)' <=> Begins(m, j)
  BY DEF Begins, IsMemory
<1>2. {j \in 1 .. i : Begins(m, j)'} = {j \in 1 .. i : Begins(m, j)}
  BY <1>1
<1>3. SectionHead(m, i) = Max({j \in 1 .. i : Begins(m, j)})
  BY DEF SectionHead, Begins
<1>4. SectionHead(m, i)' = Max({j \in 1 .. i : Begins(m, j)'})
  BY DEF SectionHead, Begins
<1> QED BY <1>2, <1>3, <1>4

------------------------------------------------------------------------------
(* Making an item: a list grows by one, and of the items that are there only    *)
(* export_p and ref_def may change.                                             *)
Alike(new, old) ==
  /\ new.kind = old.kind /\ new.name = old.name /\ new.target = old.target
  /\ new.addr = old.addr /\ new.offset = old.offset /\ new.value = old.value

Longer(list, new, item) ==
  /\ new \in Seq(ItemRecords) /\ Len(new) = Len(list) + 1 /\ new[Len(list) + 1] = item
  /\ \A i \in 1 .. Len(list) : Alike(new[i], list[i])

Fresh(item, list) ==
  /\ item \in ItemRecords /\ item.addr = Null
  /\ item.kind = "anonymous" => item.name = Null
  /\ item.kind \in Named => item.name \in Names
  /\ item.target # 0 => item.target \in 1 .. Len(list) /\ list[item.target].kind \in Named

Made(new, item) ==
  /\ Fresh(item, items[current]) /\ Longer(items[current], new, item)
  /\ items' = [items EXCEPT ![current] = new]
  /\ UNCHANGED <<current, state, env, failed>>

LEMMA ListFacts ==
  ASSUME TypeOK, NEW m \in Modules
  PROVE  /\ items[m] \in Seq(ItemRecords) /\ Len(items[m]) \in 0 .. MaxItems
         /\ DOMAIN items[m] = 1 .. Len(items[m])
         /\ \A i \in 1 .. Len(items[m]) : items[m][i] \in ItemRecords
         /\ \A n \in Names : table[m][n] \in 0 .. Len(items[m])
<1>1. items[m] \in Seq(ItemRecords)
  BY DEF TypeOK
<1>2. Len(items[m]) \in 0 .. MaxItems
  BY <1>1, ItemAssumption, LenProperties DEF TypeOK
<1>3. DOMAIN items[m] = 1 .. Len(items[m]) /\ \A i \in 1 .. Len(items[m]) : items[m][i] \in ItemRecords
  BY <1>1, LenProperties, ElementOfSeq
<1>4. \A n \in Names : table[m][n] \in 0 .. Len(items[m])
  BY <1>2, ItemAssumption DEF TypeOK
<1> QED BY <1>1, <1>2, <1>3, <1>4

LEMMA MakingFacts ==
  ASSUME TypeOK, Making
  PROVE  /\ current \in Modules /\ Next1 \in 1 .. MaxItems
         /\ Next1 = Len(items[current]) + 1
<1>1. current \in Modules
  BY DEF TypeOK, Making
<1>2. Len(items[current]) \in 0 .. MaxItems /\ Len(items[current]) < MaxItems
  BY <1>1, ListFacts DEF Making
<1> QED BY <1>1, <1>2, ItemAssumption DEF Next1

LEMMA MadeLists ==
  ASSUME ListsInv, Making, NEW new, NEW item, Made(new, item),
         table' \in [Modules -> [Names -> 0 .. MaxItems]],
         \A m \in Modules : \A n \in Names : table'[m][n] <= Len(items'[m])
  PROVE  /\ TypeOK' /\ OneOpen'
         /\ \A m \in Modules : \A i \in 1 .. Len(items'[m]) : Shaped(items'[m], i)
<1>1. TypeOK /\ current \in Modules /\ Next1 \in 1 .. MaxItems /\ Next1 = Len(items[current]) + 1
  BY MakingFacts DEF ListsInv
<1>2. items' \in [Modules -> Seq(ItemRecords)]
  BY <1>1 DEF TypeOK, Made, Longer
<1>3. items'[current] = new /\ Len(new) = Next1 /\ \A m \in Modules \ {current} : items'[m] = items[m]
  BY <1>1 DEF TypeOK, Made, Longer
<1>4. ASSUME NEW m \in Modules PROVE Len(items'[m]) <= MaxItems
  <2>1. CASE m = current
    BY <2>1, <1>1, <1>3, ItemAssumption
  <2>2. CASE m # current
    BY <2>2, <1>1, <1>3 DEF TypeOK
  <2> QED BY <2>1, <2>2
<1>5. TypeOK'
  BY <1>1, <1>2, <1>4 DEF TypeOK, Made
<1>6. OneOpen'
  BY DEF ListsInv, OneOpen, Made
<1>7. ASSUME NEW m \in Modules, NEW i \in 1 .. Len(items'[m]) PROVE Shaped(items'[m], i)
  <2>1. CASE m # current
    <3>1. items'[m] = items[m] /\ i \in DOMAIN items[m]
      BY <2>1, <1>1, <1>3, <1>7, ListFacts
    <3> QED BY <3>1 DEF ListsInv, Positions
  <2>2. CASE m = current /\ i = Next1
    <3>1. /\ new[i] = item /\ Len(items[current]) \in Nat
          /\ \A j \in 1 .. Len(items[current]) : new[j].kind = items[current][j].kind
      BY <1>1, <2>2, ListFacts DEF Made, Longer, Alike
    <3>2. Fresh(item, items[current])
      BY DEF Made
    <3> QED BY <1>1, <1>3, <2>2, <3>1, <3>2 DEF Shaped, Fresh
  <2>3. CASE m = current /\ i # Next1
    <3>1. i \in 1 .. Len(items[current]) /\ Len(items[current]) \in Nat
      BY <1>1, <1>3, <2>3, <1>7, ListFacts
    <3>2. Shaped(items[current], i)
      BY <1>1, <3>1, ListFacts DEF ListsInv, Positions
    <3>3. \A j \in 1 .. Len(items[current]) : Alike(new[j], items[current][j])
      BY DEF Made, Longer
    <3>4. Alike(new[i], items[current][i])
      BY <3>1, <3>3
    <3>5. \A j \in 1 .. i - 1 : new[j].kind = items[current][j].kind
      BY <3>1, <3>3 DEF Alike
    <3> QED BY <1>3, <2>3, <3>1, <3>2, <3>4, <3>5 DEF Shaped, Alike
  <2> QED BY <2>1, <2>2, <2>3
<1> QED BY <1>5, <1>6, <1>7

(* The two ways in which a list grows. *)
LEMMA JustAppended ==
  ASSUME NEW list \in Seq(ItemRecords), NEW item \in ItemRecords
  PROVE  /\ Longer(list, Append(list, item), item)
         /\ \A i \in 1 .. Len(list) : Append(list, item)[i] = list[i]
BY AppendProperties DEF Longer, Alike

LEMMA ChangedAndAppended ==
  ASSUME NEW list \in Seq(ItemRecords), NEW item \in ItemRecords, NEW k \in 1 .. Len(list),
         NEW a \in ItemRecords, Alike(a, list[k])
  PROVE  LET new == Append([list EXCEPT ![k] = a], item)
         IN /\ Longer(list, new, item)
            /\ new[k] = a /\ \A i \in 1 .. Len(list) : i # k => new[i] = list[i]
<1> DEFINE new == Append([list EXCEPT ![k] = a], item)
<1>1. /\ new \in Seq(ItemRecords) /\ Len(new) = Len(list) + 1
      /\ new[Len(list) + 1] = item /\ new[k] = a
      /\ \A i \in 1 .. Len(list) : i # k => new[i] = list[i]
  BY ChangedAppended
<1>2. \A i \in 1 .. Len(list) : Alike(new[i], list[i])
  BY <1>1 DEF Alike
<1> QED BY <1>1, <1>2 DEF Longer

(* What stands for other names stays as it is. *)
LEMMA OtherName ==
  ASSUME NEW list \in Seq(ItemRecords), NEW new, NEW item, Longer(list, new, item),
         NEW n \in Names, item.name # n, NEW k, Led(list, k, n),
         \A i \in 1 .. Len(list) : list[i].name = n => new[i].exported = list[i].exported
  PROVE  Led(new, k, n)
<1>1. /\ Len(list) \in Nat /\ DOMAIN list = 1 .. Len(list) /\ DOMAIN new = 1 .. Len(list) + 1
      /\ new[Len(list) + 1] = item
  BY LenProperties DEF Longer
<1>2. \A i \in DOMAIN list : new[i].kind = list[i].kind /\ new[i].name = list[i].name
  BY <1>1 DEF Longer, Alike
<1>3. \A i \in DOMAIN new : i \in DOMAIN list \/ new[i].name # n
  BY <1>1
<1>4. DOMAIN list \subseteq DOMAIN new
  BY <1>1
<1>5. Exports(new, n) <=> Exports(list, n)
  BY <1>2, <1>3, <1>4 DEF Exports
<1>6. CASE k = 0
  BY <1>2, <1>3, <1>6 DEF Led
<1>7. CASE k # 0
  <2>1. k \in DOMAIN list /\ StandsFor(list, k, n)
    BY <1>7 DEF Led
  <2>2. new[k].exported = list[k].exported
    BY <1>1, <2>1 DEF StandsFor
  <2>3. StandsFor(new, k, n)
    BY <1>2, <1>3, <1>5, <2>1, <2>2 DEF StandsFor
  <2> QED BY <1>4, <1>7, <2>1, <2>3 DEF Led
<1> QED BY <1>6, <1>7

(* The table when the new item gets the entry of its name, or when it gets none. *)
Entered(name) == table' = [table EXCEPT ![current][name] = Next1]

LEMMA EnteredTable ==
  ASSUME ListsInv, Making, NEW new, NEW item, Made(new, item), NEW name \in Names,
         Entered(name) \/ UNCHANGED table
  PROVE  /\ table' \in [Modules -> [Names -> 0 .. MaxItems]]
         /\ \A m \in Modules : \A n \in Names : table'[m][n] <= Len(items'[m])
         /\ \A m \in Modules : \A n \in Names :
              m # current \/ n # name => table'[m][n] = table[m][n]
         /\ Entered(name) => table'[current][name] = Next1
<1>1. TypeOK /\ current \in Modules /\ Next1 \in 1 .. MaxItems /\ Next1 = Len(items[current]) + 1
  BY MakingFacts DEF ListsInv
<1>2. table \in [Modules -> [Names -> 0 .. MaxItems]] /\ Next1 \in 0 .. MaxItems
  BY <1>1, ItemAssumption DEF TypeOK
<1>3. /\ table' \in [Modules -> [Names -> 0 .. MaxItems]]
      /\ Entered(name) => table'[current][name] = Next1
  BY <1>1, <1>2 DEF Entered
<1>4. ASSUME NEW m \in Modules, NEW n \in Names, m # current \/ n # name
      PROVE  table'[m][n] = table[m][n]
  BY <1>1, <1>2, <1>4 DEF Entered
<1>5. ASSUME NEW m \in Modules, NEW n \in Names PROVE table'[m][n] <= Len(items'[m])
  <2>1. Len(items'[m]) \in Nat /\ Len(items[m]) <= Len(items'[m])
        /\ (m = current => Len(items'[m]) = Next1)
    BY <1>1, ListFacts DEF Made, Longer, TypeOK
  <2>2. table[m][n] \in Nat /\ table[m][n] <= Len(items[m]) /\ Len(items[m]) \in Nat
    BY <1>1, ListFacts
  <2>3. table'[m][n] = table[m][n] \/ (m = current /\ table'[m][n] = Next1)
    BY <1>3, <1>4
  <2> QED BY <1>1, <2>1, <2>2, <2>3
<1> QED BY <1>3, <1>4, <1>5

(* So it is enough to look at the name of the new item.                        *)
LEMMA MadeNamed ==
  ASSUME ListsInv, Making, NEW name \in Names, NEW new, NEW item, Made(new, item),
         item.name = name, Entered(name) \/ UNCHANGED table,
         \A i \in 1 .. Len(items[current]) :
           items[current][i].name # name => new[i].exported = items[current][i].exported,
         Led(new, table'[current][name], name)
  PROVE  ListsInv'
<1>1. TypeOK /\ current \in Modules
  BY MakingFacts DEF ListsInv
<1>2. items'[current] = new /\ \A m \in Modules \ {current} : items'[m] = items[m]
  BY <1>1 DEF TypeOK, Made
<1>3. /\ TypeOK' /\ OneOpen'
      /\ \A m \in Modules : \A i \in 1 .. Len(items'[m]) : Shaped(items'[m], i)
  BY EnteredTable, MadeLists
<1>4. \A m \in Modules : \A n \in Names :
        m # current \/ n # name => table'[m][n] = table[m][n]
  BY EnteredTable
<1>5. ASSUME NEW m \in Modules, NEW n \in Names PROVE Led(items'[m], table'[m][n], n)
  <2>1. Led(items[m], table[m][n], n)
    BY DEF ListsInv
  <2>2. CASE m # current
    BY <1>2, <1>4, <2>1, <2>2
  <2>3. CASE m = current /\ n # name
    <3>1. items[current] \in Seq(ItemRecords) /\ Longer(items[current], new, item)
      BY <1>1, ListFacts DEF Made
    <3>2. Led(new, table[m][n], n)
      BY <2>1, <2>3, <3>1, OtherName
    <3> QED BY <1>2, <1>4, <2>3, <3>2
  <2>4. CASE m = current /\ n = name
    BY <1>2, <2>4
  <2> QED BY <2>2, <2>3, <2>4
<1>6. \A m \in Modules : DOMAIN items'[m] = 1 .. Len(items'[m])
  BY <1>3, LenProperties DEF TypeOK
<1> QED BY <1>3, <1>5, <1>6 DEF ListsInv, Positions

(* The item that a name gets is well-formed.                                   *)
LEMMA NewRecord ==
  ASSUME NEW kind \in Named, NEW name \in Names, NEW ref \in Refs, NEW list
  PROVE  /\ Item(kind, name, FALSE, ref) \in ItemRecords
         /\ Fresh(Item(kind, name, FALSE, ref), list)
         /\ Item(kind, name, FALSE, ref).name = name
         /\ Item(kind, name, FALSE, ref).kind = kind
         /\ ~Item(kind, name, FALSE, ref).exported
<1>1. 0 \in 0 .. MaxItems
  BY ItemAssumption
<1>2. Item(kind, name, FALSE, ref) \in ItemRecords
  BY <1>1 DEF Item, ItemRecords, Kinds, Addresses
<1> QED BY <1>2 DEF Fresh, Item, Named

LEMMA NewDefinition ==
  ASSUME NEW kind, NEW name \in Names, NEW list,
         NEW item, item = Item("definition", name, kind = "export", Null)
  PROVE  /\ item \in ItemRecords /\ Fresh(item, list)
         /\ item.name = name /\ item.kind = "definition"
         /\ item.exported <=> kind = "export"
<1>1. 0 \in 0 .. MaxItems
  BY ItemAssumption
<1>2. item \in ItemRecords
  BY <1>1 DEF Item, ItemRecords, Kinds, Named, Addresses, Refs
<1> QED BY <1>2 DEF Fresh, Item, Named

LEMMA FirstLists ==
  ASSUME ListsInv, Making, NEW kind \in Named, NEW name \in Names, AddFirst(kind, name)
  PROVE  ListsInv' /\ \E new, item : Made(new, item)
<1> DEFINE list == items[current]
           item == Item(kind, name, FALSE, Null)
           new == Append(list, item)
<1>1. TypeOK /\ current \in Modules /\ Next1 = Len(list) + 1 /\ list \in Seq(ItemRecords)
      /\ DOMAIN list = 1 .. Len(list) /\ Len(list) \in Nat
  BY MakingFacts, ListFacts DEF ListsInv
<1>2. /\ item \in ItemRecords /\ Fresh(item, list) /\ item.name = name /\ item.kind = kind
      /\ ~item.exported
  <2>1. Null \in Refs
    BY DEF Refs
  <2> QED BY <2>1, NewRecord
<1>3. Longer(list, new, item) /\ \A i \in 1 .. Len(list) : new[i] = list[i]
  BY <1>1, <1>2, JustAppended
<1>4. Made(new, item) /\ Entered(name)
  BY <1>2, <1>3 DEF Made, AddFirst, Entered
<1> HIDE DEF item
<1>5. table'[current][name] = Next1
  BY <1>4, EnteredTable
<1>6. \A i \in DOMAIN list : list[i].name # name
  <2>1. Led(list, 0, name)
    BY <1>1 DEF ListsInv, AddFirst, Known
  <2> QED BY <2>1 DEF Led
<1>7. Led(new, Next1, name)
  <2>1. DOMAIN new = 1 .. Next1 /\ new[Next1] = item
    BY <1>1, <1>3, LenProperties DEF Longer
  <2>2. \A j \in DOMAIN new : new[j].name = name => j = Next1
    BY <1>1, <1>3, <1>6, <2>1
  <2>3. Exports(new, name) <=> kind = "export"
    BY <1>1, <1>2, <2>1, <2>2 DEF Exports
  <2>4. StandsFor(new, Next1, name)
    BY <1>1, <1>2, <2>1, <2>2, <2>3 DEF StandsFor
  <2> QED BY <1>1, <2>1, <2>4 DEF Led
<1>8. ListsInv'
  BY <1>2, <1>3, <1>4, <1>5, <1>7, MadeNamed
<1> QED BY <1>4, <1>8

LEMMA KnownFacts ==
  ASSUME ListsInv, Making, NEW name \in Names, Known(name) # 0
  PROVE  /\ Known(name) \in 1 .. Len(items[current])
         /\ StandsFor(items[current], Known(name), name)
         /\ KnownItem(name) \in ItemRecords
         /\ <<current, Next1>> \in Refs /\ <<current, Known(name)>> \in Refs
<1>1. TypeOK /\ current \in Modules /\ Next1 \in 1 .. MaxItems /\ Next1 = Len(items[current]) + 1
  BY MakingFacts DEF ListsInv
<1>2. Led(items[current], Known(name), name)
  BY <1>1 DEF ListsInv, Known
<1>3. /\ Known(name) \in 1 .. Len(items[current]) /\ Len(items[current]) \in Nat
      /\ StandsFor(items[current], Known(name), name)
  BY <1>1, <1>2, ListFacts DEF Led
<1>4. Known(name) \in 1 .. MaxItems
  BY <1>1, <1>3, ItemAssumption
<1> QED BY <1>1, <1>3, <1>4, ListFacts DEF KnownItem, Refs, OwnItems

LEMMA Changed ==
  ASSUME NEW old \in ItemRecords, NEW ref \in Refs
  PROVE  /\ [old EXCEPT !.ref = ref] \in ItemRecords
         /\ Alike([old EXCEPT !.ref = ref], old)
         /\ [old EXCEPT !.ref = ref].exported = old.exported
BY DEF ItemRecords, Alike

(* A declaration is replaced in the table. *)
LEMMA ReplacedLists ==
  ASSUME ListsInv, Making, NEW name \in Names,
         Known(name) # 0, KnownItem(name).kind \in Declarations,
         NEW item, item.name = name, Fresh(item, items[current]),
         \/ item.kind = "definition" /\ (item.exported <=> KnownItem(name).kind = "export")
         \/ item.kind = "export" /\ KnownItem(name).kind = "forward",
         items' = [items EXCEPT ![current] =
                     Append([@ EXCEPT ![Known(name)].ref = <<current, Next1>>], item)],
         Entered(name), UNCHANGED <<current, state, env, failed>>
  PROVE  ListsInv' /\ \E new : Made(new, item)
<1> DEFINE list == items[current]
           k == Known(name)
           a == [list[k] EXCEPT !.ref = <<current, Next1>>]
           new == Append([list EXCEPT ![k] = a], item)
<1>1. TypeOK /\ current \in Modules /\ Next1 = Len(list) + 1 /\ list \in Seq(ItemRecords)
      /\ DOMAIN list = 1 .. Len(list) /\ Len(list) \in Nat
  BY MakingFacts, ListFacts DEF ListsInv
<1>2. /\ k \in 1 .. Len(list) /\ StandsFor(list, k, name) /\ list[k] \in ItemRecords
      /\ <<current, Next1>> \in Refs
  BY KnownFacts DEF KnownItem
<1>3. a \in ItemRecords /\ Alike(a, list[k]) /\ a.exported = list[k].exported
  BY <1>2, Changed
<1>4. items' = [items EXCEPT ![current] = new] /\ new = Append([list EXCEPT ![k] = a], item)
  OBVIOUS
<1> HIDE DEF a, new
<1>5. item \in ItemRecords
  BY DEF Fresh
<1>6. /\ Longer(list, new, item)
      /\ new[k] = a /\ \A i \in 1 .. Len(list) : i # k => new[i] = list[i]
  BY <1>1, <1>2, <1>3, <1>4, <1>5, ChangedAndAppended
<1>7. Made(new, item)
  BY <1>4, <1>6 DEF Made
<1>8. table'[current][name] = Next1
  BY <1>7, EnteredTable
<1>9. Led(new, Next1, name)
  <2>1. DOMAIN new = 1 .. Next1 /\ new[Next1] = item
    BY <1>1, <1>6, LenProperties DEF Longer
  <2>2. \A j \in DOMAIN list : new[j].kind = list[j].kind /\ new[j].name = list[j].name
    BY <1>1, <1>6 DEF Longer, Alike
  <2>3. list[k].kind \in {"export", "forward"} /\ list[k].kind = KnownItem(name).kind
    BY DEF Declarations, KnownItem
  <2>4. \A j \in DOMAIN list : list[j].name = name => list[j].kind \notin {"definition", "import"}
    BY <1>2, <2>3 DEF StandsFor
  <2>5. Exports(list, name) <=> list[k].kind = "export"
    BY <1>1, <1>2, <2>3 DEF StandsFor, Exports
  <2>6. Exports(new, name) <=> Exports(list, name) \/ item.kind = "export"
    <3>1. /\ \A j \in DOMAIN list : j \in DOMAIN new
          /\ Next1 \in DOMAIN new
          /\ \A j \in DOMAIN new : j \in DOMAIN list \/ j = Next1
      BY <1>1, <2>1
    <3> QED BY <2>1, <2>2, <3>1 DEF Exports
  <2>7. ASSUME NEW j \in DOMAIN new, new[j].name = name
        PROVE  /\ new[j].kind \in {"definition", "import"} => j = Next1
               /\ item.kind # "import"
               /\ new[j].kind = "export" => item.kind \in {"definition", "export"}
    <3>1. j \in DOMAIN list \/ j = Next1
      BY <1>1, <2>1
    <3>2. j \in DOMAIN list => new[j].kind \notin {"definition", "import"}
      BY <2>2, <2>4, <2>7
    <3> QED BY <3>1, <3>2
  <2>8. StandsFor(new, Next1, name)
    BY <2>1, <2>3, <2>5, <2>6, <2>7 DEF StandsFor, Named
  <2> QED BY <1>1, <2>1, <2>8 DEF Led
<1>10. ASSUME NEW i \in 1 .. Len(list), list[i].name # name
       PROVE  new[i].exported = list[i].exported
  BY <1>2, <1>3, <1>6, <1>10
<1>11. ListsInv'
  BY <1>7, <1>8, <1>9, <1>10, MadeNamed
<1> QED BY <1>7, <1>11

LEMMA DefinitionLists ==
  ASSUME ListsInv, Making, NEW name \in Names, AddDefinition(name)
  PROVE  ListsInv' /\ \E new, item : Made(new, item)
<1> DEFINE item == Item("definition", name, KnownItem(name).kind = "export", Null)
<1>1. /\ item \in ItemRecords /\ Fresh(item, items[current])
      /\ item.name = name /\ item.kind = "definition"
      /\ item.exported <=> KnownItem(name).kind = "export"
  BY NewDefinition
<1>2. /\ Known(name) # 0 /\ KnownItem(name).kind \in Declarations
      /\ items' = [items EXCEPT ![current] =
                     Append([@ EXCEPT ![Known(name)].ref = <<current, Next1>>], item)]
      /\ Entered(name) /\ UNCHANGED <<current, state, env, failed>>
  BY DEF AddDefinition, Entered
<1> HIDE DEF item
<1> QED BY <1>1, <1>2, ReplacedLists

LEMMA ExportLists ==
  ASSUME ListsInv, Making, NEW name \in Names, ExportForwarded(name)
  PROVE  ListsInv' /\ \E new, item : Made(new, item)
<1> DEFINE item == Item("export", name, FALSE, Null)
<1>1. /\ item \in ItemRecords /\ Fresh(item, items[current])
      /\ item.name = name /\ item.kind = "export"
  <2>1. Null \in Refs /\ "export" \in Named
    BY DEF Refs, Named
  <2> QED BY <2>1, NewRecord
<1>2. /\ Known(name) # 0 /\ KnownItem(name).kind = "forward"
      /\ items' = [items EXCEPT ![current] =
                     Append([@ EXCEPT ![Known(name)].ref = <<current, Next1>>], item)]
      /\ Entered(name) /\ UNCHANGED <<current, state, env, failed>>
  BY DEF ExportForwarded, Entered
<1> HIDE DEF item
<1> QED BY <1>1, <1>2, ReplacedLists DEF Declarations

LEMMA ForwardLists ==
  ASSUME ListsInv, Making, NEW name \in Names, ForwardExported(name)
  PROVE  ListsInv' /\ \E new, item : Made(new, item)
<1> DEFINE list == items[current]
           k == Known(name)
           item == Item("forward", name, FALSE, Null)
           new == Append(list, item)
<1>1. TypeOK /\ current \in Modules /\ Next1 = Len(list) + 1 /\ list \in Seq(ItemRecords)
      /\ DOMAIN list = 1 .. Len(list) /\ Len(list) \in Nat
  BY MakingFacts, ListFacts DEF ListsInv
<1>2. k \in 1 .. Len(list) /\ StandsFor(list, k, name) /\ list[k].kind = "export"
  BY KnownFacts DEF KnownItem, ForwardExported
<1>3. item \in ItemRecords /\ Fresh(item, list) /\ item.name = name /\ item.kind = "forward"
  <2>1. Null \in Refs /\ "forward" \in Named
    BY DEF Refs, Named
  <2> QED BY <2>1, NewRecord
<1>4. Longer(list, new, item) /\ \A i \in 1 .. Len(list) : new[i] = list[i]
  BY <1>1, <1>3, JustAppended
<1>5. Made(new, item) /\ UNCHANGED table
  BY <1>3, <1>4 DEF Made, ForwardExported
<1> HIDE DEF item
<1>6. Led(new, k, name)
  <2>1. DOMAIN new = 1 .. Next1 /\ new[Next1] = item
    BY <1>1, <1>4, LenProperties DEF Longer
  <2>2. \A j \in DOMAIN new : (j \in DOMAIN list /\ new[j] = list[j]) \/ j = Next1
    BY <1>1, <1>4, <2>1
  <2>3. new[k] = list[k] /\ k \in DOMAIN list
    BY <1>1, <1>2, <1>4
  <2>4. StandsFor(new, k, name)
    BY <1>2, <1>3, <2>1, <2>2, <2>3 DEF StandsFor
  <2> QED BY <1>1, <1>2, <2>1, <2>4 DEF Led
<1>7. table'[current][name] = k
  BY <1>5 DEF Known
<1>8. ListsInv'
  BY <1>3, <1>4, <1>5, <1>6, <1>7, MadeNamed
<1> QED BY <1>5, <1>8

LEMMA ChangedExport ==
  ASSUME NEW old \in ItemRecords, NEW kind
  PROVE  LET new == [old EXCEPT !.exported = old.exported \/ kind = "export"]
         IN /\ new \in ItemRecords /\ Alike(new, old)
            /\ new.exported <=> old.exported \/ kind = "export"
BY DEF ItemRecords, Alike

LEMMA DeclareLists ==
  ASSUME ListsInv, Making, NEW name \in Names, NEW kind \in Declarations,
         DeclareDefined(kind, name)
  PROVE  ListsInv' /\ \E new, item : Made(new, item)
<1> DEFINE list == items[current]
           k == Known(name)
           a == [list[k] EXCEPT !.exported = list[k].exported \/ kind = "export"]
           item == Item(kind, name, FALSE, <<current, k>>)
           new == Append([list EXCEPT ![k] = a], item)
<1>1. TypeOK /\ current \in Modules /\ Next1 = Len(list) + 1 /\ list \in Seq(ItemRecords)
      /\ DOMAIN list = 1 .. Len(list) /\ Len(list) \in Nat
  BY MakingFacts, ListFacts DEF ListsInv
<1>2. /\ k \in 1 .. Len(list) /\ StandsFor(list, k, name) /\ list[k] \in ItemRecords
      /\ <<current, k>> \in Refs /\ list[k].kind = "definition"
  BY KnownFacts DEF KnownItem, DeclareDefined
<1>3. /\ a \in ItemRecords /\ Alike(a, list[k])
      /\ a.exported <=> list[k].exported \/ kind = "export"
  BY <1>2, ChangedExport
<1>4. item \in ItemRecords /\ Fresh(item, list) /\ item.name = name /\ item.kind = kind
      /\ kind \in {"export", "forward"}
  <2>1. kind \in Named
    BY DEF Named, Declarations
  <2> QED BY <1>2, <2>1, NewRecord DEF Declarations
<1>5. items' = [items EXCEPT ![current] = new] /\ UNCHANGED <<table, current, state, env, failed>>
  BY DEF DeclareDefined, KnownItem
<1> HIDE DEF a, item
<1>6. /\ Longer(list, new, item)
      /\ new[k] = a /\ \A i \in 1 .. Len(list) : i # k => new[i] = list[i]
  BY <1>1, <1>2, <1>3, <1>4, ChangedAndAppended
<1> HIDE DEF new
<1>7. Made(new, item)
  BY <1>4, <1>5, <1>6 DEF Made
<1>8. Led(new, k, name)
  <2>1. DOMAIN new = 1 .. Next1 /\ new[Next1] = item
    BY <1>1, <1>6, LenProperties DEF Longer
  <2>2. \A j \in DOMAIN list : new[j].kind = list[j].kind /\ new[j].name = list[j].name
    BY <1>1, <1>6 DEF Longer, Alike
  <2>3. /\ \A j \in DOMAIN list : j \in DOMAIN new
        /\ Next1 \in DOMAIN new
        /\ \A j \in DOMAIN new : j \in DOMAIN list \/ j = Next1
    BY <1>1, <2>1
  <2>4. k \in DOMAIN list /\ new[k].kind = "definition" /\ new[k].name = name
    BY <1>1, <1>2, <2>2 DEF StandsFor
  <2>5. Exports(new, name) <=> Exports(list, name) \/ kind = "export"
    BY <1>4, <2>1, <2>2, <2>3 DEF Exports
  <2>6. new[k].exported <=> Exports(new, name)
    BY <1>2, <1>3, <1>6, <2>5 DEF StandsFor
  <2>7. ASSUME NEW j \in DOMAIN new, new[j].name = name, new[j].kind \in {"definition", "import"}
        PROVE  j = k
    <3>1. j # Next1
      BY <1>4, <2>1, <2>7
    <3> QED BY <1>2, <2>2, <2>3, <2>7, <3>1 DEF StandsFor
  <2>8. StandsFor(new, k, name)
    BY <2>4, <2>6, <2>7 DEF StandsFor, Named
  <2> QED BY <1>1, <1>2, <2>3, <2>4, <2>8 DEF Led
<1>9. table'[current][name] = k
  BY <1>5 DEF Known
<1>10. ASSUME NEW i \in 1 .. Len(list), list[i].name # name
       PROVE  new[i].exported = list[i].exported
  BY <1>2, <1>6, <1>10 DEF StandsFor
<1>11. ListsInv'
  BY <1>4, <1>5, <1>7, <1>8, <1>9, <1>10, MadeNamed
<1> QED BY <1>7, <1>11

LEMMA AnonymousLists ==
  ASSUME ListsInv, AddAnonymous
  PROVE  ListsInv' /\ \E new, item : Made(new, item)
<1> DEFINE list == items[current]
<1>1. PICK target \in {0} \cup {table[current][n] : n \in Names} :
        items' = [items EXCEPT ![current] =
                    Append(@, [Item("anonymous", Null, FALSE, Null) EXCEPT !.target = target])]
  BY DEF AddAnonymous
<1> DEFINE item == [Item("anonymous", Null, FALSE, Null) EXCEPT !.target = target]
           new == Append(list, item)
<1>2. Making /\ UNCHANGED <<current, state, table, env, failed>>
  BY DEF AddAnonymous
<1>3. TypeOK /\ current \in Modules /\ Next1 = Len(list) + 1 /\ list \in Seq(ItemRecords)
      /\ DOMAIN list = 1 .. Len(list) /\ Len(list) \in Nat
  BY <1>2, MakingFacts, ListFacts DEF ListsInv
<1>4. target \in 0 .. Len(list) /\ target \in 0 .. MaxItems
  BY <1>3, ListFacts, ItemAssumption DEF TypeOK
<1>5. target # 0 => list[target].kind \in Named
  <2>1. ASSUME target # 0 PROVE list[target].kind \in Named
    <3>1. PICK n \in Names : target = table[current][n]
      BY <2>1
    <3>2. Led(list, target, n)
      BY <1>3, <3>1 DEF ListsInv
    <3> QED BY <2>1, <3>2 DEF Led, StandsFor
  <2> QED BY <2>1
<1>6. item \in ItemRecords /\ item.kind = "anonymous" /\ item.name = Null /\ item.addr = Null
      /\ item.target = target
  <2>1. 0 \in 0 .. MaxItems /\ Null \in Addresses /\ Null \in Refs /\ "anonymous" \in Kinds
    BY ItemAssumption DEF Addresses, Refs, Kinds
  <2> QED BY <1>4, <2>1 DEF Item, ItemRecords
<1>7. Fresh(item, list)
  <2>1. "anonymous" \notin Named
    BY DEF Named
  <2> HIDE DEF item
  <2> QED BY <1>3, <1>4, <1>5, <1>6, <2>1 DEF Fresh
<1>8. Longer(list, new, item) /\ \A i \in 1 .. Len(list) : new[i] = list[i]
  BY <1>3, <1>6, JustAppended
<1>9. Made(new, item)
  BY <1>1, <1>2, <1>7, <1>8 DEF Made
<1> HIDE DEF item, new
<1>10. items'[current] = new /\ \A m \in Modules \ {current} : items'[m] = items[m]
  BY <1>3, <1>9 DEF TypeOK, Made
<1>11. /\ table' \in [Modules -> [Names -> 0 .. MaxItems]]
       /\ \A m \in Modules : \A n \in Names : table'[m][n] <= Len(items'[m])
  <2>1. ASSUME NEW m \in Modules, NEW n \in Names PROVE table'[m][n] <= Len(items'[m])
    <3>1. table'[m][n] = table[m][n] /\ table[m][n] \in 0 .. Len(items[m]) /\ Len(items[m]) \in Nat
      BY <1>2, <1>3, ListFacts
    <3>2. Len(items'[m]) \in {Len(items[m]), Len(items[m]) + 1}
      BY <1>3, <1>8, <1>10 DEF Longer
    <3> QED BY <3>1, <3>2
  <2> QED BY <1>2, <1>3, <2>1 DEF TypeOK
<1>12. /\ TypeOK' /\ OneOpen'
       /\ \A m \in Modules : \A i \in 1 .. Len(items'[m]) : Shaped(items'[m], i)
  BY <1>2, <1>9, <1>11, MadeLists
<1>13. ASSUME NEW m \in Modules, NEW n \in Names PROVE Led(items'[m], table'[m][n], n)
  <2>1. Led(items[m], table[m][n], n) /\ n # Null
    BY NullAssumption DEF ListsInv
  <2>2. Led(new, table[current][n], n)
    BY <1>3, <1>6, <1>8, <2>1, OtherName DEF ListsInv
  <2> QED BY <1>2, <1>10, <2>1, <2>2
<1>14. \A m \in Modules : DOMAIN items'[m] = 1 .. Len(items'[m])
  BY <1>12, LenProperties DEF TypeOK
<1>15. ListsInv'
  BY <1>12, <1>13, <1>14 DEF ListsInv, Positions
<1> QED BY <1>9, <1>15

------------------------------------------------------------------------------
(* Items are never removed, and neither their kinds nor their names change.    *)
Keeps ==
  \A m \in Modules : \A i \in Positions(m) :
    /\ i \in DOMAIN items'[m]
    /\ items'[m][i].kind = items[m][i].kind /\ items'[m][i].name = items[m][i].name

StaysLoaded == \A m \in Modules : IsLoaded(m) => IsLoaded(m)'

LEMMA MeaningStays ==
  ASSUME Keeps, StaysLoaded, NEW addr, NEW name, Meaning(addr, name)
  PROVE  Meaning(addr, name)'
<1>1. ASSUME Version(addr, name) PROVE Version(addr, name)'
  <2>1. PICK x \in Modules : \E j \in Positions(x) :
          /\ addr = <<x, j>> /\ state[x] \in {"loaded", "linked"}
          /\ items[x][j].kind = "definition" /\ items[x][j].name = name
          /\ Has(x, "export", name)
    BY <1>1 DEF Version
  <2>2. PICK j \in Positions(x) :
          /\ addr = <<x, j>> /\ state[x] \in {"loaded", "linked"}
          /\ items[x][j].kind = "definition" /\ items[x][j].name = name
    BY <2>1
  <2>3. Has(x, "export", name)'
    BY <2>1 DEF Has, Keeps, Positions
  <2>4. /\ j \in Positions(x)' /\ state'[x] \in {"loaded", "linked"}
        /\ items'[x][j].kind = "definition" /\ items'[x][j].name = name
    BY <2>2 DEF Keeps, StaysLoaded, IsLoaded, Positions
  <2> QED BY <2>2, <2>3, <2>4 DEF Version
<1> QED BY <1>1 DEF Meaning

(* A linked module is left as it is by what happens to others.                 *)
LEMMA BindingsStay ==
  ASSUME Keeps, StaysLoaded, NEW m \in Modules, Bindings(m), items'[m] = items[m],
         \A i \in Positions(m) : items[m][i].kind = "import" => items[m][i].name \in Names,
         \A n \in Names : env[n] # Null => env'[n] # Null
  PROVE  Bindings(m)'
<1>1. Positions(m)' = Positions(m)
  BY DEF Positions
<1>2. ASSUME NEW i \in Positions(m), items[m][i].kind = "import"
      PROVE  env'[items[m][i].name] # Null /\ Meaning(items[m][i].addr, items[m][i].name)'
  BY <1>2, MeaningStays DEF Bindings
<1>3. ASSUME NEW i \in Positions(m), NEW j \in Positions(m),
             items[m][i].target # 0, items[m][items[m][i].target].name = items[m][j].name,
             items[m][j].kind = "import"
      PROVE  Meaning(items[m][i].value, items[m][j].name)'
  BY <1>3, MeaningStays DEF Bindings
<1> QED BY <1>1, <1>2, <1>3 DEF Bindings

(* Where the items of a module lie does not change while the module does not.  *)
LEMMA PlacedStays ==
  ASSUME TypeOK, NEW m \in Modules, NEW i \in Positions(m), Placed(m, i),
         items'[m] = items[m], IsLoaded(m)' = IsLoaded(m)
  PROVE  Placed(m, i)'
<1>1. i \in Nat \ {0}
  BY ListFacts DEF Positions
<1>2. SectionHead(m, i)' = SectionHead(m, i)
  BY <1>1, HeadStays
<1> QED BY <1>2 DEF Placed, HasMemory

LEMMA ImportNames ==
  ASSUME ListsInv, NEW m \in Modules, NEW i \in Positions(m)
  PROVE  items[m][i].kind = "import" => items[m][i].name \in Names
BY DEF ListsInv, Shaped, Named

(* A new item concerns neither addresses nor what is linked.                   *)
LEMMA MadeStep ==
  ASSUME ItemInv, Making, NEW new, NEW item, Made(new, item), ListsInv'
  PROVE  ItemInv'
<1>1. TypeOK /\ TypeOK' /\ current \in Modules /\ state[current] = "open"
  BY MakingFacts DEF ItemInv, ListsInv, OneOpen
<1>2. items'[current] = new /\ \A m \in Modules \ {current} : items'[m] = items[m]
  BY <1>1 DEF TypeOK, Made
<1>3. /\ Len(items[current]) \in Nat /\ Positions(current) = 1 .. Len(items[current])
      /\ DOMAIN items'[current] = 1 .. Len(items[current]) + 1
      /\ \A i \in Positions(current) : Alike(new[i], items[current][i])
      /\ new[Len(items[current]) + 1] = item /\ item.addr = Null
  BY <1>1, <1>2, ListFacts, LenProperties DEF Made, Longer, Fresh, Positions
<1>4. Keeps
  <2>1. ASSUME NEW m \in Modules, NEW i \in Positions(m)
        PROVE  /\ i \in DOMAIN items'[m]
               /\ items'[m][i].kind = items[m][i].kind /\ items'[m][i].name = items[m][i].name
    <3>1. CASE m = current
      BY <1>2, <1>3, <3>1 DEF Positions, Alike
    <3>2. CASE m # current
      BY <1>2, <3>2 DEF Positions
    <3> QED BY <3>1, <3>2
  <2> QED BY <2>1 DEF Keeps
<1>5. state' = state /\ env' = env /\ StaysLoaded /\ \A m \in Modules : IsLoaded(m)' = IsLoaded(m)
  BY DEF Made, StaysLoaded, IsLoaded
<1>6. ASSUME NEW m \in Modules, NEW i \in Positions(m)' PROVE Placed(m, i)'
  <2>1. CASE m # current
    BY <1>1, <1>2, <1>5, <1>6, <2>1, PlacedStays DEF ItemInv, Positions
  <2>2. CASE m = current
    <3>1. ~IsLoaded(m) /\ ~IsLoaded(m)'
      BY <1>1, <1>5, <2>2 DEF IsLoaded
    <3>2. CASE i \in Positions(m)
      <4>1. Placed(m, i) /\ Alike(items'[m][i], items[m][i])
        BY <1>2, <1>3, <2>2, <3>2 DEF ItemInv
      <4> QED BY <3>1, <4>1 DEF Placed, HasMemory, Alike
    <3>3. CASE i \notin Positions(m)
      <4>1. i \in 1 .. Len(items[current]) + 1 /\ i \notin 1 .. Len(items[current])
        BY <1>3, <1>6, <2>2, <3>3 DEF Positions
      <4>2. items'[m][i].addr = Null
        BY <1>2, <1>3, <2>2, <4>1
      <4> QED BY <3>1, <4>2 DEF Placed
    <3> QED BY <3>2, <3>3
  <2> QED BY <2>1, <2>2
<1>7. EnvMeaning'
  BY <1>4, <1>5, MeaningStays DEF ItemInv, EnvMeaning
<1>8. ASSUME NEW m \in Modules, state'[m] = "linked" PROVE Bindings(m)'
  <2>1. state[m] = "linked" /\ m # current /\ items'[m] = items[m]
    BY <1>1, <1>2, <1>5, <1>8
  <2> QED BY <1>4, <1>5, <2>1, BindingsStay, ImportNames DEF ItemInv
<1> QED BY <1>6, <1>7, <1>8 DEF ItemInv

(* Steps that leave the items and what they stand for alone.                   *)
LEMMA SameItemsStep ==
  ASSUME ItemInv, UNCHANGED <<items, table>>, TypeOK', OneOpen',
         \A m \in Modules : IsLoaded(m)' = IsLoaded(m),
         \A m \in Modules : state'[m] = "linked" => state[m] = "linked",
         \A n \in Names : env'[n] = env[n] \/ (env'[n] # Null /\ Meaning(env'[n].addr, n))
  PROVE  ItemInv'
<1>1. ListsInv /\ TypeOK /\ ListsInv'
  BY DEF ItemInv, ListsInv, Positions
<1>2. Keeps /\ StaysLoaded
  BY DEF Keeps, StaysLoaded, Positions
<1>3. \A addr, n : Meaning(addr, n) => Meaning(addr, n)'
  BY <1>2, MeaningStays
<1>4. EnvMeaning'
  BY <1>3 DEF ItemInv, EnvMeaning
<1>5. ASSUME NEW m \in Modules, state'[m] = "linked" PROVE Bindings(m)'
  BY <1>1, <1>2, <1>5, BindingsStay, ImportNames DEF ItemInv
<1>6. ASSUME NEW m \in Modules, NEW i \in Positions(m)' PROVE Placed(m, i)'
  BY <1>1, PlacedStays DEF ItemInv, Positions
<1> QED BY <1>1, <1>4, <1>5, <1>6 DEF ItemInv

LEMMA MakingStep ==
  ASSUME ItemInv, NewItem \/ AddAnonymous
  PROVE  ItemInv'
<1>1. ListsInv
  BY DEF ItemInv
<1>2. CASE AddAnonymous
  <2>1. Making
    BY <1>2 DEF AddAnonymous
  <2> QED BY <1>1, <1>2, <2>1, AnonymousLists, MadeStep
<1>3. ASSUME UNCHANGED <<current, state, items, table, env>>, failed' \in BOOLEAN
      PROVE  ItemInv'
  <2>1. TypeOK' /\ OneOpen'
    BY <1>1, <1>3 DEF ListsInv, TypeOK, OneOpen
  <2>2. \A m \in Modules : IsLoaded(m)' = IsLoaded(m)
    BY <1>3 DEF IsLoaded
  <2> QED BY <1>3, <2>1, <2>2, SameItemsStep DEF ItemInv
<1>4. CASE NewItem
  <2>1. Making
    BY <1>4 DEF NewItem
  <2>2. PICK name \in Names :
          \/ \E kind \in Named : AddFirst(kind, name) \/ Again(kind, name) \/ Clash(kind, name)
          \/ \E kind \in Declarations : DeclareDefined(kind, name)
          \/ AddDefinition(name) \/ ExportForwarded(name) \/ ForwardExported(name)
    BY <1>4 DEF NewItem
  <2>3. ASSUME NEW kind \in Named, AddFirst(kind, name) PROVE ItemInv'
    BY <1>1, <2>1, <2>3, FirstLists, MadeStep
  <2>4. ASSUME NEW kind \in Named, Again(kind, name) PROVE ItemInv'
    BY <1>1, <1>3, <2>4 DEF Again, vars, ListsInv, TypeOK
  <2>5. ASSUME NEW kind \in Named, Clash(kind, name) PROVE ItemInv'
    BY <1>3, <2>5 DEF Clash
  <2>6. ASSUME NEW kind \in Declarations, DeclareDefined(kind, name) PROVE ItemInv'
    BY <1>1, <2>1, <2>6, DeclareLists, MadeStep
  <2>7. CASE AddDefinition(name)
    BY <1>1, <2>1, <2>7, DefinitionLists, MadeStep
  <2>8. CASE ExportForwarded(name)
    BY <1>1, <2>1, <2>8, ExportLists, MadeStep
  <2>9. CASE ForwardExported(name)
    BY <1>1, <2>1, <2>9, ForwardLists, MadeStep
  <2> QED BY <2>2, <2>3, <2>4, <2>5, <2>6, <2>7, <2>8, <2>9
<1> QED BY <1>2, <1>4

------------------------------------------------------------------------------
LEMMA NewModuleStep ==
  ASSUME ItemInv, NEW m \in Modules, NewModule(m)
  PROVE  ItemInv'
<1>1. TypeOK /\ OneOpen /\ Nobody \notin Modules
  BY ItemAssumption DEF ItemInv, ListsInv
<1>2. TypeOK' /\ OneOpen'
  BY <1>1 DEF TypeOK, OneOpen, NewModule
<1>3. \A x \in Modules : IsLoaded(x)' = IsLoaded(x) /\ (state'[x] = "linked" => state[x] = "linked")
  BY <1>1 DEF TypeOK, IsLoaded, NewModule
<1>4. UNCHANGED <<items, table, env>>
  BY DEF NewModule
<1> QED BY <1>2, <1>3, <1>4, SameItemsStep

LEMMA FinishModuleStep ==
  ASSUME ItemInv, FinishModule
  PROVE  ItemInv'
<1>1. TypeOK /\ OneOpen /\ Nobody \notin Modules /\ current \in Modules
  BY ItemAssumption DEF ItemInv, ListsInv, TypeOK, FinishModule
<1>2. TypeOK' /\ OneOpen'
  BY <1>1 DEF TypeOK, OneOpen, FinishModule
<1>3. \A x \in Modules : IsLoaded(x)' = IsLoaded(x) /\ (state'[x] = "linked" => state[x] = "linked")
  BY <1>1 DEF TypeOK, OneOpen, IsLoaded, FinishModule
<1>4. UNCHANGED <<items, table, env>>
  BY DEF FinishModule
<1> QED BY <1>2, <1>3, <1>4, SameItemsStep

LEMMA LoadExternalStep ==
  ASSUME ItemInv, NEW n \in Names, LoadExternal(n)
  PROVE  ItemInv'
<1>1. TypeOK /\ OneOpen
  BY DEF ItemInv, ListsInv
<1>2. UNCHANGED <<current, state, items, table, failed>>
      /\ env' = [env EXCEPT ![n] = Global(<<Outside, n>>, Null)]
  BY DEF LoadExternal
<1>3. Global(<<Outside, n>>, Null) \in EnvEntries /\ Global(<<Outside, n>>, Null).addr = <<Outside, n>>
  BY DEF Global, EnvEntries, Addresses, Externals, Refs
<1>4. Global(<<Outside, n>>, Null) # Null
  BY <1>3, NullAssumption
<1> DEFINE external == Global(<<Outside, n>>, Null)
<1> HIDE DEF external
<1>5. TypeOK' /\ OneOpen'
  BY <1>1, <1>2, <1>3 DEF TypeOK, OneOpen, external
<1>6. \A x \in Names : env'[x] = env[x] \/ (x = n /\ env'[x] = external)
  BY <1>1, <1>2 DEF TypeOK, external
<1>7. \A x \in Names : env'[x] = env[x] \/ (env'[x] # Null /\ Meaning(env'[x].addr, x))
  BY <1>3, <1>4, <1>6 DEF Meaning, external
<1>8. \A x \in Modules : IsLoaded(x)' = IsLoaded(x) /\ (state'[x] = "linked" => state[x] = "linked")
  BY <1>2 DEF IsLoaded
<1> QED BY <1>2, <1>5, <1>7, <1>8, SameItemsStep

(* Loading and linking leave names and kinds alone.                            *)
SameNames(new, old) ==
  /\ new.kind = old.kind /\ new.name = old.name /\ new.target = old.target
  /\ new.exported = old.exported

LEMMA KeptLists ==
  ASSUME ListsInv, items' \in [Modules -> Seq(ItemRecords)],
         \A m \in Modules : /\ Len(items'[m]) = Len(items[m])
                            /\ \A i \in 1 .. Len(items[m]) : SameNames(items'[m][i], items[m][i]),
         UNCHANGED <<table, current, failed>>,
         state' \in [Modules -> {"none", "open", "finished", "loaded", "linked"}],
         \A m \in Modules : state'[m] = "open" <=> state[m] = "open",
         env' \in [Names -> {Null} \cup EnvEntries]
  PROVE  ListsInv' /\ Keeps
<1>1. TypeOK' /\ OneOpen'
  BY DEF ListsInv, TypeOK, OneOpen
<1>2. \A m \in Modules : DOMAIN items'[m] = DOMAIN items[m] /\ DOMAIN items[m] = 1 .. Len(items[m])
  BY ListFacts, LenProperties DEF ListsInv
<1>3. Keeps
  BY <1>2 DEF Keeps, Positions, SameNames
<1>4. ASSUME NEW m \in Modules, NEW i \in DOMAIN items[m] PROVE Shaped(items'[m], i)
  <2>1. Shaped(items[m], i) /\ SameNames(items'[m][i], items[m][i])
    BY <1>2, <1>4 DEF ListsInv, Positions
  <2>2. items[m][i].target # 0 =>
          items'[m][items[m][i].target].kind = items[m][items[m][i].target].kind
    <3>1. i \in 1 .. Len(items[m]) /\ Len(items[m]) \in Nat
      BY <1>2, <1>4, ListFacts DEF ListsInv
    <3> QED BY <2>1, <3>1 DEF Shaped, SameNames
  <2> QED BY <2>1, <2>2 DEF Shaped, SameNames
<1>5. ASSUME NEW m \in Modules, NEW n \in Names PROVE Led(items'[m], table'[m][n], n)
  <2>1. Led(items[m], table[m][n], n)
    BY DEF ListsInv
  <2>2. \A i \in DOMAIN items[m] : SameNames(items'[m][i], items[m][i])
    BY <1>2
  <2>3. Exports(items'[m], n) <=> Exports(items[m], n)
    BY <1>2, <2>2 DEF Exports, SameNames
  <2>4. ASSUME NEW k \in DOMAIN items[m], StandsFor(items[m], k, n) PROVE StandsFor(items'[m], k, n)
    BY <1>2, <2>2, <2>3, <2>4 DEF StandsFor, SameNames
  <2> QED BY <1>2, <2>1, <2>2, <2>4 DEF Led, SameNames
<1> QED BY <1>1, <1>2, <1>3, <1>4, <1>5 DEF ListsInv, Positions

(* The address that an item gets is in its module.                            *)
LEMMA AddressedItem ==
  ASSUME ItemInv, NEW m \in Modules, NEW i \in Positions(m)
  PROVE  /\ Addressed(m, i) \in ItemRecords /\ SameNames(Addressed(m, i), items[m][i])
         /\ HasMemory(items[m][i]) =>
              /\ Addressed(m, i).addr = <<m, SectionHead(m, i)>>
              /\ Addressed(m, i).offset = i - SectionHead(m, i)
<1> DEFINE item == items[m][i]
           head == SectionHead(m, i)
<1>1. /\ item \in ItemRecords /\ i \in 1 .. MaxItems /\ Placed(m, i)
  BY ListFacts, ItemAssumption DEF ItemInv, ListsInv, Positions
<1>2. head \in 1 .. i
  BY <1>1, HeadOfSection
<1>3. <<m, head>> \in OwnItems /\ i - head \in 0 .. MaxItems
  BY <1>1, <1>2, ItemAssumption DEF OwnItems
<1>4. <<m, head>> \in Addresses /\ <<m, head>> # Null
  BY <1>3, NullAssumption DEF Addresses
<1> HIDE DEF item, head
<1>5. CASE HasMemory(item) /\ item.addr = Null
  <2>1. Addressed(m, i) = [item EXCEPT !.addr = <<m, head>>, !.offset = i - head]
    BY <1>5 DEF Addressed, HasMemory, item, head
  <2>2. [item EXCEPT !.addr = <<m, head>>, !.offset = i - head] \in ItemRecords
    BY <1>1, <1>3, <1>4 DEF ItemRecords
  <2> QED BY <1>1, <2>1, <2>2 DEF SameNames, ItemRecords, item, head
<1>6. CASE ~(HasMemory(item) /\ item.addr = Null)
  <2>1. Addressed(m, i) = item
    BY <1>6 DEF Addressed, HasMemory, item, head
  <2>2. HasMemory(item) => item.addr = <<m, head>> /\ item.offset = i - head
    BY <1>1, <1>6 DEF Placed, item, head
  <2> QED BY <1>1, <2>1, <2>2 DEF SameNames, item, head
<1> QED BY <1>5, <1>6

LEMMA LoadStep ==
  ASSUME ItemInv, NEW m \in Modules, Load(m)
  PROVE  ItemInv'
<1> DEFINE new == [i \in Positions(m) |-> Addressed(m, i)]
<1>1. /\ ListsInv /\ TypeOK /\ state[m] \in {"finished", "loaded", "linked"}
      /\ UNCHANGED <<current, table, failed>>
      /\ items' = [items EXCEPT ![m] = new]
      /\ state' = [state EXCEPT ![m] = "loaded"]
      /\ env' = [n \in Names |->
                   LET i == table[m][n]
                   IN IF i # 0 /\ items[m][i].kind = "definition" /\ items[m][i].exported
                      THEN Global(<<m, i>>, <<m, i>>)
                      ELSE env[n]]
  BY DEF ItemInv, ListsInv, Load
<1>2. /\ Positions(m) = 1 .. Len(items[m]) /\ Len(items[m]) \in 0 .. MaxItems
      /\ new \in Seq(ItemRecords) /\ Len(new) = Len(items[m])
      /\ \A i \in Positions(m) : new[i] = Addressed(m, i)
  <2>1. /\ Positions(m) = 1 .. Len(items[m]) /\ Len(items[m]) \in 0 .. MaxItems /\ Len(items[m]) \in Nat
    BY <1>1, ListFacts, ItemAssumption DEF Positions
  <2>2. \A i \in Positions(m) : Addressed(m, i) \in ItemRecords
    BY AddressedItem
  <2>3. new \in [1 .. Len(items[m]) -> ItemRecords]
    BY <2>1, <2>2
  <2> HIDE DEF new
  <2>4. new \in Seq(ItemRecords) /\ Len(new) = Len(items[m])
    BY <2>1, <2>3
  <2> QED BY <2>1, <2>4 DEF new
<1> HIDE DEF new
<1>3. /\ items'[m] = new /\ \A x \in Modules \ {m} : items'[x] = items[x]
      /\ items' \in [Modules -> Seq(ItemRecords)]
  BY <1>1, <1>2 DEF TypeOK
<1>4. /\ state'[m] = "loaded" /\ \A x \in Modules \ {m} : state'[x] = state[x]
      /\ state' \in [Modules -> {"none", "open", "finished", "loaded", "linked"}]
  BY <1>1 DEF TypeOK
<1>5. ASSUME NEW n \in Names
      PROVE  \/ env'[n] = env[n]
             \/ LET i == table[m][n]
                IN /\ i \in Positions(m) /\ items[m][i].kind = "definition"
                   /\ items[m][i].name = n /\ Exports(items[m], n)
                   /\ env'[n] = Global(<<m, i>>, <<m, i>>)
  <2>1. Led(items[m], table[m][n], n)
    BY <1>1 DEF ListsInv
  <2> QED BY <1>1, <2>1 DEF Led, StandsFor, Positions
<1>6. ASSUME NEW i \in Positions(m)
      PROVE  Global(<<m, i>>, <<m, i>>) \in EnvEntries /\ Global(<<m, i>>, <<m, i>>) # Null
             /\ Global(<<m, i>>, <<m, i>>).addr = <<m, i>>
  <2>1. <<m, i>> \in OwnItems
    BY <1>2, ItemAssumption DEF OwnItems
  <2>2. Global(<<m, i>>, <<m, i>>) \in EnvEntries
    BY <2>1 DEF Global, EnvEntries, Addresses, Refs
  <2> QED BY <2>2, NullAssumption DEF Global
<1>7. env' \in [Names -> {Null} \cup EnvEntries]
  <2>1. \A n \in Names : env'[n] \in {Null} \cup EnvEntries
    BY <1>1, <1>5, <1>6 DEF TypeOK
  <2>2. env' = [n \in Names |-> env'[n]]
    BY <1>1
  <2> QED BY <2>1, <2>2
<1>8. ASSUME NEW x \in Modules
      PROVE  /\ Len(items'[x]) = Len(items[x])
             /\ \A i \in 1 .. Len(items[x]) : SameNames(items'[x][i], items[x][i])
  <2>1. CASE x = m
    BY <1>2, <1>3, <2>1, AddressedItem
  <2>2. CASE x # m
    BY <1>3, <2>2 DEF SameNames
  <2> QED BY <2>1, <2>2
<1>9. ListsInv' /\ Keeps
  BY <1>1, <1>3, <1>4, <1>7, <1>8, KeptLists
<1>10. StaysLoaded
  BY <1>4 DEF StaysLoaded, IsLoaded
<1>11. \A x \in Modules : DOMAIN items'[x] = DOMAIN items[x]
  BY <1>1, <1>3, <1>8, LenProperties DEF TypeOK
<1>12. ASSUME NEW x \in Modules, NEW i \in Positions(x)' PROVE Placed(x, i)'
  <2>1. i \in Positions(x)
    BY <1>11, <1>12 DEF Positions
  <2>2. CASE x # m
    BY <1>1, <1>3, <1>4, <2>1, <2>2, PlacedStays DEF ItemInv, IsLoaded
  <2>3. CASE x = m
    <3>1. i \in Nat \ {0} /\ \A j \in 1 .. i : j \in Positions(m)
      BY <1>2, <2>1, <2>3
    <3>2. SectionHead(m, i)' = SectionHead(m, i)
      BY <1>9, <3>1, HeadStays DEF Keeps
    <3>3. items'[m][i] = Addressed(m, i) /\ SameNames(items'[m][i], items[m][i])
      BY <1>2, <1>3, <1>8, <2>1, <2>3
    <3>4. HasMemory(items'[m][i]) =>
            items'[m][i].addr = <<m, SectionHead(m, i)>> /\ items'[m][i].offset = i - SectionHead(m, i)
      BY <2>1, <2>3, <3>3, AddressedItem DEF SameNames, HasMemory
    <3>5. IsLoaded(m)'
      BY <1>4 DEF IsLoaded
    <3> QED BY <2>3, <3>2, <3>4, <3>5 DEF Placed, HasMemory
  <2> QED BY <2>2, <2>3
<1>13. \A addr, n : Meaning(addr, n) => Meaning(addr, n)'
  BY <1>9, <1>10, MeaningStays
<1>14. ASSUME NEW n \in Names PROVE (env[n] # Null => Meaning(env[n].addr, n))'
  <2>1. CASE env'[n] = env[n]
    BY <1>13, <2>1 DEF ItemInv, EnvMeaning
  <2>2. CASE env'[n] # env[n]
    <3>1. PICK i \in Positions(m) :
            /\ items[m][i].kind = "definition" /\ items[m][i].name = n
            /\ Exports(items[m], n) /\ env'[n] = Global(<<m, i>>, <<m, i>>)
      BY <1>5, <2>2
    <3>2. /\ i \in Positions(m)' /\ items'[m][i].kind = "definition" /\ items'[m][i].name = n
          /\ Has(m, "export", n)'
      BY <1>9, <3>1 DEF Keeps, Exports, Has, Positions
    <3>3. Version(<<m, i>>, n)'
      BY <1>4, <3>2 DEF Version
    <3>4. env'[n].addr = <<m, i>>
      BY <1>6, <3>1
    <3> QED BY <3>3, <3>4 DEF Meaning
  <2> QED BY <2>1, <2>2
<1>15. EnvMeaning'
  BY <1>14 DEF EnvMeaning
<1>16. ASSUME NEW n \in Names, env[n] # Null PROVE env'[n] # Null
  <2>1. CASE env'[n] = env[n]
    BY <1>16, <2>1
  <2>2. CASE env'[n] # env[n]
    <3>1. PICK i \in Positions(m) : env'[n] = Global(<<m, i>>, <<m, i>>)
      BY <1>5, <2>2
    <3> QED BY <1>6, <3>1
  <2> QED BY <2>1, <2>2
<1>17. ASSUME NEW x \in Modules, state'[x] = "linked" PROVE Bindings(x)'
  <2>1. x # m /\ state[x] = "linked" /\ items'[x] = items[x]
    BY <1>3, <1>4, <1>17
  <2> QED BY <1>1, <1>9, <1>10, <1>16, <2>1, BindingsStay, ImportNames DEF ItemInv
<1> QED BY <1>9, <1>12, <1>15, <1>17 DEF ItemInv

------------------------------------------------------------------------------
(* The environment of a link knows every import of the modules to link.       *)
LEMMA ExternalsKnown ==
  ASSUME ItemInv
  PROVE  /\ WithExternals \in [Names -> {Null} \cup EnvEntries]
         /\ \A n \in Names : env[n] # Null => WithExternals[n] # Null
         /\ \A n \in Names : WithExternals[n] # Null => Meaning(WithExternals[n].addr, n)
         /\ \A m \in ToLink : \A i \in Positions(m) :
              items[m][i].kind = "import" => WithExternals[items[m][i].name] # Null
<1>1. ListsInv /\ TypeOK
  BY DEF ItemInv, ListsInv
<1>2. ASSUME NEW n \in Names
      PROVE  /\ Global(<<Outside, n>>, Null) \in EnvEntries /\ Global(<<Outside, n>>, Null) # Null
             /\ Meaning(Global(<<Outside, n>>, Null).addr, n)
  <2>1. Global(<<Outside, n>>, Null) \in EnvEntries
    BY DEF Global, EnvEntries, Addresses, Externals, Refs
  <2> QED BY <2>1, NullAssumption DEF Global, Meaning
<1>3. ASSUME NEW n \in Names
      PROVE  WithExternals[n] = IF n \in Missing THEN Global(<<Outside, n>>, Null) ELSE env[n]
  BY DEF WithExternals
<1>4. WithExternals \in [Names -> {Null} \cup EnvEntries]
  <2>1. \A n \in Names : WithExternals[n] \in {Null} \cup EnvEntries
    BY <1>1, <1>2, <1>3 DEF TypeOK
  <2> QED BY <2>1 DEF WithExternals
<1>5. ASSUME NEW n \in Names, env[n] # Null PROVE WithExternals[n] # Null
  BY <1>3, <1>5 DEF Missing
<1>6. ASSUME NEW n \in Names, WithExternals[n] # Null PROVE Meaning(WithExternals[n].addr, n)
  BY <1>2, <1>3, <1>6 DEF ItemInv, EnvMeaning
<1>7. ASSUME NEW m \in ToLink, NEW i \in Positions(m), items[m][i].kind = "import"
      PROVE  WithExternals[items[m][i].name] # Null
  <2>1. m \in Modules
    BY DEF ToLink
  <2>2. items[m][i].name \in Names
    BY <1>1, <1>7, <2>1, ImportNames
  <2>3. env[items[m][i].name] = Null => items[m][i].name \in Missing
    BY <1>7, <2>2 DEF Missing
  <2> QED BY <1>2, <1>3, <1>5, <2>2, <2>3
<1> QED BY <1>4, <1>5, <1>6, <1>7

(* What the first pass makes of an item.                                       *)
LEMMA BoundItem ==
  ASSUME ItemInv, NEW m \in ToLink, NEW i \in Positions(m)
  PROVE  LET item == items[m][i]
             b == Bound(m, item, WithExternals)
         IN /\ b \in ItemRecords /\ SameNames(b, item)
            /\ HasMemory(item) => b = item
            /\ item.kind = "import" => b.addr = WithExternals[item.name].addr
            /\ \A j \in Positions(m) :
                 items[m][j].kind = "definition" /\ items[m][j].name = item.name =>
                   /\ item.kind \in Declarations => b.ref = <<m, j>>
                   /\ item.kind \in Declarations \cup {"definition"} => b.addr = <<m, j>>
<1> DEFINE item == items[m][i]
           b == Bound(m, item, WithExternals)
<1>1. /\ ListsInv /\ TypeOK /\ m \in Modules /\ state[m] = "loaded"
      /\ Positions(m) = 1 .. Len(items[m]) /\ Len(items[m]) \in 0 .. MaxItems
      /\ item \in ItemRecords /\ i \in Nat \ {0}
  BY ListFacts DEF ItemInv, ListsInv, ToLink, Positions
<1>2. item.kind \in Named => item.name \in Names
  BY <1>1 DEF ListsInv, Shaped
<1>3. ASSUME NEW j \in Positions(m), items[m][j].kind = "definition", items[m][j].name \in Names
      PROVE  items[m][j].addr = <<m, j>> /\ table[m][items[m][j].name] = j
  <2>1. Placed(m, j) /\ j \in Nat \ {0}
    BY <1>1 DEF ItemInv
  <2>2. SectionHead(m, j) = j
    BY <1>1, <1>3, <2>1, HeadOfDefinition DEF Begins
  <2>3. Led(items[m], table[m][items[m][j].name], items[m][j].name)
    BY <1>1, <1>3 DEF ListsInv
  <2> QED BY <1>1, <1>3, <2>1, <2>2, <2>3
        DEF Placed, HasMemory, IsLoaded, Led, StandsFor, Positions
<1>4. CASE HasMemory(item)
  <2>1. b = item
    BY <1>4 DEF Bound, HasMemory, Declarations
  <2>2. item.kind \notin Declarations /\ item.kind # "import"
    BY <1>4 DEF HasMemory, Declarations
  <2>3. ASSUME NEW j \in Positions(m), items[m][j].kind = "definition",
               items[m][j].name = item.name, item.kind = "definition"
        PROVE  b.addr = <<m, j>>
    <3>1. item.name \in Names
      BY <1>2, <2>3 DEF Named
    <3> QED BY <1>3, <2>1, <2>3, <3>1
  <2> QED BY <1>1, <2>1, <2>2, <2>3 DEF SameNames
<1>5. CASE item.kind = "import"
  <2>1. item.name \in Names
    BY <1>2, <1>5 DEF Named
  <2>2. WithExternals[item.name] \in EnvEntries
    BY <1>5, <2>1, ExternalsKnown
  <2>3. b = [item EXCEPT !.addr = WithExternals[item.name].addr, !.ref = <<Environment, item.name>>]
    BY <1>5 DEF Bound, Declarations
  <2>4. <<Environment, item.name>> \in Refs /\ WithExternals[item.name].addr \in Addresses
    BY <2>1, <2>2 DEF EnvEntries, Refs, EnvItems
  <2>5. b \in ItemRecords /\ SameNames(b, item) /\ b.addr = WithExternals[item.name].addr
    BY <1>1, <2>3, <2>4 DEF ItemRecords, SameNames
  <2> QED BY <1>5, <2>5 DEF HasMemory, Declarations
<1>6. CASE item.kind \in Declarations
  <2> DEFINE k == table[m][item.name]
  <2>1. item.name \in Names
    BY <1>2, <1>6 DEF Named, Declarations
  <2>2. Led(items[m], k, item.name)
    BY <1>1, <2>1 DEF ListsInv
  <2>3. k \in Positions(m)
    BY <2>2 DEF Led, Positions
  <2>4. b = [item EXCEPT !.addr = items[m][k].addr, !.ref = <<m, k>>]
    BY <1>6 DEF Bound, Declarations
  <2>5. items[m][k].addr \in Addresses /\ <<m, k>> \in Refs
    BY <1>1, <2>3, ListFacts, ItemAssumption DEF ItemRecords, Refs, OwnItems
  <2> HIDE DEF k
  <2>6. b \in ItemRecords /\ SameNames(b, item) /\ b.addr = items[m][k].addr /\ b.ref = <<m, k>>
    BY <1>1, <2>4, <2>5 DEF ItemRecords, SameNames
  <2>7. ASSUME NEW j \in Positions(m), items[m][j].kind = "definition", items[m][j].name = item.name
        PROVE  j = k /\ items[m][j].addr = <<m, j>>
    BY <1>3, <2>1, <2>7 DEF k
  <2> QED BY <1>6, <2>6, <2>7 DEF HasMemory, Declarations
<1>7. item.kind \in Kinds
  BY <1>1 DEF ItemRecords
<1> QED BY <1>4, <1>5, <1>6, <1>7 DEF Kinds, Named, HasMemory, Declarations

(* What both passes make of the modules to link.                               *)
LEMMA LinkedItem ==
  ASSUME ItemInv, NEW m \in ToLink, NEW i \in Positions(m), NEW bound,
         bound = [j \in Positions(m) |-> Bound(m, items[m][j], WithExternals)],
         NEW new, new = Written(bound, bound[i])
  PROVE  /\ new \in ItemRecords /\ SameNames(new, items[m][i])
         /\ new.addr = bound[i].addr /\ new.offset = bound[i].offset /\ new.ref = bound[i].ref
         /\ items[m][i].target # 0 =>
              /\ items[m][i].target \in Positions(m)
              /\ new.value = bound[items[m][i].target].addr
<1>1. /\ \A j \in Positions(m) : bound[j] \in ItemRecords /\ SameNames(bound[j], items[m][j])
      /\ \A j \in Positions(m) : bound[j] = Bound(m, items[m][j], WithExternals)
  BY BoundItem
<1>2. /\ items[m][i].target # 0 => items[m][i].target \in Positions(m)
      /\ bound[i].target = items[m][i].target
  <2>1. /\ m \in Modules /\ Positions(m) = 1 .. Len(items[m])
        /\ Len(items[m]) \in Nat /\ Shaped(items[m], i)
    BY ListFacts DEF ItemInv, ListsInv, ToLink, Positions
  <2>2. i \in 1 .. Len(items[m])
    BY <2>1
  <2>3. items[m][i].target # 0 => items[m][i].target \in 1 .. i - 1
    BY <2>1 DEF Shaped
  <2> QED BY <1>1, <2>1, <2>2, <2>3 DEF SameNames
<1>3. CASE items[m][i].target = 0
  <2>1. new = bound[i]
    BY <1>2, <1>3 DEF Written
  <2> QED BY <1>1, <1>3, <2>1
<1>4. CASE items[m][i].target # 0
  <2> DEFINE value == bound[items[m][i].target].addr
  <2>1. new = [bound[i] EXCEPT !.value = value]
    BY <1>2, <1>4 DEF Written
  <2>2. value \in Addresses
    BY <1>1, <1>2, <1>4 DEF ItemRecords
  <2> HIDE DEF value
  <2>3. bound[i] \in ItemRecords /\ SameNames(bound[i], items[m][i])
    BY <1>1
  <2>4. /\ new \in ItemRecords /\ SameNames(new, items[m][i])
        /\ new.addr = bound[i].addr /\ new.offset = bound[i].offset /\ new.ref = bound[i].ref
        /\ new.value = value
    BY <2>1, <2>2, <2>3 DEF ItemRecords, SameNames
  <2> QED BY <1>2, <2>4 DEF value
<1> QED BY <1>3, <1>4

LEMMA LinkStep ==
  ASSUME ItemInv, Link
  PROVE  ItemInv'
<1> DEFINE bound(m) == [i \in Positions(m) |-> Bound(m, items[m][i], WithExternals)]
           new(m) == [i \in Positions(m) |-> Written(bound(m), bound(m)[i])]
<1>1. /\ ListsInv /\ TypeOK /\ UNCHANGED <<current, table, failed>>
      /\ env' = WithExternals
      /\ items' = [m \in Modules |-> IF m \in ToLink THEN new(m) ELSE items[m]]
      /\ state' = [m \in Modules |-> IF m \in ToLink THEN "linked" ELSE state[m]]
  BY DEF ItemInv, ListsInv, Link
<1>2. ASSUME NEW m \in ToLink
      PROVE  /\ m \in Modules /\ state[m] = "loaded" /\ DOMAIN new(m) = Positions(m)
             /\ Positions(m) = 1 .. Len(items[m]) /\ Len(items[m]) \in Nat
             /\ new(m) \in Seq(ItemRecords) /\ Len(new(m)) = Len(items[m])
  <2>1. m \in Modules /\ state[m] = "loaded"
    BY DEF ToLink
  <2>2. Positions(m) = 1 .. Len(items[m]) /\ Len(items[m]) \in Nat
    BY <1>1, <2>1, ListFacts DEF Positions
  <2>3. \A i \in Positions(m) : Written(bound(m), bound(m)[i]) \in ItemRecords
    BY LinkedItem
  <2>4. new(m) \in [1 .. Len(items[m]) -> ItemRecords] /\ DOMAIN new(m) = Positions(m)
    BY <2>2, <2>3
  <2> HIDE DEF new
  <2> QED BY <2>1, <2>2, <2>4
<1>3. ASSUME NEW m \in ToLink, NEW i \in Positions(m)
      PROVE  /\ SameNames(new(m)[i], items[m][i])
             /\ new(m)[i].addr = bound(m)[i].addr /\ new(m)[i].offset = bound(m)[i].offset
             /\ new(m)[i].ref = bound(m)[i].ref
             /\ items[m][i].target # 0 =>
                  /\ items[m][i].target \in Positions(m)
                  /\ new(m)[i].value = bound(m)[items[m][i].target].addr
  <2>1. new(m)[i] = Written(bound(m), bound(m)[i])
    OBVIOUS
  <2> HIDE DEF new
  <2> QED BY <2>1, LinkedItem
<1>4. ASSUME NEW m \in ToLink, NEW i \in Positions(m)
      PROVE  /\ SameNames(bound(m)[i], items[m][i])
             /\ HasMemory(items[m][i]) => bound(m)[i] = items[m][i]
             /\ items[m][i].kind = "import" => bound(m)[i].addr = WithExternals[items[m][i].name].addr
             /\ \A j \in Positions(m) :
                  items[m][j].kind = "definition" /\ items[m][j].name = items[m][i].name =>
                    /\ items[m][i].kind \in Declarations => bound(m)[i].ref = <<m, j>>
                    /\ items[m][i].kind \in Declarations \cup {"definition"} =>
                         bound(m)[i].addr = <<m, j>>
  <2>1. bound(m)[i] = Bound(m, items[m][i], WithExternals)
    OBVIOUS
  <2> HIDE DEF bound
  <2> QED BY <2>1, BoundItem
<1> HIDE DEF bound, new
<1>5. items' \in [Modules -> Seq(ItemRecords)]
  BY <1>1, <1>2 DEF TypeOK
<1>6. ASSUME NEW m \in Modules
      PROVE  /\ m \in ToLink => items'[m] = new(m) /\ state'[m] = "linked"
             /\ m \notin ToLink => items'[m] = items[m] /\ state'[m] = state[m] /\ state[m] # "loaded"
  BY <1>1 DEF ToLink
<1>7. state' \in [Modules -> {"none", "open", "finished", "loaded", "linked"}]
  BY <1>1 DEF TypeOK
<1>8. ASSUME NEW m \in Modules
      PROVE  /\ Len(items'[m]) = Len(items[m])
             /\ \A i \in 1 .. Len(items[m]) : SameNames(items'[m][i], items[m][i])
  <2>1. CASE m \in ToLink
    BY <1>2, <1>3, <1>6, <2>1
  <2>2. CASE m \notin ToLink
    BY <1>6, <2>2 DEF SameNames
  <2> QED BY <2>1, <2>2
<1>9. \A m \in Modules : (state'[m] = "open" <=> state[m] = "open") /\ IsLoaded(m)' = IsLoaded(m)
  BY <1>6 DEF ToLink, IsLoaded
<1>10. ListsInv' /\ Keeps
  BY <1>1, <1>5, <1>7, <1>8, <1>9, ExternalsKnown, KeptLists
<1>11. StaysLoaded
  BY <1>9 DEF StaysLoaded
<1>12. \A addr, n : Meaning(addr, n) => Meaning(addr, n)'
  BY <1>10, <1>11, MeaningStays
<1>13. EnvMeaning'
  BY <1>1, <1>12, ExternalsKnown DEF EnvMeaning
<1>14. \A m \in Modules : DOMAIN items'[m] = DOMAIN items[m]
  BY <1>1, <1>5, <1>8, LenProperties DEF TypeOK
<1>15. ASSUME NEW m \in Modules, NEW i \in Positions(m)' PROVE Placed(m, i)'
  <2>1. i \in Positions(m)
    BY <1>14, <1>15 DEF Positions
  <2>2. CASE m \notin ToLink
    BY <1>1, <1>6, <1>9, <2>1, <2>2, PlacedStays DEF ItemInv
  <2>3. CASE m \in ToLink
    <3>1. i \in Nat \ {0} /\ \A j \in 1 .. i : j \in Positions(m)
      BY <1>2, <2>1, <2>3
    <3>2. SectionHead(m, i)' = SectionHead(m, i)
      BY <1>10, <3>1, HeadStays DEF Keeps
    <3>3. /\ HasMemory(items[m][i]) =>
               items'[m][i].addr = items[m][i].addr /\ items'[m][i].offset = items[m][i].offset
          /\ items'[m][i].kind = items[m][i].kind
      BY <1>3, <1>4, <1>6, <2>1, <2>3 DEF SameNames
    <3>4. Placed(m, i)
      BY <2>1 DEF ItemInv
    <3> QED BY <1>9, <3>2, <3>3, <3>4 DEF Placed, HasMemory
  <2> QED BY <2>2, <2>3
<1>16. ASSUME NEW m \in ToLink PROVE Bindings(m)'
  <2>1. m \in Modules /\ items'[m] = new(m) /\ Positions(m)' = Positions(m)
    BY <1>2, <1>6 DEF Positions
  <2>2. ASSUME NEW i \in Positions(m), items'[m][i].kind = "import"
        PROVE  env'[items'[m][i].name] # Null /\ Meaning(items'[m][i].addr, items'[m][i].name)
    <3>1. /\ items[m][i].kind = "import" /\ items'[m][i].name = items[m][i].name
          /\ items'[m][i].addr = WithExternals[items[m][i].name].addr
      BY <1>3, <1>4, <2>1, <2>2 DEF SameNames
    <3>2. items[m][i].name \in Names
      BY <1>1, <2>1, <3>1, ImportNames
    <3> QED BY <1>1, <3>1, <3>2, ExternalsKnown
  <2>3. ASSUME NEW i \in Positions(m), NEW j \in Positions(m),
               items'[m][i].kind \in Declarations, items'[m][j].kind = "definition",
               items'[m][i].name = items'[m][j].name
        PROVE  items'[m][i].ref = <<m, j>> /\ items'[m][i].addr = <<m, j>>
    BY <1>3, <1>4, <2>1, <2>3 DEF SameNames
  <2>4. ASSUME NEW i \in Positions(m), NEW j \in Positions(m),
               items'[m][i].target # 0,
               items'[m][items'[m][i].target].name = items'[m][j].name
        PROVE  /\ items'[m][j].kind = "definition" => items'[m][i].value = <<m, j>>
               /\ items'[m][j].kind = "import" => Meaning(items'[m][i].value, items'[m][j].name)
    <3> DEFINE t == items[m][i].target
    <3>1. /\ items'[m][i].target = t /\ t # 0 /\ t \in Positions(m)
          /\ items'[m][i].value = bound(m)[t].addr
      BY <1>3, <2>1, <2>4 DEF SameNames
    <3>2. items[m][t].name = items[m][j].name /\ items[m][t].kind \in Named
          /\ items'[m][j].kind = items[m][j].kind /\ items'[m][j].name = items[m][j].name
      BY <1>1, <1>3, <2>1, <2>4, <3>1 DEF SameNames, ListsInv, Shaped
    <3> HIDE DEF t
    <3>3. items[m][j].name \in Names
      BY <1>1, <2>1, <3>1, <3>2 DEF ListsInv, Shaped
    <3>4. Led(items[m], table[m][items[m][j].name], items[m][j].name)
      BY <1>1, <2>1, <3>3 DEF ListsInv
    <3>5. items[m][j].kind = "definition" => items[m][t].kind # "import"
      BY <3>1, <3>2, <3>4 DEF Led, StandsFor, Positions
    <3>6. items[m][j].kind = "import" => t = j
      BY <3>1, <3>2, <3>4 DEF Led, StandsFor, Positions
    <3>7. ASSUME items[m][j].kind = "definition" PROVE bound(m)[t].addr = <<m, j>>
      <4>1. items[m][t].kind \in Declarations \cup {"definition"}
        BY <3>2, <3>5, <3>7 DEF Named, Declarations
      <4> QED BY <1>4, <3>1, <3>2, <3>7, <4>1
    <3>8. ASSUME items[m][j].kind = "import" PROVE Meaning(bound(m)[t].addr, items[m][j].name)
      <4>1. bound(m)[t].addr = WithExternals[items[m][j].name].addr
        BY <1>4, <3>6, <3>8
      <4> QED BY <3>3, <3>8, <4>1, ExternalsKnown
    <3> QED BY <3>1, <3>2, <3>7, <3>8
  <2>5. ASSUME NEW i \in Positions(m), items'[m][i].kind = "import"
        PROVE  env'[items'[m][i].name] # Null /\ Meaning(items[m][i].addr, items[m][i].name)'
    BY <1>12, <2>2, <2>5
  <2>6. ASSUME NEW i \in Positions(m), NEW j \in Positions(m),
               items'[m][i].target # 0,
               items'[m][items'[m][i].target].name = items'[m][j].name,
               items'[m][j].kind = "import"
        PROVE  Meaning(items[m][i].value, items[m][j].name)'
    BY <1>12, <2>4, <2>6
  <2> QED BY <2>1, <2>3, <2>4, <2>5, <2>6 DEF Bindings
<1>17. ASSUME NEW m \in Modules, state'[m] = "linked" PROVE Bindings(m)'
  <2>1. CASE m \in ToLink
    BY <1>16, <2>1
  <2>2. CASE m \notin ToLink
    <3>1. state[m] = "linked" /\ items'[m] = items[m]
      BY <1>6, <1>17, <2>2
    <3> QED BY <1>1, <1>10, <1>11, <3>1, ExternalsKnown, BindingsStay, ImportNames DEF ItemInv
  <2> QED BY <2>1, <2>2
<1> QED BY <1>10, <1>13, <1>15, <1>17 DEF ItemInv

(* The environment knows what a linked module imports, so the interpreter finds   *)
(* an address there.                                                           *)
LEMMA InterpretStep ==
  ASSUME ItemInv, NEW m \in Modules, NEW k \in 1 .. MaxItems, Interpret(m, k)
  PROVE  ItemInv'
<1> DEFINE name == items[m][k].name
           new == [items[m][k] EXCEPT !.addr = env[name].addr]
<1>1. /\ ListsInv /\ TypeOK /\ UNCHANGED <<current, state, table, env, failed>>
      /\ state[m] = "linked" /\ k \in Positions(m) /\ items[m][k].kind = "import"
      /\ Positions(m) = 1 .. Len(items[m]) /\ items[m][k] \in ItemRecords
  BY ListFacts DEF ItemInv, ListsInv, Interpret, Positions
<1>2. name \in Names /\ env[name] # Null /\ Meaning(env[name].addr, name)
  BY <1>1, ImportNames DEF ItemInv, Bindings, EnvMeaning
<1>3. env[name].addr \in Addresses
  BY <1>1, <1>2 DEF TypeOK, EnvEntries
<1>4. /\ new \in ItemRecords /\ SameNames(new, items[m][k])
      /\ new.addr = env[name].addr /\ new.value = items[m][k].value
  BY <1>1, <1>3 DEF ItemRecords, SameNames
<1>5. items' = [items EXCEPT ![m] = [items[m] EXCEPT ![k] = new]]
  BY DEF Interpret
<1> HIDE DEF new
<1>6. /\ items' \in [Modules -> Seq(ItemRecords)]
      /\ \A x \in Modules \ {m} : items'[x] = items[x]
      /\ Len(items'[m]) = Len(items[m]) /\ items'[m][k] = new
      /\ \A i \in 1 .. Len(items[m]) : i # k => items'[m][i] = items[m][i]
  <2>1. items[m] \in Seq(ItemRecords) /\ k \in 1 .. Len(items[m])
    BY <1>1 DEF TypeOK
  <2>2. /\ [items[m] EXCEPT ![k] = new] \in Seq(ItemRecords)
        /\ Len([items[m] EXCEPT ![k] = new]) = Len(items[m])
        /\ \A i \in 1 .. Len(items[m]) :
             [items[m] EXCEPT ![k] = new][i] = IF i = k THEN new ELSE items[m][i]
    BY <1>4, <2>1, ExceptSeq
  <2> QED BY <1>1, <1>5, <2>1, <2>2 DEF TypeOK
<1>7. ASSUME NEW x \in Modules
      PROVE  /\ Len(items'[x]) = Len(items[x])
             /\ \A i \in 1 .. Len(items[x]) : SameNames(items'[x][i], items[x][i])
  BY <1>4, <1>6 DEF SameNames
<1>8. ListsInv' /\ Keeps
  BY <1>1, <1>6, <1>7, KeptLists DEF TypeOK
<1>9. StaysLoaded /\ \A x \in Modules : IsLoaded(x)' = IsLoaded(x)
  BY <1>1 DEF StaysLoaded, IsLoaded
<1>10. \A addr, n : Meaning(addr, n) => Meaning(addr, n)'
  BY <1>8, <1>9, MeaningStays
<1>11. EnvMeaning'
  BY <1>1, <1>10 DEF ItemInv, EnvMeaning
<1>12. \A x \in Modules : DOMAIN items'[x] = DOMAIN items[x]
  BY <1>1, <1>6, <1>7, LenProperties DEF TypeOK
<1>13. ASSUME NEW x \in Modules, NEW i \in Positions(x)' PROVE Placed(x, i)'
  <2>1. i \in Positions(x)
    BY <1>12, <1>13 DEF Positions
  <2>2. CASE x # m
    BY <1>1, <1>6, <1>9, <2>1, <2>2, PlacedStays DEF ItemInv
  <2>3. CASE x = m
    <3>1. i \in Nat \ {0} /\ \A j \in 1 .. i : j \in Positions(m)
      BY <1>1, <2>1, <2>3, ListFacts
    <3>2. SectionHead(m, i)' = SectionHead(m, i)
      BY <1>8, <3>1, HeadStays DEF Keeps
    <3>3. i = k \/ items'[m][i] = items[m][i]
      BY <1>1, <1>6, <2>1, <2>3
    <3>4. i = k => ~HasMemory(items'[m][i])
      BY <1>1, <1>4, <1>6 DEF HasMemory, SameNames
    <3>5. Placed(m, i)
      BY <2>1, <2>3 DEF ItemInv
    <3> QED BY <1>9, <2>3, <3>2, <3>3, <3>4, <3>5 DEF Placed, HasMemory
  <2> QED BY <2>2, <2>3
<1>14. Bindings(m)'
  <2>1. Bindings(m) /\ Positions(m)' = Positions(m)
    BY <1>1, <1>12 DEF ItemInv, Positions
  <2>2. ASSUME NEW i \in Positions(m)
        PROVE  /\ SameNames(items'[m][i], items[m][i]) /\ items'[m][i].value = items[m][i].value
               /\ i # k => items'[m][i] = items[m][i]
    BY <1>1, <1>4, <1>6, <1>7
  <2>3. ASSUME NEW i \in Positions(m), items'[m][i].kind = "import"
        PROVE  env'[items'[m][i].name] # Null /\ Meaning(items[m][i].addr, items[m][i].name)'
    <3>1. /\ items[m][i].kind = "import" /\ items'[m][i].name = items[m][i].name
          /\ env[items[m][i].name] # Null /\ Meaning(items[m][i].addr, items[m][i].name)
      BY <2>1, <2>2, <2>3 DEF Bindings, SameNames
    <3>2. Meaning(items'[m][i].addr, items'[m][i].name)
      BY <1>2, <1>4, <1>6, <2>2, <3>1
    <3> QED BY <1>1, <1>10, <3>1, <3>2
  <2>4. ASSUME NEW i \in Positions(m), NEW j \in Positions(m),
               items'[m][i].kind \in Declarations, items'[m][j].kind = "definition",
               items'[m][i].name = items'[m][j].name
        PROVE  items'[m][i].ref = <<m, j>> /\ items'[m][i].addr = <<m, j>>
    <3>1. i # k
      BY <1>1, <2>2, <2>4 DEF SameNames, Declarations
    <3> QED BY <2>1, <2>2, <2>4, <3>1 DEF Bindings, SameNames
  <2>5. ASSUME NEW i \in Positions(m), NEW j \in Positions(m),
               items'[m][i].target # 0,
               items'[m][items'[m][i].target].name = items'[m][j].name
        PROVE  /\ items'[m][j].kind = "definition" => items'[m][i].value = <<m, j>>
               /\ items'[m][j].kind = "import" => Meaning(items[m][i].value, items[m][j].name)'
    <3>1. Shaped(items[m], i) /\ i \in 1 .. Len(items[m]) /\ Len(items[m]) \in Nat
      BY <1>1, ListFacts DEF ListsInv
    <3>2. items[m][i].target = items'[m][i].target /\ items[m][i].target \in Positions(m)
      <4>1. items[m][i].target = items'[m][i].target
        BY <2>2 DEF SameNames
      <4>2. items[m][i].target \in 1 .. i - 1
        BY <2>5, <3>1, <4>1 DEF Shaped
      <4> QED BY <1>1, <3>1, <4>1, <4>2
    <3>3. items[m][items[m][i].target].name = items[m][j].name
      BY <2>2, <2>5, <3>2 DEF SameNames
    <3>4. /\ items[m][j].kind = "definition" => items[m][i].value = <<m, j>>
          /\ items[m][j].kind = "import" => Meaning(items[m][i].value, items[m][j].name)
      BY <2>1, <2>5, <3>2, <3>3 DEF Bindings
    <3> QED BY <1>10, <2>2, <3>4 DEF SameNames
  <2> QED BY <2>1, <2>3, <2>4, <2>5 DEF Bindings
<1>15. ASSUME NEW x \in Modules, state'[x] = "linked" PROVE Bindings(x)'
  <2>1. CASE x = m
    BY <1>14, <2>1
  <2>2. CASE x # m
    BY <1>1, <1>6, <1>8, <1>9, <1>15, <2>2, BindingsStay, ImportNames DEF ItemInv
  <2> QED BY <2>1, <2>2
<1> QED BY <1>8, <1>11, <1>13, <1>15 DEF ItemInv

------------------------------------------------------------------------------
LEMMA ItemInit ==
  ASSUME Init
  PROVE  ItemInv
<1>1. TypeOK
  <2>1. MaxItems \in Nat /\ 0 \in 0 .. MaxItems
    BY ItemAssumption
  <2>2. items \in [Modules -> Seq(ItemRecords)]
    BY DEF Init
  <2>3. \A m \in Modules : Len(items[m]) = 0
    BY DEF Init
  <2>4. table \in [Modules -> [Names -> 0 .. MaxItems]]
        /\ \A m \in Modules : \A n \in Names : table[m][n] <= Len(items[m])
    BY <2>1, <2>3 DEF Init
  <2>5. current \in Modules \cup {Nobody} /\ failed \in BOOLEAN
        /\ state \in [Modules -> {"none", "open", "finished", "loaded", "linked"}]
        /\ env \in [Names -> {Null} \cup EnvEntries]
    BY DEF Init
  <2> QED BY <2>1, <2>2, <2>3, <2>4, <2>5 DEF TypeOK
<1>2. \A m \in Modules : Positions(m) = {}
  BY DEF Init, Positions
<1>3. OneOpen
  BY ItemAssumption DEF Init, OneOpen
<1>4. \A m \in Modules : \A n \in Names : Led(items[m], table[m][n], n)
  BY DEF Init, Led
<1>5. EnvMeaning /\ \A m \in Modules : state[m] # "linked"
  BY DEF Init, EnvMeaning
<1> QED BY <1>1, <1>2, <1>3, <1>4, <1>5 DEF ItemInv, ListsInv

LEMMA ItemNext ==
  ASSUME ItemInv, [Next]_vars
  PROVE  ItemInv'
<1>1. ASSUME UNCHANGED <<current, state, items, table, env>>, failed' \in BOOLEAN
      PROVE  ItemInv'
  <2>1. TypeOK' /\ OneOpen'
    BY <1>1 DEF ItemInv, ListsInv, TypeOK, OneOpen
  <2>2. \A m \in Modules : IsLoaded(m)' = IsLoaded(m)
    BY <1>1 DEF IsLoaded
  <2> QED BY <1>1, <2>1, <2>2, SameItemsStep
<1>2. CASE UNCHANGED vars
  BY <1>1, <1>2 DEF vars, ItemInv, ListsInv, TypeOK
<1>3. CASE Over
  BY <1>2, <1>3 DEF Over
<1>4. CASE LinkFails
  BY <1>1, <1>4 DEF LinkFails
<1> QED BY <1>2, <1>3, <1>4, NewModuleStep, LoadStep, MakingStep, FinishModuleStep,
          LoadExternalStep, LinkStep, InterpretStep DEF Next

(* The invariant of the item tables, for any modules and names and any number of *)
(* items.                                                                       *)
THEOREM ItemInvariant == Spec => []ItemInv
BY ItemInit, ItemNext, PTL DEF Spec

(* The tables and items are well-typed; in particular no step takes an address    *)
(* from an entry that the environment does not have.                             *)
THEOREM TypeCorrect == Spec => []TypeOK
<1>1. ItemInv => TypeOK
  BY DEF ItemInv, ListsInv
<1> QED BY <1>1, ItemInvariant, PTL

(* Whatever the order of declarations and definitions, the table leads to the      *)
(* definition of a name, or else to its export, or else to its forward.            *)
THEOREM DefinitionsFound == Spec => []TableLeadsToDefinition
<1>1. ASSUME ItemInv, NEW m \in Modules, NEW n \in Names
      PROVE  LET i == table[m][n]
             IN /\ i = 0 <=> \A kind \in Kinds : ~Has(m, kind, n)
                /\ i # 0 => /\ i \in Positions(m) /\ items[m][i].name = n
                            /\ items[m][i].kind = IF Has(m, "definition", n) THEN "definition"
                                          ELSE IF Has(m, "import", n) THEN "import"
                                          ELSE IF Has(m, "export", n) THEN "export"
                                          ELSE "forward"
                /\ \A j \in Positions(m) :
                     items[m][j].name = n /\ items[m][j].kind \in {"definition", "import"} => j = i
  <2> DEFINE i == table[m][n]
  <2>1. Led(items[m], i, n)
    BY <1>1 DEF ItemInv, ListsInv
  <2>2. \A j \in Positions(m) : items[m][j].kind \in Kinds
    BY <1>1, ListFacts DEF ItemInv, ListsInv, Positions, ItemRecords
  <2> HIDE DEF i
  <2>3. CASE i = 0
    <3>1. \A kind \in Kinds : ~Has(m, kind, n)
      BY <2>1, <2>3 DEF Led, Has, Positions
    <3> QED BY <2>1, <2>3, <3>1 DEF Led, Positions, i
  <2>4. CASE i # 0
    <3>1. i \in Positions(m) /\ StandsFor(items[m], i, n)
      BY <2>1, <2>4 DEF Led, Positions
    <3>2. items[m][i].kind \in Kinds /\ Has(m, items[m][i].kind, n)
      BY <2>2, <3>1 DEF StandsFor, Has
    <3>3. \A j \in Positions(m) :
            items[m][j].name = n /\ items[m][j].kind \in {"definition", "import"} => j = i
      BY <3>1 DEF StandsFor, Positions
    <3>4. Has(m, "definition", n) => items[m][i].kind = "definition"
      BY <3>3 DEF Has
    <3>5. Has(m, "import", n) => items[m][i].kind = "import"
      BY <3>3 DEF Has
    <3>6. Has(m, "export", n) => items[m][i].kind \in {"definition", "export"}
      BY <3>1 DEF Has, StandsFor, Positions
    <3>7. items[m][i].kind \in {"definition", "import", "export", "forward"}
      BY <3>1 DEF StandsFor, Named
    <3> DEFINE kind == IF Has(m, "definition", n) THEN "definition"
                       ELSE IF Has(m, "import", n) THEN "import"
                       ELSE IF Has(m, "export", n) THEN "export"
                       ELSE "forward"
    <3>8. items[m][i].kind = kind
      <4>1. CASE items[m][i].kind = "definition"
        BY <3>2, <3>5, <4>1
      <4>2. CASE items[m][i].kind = "import"
        BY <3>2, <3>4, <3>6, <4>2
      <4>3. CASE items[m][i].kind = "export"
        BY <3>2, <3>4, <3>5, <4>3
      <4>4. CASE items[m][i].kind = "forward"
        BY <3>4, <3>5, <3>6, <4>4
      <4> QED BY <3>7, <4>1, <4>2, <4>3, <4>4
    <3>9. items[m][i].name = n /\ ~ \A k \in Kinds : ~Has(m, k, n)
      BY <3>1, <3>2 DEF StandsFor
    <3> HIDE DEF kind
    <3> QED BY <2>4, <3>1, <3>3, <3>8, <3>9 DEF i, kind
  <2> QED BY <2>3, <2>4
<1>2. ItemInv => TableLeadsToDefinition
  BY <1>1 DEF TableLeadsToDefinition
<1> QED BY <1>2, ItemInvariant, PTL

(* An export reaches the definition, before or behind it.                       *)
THEOREM ExportsReach == Spec => []ExportedWherever
<1>1. ASSUME ItemInv, NEW m \in Modules, NEW i \in Positions(m), items[m][i].kind = "definition"
      PROVE  items[m][i].exported <=> Has(m, "export", items[m][i].name)
  <2>1. items[m][i].name \in Names
    BY <1>1 DEF ItemInv, ListsInv, Shaped, Named
  <2>2. Led(items[m], table[m][items[m][i].name], items[m][i].name)
    BY <1>1, <2>1 DEF ItemInv, ListsInv
  <2> QED BY <1>1, <2>2 DEF Led, StandsFor, Exports, Has, Positions
<1>2. ItemInv => ExportedWherever
  BY <1>1 DEF ExportedWherever
<1> QED BY <1>2, ItemInvariant, PTL

(* The link gives the declarations of a defined name the address of the definition. *)
THEOREM DeclarationsLinked == Spec => []DeclarationsBound
<1>1. ItemInv => DeclarationsBound
  BY DEF ItemInv, Bindings, DeclarationsBound
<1> QED BY <1>1, ItemInvariant, PTL

(* ... imports that of an exported definition or of an external, for good.        *)
THEOREM ImportsLinked == Spec => []ImportsBound
<1>1. ItemInv => ImportsBound
  BY DEF ItemInv, Bindings, ImportsBound, Meaning
<1> QED BY <1>1, ItemInvariant, PTL

(* ... and reference data that of the definition their name has by then.         *)
THEOREM ReferencesLinked == Spec => []ReferencesBound
<1>1. ItemInv => ReferencesBound
  BY DEF ItemInv, Bindings, ReferencesBound, Meaning
<1> QED BY <1>1, ItemInvariant, PTL

(* The items of a section lie one behind the other and share their places with    *)
(* nothing.                                                                     *)
THEOREM SectionsTogether == Spec => []SectionsAdjacent
<1>1. ASSUME ItemInv, NEW m \in Modules, state[m] \in {"loaded", "linked"},
             NEW i \in Positions(m) \ {1}, items[m][i].kind = "anonymous"
      PROVE  LET before == items[m][i - 1]
             IN /\ IsMemory(before) =>
                     items[m][i].addr = before.addr /\ items[m][i].offset = before.offset + 1
                /\ \A j \in 1 .. i - 1 : IsMemory(items[m][j]) =>
                     <<items[m][j].addr, items[m][j].offset>> # <<items[m][i].addr, items[m][i].offset>>
                /\ ~IsMemory(before) => items[m][i].offset = 0
  <2>1. /\ i \in Nat \ {0, 1} /\ i - 1 \in Nat \ {0}
        /\ \A j \in 1 .. i : j \in Positions(m)
    BY <1>1, ListFacts DEF ItemInv, ListsInv, Positions
  <2>2. ASSUME NEW j \in 1 .. i, IsMemory(items[m][j])
        PROVE  /\ items[m][j].addr = <<m, SectionHead(m, j)>>
               /\ items[m][j].offset = j - SectionHead(m, j)
               /\ SectionHead(m, j) \in 1 .. j
    <3>1. Placed(m, j) /\ HasMemory(items[m][j])
      BY <1>1, <2>1, <2>2 DEF ItemInv, IsMemory, HasMemory
    <3> QED BY <1>1, <2>1, <3>1, HeadOfSection DEF Placed, IsLoaded
  <2>3. IsMemory(items[m][i])
    BY <1>1 DEF IsMemory
  <2>4. /\ items[m][i].addr = <<m, SectionHead(m, i)>>
        /\ items[m][i].offset = i - SectionHead(m, i) /\ SectionHead(m, i) \in 1 .. i
    BY <2>1, <2>2, <2>3
  <2>5. ASSUME IsMemory(items[m][i - 1])
        PROVE  /\ items[m][i].addr = items[m][i - 1].addr
               /\ items[m][i].offset = items[m][i - 1].offset + 1
    <3>1. SectionHead(m, i) = SectionHead(m, i - 1)
      BY <1>1, <2>1, <2>5, HeadOfNext DEF Begins
    <3>2. /\ items[m][i - 1].addr = <<m, SectionHead(m, i - 1)>>
          /\ items[m][i - 1].offset = (i - 1) - SectionHead(m, i - 1)
      BY <2>1, <2>2, <2>5
    <3> QED BY <2>1, <2>4, <3>1, <3>2
  <2>6. ASSUME NEW j \in 1 .. i - 1, IsMemory(items[m][j])
        PROVE  <<items[m][j].addr, items[m][j].offset>> # <<items[m][i].addr, items[m][i].offset>>
    <3>1. j \in 1 .. i /\ j # i
      BY <2>1
    <3>2. /\ items[m][j].addr = <<m, SectionHead(m, j)>>
          /\ items[m][j].offset = j - SectionHead(m, j) /\ SectionHead(m, j) \in 1 .. j
      BY <2>2, <2>6, <3>1
    <3> QED BY <2>1, <2>4, <3>1, <3>2
  <2>7. ASSUME ~IsMemory(items[m][i - 1]) PROVE items[m][i].offset = 0
    <3>1. SectionHead(m, i) = i
      BY <2>1, <2>7, HeadOfDefinition DEF Begins
    <3> QED BY <2>1, <2>4, <3>1
  <2> QED BY <2>5, <2>6, <2>7
<1>2. ItemInv => SectionsAdjacent
  BY <1>1 DEF SectionsAdjacent
<1> QED BY <1>2, ItemInvariant, PTL

==============================================================================
