------------------------- MODULE MacroExpansion_proofs -------------------------
(****************************************************************************)
(* For all macros and texts: the marks in the text and the calls on the stack   *)
(* fit together, in whatever way calls are nested in replacements and arguments  *)
(* and end behind them.                                                        *)
(****************************************************************************)
EXTENDS MacroExpansion, FiniteSetTheorems, FunctionTheorems, SequenceTheorems,
        WellFoundedInduction, TLAPS

------------------------------------------------------------------------------
(* The operators on sequences. *)

(* The least number of a set. *)
LEMMA LeastNumber ==
  ASSUME NEW i \in Nat, NEW T \in SUBSET (0 .. i), T # {}
  PROVE  \E n \in T : \A m \in T : n <= m
<1> DEFINE Starts == {0 .. n : n \in T}
<1>1. IsFiniteSet(0 .. i)
  BY FS_Interval
<1>2. IsWellFoundedOn(StrictSubsetOrdering(0 .. i), FiniteSubsetsOf(0 .. i))
  BY <1>1, FS_StrictSubsetOrderingWellFounded
<1>3. Starts \subseteq FiniteSubsetsOf(0 .. i)
  <2>1. Starts \subseteq SUBSET (0 .. i)
    OBVIOUS
  <2> QED BY <2>1, <1>1, FS_FiniteSubsetsOfFinite
<1>4. Starts # {}
  OBVIOUS
<1>5. PICK least \in Starts : \A e \in Starts : ~ (<<e, least>> \in StrictSubsetOrdering(0 .. i))
  BY <1>2, <1>3, <1>4, WFMin
<1>6. PICK n \in T : least = 0 .. n
  BY <1>5
<1>7. ASSUME NEW m \in T, m < n PROVE FALSE
  <2>1. 0 .. m \in Starts /\ 0 .. m \subseteq 0 .. i /\ 0 .. n \subseteq 0 .. i
    OBVIOUS
  <2>2. n \in 0 .. n /\ n \notin 0 .. m /\ 0 .. m \subseteq 0 .. n
    BY <1>7
  <2>3. <<0 .. m, 0 .. n>> \in StrictSubsetOrdering(0 .. i)
    BY <2>1, <2>2 DEF StrictSubsetOrdering
  <2> QED BY <2>1, <2>3, <1>5, <1>6
<1>8. n \in T /\ \A m \in T : n <= m
  BY <1>7
<1> QED BY <1>8

(* The greatest number of a set. *)
LEMMA GreatestNumber ==
  ASSUME NEW i \in Nat, NEW T \in SUBSET (0 .. i), T # {}
  PROVE  Max(T) \in T /\ \A m \in T : m <= Max(T)
<1> DEFINE U == {i - n : n \in T}
<1>1. U \in SUBSET (0 .. i) /\ U # {}
  <2>1. ASSUME NEW n \in T PROVE i - n \in 0 .. i
    <3>1. n \in 0 .. i
      OBVIOUS
    <3> QED BY <3>1
  <2> QED BY <2>1
<1>2. PICK u \in U : \A m \in U : u <= m
  BY <1>1, LeastNumber
<1>3. PICK n \in T : u = i - n
  BY <1>2
<1>4. ASSUME NEW m \in T PROVE n >= m
  <2>1. i - m \in U
    OBVIOUS
  <2>2. i - n <= i - m
    BY <1>2, <1>3, <2>1
  <2> QED BY <2>2
<1>5. \E x \in T : \A y \in T : x >= y
  BY <1>4
<1>6. Max(T) \in T /\ \A y \in T : Max(T) >= y
  BY <1>5 DEF Max
<1> QED BY <1>6

(* FlattenSeq: the recursive definition has a solution up to any length. *)
Joins(n, seqs, f) == f = [i \in 1 .. n |-> IF i = 1 THEN seqs[i] ELSE f[i - 1] \o seqs[i]]

LEMMA LongerJoins ==
  ASSUME NEW n \in Nat, NEW seqs, NEW f, Joins(n, seqs, f)
  PROVE  \E g : Joins(n + 1, seqs, g)
<1> DEFINE last == IF n = 0 THEN seqs[1] ELSE f[n] \o seqs[n + 1]
           g == [i \in 1 .. n + 1 |-> IF i = n + 1 THEN last ELSE f[i]]
<1>1. \A i \in 1 .. n : g[i] = f[i]
  OBVIOUS
<1>2. \A i \in 1 .. n : f[i] = IF i = 1 THEN seqs[i] ELSE f[i - 1] \o seqs[i]
  BY DEF Joins
<1>3. ASSUME NEW i \in 1 .. n + 1 PROVE g[i] = IF i = 1 THEN seqs[i] ELSE g[i - 1] \o seqs[i]
  <2>1. ASSUME i = n + 1 PROVE g[i] = IF i = 1 THEN seqs[i] ELSE g[i - 1] \o seqs[i]
    <3>1. g[i] = last
      BY <2>1
    <3>2. ASSUME i = 1 PROVE last = seqs[i]
      BY <2>1, <3>2
    <3>3. ASSUME i # 1 PROVE last = g[i - 1] \o seqs[i]
      <4>1. i - 1 = n /\ n \in 1 .. n /\ n # 0 /\ i = n + 1
        BY <2>1, <3>3
      <4>2. g[n] = f[n]
        BY <4>1, <1>1
      <4> QED BY <4>1, <4>2
    <3> QED BY <3>1, <3>2, <3>3
  <2>2. ASSUME i # n + 1 PROVE g[i] = IF i = 1 THEN seqs[i] ELSE g[i - 1] \o seqs[i]
    <3>1. i \in 1 .. n /\ (i # 1 => i - 1 \in 1 .. n)
      BY <2>2
    <3> HIDE DEF g
    <3> QED BY <1>1, <1>2, <3>1
  <2> QED BY <2>1, <2>2
<1>4. g = [i \in 1 .. n + 1 |-> g[i]]
  OBVIOUS
<1> HIDE DEF g
<1>5. g = [i \in 1 .. n + 1 |-> IF i = 1 THEN seqs[i] ELSE g[i - 1] \o seqs[i]]
  BY <1>3, <1>4
<1> QED BY <1>5 DEF Joins

LEMMA AllJoins ==
  ASSUME NEW n \in Nat, NEW seqs
  PROVE  \E f : Joins(n, seqs, f)
<1> DEFINE T == {k \in 0 .. n : ~ \E f : Joins(k, seqs, f)}
<1>1. SUFFICES ASSUME T # {} PROVE FALSE
  OBVIOUS
<1>2. PICK k \in T : \A j \in T : k <= j
  BY <1>1, LeastNumber
<1>3. Joins(0, seqs, <<>>)
  BY DEF Joins
<1>4. k # 0
  BY <1>2, <1>3
<1>5. k - 1 \in 0 .. n /\ k - 1 \notin T /\ k - 1 \in Nat /\ (k - 1) + 1 = k
  BY <1>2, <1>4
<1>6. PICK f : Joins(k - 1, seqs, f)
  BY <1>5
<1>7. \E g : Joins(k, seqs, g)
  BY <1>5, <1>6, LongerJoins
<1> QED BY <1>2, <1>7

LEMMA FlattenType ==
  ASSUME NEW S, NEW seqs \in Seq(Seq(S))
  PROVE  FlattenSeq(seqs) \in Seq(S)
<1> DEFINE n == Len(seqs)
           f == CHOOSE f : Joins(n, seqs, f)
<1>1. CASE n = 0
  <2>1. FlattenSeq(seqs) = seqs /\ seqs = <<>>
    BY <1>1 DEF FlattenSeq
  <2> QED BY <2>1
<1>2. CASE n # 0
  <2>1. n \in Nat /\ n \in 1 .. n
    BY <1>2
  <2>2. FlattenSeq(seqs) = f[n]
    BY <1>2 DEF FlattenSeq, Joins
  <2>3. Joins(n, seqs, f)
    BY <2>1, AllJoins
  <2> HIDE DEF f
  <2>4. \A i \in 1 .. n : f[i] = IF i = 1 THEN seqs[i] ELSE f[i - 1] \o seqs[i]
    BY <2>3 DEF Joins
  <2> DEFINE T == {i \in 1 .. n : f[i] \notin Seq(S)}
  <2>5. T = {}
    <3>1. SUFFICES ASSUME T # {} PROVE FALSE
      OBVIOUS
    <3>2. T \in SUBSET (0 .. n)
      BY <2>1
    <3>3. PICK k \in T : \A j \in T : k <= j
      BY <2>1, <3>1, <3>2, LeastNumber
    <3>4. k \in 1 .. n /\ seqs[k] \in Seq(S)
      BY <3>3
    <3>5. k # 1
      BY <3>3, <3>4, <2>4
    <3>6. k - 1 \in 1 .. n /\ k - 1 \notin T
      BY <3>3, <3>4, <3>5
    <3>7. f[k - 1] \in Seq(S) /\ f[k] = f[k - 1] \o seqs[k]
      BY <3>4, <3>5, <3>6, <2>4
    <3>8. f[k - 1] \o seqs[k] \in Seq(S)
      BY <3>4, <3>7, ConcatProperties
    <3> QED BY <3>3, <3>7, <3>8
  <2> QED BY <2>1, <2>2, <2>5
<1> QED BY <1>1, <1>2

LEMMA AtType ==
  ASSUME NEW S, NEW R, NEW s \in Seq(R), NEW places, \A i \in places : s[i] \in S
  PROVE  At(s, places) \in Seq(S)
<1> DEFINE seqs == [i \in DOMAIN s |-> IF i \in places THEN <<s[i]>> ELSE <<>>]
<1>1. \A i \in 1 .. Len(s) : (IF i \in places THEN <<s[i]>> ELSE <<>>) \in Seq(S)
  OBVIOUS
<1>2. Len(s) \in Nat /\ DOMAIN s = 1 .. Len(s)
  OBVIOUS
<1>3. seqs \in Seq(Seq(S))
  BY <1>1, <1>2
<1> HIDE DEF seqs
<1>4. FlattenSeq(seqs) \in Seq(S)
  BY <1>3, FlattenType
<1> QED BY <1>4 DEF At, seqs

------------------------------------------------------------------------------
(* What holds of the text, the stack and the flags before the first error. *)

Ending == {EOR, EOA}
TextTokens == PlainTokens \cup {EOR, BOA, EOA, EOU}

(* All steps change the text at its beginning. So its tokens are numbered from the  *)
(* end: token e of s, and how many of the first e are in T.                        *)
From(s, e) == s[Len(s) + 1 - e]
Number(T, s, e) == Cardinality({i \in 1 .. e : From(s, i) \in T})

(* A text as the preprocessor sees it: one EOU, at its end, and no EOA without the    *)
(* BOA of the same argument before it or in the buffer.                             *)
Shaped(s) ==
  /\ s \in Seq(TextTokens) /\ s # <<>>
  /\ \A e \in 1 .. Len(s) : From(s, e) = EOU <=> e = 1
  /\ \A e \in 0 .. Len(s) : Number({BOA}, s, e) <= Number({EOA}, s, e)

(* The marks among the first n tokens end the first m calls of c, the last mark the  *)
(* first call; g are the macros whose replacement is open. None of them is called     *)
(* again before it ends.                                                             *)
Opens(s, c, e) == c[Number(Ending, s, e)].macro
Replacements(s, n) == {e \in 1 .. n : From(s, e) = EOR}

Mirror(s, n, c, m, g) ==
  /\ m = Number(Ending, s, n) /\ m <= Len(c)
  /\ g = {Opens(s, c, e) : e \in Replacements(s, n)}
  /\ \A e \in Replacements(s, n), j \in 1 .. m :
       Number(Ending, s, e) < j => c[j].macro # Opens(s, c, e)

(* The text, the stack and the flags. *)
Fits(s, c, g) == Shaped(s) /\ Mirror(s, Len(s), c, Len(c), g)

All(T, s) == Number(T, s, Len(s))

(* What has been read of a call. *)
Calls ==
  {c \in [macro : DOMAIN macros, args : Seq(Seq(PlainTokens)), pos : Nat, repl : Seq(PlainTokens),
           back : BOOLEAN] :
     /\ Len(c.args) = Len(macros[c.macro].params)
     /\ c.pos <= Len(macros[c.macro].body)}

MirrorInv ==
  /\ program \in Programs
  /\ stack \in Seq(Calls)
  /\ Fits(text, stack, ignored)
  /\ buffer \in Seq(PlainTokens \cup {BOA})
  /\ All({EOA}, text) = All({BOA}, text) + Count(buffer, BOA)

(* After an error marks may be missing, but what is left is still in order: a BOA is  *)
(* the first token, the EOU the last one, and a text that lost its EOU ends with the    *)
(* end of an argument. Each mark has a call, and each EOA a BOA before it.             *)
Ordered(s) ==
  /\ s \in Seq(TextTokens)
  /\ \A e \in 1 .. Len(s) : /\ From(s, e) = BOA => e = Len(s)
                            /\ From(s, e) = EOU => e = 1
  /\ s # <<>> => From(s, 1) \in {EOU, EOA}

KeptInv ==
  /\ program \in Programs
  /\ stack \in Seq(Calls)
  /\ Ordered(text) /\ (status = "running" => text # <<>>)
  /\ All(Ending, text) <= Len(stack)
  /\ buffer \in Seq(PlainTokens \cup {BOA})
  /\ All({EOA}, text) <= All({BOA}, text) + Count(buffer, BOA)

CallsInv == KeptInv /\ (~errors => MirrorInv)

------------------------------------------------------------------------------
(* Numbers of marks. *)

LEMMA NumberNat ==
  ASSUME NEW T, NEW s, NEW e \in Nat
  PROVE  Number(T, s, e) \in Nat /\ IsFiniteSet({i \in 1 .. e : From(s, i) \in T})
<1>1. IsFiniteSet(1 .. e) /\ {i \in 1 .. e : From(s, i) \in T} \subseteq 1 .. e
  BY FS_Interval
<1> QED BY <1>1, FS_Subset, FS_CardinalityType DEF Number

LEMMA NumberZero ==
  ASSUME NEW T, NEW s
  PROVE  Number(T, s, 0) = 0
<1>1. {i \in 1 .. 0 : From(s, i) \in T} = {}
  OBVIOUS
<1> QED BY <1>1, FS_EmptySet DEF Number

LEMMA NumberStep ==
  ASSUME NEW T, NEW s, NEW e \in Nat
  PROVE  Number(T, s, e + 1) = Number(T, s, e) + (IF From(s, e + 1) \in T THEN 1 ELSE 0)
<1> DEFINE old == {i \in 1 .. e : From(s, i) \in T}
           new == {i \in 1 .. e + 1 : From(s, i) \in T}
<1>0. Number(T, s, e) \in Nat /\ IsFiniteSet({i \in 1 .. e : From(s, i) \in T})
  BY NumberNat
<1>1. IsFiniteSet(old) /\ Cardinality(old) \in Nat /\ e + 1 \notin old
  BY <1>0 DEF Number
<1>2. new = IF From(s, e + 1) \in T THEN old \cup {e + 1} ELSE old
  <2>1. ASSUME NEW i \in Nat PROVE i \in 1 .. e + 1 <=> i \in 1 .. e \/ i = e + 1
    OBVIOUS
  <2> QED BY <2>1
<1> HIDE DEF old, new
<1>3. Cardinality(old \cup {e + 1}) = Cardinality(old) + 1
  BY <1>1, FS_AddElement
<1>4. Cardinality(new) = Cardinality(old) + (IF From(s, e + 1) \in T THEN 1 ELSE 0)
  BY <1>1, <1>2, <1>3
<1> QED BY <1>4 DEF Number, old, new

(* Between two places without a mark the number stays. *)
LEMMA NumberNone ==
  ASSUME NEW T, NEW s, NEW e \in Nat, NEW f \in Nat, e <= f,
         \A i \in e + 1 .. f : From(s, i) \notin T
  PROVE  Number(T, s, f) = Number(T, s, e)
<1>1. \A i \in 1 .. f : i \in 1 .. e \/ i \in e + 1 .. f
  OBVIOUS
<1>2. \A i \in 1 .. e : i \in 1 .. f
  OBVIOUS
<1>3. {i \in 1 .. f : From(s, i) \in T} = {i \in 1 .. e : From(s, i) \in T}
  BY <1>1, <1>2
<1> QED BY <1>3 DEF Number

LEMMA NumberMonotone ==
  ASSUME NEW T, NEW s, NEW e \in Nat, NEW f \in Nat, e <= f
  PROVE  /\ Number(T, s, e) <= Number(T, s, f)
         /\ e < f /\ From(s, f) \in T => Number(T, s, e) < Number(T, s, f)
<1> DEFINE up(n) == {i \in 1 .. n : From(s, i) \in T}
<1>1. IsFiniteSet(up(f)) /\ Number(T, s, e) \in Nat /\ Number(T, s, f) \in Nat
  BY NumberNat
<1>2. \A i \in 1 .. e : i \in 1 .. f
  OBVIOUS
<1>3. up(e) \subseteq up(f)
  BY <1>2
<1>4. Number(T, s, e) = Cardinality(up(e)) /\ Number(T, s, f) = Cardinality(up(f))
  BY DEF Number
<1>5. e < f /\ From(s, f) \in T => f \in up(f) /\ f \notin up(e)
  OBVIOUS
<1> HIDE DEF up
<1>6. Cardinality(up(e)) <= Cardinality(up(f))
  BY <1>1, <1>3, FS_Subset
<1>7. ASSUME e < f, From(s, f) \in T PROVE Number(T, s, e) < Number(T, s, f)
  <2>1. up(e) # up(f)
    BY <1>5, <1>7
  <2>2. Cardinality(up(e)) # Cardinality(up(f))
    BY <2>1, <1>1, <1>3, FS_Subset
  <2> QED BY <2>2, <1>1, <1>4, <1>6
<1> QED BY <1>4, <1>6, <1>7

(* Texts with the same end. *)
SameEnd(s, r, n) == \A e \in 1 .. n : From(s, e) = From(r, e)

LEMMA NumberSame ==
  ASSUME NEW T, NEW s, NEW r, NEW n \in Nat, SameEnd(s, r, n), NEW e \in 0 .. n
  PROVE  Number(T, s, e) = Number(T, r, e)
<1>1. \A i \in 1 .. e : i \in 1 .. n
  OBVIOUS
<1>2. {i \in 1 .. e : From(s, i) \in T} = {i \in 1 .. e : From(r, i) \in T}
  BY <1>1 DEF SameEnd
<1> QED BY <1>2 DEF Number

(* The same numbers by places from the beginning. *)
Places(T, s, a, b) == {i \in a .. b : s[i] \in T}

LEMMA NumberPlaces ==
  ASSUME NEW T, NEW s, Len(s) \in Nat, NEW e \in 0 .. Len(s)
  PROVE  Number(T, s, e) = Cardinality(Places(T, s, Len(s) + 1 - e, Len(s)))
<1> DEFINE S == {i \in 1 .. e : From(s, i) \in T}
           P == Places(T, s, Len(s) + 1 - e, Len(s))
           f == [i \in S |-> Len(s) + 1 - i]
<1>0. e \in Nat /\ e <= Len(s)
  OBVIOUS
<1>1. IsFiniteSet(S)
  BY <1>0, NumberNat
<1>2. ASSUME NEW i \in S PROVE f[i] \in P
  BY <1>2 DEF From, Places
<1>3. ASSUME NEW j \in P PROVE \E i \in S : f[i] = j
  <2>1. Len(s) + 1 - j \in 1 .. e /\ Len(s) + 1 - (Len(s) + 1 - j) = j /\ s[j] \in T
    BY <1>3 DEF Places
  <2>2. Len(s) + 1 - j \in S
    BY <2>1 DEF From
  <2> QED BY <2>1, <2>2
<1>4. \A i, j \in S : f[i] = f[j] => i = j
  OBVIOUS
<1>5. f \in [S -> P]
  BY <1>2
<1> HIDE DEF f
<1>6. f \in Bijection(S, P)
  BY <1>3, <1>4, <1>5, Fun_IsBij
<1>7. ExistsBijection(S, P)
  BY <1>6 DEF ExistsBijection
<1>8. Cardinality(S) = Cardinality(P)
  BY <1>1, <1>7, FS_Bijection
<1> QED BY <1>8 DEF Number

(* The marks before a place and behind it. *)
LEMMA NumberSplit ==
  ASSUME NEW T, NEW s, Len(s) \in Nat, NEW k \in 0 .. Len(s)
  PROVE  Number(T, s, Len(s)) = Number(T, s, Len(s) - k) + Cardinality(Places(T, s, 1, k))
<1> DEFINE all == Places(T, s, 1, Len(s))
           before == Places(T, s, 1, k)
           behind == Places(T, s, k + 1, Len(s))
<1>1. \A i \in 1 .. Len(s) : i \in 1 .. k \/ i \in k + 1 .. Len(s)
  OBVIOUS
<1>2. \A i \in 1 .. k : i \in 1 .. Len(s) /\ i \notin k + 1 .. Len(s)
  OBVIOUS
<1>3. \A i \in k + 1 .. Len(s) : i \in 1 .. Len(s)
  OBVIOUS
<1>4. all = before \cup behind /\ before \cap behind = {}
  BY <1>1, <1>2, <1>3 DEF Places
<1>5. IsFiniteSet(1 .. k) /\ IsFiniteSet(k + 1 .. Len(s))
  BY FS_Interval
<1>6. before \subseteq 1 .. k /\ behind \subseteq k + 1 .. Len(s)
  BY DEF Places
<1>7. IsFiniteSet(before) /\ IsFiniteSet(behind)
  BY <1>5, <1>6, FS_Subset
<1>8. Len(s) + 1 - Len(s) = 1 /\ Len(s) + 1 - (Len(s) - k) = k + 1
  OBVIOUS
<1>9. Len(s) \in 0 .. Len(s) /\ Len(s) - k \in 0 .. Len(s)
  OBVIOUS
<1>10. Number(T, s, Len(s)) = Cardinality(all) /\ Number(T, s, Len(s) - k) = Cardinality(behind)
  BY <1>8, <1>9, NumberPlaces
<1> HIDE DEF all, before, behind
<1>11. Cardinality(before \cup behind) = Cardinality(before) + Cardinality(behind)
  <2>1. Cardinality(before \cap behind) = 0
    BY <1>4, FS_EmptySet
  <2>2. Cardinality(before) \in Nat /\ Cardinality(behind) \in Nat
    BY <1>7, FS_CardinalityType
  <2>3. Cardinality(before \cup behind)
          = Cardinality(before) + Cardinality(behind) - Cardinality(before \cap behind)
    BY <1>7, FS_Union
  <2> QED BY <2>1, <2>2, <2>3
<1>12. Cardinality(before) \in Nat /\ Cardinality(behind) \in Nat
  BY <1>7, FS_CardinalityType
<1>13. Number(T, s, Len(s)) = Cardinality(behind) + Cardinality(before)
  BY <1>4, <1>10, <1>11, <1>12
<1> QED BY <1>10, <1>13 DEF before

------------------------------------------------------------------------------
(* How Mirror changes with the text. *)

LEMMA MarkNumber ==
  ASSUME NEW s, NEW n \in Nat, NEW e \in 1 .. n, From(s, e) \in Ending
  PROVE  Number(Ending, s, e) \in 1 .. Number(Ending, s, n)
<1>1. e \in Nat /\ 0 \in Nat /\ 0 < e /\ 0 <= e /\ e <= n
  OBVIOUS
<1>2. Number(Ending, s, 0) = 0 /\ Number(Ending, s, e) \in Nat /\ Number(Ending, s, n) \in Nat
  BY <1>1, NumberZero, NumberNat
<1>3. Number(Ending, s, 0) < Number(Ending, s, e)
  BY <1>1, NumberMonotone
<1>4. Number(Ending, s, e) <= Number(Ending, s, n)
  BY <1>1, NumberMonotone
<1> QED BY <1>2, <1>3, <1>4

LEMMA ReplacementNumber ==
  ASSUME NEW s, NEW n \in Nat, NEW e \in Replacements(s, n)
  PROVE  e \in 1 .. n /\ Number(Ending, s, e) \in 1 .. Number(Ending, s, n)
<1>1. e \in 1 .. n /\ From(s, e) \in Ending
  BY DEF Replacements, Ending
<1> QED BY <1>1, MarkNumber

(* The beginning of the text is gone: its marks and their calls are. *)
Macros(c, a, b) == {c[j].macro : j \in a .. b}

LEMMA MirrorCut ==
  ASSUME NEW s, NEW n \in Nat, NEW c, NEW m, NEW g, Mirror(s, n, c, m, g), Len(c) \in Nat,
         NEW k \in 0 .. n
  PROVE  /\ Number(Ending, s, k) \in 0 .. m
         /\ Mirror(s, k, c, Number(Ending, s, k),
                   g \ Macros(c, Number(Ending, s, k) + 1, m))
<1> DEFINE l == Number(Ending, s, k)
           h == g \ Macros(c, l + 1, m)
<1>1. m = Number(Ending, s, n) /\ m <= Len(c) /\ k \in Nat /\ k <= n
  BY DEF Mirror
<1>2. m \in Nat /\ l \in Nat /\ l <= m
  BY <1>1, NumberNat, NumberMonotone
<1>3. Replacements(s, k) \subseteq Replacements(s, n)
  BY DEF Replacements
<1>4. \A e \in Replacements(s, k) : Number(Ending, s, e) \in 1 .. l
  BY <1>1, ReplacementNumber
<1>5. g = {Opens(s, c, e) : e \in Replacements(s, n)}
  BY DEF Mirror
<1>6. \A e \in Replacements(s, n), j \in 1 .. m :
        Number(Ending, s, e) < j => c[j].macro # Opens(s, c, e)
  BY DEF Mirror
<1> HIDE DEF l
<1>7. ASSUME NEW e \in Replacements(s, k) PROVE Opens(s, c, e) \in h
  <2>1. Opens(s, c, e) \in g
    BY <1>3, <1>5, <1>7
  <2>2. ASSUME NEW j \in l + 1 .. m PROVE c[j].macro # Opens(s, c, e)
    <3>1. j \in 1 .. m /\ Number(Ending, s, e) < j
      BY <1>2, <1>4, <1>7, <2>2
    <3> QED BY <3>1, <1>3, <1>6, <1>7
  <2> QED BY <2>1, <2>2 DEF Macros
<1>8. ASSUME NEW x \in h PROVE \E e \in Replacements(s, k) : x = Opens(s, c, e)
  <2>1. PICK e \in Replacements(s, n) : x = Opens(s, c, e)
    BY <1>5, <1>8
  <2>2. e \in 1 .. n /\ e \in Nat /\ From(s, e) = EOR /\ From(s, e) \in Ending
    BY DEF Replacements, Ending
  <2>3. ASSUME e \notin 1 .. k PROVE FALSE
    <3>1. k < e /\ k <= e
      BY <1>1, <2>2, <2>3
    <3>2. l < Number(Ending, s, e)
      BY <3>1, <1>1, <2>2, NumberMonotone DEF l
    <3>3. Number(Ending, s, e) \in 1 .. m
      BY <1>1, <2>1, ReplacementNumber
    <3>4. Number(Ending, s, e) \in l + 1 .. m
      BY <3>2, <3>3, <1>2
    <3>5. x = c[Number(Ending, s, e)].macro
      BY <2>1 DEF Opens
    <3> QED BY <3>4, <3>5, <1>8 DEF Macros
  <2>4. e \in Replacements(s, k)
    BY <2>2, <2>3 DEF Replacements
  <2> QED BY <2>1, <2>4
<1>9. h = {Opens(s, c, e) : e \in Replacements(s, k)}
  BY <1>7, <1>8
<1> HIDE DEF h
<1>10. \A j \in 1 .. l : j \in 1 .. m
  BY <1>2
<1>11. l <= Len(c)
  BY <1>1, <1>2
<1>12. Mirror(s, k, c, l, h)
  BY <1>3, <1>6, <1>9, <1>10, <1>11 DEF Mirror, l
<1>13. l \in 0 .. m
  BY <1>2
<1> QED BY <1>12, <1>13 DEF l, h

(* Only the end of the text counts, and the macros of the calls. *)
SameMacros(c, d, m) == \A j \in 1 .. m : c[j].macro = d[j].macro

LEMMA MirrorSame ==
  ASSUME NEW s, NEW r, NEW n \in Nat, NEW c, NEW d, NEW m, NEW g, Mirror(s, n, c, m, g),
         SameEnd(s, r, n), SameMacros(c, d, m), m <= Len(d)
  PROVE  Mirror(r, n, d, m, g)
<1>1. n \in 0 .. n /\ \A e \in 1 .. n : e \in 0 .. n
  OBVIOUS
<1>2. \A e \in 0 .. n : Number(Ending, s, e) = Number(Ending, r, e)
  BY NumberSame
<1>3. Replacements(s, n) = Replacements(r, n)
  BY DEF Replacements, SameEnd
<1>4. m = Number(Ending, s, n)
  BY DEF Mirror
<1>5. \A e \in Replacements(s, n) : e \in 1 .. n /\ Number(Ending, s, e) \in 1 .. m
  BY <1>4, ReplacementNumber
<1>6. \A e \in Replacements(s, n) : Opens(s, c, e) = Opens(r, d, e)
  BY <1>1, <1>2, <1>5 DEF Opens, SameMacros
<1>7. m = Number(Ending, r, n)
  BY <1>1, <1>2, <1>4
<1>8. g = {Opens(r, d, e) : e \in Replacements(r, n)}
  BY <1>3, <1>6 DEF Mirror
<1>9. ASSUME NEW e \in Replacements(r, n), NEW j \in 1 .. m, Number(Ending, r, e) < j
      PROVE  d[j].macro # Opens(r, d, e)
  <2>1. e \in Replacements(s, n) /\ Number(Ending, s, e) = Number(Ending, r, e)
    BY <1>1, <1>2, <1>3, <1>5
  <2>2. c[j].macro # Opens(s, c, e)
    BY <1>9, <2>1 DEF Mirror
  <2> QED BY <2>1, <2>2, <1>6 DEF SameMacros
<1> QED BY <1>7, <1>8, <1>9 DEF Mirror

(* Tokens without a mark are put before the text. *)
LEMMA MirrorNone ==
  ASSUME NEW s, NEW n \in Nat, NEW c, NEW m, NEW g, Mirror(s, n, c, m, g),
         NEW k \in Nat, n <= k, \A i \in n + 1 .. k : From(s, i) \notin Ending
  PROVE  Mirror(s, k, c, m, g)
<1>1. Number(Ending, s, k) = Number(Ending, s, n)
  BY NumberNone
<1>2. \A i \in 1 .. k : i \in 1 .. n \/ i \in n + 1 .. k
  OBVIOUS
<1>3. \A i \in 1 .. n : i \in 1 .. k
  OBVIOUS
<1>4. Replacements(s, k) = Replacements(s, n)
  BY <1>2, <1>3 DEF Replacements, Ending
<1> QED BY <1>1, <1>4 DEF Mirror

(* A mark is put before the text, for a call that was not open. *)
LEMMA MirrorMark ==
  ASSUME NEW s, NEW n \in Nat, NEW c, NEW m, NEW g, Mirror(s, n, c, m, g),
         From(s, n + 1) \in Ending, m + 1 <= Len(c), c[m + 1].macro \notin g
  PROVE  Mirror(s, n + 1, c, m + 1,
                IF From(s, n + 1) = EOR THEN g \cup {c[m + 1].macro} ELSE g)
<1> DEFINE h == IF From(s, n + 1) = EOR THEN g \cup {c[m + 1].macro} ELSE g
<1>1. m = Number(Ending, s, n) /\ m \in Nat
  BY NumberNat DEF Mirror
<1>2. Number(Ending, s, n + 1) = m + 1
  BY <1>1, NumberStep
<1>3. n + 1 \in Nat /\ \A i \in Nat : i \in 1 .. n + 1 <=> i \in 1 .. n \/ i = n + 1
  OBVIOUS
<1>4. Replacements(s, n + 1)
        = IF From(s, n + 1) = EOR THEN Replacements(s, n) \cup {n + 1} ELSE Replacements(s, n)
  BY <1>3 DEF Replacements
<1>5. Opens(s, c, n + 1) = c[m + 1].macro
  BY <1>2 DEF Opens
<1>6. g = {Opens(s, c, e) : e \in Replacements(s, n)}
  BY DEF Mirror
<1>7. h = {Opens(s, c, e) : e \in Replacements(s, n + 1)}
  BY <1>4, <1>5, <1>6
<1> HIDE DEF h
<1>8. ASSUME NEW e \in Replacements(s, n + 1), NEW j \in 1 .. m + 1, Number(Ending, s, e) < j
      PROVE  c[j].macro # Opens(s, c, e)
  <2>1. e # n + 1
    BY <1>1, <1>2, <1>8
  <2>2. e \in Replacements(s, n)
    BY <2>1, <1>4, <1>8
  <2>3. Opens(s, c, e) \in g
    BY <2>2, <1>6
  <2>4. ASSUME j # m + 1 PROVE c[j].macro # Opens(s, c, e)
    <3>1. j \in 1 .. m
      BY <2>4, <1>1
    <3> QED BY <3>1, <2>2, <1>8 DEF Mirror
  <2> QED BY <2>3, <2>4
<1> QED BY <1>2, <1>7, <1>8 DEF Mirror, h

------------------------------------------------------------------------------
(* Tokens put before a text and taken from it. *)

LEMMA PlainCodes ==
  ASSUME NEW t \in PlainTokens
  PROVE  t.code \in Signs \cup {"id", "no macro"}
<1>1. CASE t \in {Sign(code) : code \in Signs}
  <2>1. PICK code \in Signs : t = Sign(code)
    BY <1>1
  <2>2. t.code = code
    BY <2>1 DEF Sign
  <2> QED BY <2>2
<1>2. CASE t \in [code : {"id", "no macro"}, repr : Names]
  BY <1>2
<1> QED BY <1>1, <1>2 DEF PlainTokens

LEMMA Marks ==
  /\ EOR \notin PlainTokens /\ BOA \notin PlainTokens /\ EOA \notin PlainTokens
  /\ EOU \notin PlainTokens
  /\ EOR # BOA /\ EOR # EOA /\ EOR # EOU /\ BOA # EOA /\ BOA # EOU /\ EOA # EOU
  /\ EOR.code = "EOR" /\ BOA.code = "BOA" /\ EOA.code = "EOA" /\ EOU.code = "EOU"
  /\ Space \in PlainTokens
<1>1. EOR.code = "EOR" /\ BOA.code = "BOA" /\ EOA.code = "EOA" /\ EOU.code = "EOU"
  BY DEF EOR, BOA, EOA, EOU, Sign
<1>2. \A t \in PlainTokens : t.code \in Signs \cup {"id", "no macro"}
  BY PlainCodes
<1>3. {"EOR", "BOA", "EOA", "EOU"} \cap (Signs \cup {"id", "no macro"}) = {}
  BY ProgramsAssumption
<1>4. Space \in PlainTokens
  BY ProgramsAssumption DEF Space, PlainTokens
<1> QED BY <1>1, <1>2, <1>3, <1>4

LEMMA Codes ==
  ASSUME NEW t \in TextTokens
  PROVE  /\ t.code = "EOR" <=> t = EOR
         /\ t.code = "EOA" <=> t = EOA
         /\ t.code = "EOU" <=> t = EOU
         /\ t.code \notin {"EOR", "BOA", "EOA", "EOU"} => t \in PlainTokens
<1>1. \A p \in PlainTokens : p.code \in Signs \cup {"id", "no macro"}
  BY PlainCodes
<1>2. {"EOR", "BOA", "EOA", "EOU"} \cap (Signs \cup {"id", "no macro"}) = {}
  BY ProgramsAssumption
<1>3. t \in PlainTokens \/ t = EOR \/ t = BOA \/ t = EOA \/ t = EOU
  BY DEF TextTokens
<1> QED BY <1>1, <1>2, <1>3, Marks

LEMMA DropFacts ==
  ASSUME NEW S, NEW s \in Seq(S), NEW k \in 0 .. Len(s)
  PROVE  /\ Drop(s, k) \in Seq(S) /\ Len(Drop(s, k)) = Len(s) - k
         /\ \A i \in 1 .. Len(s) - k : Drop(s, k)[i] = s[k + i]
         /\ SameEnd(s, Drop(s, k), Len(s) - k)
<1> DEFINE r == Drop(s, k)
<1>1. Len(s) \in Nat
  OBVIOUS
<1>2. \A i \in k + 1 .. Len(s) : s[i] \in S
  OBVIOUS
<1>3. r \in Seq(S) /\ Len(r) = Len(s) - k
  BY <1>1, <1>2 DEF Drop
<1>4. \A i \in 1 .. Len(s) - k : r[i] = s[k + i]
  BY <1>1 DEF Drop
<1> HIDE DEF r
<1>5. ASSUME NEW e \in 1 .. Len(s) - k PROVE From(s, e) = From(r, e)
  <2>1. Len(s) - k + 1 - e \in 1 .. Len(s) - k /\ k + (Len(s) - k + 1 - e) = Len(s) + 1 - e
    BY <1>1
  <2> QED BY <2>1, <1>3, <1>4 DEF From
<1> QED BY <1>3, <1>4, <1>5 DEF SameEnd, r

LEMMA TailIsDrop ==
  ASSUME NEW S, NEW s \in Seq(S), s # <<>>
  PROVE  Tail(s) = Drop(s, 1) /\ 1 \in 0 .. Len(s) /\ Head(s) = s[1] /\ From(s, Len(s)) = s[1]
<1>1. Len(s) \in Nat /\ Len(s) # 0
  OBVIOUS
<1>2. Tail(s) = SubSeq(s, 2, Len(s))
  OBVIOUS
<1>3. 1 + 1 = 2 /\ Len(s) + 1 - Len(s) = 1
  BY <1>1
<1> QED BY <1>1, <1>2, <1>3 DEF Drop, From

Joined(S, u, r, s) ==
  /\ s \in Seq(S) /\ Len(s) = Len(r) + Len(u)
  /\ SameEnd(r, s, Len(r))
  /\ \A e \in 1 .. Len(u) : From(s, Len(r) + e) = From(u, e)

LEMMA PutBack ==
  ASSUME NEW S, NEW u \in Seq(S), NEW r \in Seq(S)
  PROVE  Joined(S, u, r, u \o r)
<1> DEFINE s == u \o r
<1>1. Len(u) \in Nat /\ Len(r) \in Nat
  OBVIOUS
<1>2. s \in Seq(S) /\ Len(s) = Len(u) + Len(r)
  BY ConcatProperties
<1>3. \A i \in 1 .. Len(s) : s[i] = IF i <= Len(u) THEN u[i] ELSE r[i - Len(u)]
  BY <1>2, ConcatProperties
<1> HIDE DEF s
<1>4. ASSUME NEW e \in 1 .. Len(r) PROVE From(r, e) = From(s, e)
  <2>1. /\ Len(s) + 1 - e \in 1 .. Len(s) /\ ~ (Len(s) + 1 - e <= Len(u))
        /\ (Len(s) + 1 - e) - Len(u) = Len(r) + 1 - e
    BY <1>1, <1>2
  <2> QED BY <2>1, <1>3 DEF From
<1>5. ASSUME NEW e \in 1 .. Len(u) PROVE From(s, Len(r) + e) = From(u, e)
  <2>1. /\ Len(s) + 1 - (Len(r) + e) = Len(u) + 1 - e
        /\ Len(u) + 1 - e \in 1 .. Len(s) /\ Len(u) + 1 - e <= Len(u)
    BY <1>1, <1>2
  <2> QED BY <2>1, <1>3 DEF From
<1>6. Len(u) + Len(r) = Len(r) + Len(u)
  BY <1>1
<1> QED BY <1>2, <1>4, <1>5, <1>6 DEF SameEnd, Joined, s

LEMMA FromType ==
  ASSUME NEW S, NEW s \in Seq(S), NEW e \in 1 .. Len(s)
  PROVE  From(s, e) \in S
<1>1. Len(s) + 1 - e \in 1 .. Len(s)
  OBVIOUS
<1> QED BY <1>1 DEF From

(* A replacement or an argument before the text r. *)
ReplacementBefore(r, s) ==
  /\ s \in Seq(TextTokens) /\ Len(r) + 1 <= Len(s)
  /\ SameEnd(r, s, Len(r)) /\ From(s, Len(r) + 1) = EOR
  /\ \A e \in Len(r) + 2 .. Len(s) : From(s, e) \in PlainTokens

ArgumentBefore(r, s) ==
  /\ s \in Seq(TextTokens) /\ Len(r) + 2 <= Len(s)
  /\ SameEnd(r, s, Len(r)) /\ From(s, Len(r) + 1) = EOA /\ From(s, Len(s)) = BOA
  /\ \A e \in Len(r) + 2 .. Len(s) - 1 : From(s, e) \in PlainTokens

LEMMA PutEnd ==
  ASSUME NEW w \in Seq(PlainTokens), NEW r \in Seq(TextTokens)
  PROVE  ReplacementBefore(r, w \o <<EOR>> \o r)
<1> DEFINE end == <<EOR>>
           u == w \o end
           s == u \o r
<1>1. w \in Seq(TextTokens) /\ end \in Seq(TextTokens) /\ Len(end) = 1 /\ From(end, 1) = EOR
  BY DEF TextTokens, From
<1>2. Len(w) \in Nat /\ Len(r) \in Nat
  OBVIOUS
<1> HIDE DEF end
<1>4. /\ u \in Seq(TextTokens) /\ Len(u) = 1 + Len(w)
      /\ SameEnd(end, u, 1)
      /\ \A e \in 1 .. Len(w) : From(u, 1 + e) = From(w, e)
  <2>1. Joined(TextTokens, w, end, w \o end)
    BY <1>1, PutBack
  <2> QED BY <2>1, <1>1 DEF Joined
<1> HIDE DEF u
<1>5. /\ s \in Seq(TextTokens) /\ Len(s) = Len(r) + Len(u)
      /\ SameEnd(r, s, Len(r))
      /\ \A e \in 1 .. Len(u) : From(s, Len(r) + e) = From(u, e)
  <2>1. Joined(TextTokens, u, r, u \o r)
    BY <1>4, PutBack
  <2> QED BY <2>1, <1>4 DEF Joined
<1> HIDE DEF s
<1>6. Len(s) = Len(r) + 1 + Len(w) /\ Len(r) + 1 <= Len(s)
  BY <1>2, <1>4, <1>5
<1>7. From(s, Len(r) + 1) = EOR
  <2>1. 1 \in 1 .. 1 /\ 1 \in 1 .. Len(u)
    BY <1>2, <1>4
  <2> QED BY <2>1, <1>1, <1>4, <1>5 DEF SameEnd
<1>8. ASSUME NEW e \in Len(r) + 2 .. Len(s) PROVE From(s, e) \in PlainTokens
  <2> DEFINE i == e - Len(r) - 1
  <2>1. /\ i \in 1 .. Len(w) /\ 1 + i \in 1 .. Len(u)
        /\ Len(r) + (1 + i) = e
    BY <1>2, <1>4, <1>6
  <2> HIDE DEF i
  <2>2. From(s, e) = From(w, i)
    BY <2>1, <1>4, <1>5
  <2> QED BY <2>1, <2>2, FromType
<1>9. ReplacementBefore(r, s)
  BY <1>5, <1>6, <1>7, <1>8 DEF ReplacementBefore
<1> QED BY <1>9 DEF s, u, end

LEMMA PutArg ==
  ASSUME NEW a \in Seq(PlainTokens), NEW r \in Seq(TextTokens)
  PROVE  ArgumentBefore(r, <<BOA>> \o a \o <<EOA>> \o r)
<1> DEFINE begin == <<BOA>>
           end == <<EOA>>
           v == begin \o a
           u == v \o end
           s == u \o r
<1>1. a \in Seq(TextTokens)
  BY DEF TextTokens
<1>2. /\ end \in Seq(TextTokens) /\ Len(end) = 1 /\ From(end, 1) = EOA
      /\ begin \in Seq(TextTokens) /\ Len(begin) = 1 /\ From(begin, 1) = BOA
  BY DEF TextTokens, From
<1>3. Len(a) \in Nat /\ Len(r) \in Nat
  OBVIOUS
<1> HIDE DEF begin, end
<1>5. /\ v \in Seq(TextTokens) /\ Len(v) = Len(a) + 1
      /\ SameEnd(a, v, Len(a))
      /\ \A e \in 1 .. 1 : From(v, Len(a) + e) = From(begin, e)
  <2>1. Joined(TextTokens, begin, a, begin \o a)
    BY <1>1, <1>2, PutBack
  <2> QED BY <2>1, <1>1, <1>2 DEF Joined
<1> HIDE DEF v
<1>6. /\ u \in Seq(TextTokens) /\ Len(u) = 1 + Len(v)
      /\ SameEnd(end, u, 1)
      /\ \A e \in 1 .. Len(v) : From(u, 1 + e) = From(v, e)
  <2>1. Joined(TextTokens, v, end, v \o end)
    BY <1>2, <1>5, PutBack
  <2> QED BY <2>1, <1>2, <1>5 DEF Joined
<1> HIDE DEF u
<1>7. /\ s \in Seq(TextTokens) /\ Len(s) = Len(r) + Len(u)
      /\ SameEnd(r, s, Len(r))
      /\ \A e \in 1 .. Len(u) : From(s, Len(r) + e) = From(u, e)
  <2>1. Joined(TextTokens, u, r, u \o r)
    BY <1>6, PutBack
  <2> QED BY <2>1, <1>6 DEF Joined
<1> HIDE DEF s
<1>8. Len(s) = Len(r) + 2 + Len(a) /\ Len(r) + 2 <= Len(s) /\ Len(u) = 2 + Len(a)
  BY <1>3, <1>5, <1>6, <1>7
<1>9. From(s, Len(r) + 1) = EOA
  <2>1. 1 \in 1 .. 1 /\ 1 \in 1 .. Len(u)
    BY <1>3, <1>8
  <2> QED BY <2>1, <1>2, <1>6, <1>7 DEF SameEnd
<1>10. From(s, Len(s)) = BOA
  <2>1. /\ 1 \in 1 .. 1 /\ Len(a) + 1 \in 1 .. Len(v) /\ 1 + (Len(a) + 1) \in 1 .. Len(u)
        /\ Len(r) + (1 + (Len(a) + 1)) = Len(s)
    BY <1>3, <1>5, <1>8
  <2>2. From(s, Len(s)) = From(u, 1 + (Len(a) + 1))
    BY <2>1, <1>7
  <2>3. From(u, 1 + (Len(a) + 1)) = From(v, Len(a) + 1)
    BY <2>1, <1>6
  <2> QED BY <2>1, <2>2, <2>3, <1>2, <1>5
<1>11. ASSUME NEW e \in Len(r) + 2 .. Len(s) - 1 PROVE From(s, e) \in PlainTokens
  <2> DEFINE i == e - Len(r) - 1
  <2>1. /\ i \in 1 .. Len(a) /\ i \in 1 .. Len(v) /\ 1 + i \in 1 .. Len(u)
        /\ Len(r) + (1 + i) = e
    BY <1>3, <1>5, <1>8
  <2> HIDE DEF i
  <2>2. From(s, e) = From(v, i)
    BY <2>1, <1>6, <1>7
  <2>3. From(s, e) = From(a, i)
    BY <2>1, <2>2, <1>5 DEF SameEnd
  <2> QED BY <2>1, <2>3, FromType
<1>12. ArgumentBefore(r, s)
  BY <1>7, <1>8, <1>9, <1>10, <1>11 DEF ArgumentBefore
<1> QED BY <1>12 DEF s, u, v, begin, end

------------------------------------------------------------------------------
(* How the text, the stack and the flags change together.                       *)

LEMMA AllNat ==
  ASSUME NEW T, NEW S, NEW s \in Seq(S)
  PROVE  All(T, s) \in Nat
<1>1. Len(s) \in Nat
  OBVIOUS
<1> QED BY <1>1, NumberNat DEF All

LEMMA NumberDrop ==
  ASSUME NEW T, NEW S, NEW s \in Seq(S), NEW k \in 0 .. Len(s)
  PROVE  All(T, s) = All(T, Drop(s, k)) + Cardinality(Places(T, s, 1, k))
<1>1. Len(s) \in Nat /\ Len(s) - k \in Nat /\ Len(s) - k \in 0 .. Len(s) - k
  OBVIOUS
<1>2. Len(Drop(s, k)) = Len(s) - k /\ SameEnd(s, Drop(s, k), Len(s) - k)
  BY DropFacts
<1>3. Number(T, s, Len(s) - k) = Number(T, Drop(s, k), Len(s) - k)
  BY <1>1, <1>2, NumberSame
<1>4. Number(T, s, Len(s)) = Number(T, s, Len(s) - k) + Cardinality(Places(T, s, 1, k))
  BY <1>1, NumberSplit
<1> QED BY <1>2, <1>3, <1>4 DEF All

LEMMA FitsDrop ==
  ASSUME NEW C, NEW s, NEW c \in Seq(C), NEW g, Fits(s, c, g), NEW k \in 0 .. Len(s) - 1,
         NEW n, n = Cardinality(Places(Ending, s, 1, k))
  PROVE  /\ n \in 0 .. Len(c) /\ Len(Drop(s, k)) = Len(s) - k
         /\ Fits(Drop(s, k), SubSeq(c, 1, Len(c) - n),
                 g \ Macros(c, Len(c) - n + 1, Len(c)))
<1> DEFINE r == Drop(s, k)
           l == Len(s) - k
           m == Number(Ending, s, l)
           d == SubSeq(c, 1, m)
           h == g \ Macros(c, m + 1, Len(c))
<1>1. s \in Seq(TextTokens) /\ Len(s) \in Nat /\ Len(c) \in Nat
  BY DEF Fits, Shaped
<1>2. l \in 1 .. Len(s) /\ l \in Nat /\ l \in 0 .. l /\ k \in 0 .. Len(s) /\ l \in 0 .. Len(s)
  BY <1>1
<1>3. r \in Seq(TextTokens) /\ Len(r) = l /\ SameEnd(s, r, l)
  BY <1>1, <1>2, DropFacts
<1>4. Mirror(s, Len(s), c, Len(c), g) /\ Len(c) = Number(Ending, s, Len(s))
  BY DEF Fits, Mirror
<1>5. Number(Ending, s, Len(s)) = m + n
  BY <1>1, <1>2, NumberSplit
<1> HIDE DEF r, l
<1>6. m \in 0 .. Len(c) /\ Mirror(s, l, c, m, h)
  <2>1. Len(s) \in Nat /\ l \in 0 .. Len(s) /\ Len(c) \in Nat /\ Mirror(s, Len(s), c, Len(c), g)
    BY <1>1, <1>2, <1>4
  <2> QED BY <2>1, MirrorCut
<1>7. IsFiniteSet(Places(Ending, s, 1, k)) /\ n \in Nat
  <2>1. IsFiniteSet(1 .. k) /\ Places(Ending, s, 1, k) \subseteq 1 .. k
    BY <1>2, FS_Interval DEF Places
  <2>2. IsFiniteSet(Places(Ending, s, 1, k))
    BY <2>1, FS_Subset
  <2> QED BY <2>2, FS_CardinalityType
<1> HIDE DEF m, h
<1>8. n \in 0 .. Len(c) /\ m = Len(c) - n /\ m \in Nat
  BY <1>1, <1>4, <1>5, <1>6, <1>7
<1>9. Len(d) = m /\ \A j \in 1 .. m : d[j] = c[j]
  BY <1>1, <1>6, <1>8
<1> HIDE DEF d
<1>10. SameMacros(c, d, m) /\ m <= Len(d)
  BY <1>8, <1>9 DEF SameMacros
<1>11. Mirror(r, l, d, m, h)
  BY <1>2, <1>3, <1>6, <1>10, MirrorSame
<1>12. Shaped(r)
  <2>1. r # <<>>
    BY <1>2, <1>3
  <2>2. ASSUME NEW e \in 1 .. l PROVE From(r, e) = EOU <=> e = 1
    <3>1. e \in 1 .. Len(s) /\ From(s, e) = From(r, e)
      BY <1>1, <1>2, <1>3 DEF SameEnd
    <3> QED BY <3>1 DEF Fits, Shaped
  <2>3. ASSUME NEW e \in 0 .. l PROVE Number({BOA}, r, e) <= Number({EOA}, r, e)
    <3>1. e \in 0 .. Len(s)
      BY <1>1, <1>2
    <3>2. Number({BOA}, s, e) <= Number({EOA}, s, e)
      BY <3>1 DEF Fits, Shaped
    <3>3. Number({BOA}, s, e) = Number({BOA}, r, e)
      BY <1>2, <1>3, NumberSame
    <3>4. Number({EOA}, s, e) = Number({EOA}, r, e)
      BY <1>2, <1>3, NumberSame
    <3> QED BY <3>2, <3>3, <3>4
  <2> QED BY <1>3, <2>1, <2>2, <2>3 DEF Shaped
<1>13. Fits(r, d, h)
  BY <1>3, <1>9, <1>11, <1>12 DEF Fits
<1> QED BY <1>3, <1>8, <1>13 DEF r, l, d, h

LEMMA Appended ==
  ASSUME NEW C, NEW c \in Seq(C), NEW x
  PROVE  /\ Len(Append(c, x)) = Len(c) + 1 /\ Append(c, x)[Len(c) + 1] = x
         /\ SameMacros(c, Append(c, x), Len(c)) /\ Len(c) \in Nat
<1>1. \A i \in 1 .. Len(c) : Append(c, x)[i] = c[i]
  OBVIOUS
<1>2. Len(Append(c, x)) = Len(c) + 1 /\ Append(c, x)[Len(c) + 1] = x /\ Len(c) \in Nat
  OBVIOUS
<1> QED BY <1>1, <1>2 DEF SameMacros

(* A replacement is put before the text. *)
LEMMA FitsPutEnd ==
  ASSUME NEW C, NEW r, NEW c \in Seq(C), NEW g, Fits(r, c, g), NEW x, x.macro \notin g,
         NEW s, ReplacementBefore(r, s)
  PROVE  /\ Fits(s, Append(c, x), g \cup {x.macro})
         /\ All({EOA}, s) = All({EOA}, r) /\ All({BOA}, s) = All({BOA}, r)
<1> DEFINE n == Len(r)
           d == Append(c, x)
<1>1. r \in Seq(TextTokens) /\ n \in Nat /\ n # 0
  BY DEF Fits, Shaped
<1>2. /\ s \in Seq(TextTokens) /\ n + 1 <= Len(s)
      /\ SameEnd(r, s, n) /\ From(s, n + 1) = EOR
      /\ \A e \in n + 2 .. Len(s) : From(s, e) \in PlainTokens
  BY DEF ReplacementBefore
<1>3. Len(s) \in Nat /\ n + 1 <= Len(s) /\ n + 1 \in Nat /\ n <= n + 1
  BY <1>1, <1>2
<1>4. Len(d) = Len(c) + 1 /\ d[Len(c) + 1] = x /\ SameMacros(c, d, Len(c)) /\ Len(c) \in Nat
  BY Appended
<1> HIDE DEF d
<1>5. ASSUME NEW T, T \subseteq {EOR, BOA, EOA}, NEW e \in n + 1 .. Len(s)
      PROVE  Number(T, s, e) = Number(T, s, n + 1)
  <2>1. e \in Nat /\ n + 1 <= e /\ \A i \in (n + 1) + 1 .. e : i \in n + 2 .. Len(s)
    BY <1>1, <1>3
  <2>2. \A i \in (n + 1) + 1 .. e : From(s, i) \notin T
    BY <2>1, <1>2, <1>5, Marks
  <2> QED BY <2>1, <2>2, <1>3, NumberNone
<1>6. ASSUME NEW T \in {{EOA}, {BOA}} PROVE Number(T, s, n + 1) = Number(T, r, n)
  <2>1. From(s, n + 1) \notin T
    BY <1>2, Marks
  <2>2. Number(T, s, n + 1) = Number(T, s, n) /\ Number(T, s, n) \in Nat
    <3>1. Number(T, s, n + 1) = Number(T, s, n) + (IF From(s, n + 1) \in T THEN 1 ELSE 0)
      BY <1>1, NumberStep
    <3>2. Number(T, s, n) \in Nat
      BY <1>1, NumberNat
    <3> QED BY <2>1, <3>1, <3>2
  <2>3. n \in 0 .. n
    BY <1>1
  <2>4. Number(T, r, n) = Number(T, s, n)
    BY <1>1, <1>2, <2>3, NumberSame
  <2> QED BY <2>2, <2>4
<1>7. Mirror(s, Len(s), d, Len(d), g \cup {x.macro})
  <2>1. Mirror(r, n, c, Len(c), g)
    BY DEF Fits
  <2>2. Mirror(s, n, d, Len(c), g)
    BY <1>1, <1>2, <1>4, <2>1, MirrorSame
  <2>3. From(s, n + 1) \in Ending
    BY <1>2 DEF Ending
  <2>4. Mirror(s, n + 1, d, Len(d), g \cup {x.macro})
    <3>1. Len(c) + 1 <= Len(d) /\ d[Len(c) + 1].macro \notin g
      BY <1>4
    <3>2. Mirror(s, n + 1, d, Len(c) + 1,
                 IF From(s, n + 1) = EOR THEN g \cup {d[Len(c) + 1].macro} ELSE g)
      BY <1>1, <2>2, <2>3, <3>1, MirrorMark
    <3> QED BY <3>2, <1>2, <1>4
  <2>5. ASSUME NEW i \in (n + 1) + 1 .. Len(s) PROVE From(s, i) \notin Ending
    <3>1. i \in n + 2 .. Len(s)
      BY <1>1, <1>3
    <3> QED BY <3>1, <1>2, Marks DEF Ending
  <2> QED BY <1>3, <2>4, <2>5, MirrorNone
<1>8. Shaped(s)
  <2>1. s # <<>>
    BY <1>1, <1>2, <1>3
  <2>2. ASSUME NEW e \in 1 .. Len(s) PROVE From(s, e) = EOU <=> e = 1
    <3>1. e \in 1 .. n \/ e = n + 1 \/ e \in n + 2 .. Len(s)
      BY <1>1, <1>3
    <3>2. ASSUME e \in 1 .. n PROVE From(s, e) = EOU <=> e = 1
      <4>1. From(s, e) = From(r, e)
        BY <1>2, <3>2 DEF SameEnd
      <4>2. From(r, e) = EOU <=> e = 1
        BY <3>2 DEF Fits, Shaped
      <4> QED BY <4>1, <4>2
    <3>3. ASSUME e \notin 1 .. n PROVE From(s, e) # EOU /\ e # 1
      BY <1>1, <1>2, <3>1, <3>3, Marks
    <3> QED BY <3>2, <3>3
  <2>3. ASSUME NEW e \in 0 .. Len(s) PROVE Number({BOA}, s, e) <= Number({EOA}, s, e)
    <3>1. \A i \in 0 .. n : Number({BOA}, r, i) <= Number({EOA}, r, i)
      BY DEF Fits, Shaped
    <3>2. ASSUME e \in 0 .. n PROVE Number({BOA}, s, e) <= Number({EOA}, s, e)
      <4>1. Number({BOA}, r, e) = Number({BOA}, s, e)
        BY <1>1, <1>2, <3>2, NumberSame
      <4>2. Number({EOA}, r, e) = Number({EOA}, s, e)
        BY <1>1, <1>2, <3>2, NumberSame
      <4> QED BY <3>1, <3>2, <4>1, <4>2
    <3>3. ASSUME e \notin 0 .. n PROVE Number({BOA}, s, e) <= Number({EOA}, s, e)
      <4>1. e \in n + 1 .. Len(s) /\ n \in 0 .. n
        BY <1>1, <1>3, <3>3
      <4>2. Number({BOA}, s, e) = Number({BOA}, s, n + 1)
        BY <1>5, <4>1
      <4>3. Number({EOA}, s, e) = Number({EOA}, s, n + 1)
        BY <1>5, <4>1
      <4> QED BY <3>1, <4>1, <4>2, <4>3, <1>6
    <3> QED BY <3>2, <3>3
  <2> QED BY <1>2, <2>1, <2>2, <2>3 DEF Shaped
<1>9. All({EOA}, s) = All({EOA}, r) /\ All({BOA}, s) = All({BOA}, r)
  <2>1. Len(s) \in n + 1 .. Len(s)
    BY <1>1, <1>3
  <2>2. Number({EOA}, s, Len(s)) = Number({EOA}, s, n + 1)
    BY <1>5, <2>1
  <2>3. Number({BOA}, s, Len(s)) = Number({BOA}, s, n + 1)
    BY <1>5, <2>1
  <2> QED BY <2>2, <2>3, <1>6 DEF All
<1> QED BY <1>7, <1>8, <1>9 DEF Fits, d

(* An argument is put before the text. *)
LEMMA FitsPutArg ==
  ASSUME NEW C, NEW r, NEW c \in Seq(C), NEW g, Fits(r, c, g), NEW x, x.macro \notin g,
         NEW s, ArgumentBefore(r, s)
  PROVE  /\ Fits(s, Append(c, x), g)
         /\ All({EOA}, s) = All({EOA}, r) + 1 /\ All({BOA}, s) = All({BOA}, r) + 1
         /\ All({EOA}, r) \in Nat /\ All({BOA}, r) \in Nat
<1> DEFINE n == Len(r)
           l == Len(s) - 1
           d == Append(c, x)
<1>1. r \in Seq(TextTokens) /\ n \in Nat /\ n # 0
  BY DEF Fits, Shaped
<1>2. /\ s \in Seq(TextTokens) /\ n + 2 <= Len(s)
      /\ SameEnd(r, s, n) /\ From(s, n + 1) = EOA /\ From(s, Len(s)) = BOA
      /\ \A e \in n + 2 .. Len(s) - 1 : From(s, e) \in PlainTokens
  BY DEF ArgumentBefore
<1>3. /\ Len(s) \in Nat /\ n + 1 <= l /\ n + 1 \in Nat /\ n <= n + 1
      /\ l \in Nat /\ l + 1 = Len(s) /\ l <= Len(s)
  BY <1>1, <1>2
<1>4. Len(d) = Len(c) + 1 /\ d[Len(c) + 1] = x /\ SameMacros(c, d, Len(c)) /\ Len(c) \in Nat
  BY Appended
<1>5. \A e \in n + 2 .. l : From(s, e) \in PlainTokens
  BY <1>2
<1>0. n \in Nat /\ n # 0 /\ Len(r) = n
  BY <1>1
<1> HIDE DEF d, l, n
<1>6. ASSUME NEW T, T \subseteq {EOR, BOA, EOA}, NEW e \in n + 1 .. l
      PROVE  Number(T, s, e) = Number(T, s, n + 1)
  <2>1. e \in Nat /\ n + 1 <= e /\ \A i \in (n + 1) + 1 .. e : i \in n + 2 .. l
    BY <1>1, <1>0, <1>3
  <2>2. \A i \in (n + 1) + 1 .. e : From(s, i) \notin T
    BY <2>1, <1>5, <1>6, Marks
  <2> QED BY <2>1, <2>2, <1>0, <1>3, NumberNone
<1>7. ASSUME NEW T
      PROVE  /\ EOA \in T => Number(T, s, n + 1) = Number(T, r, n) + 1
             /\ EOA \notin T => Number(T, s, n + 1) = Number(T, r, n)
             /\ Number(T, r, n) \in Nat
  <2>1. Number(T, s, n + 1) = Number(T, s, n) + (IF From(s, n + 1) \in T THEN 1 ELSE 0)
    BY <1>1, NumberStep
  <2>2. n \in 0 .. n
    BY <1>1
  <2>3. Number(T, r, n) = Number(T, s, n)
    BY <1>1, <1>2, <2>2, NumberSame
  <2>4. Number(T, r, n) \in Nat
    BY <1>1, NumberNat
  <2> QED BY <2>1, <2>3, <2>4, <1>2
<1>8. ASSUME NEW T
      PROVE  /\ BOA \in T => Number(T, s, Len(s)) = Number(T, s, l) + 1
             /\ BOA \notin T => Number(T, s, Len(s)) = Number(T, s, l)
  <2>1. Number(T, s, l + 1) = Number(T, s, l) + (IF From(s, l + 1) \in T THEN 1 ELSE 0)
    BY <1>0, <1>3, NumberStep
  <2>2. From(s, l + 1) = BOA /\ Len(s) = l + 1
    BY <1>2, <1>3
  <2>3. Number(T, s, l) \in Nat
    BY <1>3, NumberNat
  <2> QED BY <2>1, <2>2, <2>3
<1>9. Mirror(s, Len(s), d, Len(d), g)
  <2>1. Mirror(r, n, c, Len(c), g)
    BY <1>0 DEF Fits
  <2>2. Mirror(s, n, d, Len(c), g)
    BY <1>1, <1>2, <1>4, <2>1, MirrorSame
  <2>3. From(s, n + 1) \in Ending
    BY <1>2 DEF Ending
  <2>4. Mirror(s, n + 1, d, Len(d), g)
    <3>1. Len(c) + 1 <= Len(d) /\ d[Len(c) + 1].macro \notin g
      BY <1>4
    <3>2. Mirror(s, n + 1, d, Len(c) + 1,
                 IF From(s, n + 1) = EOR THEN g \cup {d[Len(c) + 1].macro} ELSE g)
      BY <1>1, <2>2, <2>3, <3>1, MirrorMark
    <3> QED BY <3>2, <1>2, <1>4, Marks
  <2>5. ASSUME NEW i \in (n + 1) + 1 .. Len(s) PROVE From(s, i) \notin Ending
    <3>1. i \in n + 2 .. l \/ i = l + 1
      BY <1>0, <1>3
    <3> QED BY <3>1, <1>2, <1>0, <1>3, <1>5, Marks DEF Ending
  <2>6. n + 1 <= Len(s)
    BY <1>1, <1>0, <1>3
  <2> QED BY <1>0, <1>3, <2>4, <2>5, <2>6, MirrorNone
<1>11. /\ Number({EOA}, s, n + 1) = Number({EOA}, r, n) + 1 /\ Number({EOA}, r, n) \in Nat
       /\ Number({BOA}, s, n + 1) = Number({BOA}, r, n) /\ Number({BOA}, r, n) \in Nat
  <2>1. EOA \in {EOA} /\ EOA \notin {BOA}
    BY Marks
  <2> QED BY <2>1, <1>7
<1>12. /\ Number({EOA}, s, Len(s)) = Number({EOA}, s, n + 1)
       /\ Number({BOA}, s, Len(s)) = Number({BOA}, s, n + 1) + 1
  <2>1. l \in n + 1 .. l
    BY <1>1, <1>0, <1>3
  <2>2. Number({EOA}, s, l) = Number({EOA}, s, n + 1)
    BY <1>6, <2>1
  <2>3. Number({BOA}, s, l) = Number({BOA}, s, n + 1)
    BY <1>6, <2>1
  <2>4. BOA \notin {EOA} /\ BOA \in {BOA}
    BY Marks
  <2>5. Number({EOA}, s, Len(s)) = Number({EOA}, s, l)
    BY <2>4, <1>8
  <2>6. Number({BOA}, s, Len(s)) = Number({BOA}, s, l) + 1
    BY <2>4, <1>8
  <2> QED BY <2>2, <2>3, <2>5, <2>6
<1>13. Number({BOA}, r, n) <= Number({EOA}, r, n)
  <2>1. n \in 0 .. n
    BY <1>1
  <2> QED BY <2>1, <1>0 DEF Fits, Shaped
<1>14. Shaped(s)
  <2>1. s # <<>>
    BY <1>1, <1>2, <1>0, <1>3
  <2>2. ASSUME NEW e \in 1 .. Len(s) PROVE From(s, e) = EOU <=> e = 1
    <3>1. e \in 1 .. n \/ e = n + 1 \/ e \in n + 2 .. l \/ e = l + 1
      BY <1>0, <1>3
    <3>2. ASSUME e \in 1 .. n PROVE From(s, e) = EOU <=> e = 1
      <4>1. From(s, e) = From(r, e)
        BY <1>2, <3>2 DEF SameEnd
      <4>2. From(r, e) = EOU <=> e = 1
        BY <3>2, <1>0 DEF Fits, Shaped
      <4> QED BY <4>1, <4>2
    <3>3. ASSUME e \notin 1 .. n PROVE From(s, e) # EOU /\ e # 1
      <4>1. From(s, n + 1) = EOA /\ From(s, l + 1) = BOA
        BY <1>2, <1>3
      <4>2. From(s, e) # EOU
        BY <4>1, <1>5, <3>1, <3>3, Marks
      <4>3. e # 1
        BY <1>0, <3>3
      <4> QED BY <4>2, <4>3
    <3> QED BY <3>2, <3>3
  <2>3. ASSUME NEW e \in 0 .. Len(s) PROVE Number({BOA}, s, e) <= Number({EOA}, s, e)
    <3>1. \A i \in 0 .. n : Number({BOA}, r, i) <= Number({EOA}, r, i)
      BY <1>0 DEF Fits, Shaped
    <3>2. ASSUME e \in 0 .. n PROVE Number({BOA}, s, e) <= Number({EOA}, s, e)
      <4>1. Number({BOA}, r, e) = Number({BOA}, s, e)
        BY <1>1, <1>2, <3>2, NumberSame
      <4>2. Number({EOA}, r, e) = Number({EOA}, s, e)
        BY <1>1, <1>2, <3>2, NumberSame
      <4> QED BY <3>1, <3>2, <4>1, <4>2
    <3>3. ASSUME e \in n + 1 .. l PROVE Number({BOA}, s, e) <= Number({EOA}, s, e)
      <4>1. Number({BOA}, s, e) = Number({BOA}, s, n + 1)
        BY <1>6, <3>3
      <4>2. Number({EOA}, s, e) = Number({EOA}, s, n + 1)
        BY <1>6, <3>3
      <4> QED BY <4>1, <4>2, <1>11, <1>13
    <3>4. ASSUME e = l + 1 PROVE Number({BOA}, s, e) <= Number({EOA}, s, e)
      <4>1. e = Len(s)
        BY <3>4, <1>3
      <4>2. Number({BOA}, s, e) = Number({BOA}, r, n) + 1 /\ Number({EOA}, s, e) = Number({EOA}, r, n) + 1
        BY <4>1, <1>11, <1>12
      <4> QED BY <4>2, <1>11, <1>13
    <3>5. e \in 0 .. n \/ e \in n + 1 .. l \/ e = l + 1
      BY <1>0, <1>3
    <3> QED BY <3>2, <3>3, <3>4, <3>5
  <2> QED BY <1>2, <2>1, <2>2, <2>3 DEF Shaped
<1>15. Fits(s, d, g)
  BY <1>9, <1>14 DEF Fits
<1> QED BY <1>0, <1>11, <1>12, <1>15 DEF All, d

------------------------------------------------------------------------------
(* The steps that put text back.                                               *)

LEMMA AddTokensType ==
  ASSUME NEW u \in Seq(PlainTokens), NEW w \in Seq(PlainTokens)
  PROVE  AddTokens(u, w) \in Seq(PlainTokens)
<1> DEFINE s == u \o w
           places == {i \in DOMAIN s : ~(i > 1 /\ s[i] = Space /\ s[i - 1] = Space)}
<1>1. s \in Seq(PlainTokens)
  BY ConcatProperties
<1>2. AddTokens(u, w) = At(s, places)
  BY DEF AddTokens
<1> HIDE DEF s
<1>3. \A i \in places : s[i] \in PlainTokens
  BY <1>1
<1> HIDE DEF places
<1> QED BY <1>1, <1>2, <1>3, AtType

LEMMA MacroTypes ==
  ASSUME program \in Programs, NEW name \in DOMAIN macros
  PROVE  /\ macros[name].body \in Seq(PlainTokens) /\ macros[name].params \in Seq(Names)
         /\ ~macros[name].function => macros[name].params = <<>>
BY ProgramsAssumption DEF macros

LEMMA PieceType ==
  ASSUME NEW S, NEW s \in Seq(S), NEW a \in Nat \ {0}, NEW b \in Int, b <= Len(s)
  PROVE  SubSeq(s, a, b) \in Seq(S)
OBVIOUS

LEMMA PrefixFacts ==
  ASSUME NEW S, NEW s \in Seq(S), NEW k \in 0 .. Len(s)
  PROVE  Len(SubSeq(s, 1, k)) = k /\ \A i \in 1 .. k : SubSeq(s, 1, k)[i] = s[i]
OBVIOUS

LEMMA LeastIsMin ==
  ASSUME NEW T \in SUBSET Nat, T # {}
  PROVE  Min(T) \in T /\ \A x \in T : Min(T) <= x
<1>1. PICK i \in T : TRUE
  OBVIOUS
<1> DEFINE U == {j \in T : j <= i}
<1>2. U \in SUBSET (0 .. i) /\ U # {} /\ i \in Nat
  <2>1. i \in Nat /\ i \in U
    BY <1>1
  <2>2. \A j \in U : j \in Nat /\ j <= i
    OBVIOUS
  <2> HIDE DEF U
  <2>3. \A j \in U : j \in 0 .. i
    BY <2>1, <2>2
  <2> QED BY <2>1, <2>3
<1>3. PICK j \in U : \A k \in U : j <= k
  BY <1>2, LeastNumber
<1>4. j \in T /\ \A x \in T : j <= x
  BY <1>2, <1>3
<1>5. \E y \in T : \A x \in T : y <= x
  BY <1>4
<1> QED BY <1>5 DEF Min

(* Contains and the choice of an argument; the places of parameters are in the body. *)
LEMMA ChosenArg ==
  ASSUME NEW S, NEW C, NEW params \in Seq(S), NEW name, Contains(params, name),
         NEW args \in Seq(C), Len(args) = Len(params)
  PROVE  args[CHOOSE k \in DOMAIN params : params[k] = name] \in C
<1>1. DOMAIN params = 1 .. Len(params) /\ DOMAIN args = 1 .. Len(args)
  OBVIOUS
<1>2. \E k \in DOMAIN params : params[k] = name
  BY <1>1 DEF Contains
<1> DEFINE i == CHOOSE k \in DOMAIN params : params[k] = name
<1>3. i \in DOMAIN params
  BY <1>2
<1> HIDE DEF i
<1>4. i \in 1 .. Len(args)
  BY <1>1, <1>3
<1>5. args[i] \in C
  BY <1>4
<1> QED BY <1>5 DEF i

LEMMA AppendType ==
  ASSUME NEW C, NEW c \in Seq(C), NEW x \in C
  PROVE  Append(c, x) \in Seq(C)
OBVIOUS

(* What process_replacement has put before the rest of the text. *)
Continued(call, calls, x) == x \in Calls /\ x.macro = call.macro /\ stack' = Append(calls, x)

ArgumentPut(call, rest, calls, flags) ==
  /\ ArgumentBefore(rest, text') /\ ignored' = flags /\ status' = status
  /\ \E x : Continued(call, calls, x)

ReplacementPut(call, rest, calls, flags) ==
  /\ ReplacementBefore(rest, text') /\ ignored' = flags \cup {call.macro} /\ status' = status
  /\ rest # <<>>
  /\ \E x : Continued(call, calls, x)

NothingPut(call, rest, calls) ==
  /\ rest = <<>> /\ text' = rest /\ status' = "aborted"
  /\ Continued(call, calls, call)

LEMMA ResumePuts ==
  ASSUME program \in Programs, NEW call \in Calls, NEW rest \in Seq(TextTokens),
         NEW calls, NEW flags, Resume(call, rest, calls, flags)
  PROVE  \/ ArgumentPut(call, rest, calls, flags)
         \/ ReplacementPut(call, rest, calls, flags)
         \/ NothingPut(call, rest, calls)
<1> DEFINE m == macros[call.macro]
           places == {i \in call.pos + 1 .. Len(m.body) : Contains(m.params, m.body[i].repr)}
           upTo(n) == AddTokens(call.repl, SubSeq(m.body, call.pos + 1, n))
           arg(i) == call.args[CHOOSE k \in DOMAIN m.params : m.params[k] = m.body[i].repr]
<1>1. /\ call.macro \in DOMAIN macros /\ call.args \in Seq(Seq(PlainTokens))
      /\ call.pos \in Nat /\ call.repl \in Seq(PlainTokens)
      /\ Len(call.args) = Len(m.params) /\ call.pos <= Len(m.body)
  BY DEF Calls
<1>2. m.body \in Seq(PlainTokens) /\ m.params \in Seq(Names) /\ Len(m.body) \in Nat
  BY <1>1, MacroTypes
<1>3. ASSUME NEW n \in Int, n <= Len(m.body) PROVE upTo(n) \in Seq(PlainTokens)
  <2>1. call.pos + 1 \in Nat \ {0}
    BY <1>1
  <2>2. SubSeq(m.body, call.pos + 1, n) \in Seq(PlainTokens)
    BY <2>1, <1>2, <1>3, PieceType
  <2> QED BY <2>2, <1>1, AddTokensType
<1>4. \/ /\ places # {}
         /\ text' = <<BOA>> \o arg(Min(places)) \o <<EOA>> \o rest
         /\ stack' = Append(calls, [call EXCEPT !.pos = Min(places), !.repl = upTo(Min(places) - 1)])
         /\ ignored' = flags
         /\ UNCHANGED status
      \/ /\ places = {} /\ rest # <<>>
         /\ text' = upTo(Len(m.body)) \o <<EOR>> \o rest
         /\ stack' = Append(calls, [call EXCEPT !.back = TRUE])
         /\ ignored' = flags \cup {call.macro}
         /\ UNCHANGED status
      \/ /\ places = {} /\ rest = <<>>
         /\ text' = rest
         /\ stack' = Append(calls, call)
         /\ ignored' = flags
         /\ status' = "aborted"
  BY DEF Resume
<1>5. CASE /\ places = {} /\ rest # <<>>
           /\ text' = upTo(Len(m.body)) \o <<EOR>> \o rest
           /\ stack' = Append(calls, [call EXCEPT !.back = TRUE])
           /\ ignored' = flags \cup {call.macro}
           /\ UNCHANGED status
  <2> DEFINE x == [call EXCEPT !.back = TRUE]
  <2>1. upTo(Len(m.body)) \in Seq(PlainTokens)
    BY <1>2, <1>3
  <2>2. x \in Calls /\ x.macro = call.macro
    <3>1. /\ x.macro = call.macro /\ x.args = call.args /\ x.pos = call.pos
          /\ x \in [macro : DOMAIN macros, args : Seq(Seq(PlainTokens)), pos : Nat,
                     repl : Seq(PlainTokens), back : BOOLEAN]
      BY DEF Calls
    <3> QED BY <3>1, <1>1 DEF Calls
  <2> HIDE DEF upTo, m, x
  <2>3. ReplacementBefore(rest, text')
    BY <1>5, <2>1, PutEnd
  <2>4. Continued(call, calls, x)
    BY <1>5, <2>2 DEF Continued, x
  <2> QED BY <1>5, <2>3, <2>4 DEF ReplacementPut
<1>6. CASE /\ places # {}
           /\ text' = <<BOA>> \o arg(Min(places)) \o <<EOA>> \o rest
           /\ stack' = Append(calls, [call EXCEPT !.pos = Min(places), !.repl = upTo(Min(places) - 1)])
           /\ ignored' = flags
           /\ UNCHANGED status
  <2> DEFINE i == Min(places)
             a == arg(i)
             x == [call EXCEPT !.pos = i, !.repl = upTo(i - 1)]
  <2>1. /\ text' = <<BOA>> \o a \o <<EOA>> \o rest
        /\ stack' = Append(calls, x)
    BY <1>6
  <2>2. i \in places
    <3>1. places \in SUBSET Nat
      BY <1>1, <1>2
    <3> HIDE DEF places
    <3> QED BY <3>1, <1>6, LeastIsMin
  <2> HIDE DEF i
  <2>3. i \in call.pos + 1 .. Len(m.body) /\ Contains(m.params, m.body[i].repr)
    BY <2>2
  <2> HIDE DEF places
  <2>4. i \in Nat /\ i <= Len(m.body) /\ i - 1 \in Int /\ i - 1 <= Len(m.body)
    BY <2>3, <1>1, <1>2
  <2>5. upTo(i - 1) \in Seq(PlainTokens)
    BY <2>4, <1>3
  <2>6. a \in Seq(PlainTokens)
    BY <2>3, <1>1, <1>2, ChosenArg
  <2> HIDE DEF upTo, a
  <2>7. x \in Calls /\ x.macro = call.macro
    <3>1. /\ x.macro = call.macro /\ x.args = call.args /\ x.pos = i /\ x.repl = upTo(i - 1)
          /\ x \in [macro : DOMAIN macros, args : Seq(Seq(PlainTokens)), pos : Nat,
                     repl : Seq(PlainTokens), back : BOOLEAN]
      BY <2>4, <2>5 DEF Calls
    <3> QED BY <3>1, <2>4, <1>1 DEF Calls
  <2> HIDE DEF x, m
  <2>8. ArgumentBefore(rest, text')
    BY <2>1, <2>6, PutArg
  <2>9. Continued(call, calls, x)
    BY <2>1, <2>7 DEF Continued
  <2> QED BY <1>6, <2>8, <2>9 DEF ArgumentPut
<1>7. CASE /\ places = {} /\ rest = <<>>
           /\ text' = rest
           /\ stack' = Append(calls, call)
           /\ ignored' = flags
           /\ status' = "aborted"
  BY <1>7 DEF NothingPut, Continued
<1> QED BY <1>4, <1>5, <1>6, <1>7

LEMMA ResumeFits ==
  ASSUME program \in Programs, NEW call \in Calls, NEW rest, NEW calls \in Seq(Calls),
         NEW flags, Fits(rest, calls, flags), call.macro \notin flags,
         Resume(call, rest, calls, flags)
  PROVE  /\ Fits(text', stack', ignored') /\ stack' \in Seq(Calls)
         /\ \E n \in {0, 1} : /\ All({EOA}, text') = All({EOA}, rest) + n
                             /\ All({BOA}, text') = All({BOA}, rest) + n
<1>1. rest \in Seq(TextTokens) /\ rest # <<>>
  BY DEF Fits, Shaped
<1>2. CASE ReplacementPut(call, rest, calls, flags)
  <2>1. PICK x : Continued(call, calls, x)
    BY <1>2 DEF ReplacementPut
  <2>2. x \in Calls /\ x.macro = call.macro /\ stack' = Append(calls, x)
    BY <2>1 DEF Continued
  <2>3. ReplacementBefore(rest, text') /\ ignored' = flags \cup {x.macro} /\ x.macro \notin flags
    BY <1>2, <2>2 DEF ReplacementPut
  <2>4. /\ Fits(text', Append(calls, x), flags \cup {x.macro})
        /\ All({EOA}, text') = All({EOA}, rest) /\ All({BOA}, text') = All({BOA}, rest)
    BY <2>3, FitsPutEnd
  <2>5. All({EOA}, rest) \in Nat /\ All({BOA}, rest) \in Nat
    BY <1>1, AllNat
  <2>6. stack' \in Seq(Calls)
    BY <2>2, AppendType
  <2>7. /\ All({EOA}, text') = All({EOA}, rest) + 0
        /\ All({BOA}, text') = All({BOA}, rest) + 0
    BY <2>4, <2>5
  <2> QED BY <2>2, <2>3, <2>4, <2>6, <2>7
<1>3. CASE ArgumentPut(call, rest, calls, flags)
  <2>1. PICK x : Continued(call, calls, x)
    BY <1>3 DEF ArgumentPut
  <2>2. x \in Calls /\ x.macro = call.macro /\ stack' = Append(calls, x)
    BY <2>1 DEF Continued
  <2>3. ArgumentBefore(rest, text') /\ ignored' = flags /\ x.macro \notin flags
    BY <1>3, <2>2 DEF ArgumentPut
  <2>4. /\ Fits(text', Append(calls, x), flags)
        /\ All({EOA}, text') = All({EOA}, rest) + 1 /\ All({BOA}, text') = All({BOA}, rest) + 1
    BY <2>3, FitsPutArg
  <2>5. stack' \in Seq(Calls)
    BY <2>2, AppendType
  <2> QED BY <2>2, <2>3, <2>4, <2>5
<1>4. ~NothingPut(call, rest, calls)
  BY <1>1 DEF NothingPut
<1> QED BY <1>1, <1>2, <1>3, <1>4, ResumePuts

------------------------------------------------------------------------------
(* The text without its beginning.                                             *)

LEMMA Popped ==
  ASSUME NEW C, stack \in Seq(C), NEW n \in 0 .. Len(stack)
  PROVE  /\ Below(n) = SubSeq(stack, 1, Len(stack) - n) /\ Below(n) \in Seq(C)
         /\ Unignored(n) = ignored \ Macros(stack, Len(stack) - n + 1, Len(stack))
<1>1. Len(stack) \in Nat /\ Len(stack) - n \in 0 .. Len(stack)
  OBVIOUS
<1>2. SubSeq(stack, 1, Len(stack) - n) \in Seq(C)
  BY <1>1, PieceType
<1> DEFINE l == Len(stack) - n
           top == Drop(stack, l)
<1>3. top \in Seq(C) /\ Len(top) = n /\ \A i \in 1 .. n : top[i] = stack[l + i]
  <2>1. l \in 0 .. Len(stack) /\ Len(stack) - l = n
    BY <1>1
  <2> HIDE DEF l
  <2>2. /\ Drop(stack, l) \in Seq(C) /\ Len(Drop(stack, l)) = Len(stack) - l
        /\ \A i \in 1 .. Len(stack) - l : Drop(stack, l)[i] = stack[l + i]
    BY <2>1, DropFacts
  <2> QED BY <2>1, <2>2
<1>4. DOMAIN top = 1 .. n
  BY <1>3
<1>5. {c.macro : c \in ToSet(top)} = {top[i].macro : i \in 1 .. n}
  BY <1>4 DEF ToSet
<1> HIDE DEF top
<1>6. \A i \in 1 .. n : l + i \in l + 1 .. Len(stack)
  BY <1>1
<1>7. \A j \in l + 1 .. Len(stack) : j - l \in 1 .. n /\ l + (j - l) = j
  BY <1>1
<1>8. {top[i].macro : i \in 1 .. n} = {stack[j].macro : j \in l + 1 .. Len(stack)}
  <2> HIDE DEF l
  <2> DEFINE U == {top[i].macro : i \in 1 .. n}
             W == {stack[j].macro : j \in l + 1 .. Len(stack)}
  <2>1. ASSUME NEW i \in 1 .. n PROVE top[i].macro \in W
    BY <1>3, <1>6
  <2>2. ASSUME NEW j \in l + 1 .. Len(stack) PROVE stack[j].macro \in U
    <3>1. j - l \in 1 .. n /\ top[j - l] = stack[j]
      BY <1>3, <1>7
    <3> QED BY <3>1
  <2> QED BY <2>1, <2>2
<1>9. Unignored(n) = ignored \ Macros(stack, l + 1, Len(stack))
  BY <1>5, <1>8 DEF Unignored, Macros, top
<1> QED BY <1>2, <1>9 DEF Below

LEMMA TextCut ==
  ASSUME MirrorInv, NEW k \in 0 .. Len(text) - 1,
         NEW n, n = Cardinality(Places(Ending, text, 1, k))
  PROVE  /\ n \in 0 .. Len(stack) /\ Below(n) \in Seq(Calls)
         /\ Fits(Drop(text, k), Below(n), Unignored(n))
<1>1. stack \in Seq(Calls) /\ Fits(text, stack, ignored)
  BY DEF MirrorInv
<1>2. /\ n \in 0 .. Len(stack)
      /\ Fits(Drop(text, k), SubSeq(stack, 1, Len(stack) - n),
              ignored \ Macros(stack, Len(stack) - n + 1, Len(stack)))
  BY <1>1, FitsDrop
<1>3. /\ Below(n) = SubSeq(stack, 1, Len(stack) - n) /\ Below(n) \in Seq(Calls)
      /\ Unignored(n) = ignored \ Macros(stack, Len(stack) - n + 1, Len(stack))
  BY <1>1, <1>2, Popped
<1> QED BY <1>2, <1>3

LEMMA NoPlaces ==
  ASSUME NEW T, NEW s, NEW k, \A i \in 1 .. k : s[i] \notin T
  PROVE  Cardinality(Places(T, s, 1, k)) = 0
<1>1. Places(T, s, 1, k) = {}
  BY DEF Places
<1> QED BY <1>1, FS_EmptySet

LEMMA FirstPlace ==
  ASSUME NEW T, NEW s, s[1] \in T
  PROVE  Cardinality(Places(T, s, 1, 1)) = 1
<1>1. Places(T, s, 1, 1) = {1}
  BY DEF Places
<1> QED BY <1>1, FS_Singleton

LEMMA TextFacts ==
  ASSUME MirrorInv
  PROVE  /\ text \in Seq(TextTokens) /\ text # <<>> /\ Len(text) \in Nat /\ Len(text) # 0
         /\ Head(text) \in TextTokens /\ Head(text) = text[1] /\ Tail(text) = Drop(text, 1)
         /\ Head(text) # EOU => 1 \in 0 .. Len(text) - 1
<1>1. /\ text \in Seq(TextTokens) /\ text # <<>>
      /\ \A e \in 1 .. Len(text) : From(text, e) = EOU <=> e = 1
  BY DEF MirrorInv, Fits, Shaped
<1>2. Len(text) \in Nat /\ Len(text) # 0 /\ Len(text) \in 1 .. Len(text) /\ 1 \in 1 .. Len(text)
  BY <1>1
<1>3. Tail(text) = Drop(text, 1) /\ Head(text) = text[1] /\ From(text, Len(text)) = text[1]
  BY <1>1, TailIsDrop
<1>4. text[1] \in TextTokens
  BY <1>1, <1>2
<1>5. ASSUME Head(text) # EOU PROVE 1 \in 0 .. Len(text) - 1
  <2>1. From(text, Len(text)) = EOU <=> Len(text) = 1
    BY <1>1, <1>2
  <2>2. Len(text) # 1
    BY <1>3, <1>5, <2>1
  <2> DEFINE n == Len(text)
  <2>3. n \in Nat /\ n # 0 /\ n # 1
    BY <1>2, <2>2
  <2> HIDE DEF n
  <2>4. 1 \in 0 .. n - 1
    BY <2>3
  <2> QED BY <2>4 DEF n
<1> QED BY <1>1, <1>2, <1>3, <1>4, <1>5

LEMMA HeadCut ==
  ASSUME MirrorInv, Head(text) # EOU
  PROVE  /\ Head(text) \in Ending =>
               /\ 1 \in 0 .. Len(stack) /\ Below(1) \in Seq(Calls)
               /\ Fits(Tail(text), Below(1), Unignored(1))
         /\ Head(text) \notin Ending => Fits(Tail(text), stack, ignored)
<1>1. /\ text \in Seq(TextTokens) /\ Len(text) \in Nat /\ 1 \in 0 .. Len(text) - 1
      /\ Head(text) = text[1] /\ Tail(text) = Drop(text, 1) /\ 1 \in 0 .. Len(text)
  BY TextFacts
<1>2. ASSUME Head(text) \in Ending
      PROVE  /\ 1 \in 0 .. Len(stack) /\ Below(1) \in Seq(Calls)
             /\ Fits(Tail(text), Below(1), Unignored(1))
  <2>1. Cardinality(Places(Ending, text, 1, 1)) = 1
    BY <1>1, <1>2, FirstPlace
  <2> QED BY <2>1, <1>1, TextCut
<1>3. ASSUME Head(text) \notin Ending PROVE Fits(Tail(text), stack, ignored)
  <2>1. \A i \in 1 .. 1 : text[i] \notin Ending
    BY <1>1, <1>3
  <2>2. Cardinality(Places(Ending, text, 1, 1)) = 0
    BY <2>1, NoPlaces
  <2>3. Fits(Drop(text, 1), Below(0), Unignored(0))
    BY <2>2, <1>1, TextCut
  <2>4. stack \in Seq(Calls) /\ Len(stack) \in Nat /\ 0 \in 0 .. Len(stack)
    BY DEF MirrorInv
  <2>5. /\ Below(0) = SubSeq(stack, 1, Len(stack) - 0)
        /\ Unignored(0) = ignored \ Macros(stack, Len(stack) - 0 + 1, Len(stack))
    BY <2>4, Popped
  <2>6. Below(0) = stack
    BY <2>4, <2>5
  <2>7. (Len(stack) - 0 + 1) .. Len(stack) = {}
    BY <2>4
  <2>8. Unignored(0) = ignored
    BY <2>5, <2>7 DEF Macros
  <2> QED BY <2>3, <2>6, <2>8, <1>1
<1> QED BY <1>2, <1>3

LEMMA HeadCount ==
  ASSUME MirrorInv, Head(text) # EOU, NEW T
  PROVE  /\ Head(text) \in T => All(T, text) = All(T, Tail(text)) + 1
         /\ Head(text) \notin T => All(T, text) = All(T, Tail(text))
         /\ All(T, Tail(text)) \in Nat
<1>0. /\ text \in Seq(TextTokens) /\ Len(text) \in Nat /\ 1 \in 0 .. Len(text) - 1
      /\ Head(text) = text[1] /\ Tail(text) = Drop(text, 1) /\ 1 \in 0 .. Len(text)
  BY TextFacts
<1>1. Drop(text, 1) \in Seq(TextTokens)
  BY <1>0, DropFacts
<1>2. All(T, Drop(text, 1)) \in Nat
  BY <1>1, AllNat
<1>3. All(T, text) = All(T, Drop(text, 1)) + Cardinality(Places(T, text, 1, 1))
  BY <1>0, NumberDrop
<1>4. Head(text) \in T => Cardinality(Places(T, text, 1, 1)) = 1
  BY <1>0, FirstPlace
<1>5. ASSUME Head(text) \notin T PROVE Cardinality(Places(T, text, 1, 1)) = 0
  <2>1. \A i \in 1 .. 1 : text[i] \notin T
    BY <1>0, <1>5
  <2> QED BY <2>1, NoPlaces
<1> DEFINE all == All(T, Drop(text, 1))
           one == Cardinality(Places(T, text, 1, 1))
<1>6. All(T, text) = all + one /\ all \in Nat
  BY <1>2, <1>3
<1>7. (one = 1 => All(T, text) = all + 1) /\ (one = 0 => All(T, text) = all)
  <2> HIDE DEF all, one
  <2> QED BY <1>6
<1>8. Tail(text) = Drop(text, 1)
  BY <1>0
<1> QED BY <1>2, <1>4, <1>5, <1>7, <1>8

------------------------------------------------------------------------------
(* The output.                                                                 *)

LEMMA CountNat ==
  ASSUME NEW S, NEW b \in Seq(S), NEW t
  PROVE  Count(b, t) \in Nat /\ IsFiniteSet({i \in DOMAIN b : b[i] = t})
<1>1. Len(b) \in Nat /\ DOMAIN b = 1 .. Len(b)
  OBVIOUS
<1>2. IsFiniteSet(1 .. Len(b)) /\ {i \in DOMAIN b : b[i] = t} \subseteq 1 .. Len(b)
  BY <1>1, FS_Interval
<1>3. IsFiniteSet({i \in DOMAIN b : b[i] = t})
  BY <1>2, FS_Subset
<1> QED BY <1>3, FS_CardinalityType DEF Count

LEMMA CountAppend ==
  ASSUME NEW S, NEW b \in Seq(S), NEW x, NEW t
  PROVE  /\ x = t => Count(Append(b, x), t) = Count(b, t) + 1
         /\ x # t => Count(Append(b, x), t) = Count(b, t)
<1> DEFINE n == Len(b)
           old == {i \in 1 .. n : b[i] = t}
           new == {i \in 1 .. n + 1 : Append(b, x)[i] = t}
<1>1. n \in Nat /\ DOMAIN b = 1 .. n /\ DOMAIN Append(b, x) = 1 .. n + 1
  OBVIOUS
<1>2. \A i \in 1 .. n : Append(b, x)[i] = b[i]
  OBVIOUS
<1>3. Append(b, x)[n + 1] = x
  OBVIOUS
<1>4. \A i \in Nat : i \in 1 .. n + 1 <=> i \in 1 .. n \/ i = n + 1
  BY <1>1
<1>5. x = t => new = old \cup {n + 1}
  BY <1>2, <1>3, <1>4
<1>6. x # t => new = old
  BY <1>2, <1>3, <1>4
<1>7. IsFiniteSet(old) /\ n + 1 \notin old
  <2>1. IsFiniteSet({i \in DOMAIN b : b[i] = t})
    BY CountNat
  <2>2. {i \in DOMAIN b : b[i] = t} = old
    BY <1>1
  <2>3. n + 1 \notin 1 .. n
    BY <1>1
  <2> QED BY <2>1, <2>2, <2>3
<1>8. Count(b, t) = Cardinality(old) /\ Count(Append(b, x), t) = Cardinality(new)
  BY <1>1 DEF Count
<1> HIDE DEF old, new
<1>9. Cardinality(old \cup {n + 1}) = Cardinality(old) + 1
  BY <1>7, FS_AddElement
<1> QED BY <1>5, <1>6, <1>8, <1>9

(* More kinds of tokens, no fewer places. *)
LEMMA NumberSubset ==
  ASSUME NEW T, NEW U, T \subseteq U, NEW S, NEW s \in Seq(S)
  PROVE  All(T, s) <= All(U, s)
<1> DEFINE n == Len(s)
           places(V) == {i \in 1 .. n : From(s, i) \in V}
<1>1. n \in Nat
  OBVIOUS
<1>2. IsFiniteSet(places(U))
  BY <1>1, NumberNat
<1>3. places(T) \subseteq places(U)
  OBVIOUS
<1>4. All(T, s) = Cardinality(places(T)) /\ All(U, s) = Cardinality(places(U))
  BY DEF All, Number
<1> HIDE DEF places
<1> QED BY <1>2, <1>3, <1>4, FS_Subset

(* No argument is begun while no call is open, and so none is written. *)
LEMMA OutFits ==
  ASSUME buffer \in Seq(PlainTokens \cup {BOA}), NEW t \in PlainTokens \cup {BOA},
         NEW c, NEW g, Out(t, c), Fits(text', c, g), NEW k \in {0, 1}, t = BOA <=> k = 1,
         All({EOA}, text') = All({BOA}, text') + Count(buffer, BOA) + k
  PROVE  /\ buffer' \in Seq(PlainTokens \cup {BOA})
         /\ All({EOA}, text') = All({BOA}, text') + Count(buffer', BOA)
<1>1. text' \in Seq(TextTokens)
  BY DEF Fits, Shaped
<1>2. All({EOA}, text') \in Nat /\ All({BOA}, text') \in Nat /\ Count(buffer, BOA) \in Nat
  BY <1>1, AllNat, CountNat
<1>3. CASE c # <<>>
  <2>1. buffer' = Append(buffer, t)
    BY <1>3 DEF Out
  <2>2. buffer' \in Seq(PlainTokens \cup {BOA})
    BY <2>1, AppendType
  <2>3. /\ t = BOA => Count(Append(buffer, t), BOA) = Count(buffer, BOA) + 1
        /\ t # BOA => Count(Append(buffer, t), BOA) = Count(buffer, BOA)
    BY CountAppend
  <2>4. Count(buffer', BOA) = Count(buffer, BOA) + k
    BY <2>1, <2>3, <1>2
  <2> QED BY <2>2, <2>4, <1>2
<1>4. CASE c = <<>>
  <2>1. buffer' = <<>>
    BY <1>4 DEF Out
  <2>2. Len(c) = 0 /\ Len(c) = All(Ending, text')
    BY <1>4 DEF Fits, Mirror, All
  <2>3. All({EOA}, text') <= All(Ending, text')
    BY <1>1, NumberSubset DEF Ending
  <2>4. All({EOA}, text') = 0
    BY <2>2, <2>3, <1>2
  <2>5. All({BOA}, text') = 0
    BY <2>4, <1>2
  <2>6. {i \in DOMAIN <<>> : <<>>[i] = BOA} = {}
    OBVIOUS
  <2>7. Count(<<>>, BOA) = 0
    BY <2>6, FS_EmptySet DEF Count
  <2> QED BY <2>1, <2>4, <2>5, <2>7
<1> QED BY <1>3, <1>4

------------------------------------------------------------------------------
(* The steps.                                                                  *)

LEMMA InitMirror == Init => MirrorInv
<1> SUFFICES ASSUME Init PROVE MirrorInv
  OBVIOUS
<1> DEFINE end == <<Space, EOU>>
<1>1. program \in Programs /\ text = program.source \o end /\ program.source \in Seq(PlainTokens)
  BY ProgramsAssumption DEF Init
<1>2. program.source \in Seq(TextTokens) /\ end \in Seq(TextTokens) /\ Len(end) = 2
  BY <1>1, Marks DEF TextTokens
<1>3. From(end, 1) = EOU /\ From(end, 2) = Space
  BY DEF From
<1> DEFINE source == program.source
<1> HIDE DEF end, source
<1>4. Joined(TextTokens, source, end, text)
  BY <1>1, <1>2, PutBack DEF source
<1>5. /\ text \in Seq(TextTokens) /\ Len(text) = 2 + Len(source) /\ Len(source) \in Nat
      /\ From(text, 1) = EOU /\ From(text, 2) = Space
  <2>1. 1 \in 1 .. 2 /\ 2 \in 1 .. 2 /\ Len(source) \in Nat
    BY <1>1 DEF source
  <2> QED BY <2>1, <1>2, <1>3, <1>4 DEF Joined, SameEnd
<1>6. ASSUME NEW e \in 2 .. Len(text) PROVE From(text, e) \in PlainTokens
  <2>1. ASSUME e # 2 PROVE From(text, e) \in PlainTokens
    <3>1. e - 2 \in 1 .. Len(source) /\ 2 + (e - 2) = e
      BY <1>5, <2>1
    <3>2. From(text, e) = From(source, e - 2)
      BY <3>1, <1>2, <1>4 DEF Joined
    <3>3. source \in Seq(PlainTokens)
      BY <1>1 DEF source
    <3> QED BY <3>1, <3>2, <3>3, FromType
  <2> QED BY <2>1, <1>5, Marks
<1>7. ASSUME NEW T, T \subseteq {EOR, BOA, EOA}, NEW e \in 0 .. Len(text)
      PROVE  Number(T, text, e) = 0
  <2>1. \A i \in 0 + 1 .. e : From(text, i) \notin T
    <3>1. \A i \in 0 + 1 .. e : i = 1 \/ i \in 2 .. Len(text)
      BY <1>5
    <3> QED BY <3>1, <1>5, <1>6, <1>7, Marks
  <2>2. e \in Nat /\ 0 \in Nat /\ 0 <= e
    BY <1>5
  <2>3. Number(T, text, e) = Number(T, text, 0)
    BY <2>1, <2>2, NumberNone
  <2> QED BY <2>3, NumberZero
<1>8. Shaped(text)
  <2>1. text # <<>>
    BY <1>5
  <2>2. ASSUME NEW e \in 1 .. Len(text) PROVE From(text, e) = EOU <=> e = 1
    <3>1. e = 1 \/ e \in 2 .. Len(text)
      BY <1>5
    <3> QED BY <3>1, <1>5, <1>6, Marks
  <2>3. ASSUME NEW e \in 0 .. Len(text)
        PROVE  Number({BOA}, text, e) <= Number({EOA}, text, e)
    <3>1. Number({BOA}, text, e) = 0
      BY <1>7
    <3>2. Number({EOA}, text, e) = 0
      BY <1>7
    <3> QED BY <3>1, <3>2
  <2> QED BY <1>5, <2>1, <2>2, <2>3 DEF Shaped
<1>9. stack = <<>> /\ ignored = {} /\ buffer = <<>> /\ Len(text) \in 0 .. Len(text)
  BY <1>5 DEF Init
<1>10. Mirror(text, Len(text), stack, Len(stack), ignored)
  <2>1. Number(Ending, text, Len(text)) = 0
    BY <1>7, <1>9 DEF Ending
  <2>2. \A e \in 1 .. Len(text) : e = 1 \/ e \in 2 .. Len(text)
    BY <1>5
  <2>3. Replacements(text, Len(text)) = {}
    BY <2>2, <1>5, <1>6, Marks DEF Replacements
  <2>4. Len(stack) = 0
    BY <1>9
  <2> QED BY <2>1, <2>3, <2>4, <1>9 DEF Mirror
<1>11. All({EOA}, text) = All({BOA}, text) + Count(buffer, BOA)
  <2>1. All({EOA}, text) = 0
    BY <1>7, <1>9 DEF All
  <2>2. All({BOA}, text) = 0
    BY <1>7, <1>9 DEF All
  <2>3. {i \in DOMAIN <<>> : <<>>[i] = BOA} = {}
    OBVIOUS
  <2>4. Count(buffer, BOA) = 0
    BY <1>9, <2>3, FS_EmptySet DEF Count
  <2> QED BY <2>1, <2>2, <2>4
<1>12. stack \in Seq(Calls) /\ buffer \in Seq(PlainTokens \cup {BOA})
  BY <1>9
<1> QED BY <1>1, <1>8, <1>10, <1>11, <1>12 DEF MirrorInv, Fits

(* The parts of the invariant that a step leaves as they were. *)
LEMMA SameCalls ==
  ASSUME MirrorInv, program' = program
  PROVE  program' \in Programs /\ Calls' = Calls
BY DEF MirrorInv, Calls, macros

LEMMA NothingDone ==
  ASSUME MirrorInv, UNCHANGED <<program, text, ignored, stack, buffer>>
  PROVE  MirrorInv'
BY SameCalls DEF MirrorInv

(* A token that is given out. *)
LEMMA GivenOut ==
  ASSUME MirrorInv, Head(text) \in PlainTokens \cup {BOA}, NEW t \in PlainTokens \cup {BOA},
         t = BOA <=> Head(text) = BOA, Out(t, stack), text' = Tail(text),
         UNCHANGED <<program, ignored, stack>>
  PROVE  MirrorInv'
<1> DEFINE k == IF t = BOA THEN 1 ELSE 0
<1>1. Head(text) # EOU /\ Head(text) \notin Ending /\ Head(text) \notin {EOA}
  BY Marks DEF Ending
<1>2. Fits(Tail(text), stack, ignored)
  BY <1>1, HeadCut
<1>3. All({EOA}, text) = All({EOA}, Tail(text)) /\ All({EOA}, Tail(text)) \in Nat
  BY <1>1, HeadCount
<1>4. /\ Head(text) \in {BOA} => All({BOA}, text) = All({BOA}, Tail(text)) + 1
      /\ Head(text) \notin {BOA} => All({BOA}, text) = All({BOA}, Tail(text))
      /\ All({BOA}, Tail(text)) \in Nat
  BY <1>1, HeadCount
<1>5. /\ buffer \in Seq(PlainTokens \cup {BOA})
      /\ All({EOA}, text) = All({BOA}, text) + Count(buffer, BOA)
  BY DEF MirrorInv
<1>6. Count(buffer, BOA) \in Nat
  BY <1>5, CountNat
<1>7. All({EOA}, text') = All({BOA}, text') + Count(buffer, BOA) + k
  BY <1>3, <1>4, <1>5, <1>6
<1>8. k \in {0, 1} /\ (t = BOA <=> k = 1)
  OBVIOUS
<1> HIDE DEF k
<1>9. Fits(text', stack, ignored)
  BY <1>2
<1>10. /\ buffer' \in Seq(PlainTokens \cup {BOA})
       /\ All({EOA}, text') = All({BOA}, text') + Count(buffer', BOA)
  BY <1>5, <1>7, <1>8, <1>9, OutFits
<1>11. program' \in Programs /\ Calls' = Calls /\ stack' \in Seq(Calls)
  BY SameCalls DEF MirrorInv
<1> QED BY <1>9, <1>10, <1>11 DEF MirrorInv

LEMMA CopiedMirror ==
  ASSUME MirrorInv, Copied
  PROVE  MirrorInv'
<1>1. Head(text) \in TextTokens
  BY TextFacts
<1>2. Head(text).code \notin {"EOR", "EOA", "EOU"}
  BY DEF Copied
<1>3. Head(text) \in PlainTokens \cup {BOA}
  BY <1>1, <1>2, Codes DEF TextTokens
<1> QED BY <1>3, GivenOut DEF Copied

LEMMA IgnoreMirror ==
  ASSUME MirrorInv, Ignore
  PROVE  MirrorInv'
<1> DEFINE t == [Head(text) EXCEPT !.code = "no macro"]
<1>1. Head(text) \in TextTokens /\ Head(text).code = "id"
  BY TextFacts DEF Ignore, Reads
<1>2. Head(text) \in PlainTokens
  BY <1>1, Codes
<1>3. Head(text) \in [code : {"id", "no macro"}, repr : Names]
  <2>1. Head(text) \notin {Sign(code) : code \in Signs}
    <3>1. ASSUME NEW code \in Signs, Head(text) = Sign(code) PROVE FALSE
      <4>1. Sign(code).code = code
        BY DEF Sign
      <4> QED BY <4>1, <1>1, <3>1, ProgramsAssumption
    <3> QED BY <3>1
  <2> QED BY <2>1, <1>2 DEF PlainTokens
<1>4. t \in PlainTokens
  BY <1>3 DEF PlainTokens
<1>5. t # BOA /\ Head(text) # BOA
  BY <1>2, <1>4, Marks
<1>6. Out(t, stack) /\ text' = Tail(text) /\ UNCHANGED <<program, ignored, stack>>
  BY DEF Ignore
<1> HIDE DEF t
<1> QED BY <1>2, <1>4, <1>5, <1>6, GivenOut

LEMMA FinishCallMirror ==
  ASSUME MirrorInv, FinishCall
  PROVE  MirrorInv'
<1>1. Head(text) = EOR
  BY TextFacts, Codes DEF FinishCall, Reads
<1>2. Head(text) # EOU /\ Head(text) \in Ending /\ Head(text) \notin {EOA}
      /\ Head(text) \notin {BOA}
  BY <1>1, Marks DEF Ending
<1>3. Below(1) \in Seq(Calls) /\ Fits(Tail(text), Below(1), Unignored(1))
  BY <1>2, HeadCut
<1>4. All({EOA}, text) = All({EOA}, Tail(text)) /\ All({BOA}, text) = All({BOA}, Tail(text))
  BY <1>2, HeadCount
<1>5. /\ text' = Tail(text) /\ stack' = Below(1) /\ ignored' = Unignored(1)
      /\ program' = program /\ buffer' = buffer
  BY DEF FinishCall
<1>6. program' \in Programs /\ Calls' = Calls /\ stack' \in Seq(Calls)
  BY <1>3, <1>5, SameCalls
<1>7. Fits(text', stack', ignored')
  BY <1>3, <1>5
<1>8. /\ buffer' \in Seq(PlainTokens \cup {BOA})
      /\ All({EOA}, text') = All({BOA}, text') + Count(buffer', BOA)
  BY <1>4, <1>5 DEF MirrorInv
<1> QED BY <1>6, <1>7, <1>8 DEF MirrorInv

LEMMA ExpandObjectMirror ==
  ASSUME MirrorInv, ExpandObject
  PROVE  MirrorInv'
<1> DEFINE name == Head(text).repr
           w == AddTokens(<<>>, macros[name].body)
           call == [macro |-> name, args |-> <<>>, pos |-> 0, repl |-> <<>>, back |-> TRUE]
<1>1. /\ Head(text).code = "id" /\ name \in DOMAIN macros /\ name \notin ignored
      /\ ~macros[name].function
      /\ text' = w \o <<EOR>> \o Tail(text)
      /\ ignored' = ignored \cup {name} /\ stack' = Append(stack, call)
      /\ program' = program /\ buffer' = buffer
  BY DEF ExpandObject, Reads
<1>2. Head(text) \in PlainTokens
  BY <1>1, TextFacts, Codes
<1>3. Head(text) # EOU /\ Head(text) \notin Ending /\ Head(text) \notin {EOA}
      /\ Head(text) \notin {BOA}
  BY <1>2, Marks DEF Ending
<1>4. Fits(Tail(text), stack, ignored) /\ stack \in Seq(Calls) /\ program \in Programs
  BY <1>3, HeadCut DEF MirrorInv
<1>5. All({EOA}, text) = All({EOA}, Tail(text)) /\ All({BOA}, text) = All({BOA}, Tail(text))
  BY <1>3, HeadCount
<1>6. macros[name].body \in Seq(PlainTokens) /\ macros[name].params = <<>>
  BY <1>1, <1>4, MacroTypes
<1>7. call \in Calls /\ call.macro = name
  <2>1. Len(macros[name].body) \in Nat /\ Len(macros[name].params) = 0 /\ Len(<<>>) = 0
    BY <1>6
  <2> QED BY <1>1, <2>1 DEF Calls
<1>8. w \in Seq(PlainTokens)
  <2>1. <<>> \in Seq(PlainTokens)
    OBVIOUS
  <2> QED BY <2>1, <1>6, AddTokensType
<1>9. Tail(text) \in Seq(TextTokens)
  BY <1>4 DEF Fits, Shaped
<1> HIDE DEF w, call, name
<1>10. ReplacementBefore(Tail(text), text')
  BY <1>1, <1>8, <1>9, PutEnd
<1>11. /\ Fits(text', Append(stack, call), ignored \cup {call.macro})
       /\ All({EOA}, text') = All({EOA}, Tail(text)) /\ All({BOA}, text') = All({BOA}, Tail(text))
  BY <1>1, <1>4, <1>7, <1>10, FitsPutEnd
<1>12. Fits(text', stack', ignored')
  BY <1>1, <1>7, <1>11
<1>13. program' \in Programs /\ Calls' = Calls /\ stack' \in Seq(Calls)
  BY <1>1, <1>4, <1>7, SameCalls, AppendType
<1>14. /\ buffer' \in Seq(PlainTokens \cup {BOA})
       /\ All({EOA}, text') = All({BOA}, text') + Count(buffer', BOA)
  BY <1>1, <1>5, <1>11 DEF MirrorInv
<1> QED BY <1>12, <1>13, <1>14 DEF MirrorInv

------------------------------------------------------------------------------
(* The end of an argument: what it became lies behind the last BOA of the buffer. *)

LEMMA LastMark ==
  ASSUME NEW b \in Seq(PlainTokens \cup {BOA}), Count(b, BOA) # 0,
         NEW m, m = Max({i \in DOMAIN b : b[i] = BOA})
  PROVE  /\ m \in 1 .. Len(b) /\ Drop(b, m) \in Seq(PlainTokens)
         /\ SubSeq(b, 1, m - 1) \in Seq(PlainTokens \cup {BOA})
         /\ Count(SubSeq(b, 1, m - 1), BOA) + 1 = Count(b, BOA)
<1> DEFINE n == Len(b)
           places == {i \in DOMAIN b : b[i] = BOA}
           front == SubSeq(b, 1, m - 1)
           less == {i \in 1 .. m - 1 : b[i] = BOA}
<1>1. n \in Nat /\ DOMAIN b = 1 .. n
  OBVIOUS
<1>2. places \in SUBSET (0 .. n) /\ places # {}
  <2>1. Count(b, BOA) = Cardinality(places)
    BY DEF Count
  <2>2. places \in SUBSET (0 .. n)
    BY <1>1
  <2> HIDE DEF places
  <2>3. Cardinality({}) = 0
    BY FS_EmptySet
  <2> QED BY <2>1, <2>2, <2>3
<1>3. m \in places /\ \A i \in places : i <= m
  <2>1. Max(places) \in places /\ \A i \in places : i <= Max(places)
    <3> HIDE DEF places, n
    <3> QED BY <1>1, <1>2, GreatestNumber
  <2> QED BY <2>1
<1>4. m \in 1 .. n /\ b[m] = BOA
  BY <1>1, <1>3
<1>5. ASSUME NEW i \in m + 1 .. n PROVE b[i] \in PlainTokens
  <2>1. i \in 1 .. n /\ ~(i <= m)
    BY <1>1, <1>4
  <2>2. i \notin places
    BY <2>1, <1>3
  <2>3. b[i] # BOA
    BY <2>1, <2>2, <1>1
  <2>4. b[i] \in PlainTokens \cup {BOA}
    BY <2>1
  <2> QED BY <2>3, <2>4
<1>6. Drop(b, m) \in Seq(PlainTokens)
  <2>1. m + 1 \in Nat /\ \A i \in m + 1 .. n : b[i] \in PlainTokens
    BY <1>1, <1>4, <1>5
  <2>2. Drop(b, m) \in Seq(PlainTokens \cup {BOA}) /\ Len(Drop(b, m)) = n - m
        /\ \A i \in 1 .. n - m : Drop(b, m)[i] = b[m + i]
    <3>1. m \in 0 .. Len(b)
      BY <1>1, <1>4
    <3> QED BY <3>1, DropFacts
  <2>3. ASSUME NEW i \in 1 .. n - m PROVE Drop(b, m)[i] \in PlainTokens
    <3>1. m + i \in m + 1 .. n
      BY <1>1, <1>4
    <3> QED BY <3>1, <2>1, <2>2
  <2> DEFINE d == Drop(b, m)
  <2>4. d \in Seq(PlainTokens \cup {BOA}) /\ \A i \in 1 .. Len(d) : d[i] \in PlainTokens
    BY <2>2, <2>3
  <2> HIDE DEF d
  <2>5. d \in Seq(PlainTokens)
    BY <2>4
  <2> QED BY <2>5 DEF d
<1>7. /\ front \in Seq(PlainTokens \cup {BOA}) /\ Len(front) = m - 1
      /\ \A i \in 1 .. m - 1 : front[i] = b[i]
  <2>1. m - 1 \in Int /\ m - 1 <= Len(b) /\ 1 \in Nat \ {0} /\ m - 1 \in Nat
    BY <1>1, <1>4
  <2>2. front \in Seq(PlainTokens \cup {BOA})
    BY <2>1, PieceType
  <2> DEFINE k == m - 1
  <2>3. k \in 0 .. Len(b)
    BY <1>1, <1>4
  <2> HIDE DEF k
  <2>4. Len(SubSeq(b, 1, k)) = k /\ \A i \in 1 .. k : SubSeq(b, 1, k)[i] = b[i]
    BY <2>3, PrefixFacts
  <2> QED BY <2>2, <2>4 DEF k
<1> HIDE DEF front
<1>8. Count(front, BOA) = Cardinality(less)
  <2>1. DOMAIN front = 1 .. m - 1
    BY <1>7
  <2>2. {i \in DOMAIN front : front[i] = BOA} = less
    BY <2>1, <1>7
  <2> QED BY <2>2 DEF Count
<1>9. places = less \cup {m} /\ m \notin less
  <2>1. ASSUME NEW i \in places PROVE i \in less \cup {m}
    <3>1. i \in 1 .. n /\ i <= m /\ b[i] = BOA
      BY <1>1, <1>3
    <3>2. i = m \/ i \in 1 .. m - 1
      BY <3>1, <1>1, <1>4
    <3> QED BY <3>1, <3>2
  <2>2. ASSUME NEW i \in less PROVE i \in places /\ i # m
    <3>1. i \in 1 .. n /\ i # m
      BY <1>1, <1>4
    <3> QED BY <3>1, <1>1
  <2> HIDE DEF places, less
  <2> QED BY <2>1, <2>2, <1>3
<1>10. IsFiniteSet(less) /\ Cardinality(less) \in Nat
  <2>1. m - 1 \in Int /\ 1 \in Int
    BY <1>1, <1>4
  <2>2. IsFiniteSet(1 .. m - 1)
    BY <2>1, FS_Interval
  <2>3. less \subseteq 1 .. m - 1
    OBVIOUS
  <2> QED BY <2>2, <2>3, FS_Subset, FS_CardinalityType
<1>11. Count(b, BOA) = Cardinality(places)
  BY DEF Count
<1> HIDE DEF places, less
<1>12. Cardinality(less \cup {m}) = Cardinality(less) + 1
  BY <1>9, <1>10, FS_AddElement
<1>13. Count(front, BOA) + 1 = Count(b, BOA)
  BY <1>8, <1>9, <1>11, <1>12
<1> QED BY <1>4, <1>6, <1>7, <1>13 DEF front, n

(* The macro of a call that still waits for its argument is not ignored. *)
LEMMA WaitingCall ==
  ASSUME MirrorInv, Head(text) = EOA
  PROVE  Last(stack).macro \notin ignored /\ Unignored(1) = ignored
<1> DEFINE n == Len(text)
           m == Len(stack)
<1>1. Head(text) # EOU /\ Head(text) \in Ending
  BY Marks DEF Ending
<1>2. 1 \in 0 .. m /\ m \in Nat /\ stack \in Seq(Calls)
  <2>1. stack \in Seq(Calls)
    BY DEF MirrorInv
  <2> QED BY <2>1, <1>1, HeadCut
<1>3. n \in Nat /\ n # 0 /\ From(text, n) = EOA
  BY TextFacts, TailIsDrop
<1>4. /\ m = Number(Ending, text, n)
      /\ ignored = {Opens(text, stack, e) : e \in Replacements(text, n)}
      /\ \A e \in Replacements(text, n), j \in 1 .. m :
           Number(Ending, text, e) < j => stack[j].macro # Opens(text, stack, e)
  BY DEF MirrorInv, Fits, Mirror
<1>5. ASSUME NEW e \in Replacements(text, n) PROVE Number(Ending, text, e) < m
  <2>1. e \in 1 .. n /\ From(text, e) = EOR
    BY DEF Replacements
  <2>2. e # n
    BY <2>1, <1>3, Marks
  <2>3. e \in Nat /\ e < n /\ e <= n
    BY <2>1, <2>2, <1>3
  <2>4. From(text, n) \in Ending
    BY <1>3 DEF Ending
  <2>5. Number(Ending, text, e) < Number(Ending, text, n)
    BY <2>3, <2>4, <1>3, NumberMonotone
  <2> QED BY <2>5, <1>4
<1>6. m \in 1 .. m
  BY <1>2
<1>7. \A e \in Replacements(text, n) : stack[m].macro # Opens(text, stack, e)
  BY <1>4, <1>5, <1>6
<1>8. stack[m].macro \notin ignored
  BY <1>4, <1>7
<1>9. Unignored(1) = ignored \ Macros(stack, m - 1 + 1, m)
  BY <1>2, Popped
<1>10. Macros(stack, m - 1 + 1, m) = {stack[m].macro}
  <2>1. (m - 1 + 1) .. m = {m}
    BY <1>2
  <2> QED BY <2>1 DEF Macros
<1> QED BY <1>8, <1>9, <1>10 DEF Last

LEMMA FinishArgMirror ==
  ASSUME MirrorInv, FinishArg
  PROVE  MirrorInv'
<1> DEFINE begin == Max({i \in DOMAIN buffer : buffer[i] = BOA})
           repl == AddTokens(Last(stack).repl, Drop(buffer, begin))
           call == [Last(stack) EXCEPT !.repl = AddTokens(@, Drop(buffer, begin))]
<1>1. Head(text) = EOA
  BY TextFacts, Codes DEF FinishArg, Reads
<1>2. Head(text) # EOU /\ Head(text) \in Ending /\ Head(text) \in {EOA}
      /\ Head(text) \notin {BOA}
  BY <1>1, Marks DEF Ending
<1>3. 1 \in 0 .. Len(stack) /\ Below(1) \in Seq(Calls) /\ Fits(Tail(text), Below(1), Unignored(1))
  BY <1>2, HeadCut
<1>4. Last(stack).macro \notin ignored /\ Unignored(1) = ignored
  BY <1>1, WaitingCall
<1>5. All({EOA}, text) = All({EOA}, Tail(text)) + 1 /\ All({EOA}, Tail(text)) \in Nat
  BY <1>2, HeadCount
<1>6. All({BOA}, text) = All({BOA}, Tail(text)) /\ All({BOA}, Tail(text)) \in Nat
  BY <1>2, HeadCount
<1>7. /\ buffer \in Seq(PlainTokens \cup {BOA}) /\ stack \in Seq(Calls) /\ program \in Programs
      /\ All({EOA}, text) = All({BOA}, text) + Count(buffer, BOA)
  BY DEF MirrorInv
<1>8. Count(buffer, BOA) \in Nat
  BY <1>7, CountNat
<1>9. All({BOA}, Tail(text)) <= All({EOA}, Tail(text))
  <2>1. Tail(text) \in Seq(TextTokens)
    BY <1>3 DEF Fits, Shaped
  <2>2. Len(Tail(text)) \in 0 .. Len(Tail(text))
    BY <2>1
  <2> QED BY <2>2, <1>3 DEF Fits, Shaped, All
<1>10. Count(buffer, BOA) # 0
  BY <1>5, <1>6, <1>7, <1>8, <1>9
<1>11. /\ begin \in 1 .. Len(buffer) /\ Drop(buffer, begin) \in Seq(PlainTokens)
       /\ SubSeq(buffer, 1, begin - 1) \in Seq(PlainTokens \cup {BOA})
       /\ Count(SubSeq(buffer, 1, begin - 1), BOA) + 1 = Count(buffer, BOA)
  BY <1>7, <1>10, LastMark
<1>12. /\ buffer' = SubSeq(buffer, 1, begin - 1)
       /\ Resume(call, Tail(text), Below(1), ignored)
       /\ program' = program
  BY DEF FinishArg
<1> HIDE DEF begin
<1>13. Last(stack) \in Calls
  <2>1. Len(stack) \in 1 .. Len(stack)
    BY <1>3, <1>7
  <2> QED BY <2>1, <1>7 DEF Last
<1>14. repl \in Seq(PlainTokens)
  <2>1. Last(stack).repl \in Seq(PlainTokens)
    BY <1>13 DEF Calls
  <2> QED BY <2>1, <1>11, AddTokensType
<1>15. call = [Last(stack) EXCEPT !.repl = repl]
  BY <1>13 DEF Calls
<1> HIDE DEF call, repl
<1>16. call \in Calls /\ call.macro = Last(stack).macro
  <2>1. /\ call.macro = Last(stack).macro /\ call.args = Last(stack).args
        /\ call.pos = Last(stack).pos
        /\ call \in [macro : DOMAIN macros, args : Seq(Seq(PlainTokens)), pos : Nat,
                      repl : Seq(PlainTokens), back : BOOLEAN]
    BY <1>13, <1>14, <1>15 DEF Calls
  <2> QED BY <2>1, <1>13 DEF Calls
<1>17. Fits(Tail(text), Below(1), ignored) /\ call.macro \notin ignored
  BY <1>3, <1>4, <1>16
<1>18. /\ Fits(text', stack', ignored') /\ stack' \in Seq(Calls)
       /\ \E n \in {0, 1} : /\ All({EOA}, text') = All({EOA}, Tail(text)) + n
                           /\ All({BOA}, text') = All({BOA}, Tail(text)) + n
  BY <1>3, <1>7, <1>12, <1>16, <1>17, ResumeFits
<1>19. All({EOA}, text') = All({BOA}, text') + Count(buffer', BOA)
  <2>1. PICK n \in {0, 1} : /\ All({EOA}, text') = All({EOA}, Tail(text)) + n
                            /\ All({BOA}, text') = All({BOA}, Tail(text)) + n
    BY <1>18
  <2>2. Count(buffer', BOA) + 1 = Count(buffer, BOA) /\ Count(buffer', BOA) \in Nat
    BY <1>11, <1>12, CountNat
  <2> DEFINE e == All({EOA}, Tail(text))
             b == All({BOA}, Tail(text))
             c == Count(buffer', BOA)
  <2>3. e + 1 = b + (c + 1) /\ e \in Nat /\ b \in Nat /\ c \in Nat /\ n \in Nat
    BY <2>2, <1>5, <1>6, <1>7
  <2>4. All({EOA}, text') = e + n /\ All({BOA}, text') = b + n
    BY <2>1
  <2> HIDE DEF e, b, c
  <2>5. e + n = (b + n) + c
    BY <2>3
  <2> QED BY <2>4, <2>5 DEF c
<1>20. buffer' \in Seq(PlainTokens \cup {BOA})
  BY <1>11, <1>12
<1>21. program' \in Programs /\ Calls' = Calls
  BY <1>12, SameCalls
<1> QED BY <1>18, <1>19, <1>20, <1>21 DEF MirrorInv

------------------------------------------------------------------------------
(* The ends of replacements behind a name.                                     *)

LEMMA TextEnd ==
  ASSUME NEW s, Shaped(s)
  PROVE  /\ Len(s) \in Nat \ {0} /\ s[Len(s)] = EOU
         /\ \A i \in 1 .. Len(s) : s[i] = EOU => i = Len(s)
<1>1. Len(s) \in Nat /\ Len(s) # 0 /\ \A e \in 1 .. Len(s) : From(s, e) = EOU <=> e = 1
  BY DEF Shaped
<1> DEFINE n == Len(s)
<1>2. n \in Nat /\ n # 0 /\ 1 \in 1 .. n /\ n + 1 - 1 = n
  BY <1>1
<1>3. From(s, 1) = EOU /\ From(s, 1) = s[n + 1 - 1]
  BY <1>1, <1>2 DEF From
<1>4. ASSUME NEW i \in 1 .. n, s[i] = EOU PROVE i = n
  <2>1. n + 1 - i \in 1 .. n /\ n + 1 - (n + 1 - i) = i
    BY <1>2
  <2>2. From(s, n + 1 - i) = s[i]
    BY <2>1 DEF From
  <2>3. n + 1 - i = 1
    BY <2>1, <2>2, <1>1, <1>4
  <2>4. n \in Int /\ i \in Int
    BY <1>2
  <2> HIDE DEF n
  <2>5. i = n
    BY <2>3, <2>4
  <2> QED BY <2>5
<1> QED BY <1>2, <1>3, <1>4

LEMMA EndingsFacts ==
  ASSUME NEW s, Len(s) \in Nat \ {0}, s[Len(s)] # EOR
  PROVE  /\ Endings(s) \in 0 .. Len(s) - 1 /\ s[Endings(s) + 1] # EOR
         /\ \A i \in 1 .. Endings(s) : s[i] = EOR
<1> DEFINE n == Len(s)
           T == {k \in 0 .. n - 1 : s[k + 1] # EOR}
<1>1. n - 1 \in 0 .. n - 1 /\ (n - 1) + 1 = n
  OBVIOUS
<1>2. n - 1 \in T /\ T \in SUBSET Nat
  BY <1>1
<1>3. Min(T) \in T /\ \A x \in T : Min(T) <= x
  <2> HIDE DEF T
  <2> QED BY <1>2, LeastIsMin
<1>4. Endings(s) = Min(T)
  BY DEF Endings
<1> DEFINE e == Endings(s)
<1>5. e \in 0 .. n - 1 /\ s[e + 1] # EOR /\ \A x \in T : e <= x
  BY <1>3, <1>4
<1> HIDE DEF e
<1>6. ASSUME NEW i \in 1 .. e PROVE s[i] = EOR
  <2>1. i - 1 \in 0 .. n - 1 /\ (i - 1) + 1 = i /\ ~(e <= i - 1)
    BY <1>5
  <2>2. i - 1 \notin T
    BY <2>1, <1>5
  <2> QED BY <2>1, <2>2
<1> QED BY <1>5, <1>6 DEF e

(* The replacements that end between a name and what is read behind it. *)
LEMMA BehindFacts ==
  ASSUME MirrorInv, Reads("id"), NEW n, n = Endings(Tail(text))
  PROVE  /\ Head(text) \in PlainTokens /\ n \in 0 .. Len(stack)
         /\ 1 + n \in 0 .. Len(text) - 1 /\ Behind = Drop(text, 1 + n)
         /\ Cardinality(Places(Ending, text, 1, 1 + n)) = n
         /\ Cardinality(Places({EOA}, text, 1, 1 + n)) = 0
         /\ Cardinality(Places({BOA}, text, 1, 1 + n)) = 0
         /\ Behind[1] # EOR /\ Shaped(Behind)
         /\ Below(n) \in Seq(Calls) /\ Fits(Behind, Below(n), Unignored(n))
<1>1. /\ text \in Seq(TextTokens) /\ Len(text) \in Nat /\ Head(text) \in TextTokens
      /\ Head(text) = text[1] /\ Tail(text) = Drop(text, 1) /\ Head(text).code = "id"
  BY TextFacts DEF Reads
<1>2. Head(text) \in PlainTokens
  BY <1>1, Codes
<1>3. 1 \in 0 .. Len(text) - 1 /\ Head(text) # EOU
  BY <1>2, TextFacts, Marks
<1> DEFINE s == Tail(text)
           l == Len(text)
<1>4. /\ s \in Seq(TextTokens) /\ Len(s) = l - 1
      /\ \A i \in 1 .. l - 1 : s[i] = text[1 + i]
  <2>1. 1 \in 0 .. Len(text)
    BY <1>1, <1>3
  <2> QED BY <2>1, <1>1, DropFacts
<1>5. l \in Nat /\ l - 1 \in Nat \ {0}
  BY <1>1, <1>3
<1>6. text[l] = EOU
  BY TextEnd DEF MirrorInv, Fits
<1>7. s[Len(s)] # EOR
  <2>1. l - 1 \in 1 .. l - 1 /\ 1 + (l - 1) = l
    BY <1>5
  <2> QED BY <2>1, <1>4, <1>6, Marks
<1> HIDE DEF s
<1>8. n \in 0 .. l - 2 /\ s[n + 1] # EOR /\ \A i \in 1 .. n : s[i] = EOR
  <2>1. Len(s) \in Nat \ {0}
    BY <1>4, <1>5
  <2>2. n \in 0 .. Len(s) - 1 /\ s[n + 1] # EOR /\ \A i \in 1 .. n : s[i] = EOR
    BY <2>1, <1>7, EndingsFacts DEF s
  <2>3. Len(s) - 1 = l - 2
    BY <1>4, <1>5
  <2> QED BY <2>2, <2>3
<1>9. 1 + n \in 0 .. l - 1 /\ 1 + n \in 0 .. l /\ n \in Nat
  BY <1>5, <1>8
<1>10. ASSUME NEW i \in 2 .. n + 1 PROVE text[i] = EOR
  <2>1. i - 1 \in 1 .. n /\ i - 1 \in 1 .. l - 1 /\ 1 + (i - 1) = i
    BY <1>5, <1>8, <1>9
  <2> QED BY <2>1, <1>4, <1>8
<1>11. text[1] \notin {EOR, EOA, BOA}
  BY <1>1, <1>2, Marks
<1>12. Cardinality(Places(Ending, text, 1, 1 + n)) = n
  <2>1. Places(Ending, text, 1, 1 + n) = 2 .. n + 1
    <3>1. ASSUME NEW i \in 1 .. 1 + n PROVE text[i] \in Ending <=> i \in 2 .. n + 1
      <4>1. i = 1 \/ i \in 2 .. n + 1
        BY <1>9
      <4>2. 1 \notin 2 .. n + 1
        OBVIOUS
      <4> QED BY <4>1, <4>2, <1>10, <1>11 DEF Ending
    <3>2. \A i \in 2 .. n + 1 : i \in 1 .. 1 + n
      BY <1>9
    <3> QED BY <3>1, <3>2 DEF Places
  <2>2. 2 \in Int /\ n + 1 \in Int
    BY <1>9
  <2>3. Cardinality(2 .. n + 1) = IF 2 > n + 1 THEN 0 ELSE (n + 1) - 2 + 1
    BY <2>2, FS_Interval
  <2>4. Cardinality(2 .. n + 1) = n
    BY <2>3, <1>9
  <2> QED BY <2>1, <2>4
<1>13. ASSUME NEW T \in {{EOA}, {BOA}} PROVE Cardinality(Places(T, text, 1, 1 + n)) = 0
  <2>1. ASSUME NEW i \in 1 .. 1 + n PROVE text[i] \notin T
    <3>1. i = 1 \/ i \in 2 .. n + 1
      BY <1>9
    <3> QED BY <3>1, <1>10, <1>11, Marks
  <2> QED BY <2>1, NoPlaces
<1>14. Behind = Drop(text, 1 + n)
  BY DEF Behind
<1>15. Behind[1] # EOR
  <2>1. \A i \in 1 .. Len(text) - (1 + n) : Drop(text, 1 + n)[i] = text[(1 + n) + i]
    BY <1>1, <1>9, DropFacts
  <2>2. 1 \in 1 .. Len(text) - (1 + n) /\ n + 1 \in 1 .. l - 1 /\ (1 + n) + 1 = 1 + (n + 1)
    BY <1>5, <1>8
  <2>3. Drop(text, 1 + n)[1] = text[(1 + n) + 1]
    BY <2>1, <2>2
  <2>4. s[n + 1] = text[1 + (n + 1)]
    BY <2>2, <1>4
  <2> QED BY <2>2, <2>3, <2>4, <1>8, <1>14
<1>16. /\ n \in 0 .. Len(stack) /\ Below(n) \in Seq(Calls)
       /\ Fits(Drop(text, 1 + n), Below(n), Unignored(n))
  BY <1>9, <1>12, TextCut
<1> QED BY <1>2, <1>9, <1>12, <1>13, <1>14, <1>15, <1>16 DEF Fits

LEMMA NoCallMirror ==
  ASSUME MirrorInv, NoCall
  PROVE  MirrorInv'
<1> DEFINE n == Endings(Tail(text))
<1>1. /\ Reads("id") /\ text' = Behind /\ stack' = Below(n) /\ ignored' = Unignored(n)
      /\ Out(Head(text), stack') /\ program' = program
  BY DEF NoCall, ReadsFunction
<1>2. /\ Head(text) \in PlainTokens /\ 1 + n \in 0 .. Len(text) - 1 /\ Behind = Drop(text, 1 + n)
      /\ Cardinality(Places({EOA}, text, 1, 1 + n)) = 0
      /\ Cardinality(Places({BOA}, text, 1, 1 + n)) = 0
      /\ Below(n) \in Seq(Calls) /\ Fits(Behind, Below(n), Unignored(n))
  BY <1>1, BehindFacts
<1> HIDE DEF n
<1>3. /\ text \in Seq(TextTokens) /\ buffer \in Seq(PlainTokens \cup {BOA})
      /\ All({EOA}, text) = All({BOA}, text) + Count(buffer, BOA)
      /\ 1 + n \in 0 .. Len(text)
  BY <1>2, TextFacts DEF MirrorInv
<1>4. Behind \in Seq(TextTokens)
  BY <1>2 DEF Fits, Shaped
<1>5. ASSUME NEW T, Cardinality(Places(T, text, 1, 1 + n)) = 0
      PROVE  All(T, text) = All(T, Behind) /\ All(T, Behind) \in Nat
  <2>1. All(T, text) = All(T, Drop(text, 1 + n)) + Cardinality(Places(T, text, 1, 1 + n))
    BY <1>3, NumberDrop
  <2>2. All(T, Behind) \in Nat
    BY <1>4, AllNat
  <2> QED BY <2>1, <2>2, <1>2, <1>5
<1>6. All({EOA}, text) = All({EOA}, Behind)
  BY <1>2, <1>5
<1>7. All({BOA}, text) = All({BOA}, Behind) /\ All({BOA}, Behind) \in Nat
  BY <1>2, <1>5
<1>8. Count(buffer, BOA) \in Nat
  BY <1>3, CountNat
<1>9. All({EOA}, text') = All({BOA}, text') + Count(buffer, BOA) + 0
  BY <1>1, <1>3, <1>6, <1>7, <1>8
<1>10. Fits(text', stack', ignored')
  BY <1>1, <1>2
<1>11. ~(Head(text) = BOA)
  BY <1>2, Marks
<1>12. /\ buffer' \in Seq(PlainTokens \cup {BOA})
       /\ All({EOA}, text') = All({BOA}, text') + Count(buffer', BOA)
  <2> DEFINE t == Head(text)
  <2>1. t \in PlainTokens \cup {BOA} /\ t # BOA /\ Out(t, stack')
    BY <1>1, <1>2, <1>11
  <2>2. 0 \in {0, 1} /\ (t = BOA <=> 0 = 1)
    BY <2>1
  <2> HIDE DEF t
  <2> QED BY <2>1, <2>2, <1>3, <1>9, <1>10, OutFits
<1>13. program' \in Programs /\ Calls' = Calls /\ stack' \in Seq(Calls)
  BY <1>1, <1>2, SameCalls
<1> QED BY <1>10, <1>12, <1>13 DEF MirrorInv

------------------------------------------------------------------------------
(* A call that begins: the replacements that end before it and in its arguments. *)

LEMMA DropDrop ==
  ASSUME NEW S, NEW s \in Seq(S), NEW a \in Nat, NEW b \in Nat, a + b <= Len(s)
  PROVE  Drop(Drop(s, a), b) = Drop(s, a + b)
<1> DEFINE r == Drop(s, a)
           u == Drop(r, b)
           w == Drop(s, a + b)
           n == Len(s)
<1>1. n \in Nat /\ a \in 0 .. n /\ a + b \in 0 .. n /\ b \in 0 .. n - a /\ n - a \in Nat
  OBVIOUS
<1>2. r \in Seq(S) /\ Len(r) = n - a /\ \A i \in 1 .. n - a : r[i] = s[a + i]
  BY <1>1, DropFacts
<1>3. w \in Seq(S) /\ Len(w) = n - (a + b) /\ \A i \in 1 .. n - (a + b) : w[i] = s[(a + b) + i]
  BY <1>1, DropFacts
<1> HIDE DEF r, w
<1>4. u \in Seq(S) /\ Len(u) = (n - a) - b /\ \A i \in 1 .. (n - a) - b : u[i] = r[b + i]
  <2>1. b \in 0 .. Len(r)
    BY <1>1, <1>2
  <2>2. /\ Drop(r, b) \in Seq(S) /\ Len(Drop(r, b)) = Len(r) - b
        /\ \A i \in 1 .. Len(r) - b : Drop(r, b)[i] = r[b + i]
    BY <2>1, <1>2, DropFacts
  <2> QED BY <2>2, <1>2
<1> HIDE DEF u, n
<1>5. (n - a) - b = n - (a + b)
  BY <1>1
<1>6. ASSUME NEW i \in 1 .. n - (a + b) PROVE u[i] = w[i]
  <2>1. b + i \in 1 .. n - a /\ a + (b + i) = (a + b) + i
    BY <1>1
  <2> QED BY <2>1, <1>2, <1>3, <1>4, <1>5
<1>7. u = w
  BY <1>3, <1>4, <1>5, <1>6
<1> QED BY <1>7 DEF u, w, r

LEMMA OpeningFacts ==
  ASSUME NEW s, Shaped(s), s[1] # EOR, s[Opening(s)].code = "("
  PROVE  /\ Opening(s) \in 1 .. Len(s) - 1
         /\ \A i \in 1 .. Opening(s) : s[i] \notin {EOR, EOA, BOA, EOU}
<1>1. s \in Seq(TextTokens) /\ s # <<>>
  BY DEF Shaped
<1>2. Len(s) \in Nat /\ Len(s) # 0 /\ s[Len(s)] = EOU
  BY TextEnd
<1> DEFINE l == Len(s)
<1>3. Head(s) = s[1] /\ l \in Nat /\ l # 0 /\ s[l] = EOU
  BY <1>1, <1>2
<1> HIDE DEF l
<1>4. s[Opening(s)] \notin {EOR, EOA, BOA, EOU}
  BY Marks
<1>5. CASE s[1] = Space
  <2>1. Opening(s) = 2
    BY <1>3, <1>5 DEF Opening
  <2>2. s[1] \notin {EOR, EOA, BOA, EOU}
    BY <1>5, Marks
  <2>3. l # 1 /\ l # 2
    BY <1>3, <1>4, <2>1, <2>2
  <2>4. 2 \in 1 .. l - 1
    BY <2>3, <1>3
  <2>5. \A i \in 1 .. 2 : i = 1 \/ i = 2
    OBVIOUS
  <2> QED BY <2>1, <2>2, <2>4, <2>5, <1>4 DEF l
<1>6. CASE s[1] # Space
  <2>1. Opening(s) = 1
    BY <1>3, <1>6 DEF Opening
  <2>2. l # 1
    BY <1>3, <1>4, <2>1
  <2>3. 1 \in 1 .. l - 1
    BY <2>2, <1>3
  <2>4. \A i \in 1 .. 1 : i = 1
    OBVIOUS
  <2> QED BY <2>1, <2>3, <2>4, <1>4 DEF l
<1> QED BY <1>5, <1>6

(* The arguments are tokens of a program. *)
LEMMA ArgumentsType ==
  ASSUME NEW m, NEW s \in Seq(PlainTokens)
  PROVE  Arguments(m, s) \in Seq(Seq(PlainTokens))
<1> DEFINE cuts == {n \in DOMAIN s : s[n].code = "," /\ Level(s, n) = 0}
           part(i) == {n \in DOMAIN s \ cuts : Cardinality({c \in cuts : c < n}) = i - 1}
<1>1. Len(s) \in Nat /\ DOMAIN s = 1 .. Len(s)
  OBVIOUS
<1>2. IsFiniteSet(1 .. Len(s)) /\ cuts \subseteq DOMAIN s
  <2>1. cuts \subseteq DOMAIN s
    OBVIOUS
  <2> HIDE DEF cuts
  <2> QED BY <2>1, <1>1, FS_Interval
<1>3. Cardinality(cuts) \in Nat
  <2> HIDE DEF cuts
  <2> QED BY <1>1, <1>2, FS_Subset, FS_CardinalityType
<1>4. Split(s) = [i \in 1 .. Cardinality(cuts) + 1 |-> At(s, part(i))]
  BY DEF Split
<1>5. ASSUME NEW i PROVE At(s, part(i)) \in Seq(PlainTokens)
  <2>1. \A j \in DOMAIN s : s[j] \in PlainTokens
    BY <1>1
  <2>2. part(i) \subseteq DOMAIN s
    OBVIOUS
  <2> HIDE DEF part
  <2> QED BY <2>1, <2>2, AtType
<1> HIDE DEF cuts, part
<1>6. Split(s) \in Seq(Seq(PlainTokens))
  <2> DEFINE k == Cardinality(cuts) + 1
  <2>1. k \in Nat
    BY <1>3
  <2> HIDE DEF k
  <2>2. [i \in 1 .. k |-> At(s, part(i))] \in Seq(Seq(PlainTokens))
    BY <2>1, <1>5
  <2> QED BY <2>2, <1>4 DEF k
<1> QED BY <1>6 DEF Arguments

(* Where the arguments end, and what is in them. *)
LEMMA StopFacts ==
  ASSUME NEW s \in Seq(TextTokens), Len(s) # 0, s[Len(s)] \in {EOU, EOA},
         NEW stop, stop = Min(Stops(s))
  PROVE  /\ stop \in 1 .. Len(s) /\ \A i \in 1 .. stop - 1 : s[i] \notin {EOU, BOA, EOA}
         /\ WithoutEnds(SubSeq(s, 1, stop - 1)) \in Seq(PlainTokens)
<1>1. Len(s) \in Nat /\ DOMAIN s = 1 .. Len(s) /\ Len(s) \in 1 .. Len(s)
  OBVIOUS
<1>2. Stops(s) \subseteq 1 .. Len(s) /\ Len(s) \in Stops(s)
  BY <1>1 DEF Stops
<1>3. stop \in Stops(s) /\ \A n \in Stops(s) : stop <= n
  <2>1. Stops(s) \in SUBSET Nat /\ Stops(s) # {}
    BY <1>1, <1>2
  <2> QED BY <2>1, LeastIsMin
<1>4. stop \in 1 .. Len(s)
  BY <1>2, <1>3
<1> DEFINE k == stop - 1
<1>5. ASSUME NEW i \in 1 .. k PROVE s[i] \notin {EOU, BOA, EOA} /\ i \in 1 .. Len(s)
  <2>1. i \in 1 .. Len(s) /\ ~(stop <= i)
    BY <1>1, <1>4
  <2>2. i \notin Stops(s)
    BY <2>1, <1>3
  <2> QED BY <2>1, <2>2, <1>1 DEF Stops
<1> DEFINE r == SubSeq(s, 1, k)
           places == {i \in DOMAIN r : r[i] # EOR}
<1>6. k \in 0 .. Len(s) /\ k \in Int /\ k <= Len(s) /\ 1 \in Nat \ {0}
  BY <1>1, <1>4
<1> HIDE DEF k
<1>7. Len(r) = k /\ (\A i \in 1 .. k : r[i] = s[i]) /\ r \in Seq(TextTokens)
  BY <1>6, PrefixFacts, PieceType
<1> HIDE DEF r
<1>8. ASSUME NEW i \in places PROVE r[i] \in PlainTokens
  <2>1. i \in 1 .. k /\ r[i] # EOR /\ r[i] \in TextTokens
    BY <1>7
  <2>2. r[i] \notin {EOU, BOA, EOA}
    BY <2>1, <1>5, <1>7
  <2> QED BY <2>1, <2>2 DEF TextTokens
<1>9. WithoutEnds(r) = At(r, places)
  BY DEF WithoutEnds
<1> HIDE DEF places
<1>10. At(r, places) \in Seq(PlainTokens)
  BY <1>7, <1>8, AtType
<1> QED BY <1>4, <1>5, <1>9, <1>10 DEF r, k

LEMMA FittedType ==
  ASSUME NEW args \in Seq(Seq(PlainTokens)), NEW n \in Nat
  PROVE  Fitted(args, n) \in Seq(Seq(PlainTokens)) /\ Len(Fitted(args, n)) = n
<1>1. ASSUME NEW i \in 1 .. n
      PROVE  (IF i <= Len(args) THEN args[i] ELSE <<>>) \in Seq(PlainTokens)
  <2>1. i <= Len(args) => i \in 1 .. Len(args)
    OBVIOUS
  <2> QED BY <2>1
<1> DEFINE fitted == [i \in 1 .. n |-> IF i <= Len(args) THEN args[i] ELSE <<>>]
           Texts == Seq(PlainTokens)
<1>2. fitted \in [1 .. n -> Texts]
  BY <1>1
<1>3. Fitted(args, n) = fitted
  BY DEF Fitted
<1> HIDE DEF fitted, Texts
<1>4. fitted \in Seq(Texts) /\ Len(fitted) = n
  BY <1>2
<1> QED BY <1>3, <1>4 DEF Texts

(* The text behind a call, and the calls that are left. *)
LEMMA CallCut ==
  ASSUME MirrorInv, Reads("id"), NEW s, s = Behind, s[Opening(s)].code = "(",
         NEW inParens, inParens = Drop(s, Opening(s)), NEW close, close = Min(Stops(inParens)),
         inParens[close].code = ")",
         NEW ended, ended = Endings(Tail(text)) + Ended(inParens, close),
         NEW rest, rest = Drop(inParens, close)
  PROVE  /\ Below(ended) \in Seq(Calls) /\ Fits(rest, Below(ended), Unignored(ended))
         /\ All({EOA}, text) = All({EOA}, rest) /\ All({BOA}, text) = All({BOA}, rest)
<1> DEFINE n == Endings(Tail(text))
           o == Opening(s)
           m == Ended(inParens, close)
           k == 1 + n + o + close
           l == Len(text)
<1>1. /\ n \in 0 .. Len(stack) /\ 1 + n \in 0 .. l - 1 /\ s = Drop(text, 1 + n)
      /\ Cardinality(Places(Ending, text, 1, 1 + n)) = n
      /\ Cardinality(Places({EOA}, text, 1, 1 + n)) = 0
      /\ Cardinality(Places({BOA}, text, 1, 1 + n)) = 0
      /\ s[1] # EOR /\ Shaped(s)
  BY BehindFacts
<1>2. text \in Seq(TextTokens) /\ l \in Nat /\ n \in Nat
  BY <1>1, TextFacts
<1> HIDE DEF n
<1>3. s \in Seq(TextTokens) /\ Len(s) = l - (1 + n) /\ 1 + n \in 0 .. l
  <2>1. 1 + n \in 0 .. Len(text)
    BY <1>1, <1>2
  <2> QED BY <2>1, <1>1, <1>2, DropFacts
<1>4. o \in 1 .. Len(s) - 1 /\ \A i \in 1 .. o : s[i] \notin {EOR, EOA, BOA, EOU}
  BY <1>1, OpeningFacts
<1> HIDE DEF o
<1>5. o \in Nat /\ o \in 0 .. Len(s) /\ Len(s) \in Nat
  BY <1>2, <1>3, <1>4
<1>6. /\ inParens = Drop(s, o) /\ inParens \in Seq(TextTokens) /\ Len(inParens) = Len(s) - o
      /\ \A i \in 1 .. Len(s) - o : inParens[i] = s[o + i]
  <2>1. inParens = Drop(s, o)
    BY DEF o
  <2> QED BY <2>1, <1>3, <1>5, DropFacts
<1>0. Len(inParens) \in Nat \ {0} /\ inParens[Len(inParens)] = EOU
  <2>1. s[Len(s)] = EOU
    BY <1>1, TextEnd
  <2>2. o + (Len(s) - o) = Len(s) /\ Len(s) - o \in 1 .. Len(s) - o
    BY <1>4, <1>5
  <2>3. inParens[Len(inParens)] = EOU
    BY <2>1, <2>2, <1>6
  <2>4. Len(s) - o \in Nat \ {0}
    BY <1>4, <1>5
  <2> QED BY <2>3, <2>4, <1>6
<1>7. close \in 1 .. Len(inParens) /\ \A i \in 1 .. close : inParens[i] \notin {EOU, BOA, EOA}
  <2>1. close \in 1 .. Len(inParens) /\ \A i \in 1 .. close - 1 : inParens[i] \notin {EOU, BOA, EOA}
    BY <1>0, <1>6, StopFacts
  <2>2. inParens[close] \notin {EOU, BOA, EOA}
    BY Marks
  <2>3. \A i \in 1 .. close : i \in 1 .. close - 1 \/ i = close
    BY <2>1
  <2> QED BY <2>1, <2>2, <2>3
<1>8. close # Len(inParens)
  BY <1>0, <1>7
<1>9. /\ close \in Nat /\ close \in 0 .. Len(inParens) /\ k \in 0 .. l - 1 /\ k \in 0 .. l
      /\ o + close <= Len(s) /\ (1 + n) + (o + close) <= l /\ (1 + n) + (o + close) = k
  <2> DEFINE ls == Len(s)
             lp == Len(inParens)
  <2>1. /\ l \in Nat /\ n \in Nat /\ o \in Nat /\ ls = l - (1 + n) /\ lp = ls - o
        /\ close \in 1 .. lp /\ close # lp
    BY <1>2, <1>3, <1>5, <1>6, <1>7, <1>8
  <2> HIDE DEF l, ls, lp
  <2>2. ls \in Int /\ lp \in Int
    BY <2>1
  <2>3. close \in Nat /\ close < lp
    BY <2>1, <2>2
  <2>4. k <= l - 1 /\ k \in Nat /\ o + close <= ls
    BY <2>1, <2>2, <2>3
  <2>5. /\ close \in Nat /\ close \in 0 .. lp /\ k \in 0 .. l - 1 /\ k \in 0 .. l
        /\ (1 + n) + (o + close) <= l /\ (1 + n) + (o + close) = k
    BY <2>1, <2>2, <2>3, <2>4
  <2> QED BY <2>4, <2>5 DEF ls, lp
<1>10. rest = Drop(text, k)
  <2>1. Drop(Drop(s, o), close) = Drop(s, o + close)
    BY <1>3, <1>5, <1>9, DropDrop
  <2>2. 1 + n \in Nat /\ o + close \in Nat
    BY <1>2, <1>5, <1>9
  <2>3. Drop(Drop(text, 1 + n), o + close) = Drop(text, (1 + n) + (o + close))
    BY <2>2, <1>2, <1>9, DropDrop
  <2> QED BY <2>1, <2>3, <1>1, <1>6, <1>9
<1> HIDE DEF k, l
<1>11. rest \in Seq(TextTokens)
  <2>1. k \in 0 .. Len(text)
    BY <1>9 DEF l
  <2> QED BY <2>1, <1>2, <1>10, DropFacts
<1>12. ASSUME NEW T, T \subseteq {EOR, BOA, EOA}
       PROVE  /\ All(T, text) = All(T, rest) + Cardinality(Places(T, text, 1, k))
              /\ All(T, text) = All(T, rest) + Cardinality(Places(T, inParens, 1, close))
                                 + Cardinality(Places(T, text, 1, 1 + n))
              /\ All(T, rest) \in Nat
  <2>1. All(T, text) = All(T, rest) + Cardinality(Places(T, text, 1, k))
    BY <1>2, <1>9, <1>10, NumberDrop DEF l
  <2>2. All(T, text) = All(T, s) + Cardinality(Places(T, text, 1, 1 + n))
    BY <1>1, <1>2, <1>3, NumberDrop DEF l
  <2>3. All(T, s) = All(T, inParens) + Cardinality(Places(T, s, 1, o))
    BY <1>3, <1>5, <1>6, NumberDrop
  <2>4. All(T, inParens) = All(T, rest) + Cardinality(Places(T, inParens, 1, close))
    BY <1>6, <1>9, NumberDrop
  <2>5. Cardinality(Places(T, s, 1, o)) = 0
    <3>1. \A i \in 1 .. o : s[i] \notin T
      BY <1>4, <1>12
    <3> QED BY <3>1, NoPlaces
  <2>6. All(T, rest) \in Nat /\ All(T, inParens) \in Nat
    BY <1>6, <1>11, AllNat
  <2> QED BY <2>1, <2>2, <2>3, <2>4, <2>5, <2>6
<1>13. Cardinality(Places(Ending, text, 1, k)) = n + m
  <2>1. m = Cardinality(Places(Ending, inParens, 1, close))
    <3>1. inParens[close] # EOR
      BY Marks
    <3>2. \A i \in 1 .. close : i \in 1 .. close - 1 \/ i = close
      BY <1>7
    <3>3. \A i \in 1 .. close - 1 : i \in 1 .. close
      BY <1>7
    <3>4. Places(Ending, inParens, 1, close) = {i \in 1 .. close - 1 : inParens[i] = EOR}
      BY <3>1, <3>2, <3>3, <1>7 DEF Places, Ending
    <3> QED BY <3>4 DEF Ended
  <2>2. IsFiniteSet(1 .. k) /\ Places(Ending, text, 1, k) \subseteq 1 .. k
    BY <1>9, FS_Interval DEF Places
  <2>3. IsFiniteSet(1 .. close) /\ Places(Ending, inParens, 1, close) \subseteq 1 .. close
    BY <1>9, FS_Interval DEF Places
  <2>4. Cardinality(Places(Ending, text, 1, k)) \in Nat
    BY <2>2, FS_Subset, FS_CardinalityType
  <2>5. Cardinality(Places(Ending, inParens, 1, close)) \in Nat
    BY <2>3, FS_Subset, FS_CardinalityType
  <2>6. /\ All(Ending, text) = All(Ending, rest) + Cardinality(Places(Ending, text, 1, k))
        /\ All(Ending, text) = All(Ending, rest) + Cardinality(Places(Ending, inParens, 1, close))
                                 + Cardinality(Places(Ending, text, 1, 1 + n))
        /\ All(Ending, rest) \in Nat
    BY <1>12 DEF Ending
  <2> DEFINE x == Cardinality(Places(Ending, text, 1, k))
             r == All(Ending, rest)
  <2>8. x \in Nat /\ r \in Nat /\ m \in Nat /\ n \in Nat
    BY <2>1, <2>4, <2>5, <2>6, <1>2
  <2>9. r + x = r + m + n
    BY <2>1, <2>6, <1>1
  <2> HIDE DEF m, x, r
  <2>10. x = n + m
    BY <2>8, <2>9
  <2> QED BY <2>10 DEF x
<1>14. ended = Cardinality(Places(Ending, text, 1, k))
  BY <1>13 DEF n
<1>15. Below(ended) \in Seq(Calls) /\ Fits(rest, Below(ended), Unignored(ended))
  BY <1>9, <1>10, <1>14, TextCut DEF l
<1>16. ASSUME NEW T \in {{EOA}, {BOA}} PROVE All(T, text) = All(T, rest)
  <2>1. Cardinality(Places(T, text, 1, 1 + n)) = 0
    BY <1>1
  <2>2. Cardinality(Places(T, inParens, 1, close)) = 0
    <3>1. \A i \in 1 .. close : inParens[i] \notin T
      BY <1>7
    <3> QED BY <3>1, NoPlaces
  <2>3. /\ All(T, text) = All(T, rest) + Cardinality(Places(T, inParens, 1, close))
                                 + Cardinality(Places(T, text, 1, 1 + n))
        /\ All(T, rest) \in Nat
    BY <1>12
  <2> QED BY <2>1, <2>2, <2>3
<1> QED BY <1>15, <1>16

------------------------------------------------------------------------------
(* What holds after an error too: Ordered texts, cut and put back.              *)

NoBegin(s) == \A e \in 1 .. Len(s) : From(s, e) # BOA

LEMMA NumberCut ==
  ASSUME NEW s \in Seq(TextTokens), NEW k \in 0 .. Len(s), NEW T
  PROVE  /\ All(T, s) = All(T, Drop(s, k)) + Cardinality(Places(T, s, 1, k))
         /\ All(T, Drop(s, k)) \in Nat /\ Cardinality(Places(T, s, 1, k)) \in Nat
<1>1. All(T, s) = All(T, Drop(s, k)) + Cardinality(Places(T, s, 1, k))
  BY NumberDrop
<1>2. Drop(s, k) \in Seq(TextTokens)
  BY DropFacts
<1>3. All(T, Drop(s, k)) \in Nat
  BY <1>2, AllNat
<1>4. IsFiniteSet(1 .. k) /\ Places(T, s, 1, k) \subseteq 1 .. k
  BY FS_Interval DEF Places
<1>5. IsFiniteSet(Places(T, s, 1, k))
  BY <1>4, FS_Subset
<1> QED BY <1>1, <1>3, <1>5, FS_CardinalityType

LEMMA NoBeginCount ==
  ASSUME NEW s \in Seq(TextTokens), NoBegin(s)
  PROVE  All({BOA}, s) = 0
<1> DEFINE n == Len(s)
<1>1. n \in Nat
  OBVIOUS
<1>2. {i \in 1 .. n : From(s, i) \in {BOA}} = {}
  BY DEF NoBegin
<1> QED BY <1>2, FS_EmptySet DEF All, Number

LEMMA OrderedDrop ==
  ASSUME NEW s, Ordered(s), NEW k \in 1 .. Len(s)
  PROVE  /\ Drop(s, k) \in Seq(TextTokens) /\ Len(Drop(s, k)) = Len(s) - k
         /\ Ordered(Drop(s, k)) /\ NoBegin(Drop(s, k))
<1> DEFINE r == Drop(s, k)
           l == Len(s) - k
<1>0. \A e \in 1 .. Len(s) : (From(s, e) = BOA => e = Len(s)) /\ (From(s, e) = EOU => e = 1)
  BY DEF Ordered
<1>1. s \in Seq(TextTokens) /\ Len(s) \in Nat /\ k \in 0 .. Len(s)
  BY DEF Ordered
<1>2. r \in Seq(TextTokens) /\ Len(r) = l /\ SameEnd(s, r, l)
  BY <1>1, DropFacts
<1>3. l \in Nat /\ l < Len(s) /\ \A e \in 1 .. l : e \in 1 .. Len(s) /\ e # Len(s)
  BY <1>1
<1> HIDE DEF r, l
<1>4. ASSUME NEW e \in 1 .. l PROVE From(r, e) # BOA /\ (From(r, e) = EOU => e = 1)
  <2>1. From(s, e) = From(r, e)
    BY <1>2 DEF SameEnd
  <2>2. e \in 1 .. Len(s) /\ e # Len(s)
    BY <1>3
  <2>3. (From(s, e) = BOA => e = Len(s)) /\ (From(s, e) = EOU => e = 1)
    BY <2>2, <1>0
  <2> QED BY <2>1, <2>2, <2>3
<1>5. ASSUME r # <<>> PROVE From(r, 1) \in {EOU, EOA}
  <2>1. 1 \in 1 .. l
    BY <1>2, <1>3, <1>5
  <2>2. From(s, 1) = From(r, 1)
    BY <2>1, <1>2 DEF SameEnd
  <2>3. s # <<>>
    BY <2>1, <1>3
  <2> QED BY <2>2, <2>3 DEF Ordered
<1>6. Ordered(r) /\ NoBegin(r)
  BY <1>2, <1>4, <1>5 DEF Ordered, NoBegin
<1> QED BY <1>2, <1>6 DEF r, l

LEMMA OrderedEnd ==
  ASSUME NEW s, Ordered(s), s # <<>>
  PROVE  Len(s) \in Nat \ {0} /\ s[Len(s)] \in {EOU, EOA}
<1>1. s \in Seq(TextTokens) /\ From(s, 1) \in {EOU, EOA}
  BY DEF Ordered
<1>2. Len(s) \in Nat /\ Len(s) # 0 /\ Len(s) + 1 - 1 = Len(s)
  BY <1>1
<1> QED BY <1>1, <1>2 DEF From

(* A replacement is put before the text. *)
LEMMA OrderedPutEnd ==
  ASSUME NEW r, Ordered(r), NoBegin(r), r # <<>>, NEW s, ReplacementBefore(r, s)
  PROVE  /\ Ordered(s) /\ s # <<>>
         /\ \A T \in SUBSET {EOR, BOA, EOA} :
              All(T, s) = All(T, r) + (IF EOR \in T THEN 1 ELSE 0)
<1> DEFINE n == Len(r)
<1>1. r \in Seq(TextTokens) /\ n \in Nat /\ n # 0
  BY DEF Ordered
<1>2. /\ s \in Seq(TextTokens) /\ n + 1 <= Len(s)
      /\ SameEnd(r, s, n) /\ From(s, n + 1) = EOR
      /\ \A e \in n + 2 .. Len(s) : From(s, e) \in PlainTokens
  BY DEF ReplacementBefore
<1>3. Len(s) \in Nat /\ n + 1 \in Nat
  BY <1>1, <1>2
<1>4. ASSUME NEW T \in SUBSET {EOR, BOA, EOA}
      PROVE  All(T, s) = All(T, r) + (IF EOR \in T THEN 1 ELSE 0)
  <2>1. \A i \in (n + 1) + 1 .. Len(s) : i \in n + 2 .. Len(s)
    BY <1>3
  <2>2. \A i \in (n + 1) + 1 .. Len(s) : From(s, i) \notin T
    BY <2>1, <1>2, Marks
  <2>3. Number(T, s, Len(s)) = Number(T, s, n + 1)
    BY <2>2, <1>2, <1>3, NumberNone
  <2>4. Number(T, s, n + 1) = Number(T, s, n) + (IF From(s, n + 1) \in T THEN 1 ELSE 0)
    BY <1>1, NumberStep
  <2>5. n \in 0 .. n
    BY <1>1
  <2>6. Number(T, r, n) = Number(T, s, n)
    BY <2>5, <1>1, <1>2, NumberSame
  <2> QED BY <2>3, <2>4, <2>6, <1>2 DEF All
<1>5. ASSUME NEW e \in 1 .. Len(s) PROVE From(s, e) # BOA /\ (From(s, e) = EOU => e = 1)
  <2>1. e \in 1 .. n \/ e = n + 1 \/ e \in n + 2 .. Len(s)
    BY <1>1, <1>3
  <2>2. ASSUME e \in 1 .. n PROVE From(s, e) # BOA /\ (From(s, e) = EOU => e = 1)
    <3>1. From(s, e) = From(r, e)
      BY <1>2, <2>2 DEF SameEnd
    <3> QED BY <3>1, <2>2 DEF Ordered, NoBegin
  <2>3. ASSUME e \notin 1 .. n PROVE From(s, e) # BOA /\ From(s, e) # EOU
    BY <1>2, <2>1, <2>3, Marks
  <2> QED BY <2>2, <2>3
<1>6. From(s, 1) \in {EOU, EOA}
  <2>1. 1 \in 1 .. n
    BY <1>1
  <2>2. From(s, 1) = From(r, 1)
    BY <2>1, <1>2 DEF SameEnd
  <2> QED BY <2>2 DEF Ordered
<1>7. s # <<>>
  BY <1>1, <1>2, <1>3
<1> QED BY <1>2, <1>4, <1>5, <1>6, <1>7 DEF Ordered

(* An argument is put before the text. *)
LEMMA OrderedPutArg ==
  ASSUME NEW r, Ordered(r), NoBegin(r), NEW s, ArgumentBefore(r, s)
  PROVE  /\ Ordered(s) /\ s # <<>>
         /\ \A T \in SUBSET {EOR, BOA, EOA} :
              All(T, s) = All(T, r) + (IF EOA \in T THEN 1 ELSE 0) + (IF BOA \in T THEN 1 ELSE 0)
<1> DEFINE n == Len(r)
           l == Len(s) - 1
<1>1. r \in Seq(TextTokens) /\ n \in Nat
  BY DEF Ordered
<1>2. /\ s \in Seq(TextTokens) /\ n + 2 <= Len(s)
      /\ SameEnd(r, s, n) /\ From(s, n + 1) = EOA /\ From(s, Len(s)) = BOA
      /\ \A e \in n + 2 .. Len(s) - 1 : From(s, e) \in PlainTokens
  BY DEF ArgumentBefore
<1>3. /\ Len(s) \in Nat /\ n + 1 <= l /\ n + 1 \in Nat
      /\ l \in Nat /\ l + 1 = Len(s)
  BY <1>1, <1>2
<1>4. \A e \in n + 2 .. l : From(s, e) \in PlainTokens
  BY <1>2
<1> HIDE DEF l
<1>5. ASSUME NEW T \in SUBSET {EOR, BOA, EOA}
      PROVE  All(T, s) = All(T, r) + (IF EOA \in T THEN 1 ELSE 0) + (IF BOA \in T THEN 1 ELSE 0)
  <2>1. \A i \in (n + 1) + 1 .. l : i \in n + 2 .. l
    BY <1>1
  <2>2. \A i \in (n + 1) + 1 .. l : From(s, i) \notin T
    BY <2>1, <1>4, Marks
  <2>3. Number(T, s, l) = Number(T, s, n + 1)
    BY <2>2, <1>3, NumberNone
  <2>4. Number(T, s, n + 1) = Number(T, s, n) + (IF From(s, n + 1) \in T THEN 1 ELSE 0)
    BY <1>1, NumberStep
  <2>5. Number(T, s, l + 1) = Number(T, s, l) + (IF From(s, l + 1) \in T THEN 1 ELSE 0)
    BY <1>3, NumberStep
  <2>6. n \in 0 .. n
    BY <1>1
  <2>7. Number(T, r, n) = Number(T, s, n)
    BY <2>6, <1>1, <1>2, NumberSame
  <2> QED BY <2>3, <2>4, <2>5, <2>7, <1>2, <1>3 DEF All
<1>6. ASSUME NEW e \in 1 .. Len(s)
      PROVE  (From(s, e) = BOA => e = Len(s)) /\ (From(s, e) = EOU => e = 1)
  <2>1. e \in 1 .. n \/ e = n + 1 \/ e \in n + 2 .. l \/ e = Len(s)
    BY <1>1, <1>3
  <2>2. ASSUME e \in 1 .. n PROVE From(s, e) # BOA /\ (From(s, e) = EOU => e = 1)
    <3>1. From(s, e) = From(r, e)
      BY <1>2, <2>2 DEF SameEnd
    <3> QED BY <3>1, <2>2 DEF Ordered, NoBegin
  <2>3. ASSUME e = Len(s) PROVE From(s, e) # EOU
    BY <1>2, <2>3, Marks
  <2>4. ASSUME e = n + 1 \/ e \in n + 2 .. l PROVE From(s, e) # BOA /\ From(s, e) # EOU
    BY <1>2, <1>4, <2>4, Marks
  <2> QED BY <2>1, <2>2, <2>3, <2>4
<1>7. From(s, 1) \in {EOU, EOA}
  <2>1. CASE n = 0
    BY <2>1, <1>2
  <2>2. CASE n # 0
    <3>1. 1 \in 1 .. n /\ r # <<>>
      BY <2>2, <1>1
    <3>2. From(s, 1) = From(r, 1)
      BY <3>1, <1>2 DEF SameEnd
    <3> QED BY <3>1, <3>2 DEF Ordered
  <2> QED BY <2>1, <2>2
<1>8. s # <<>>
  BY <1>1, <1>2, <1>3
<1> QED BY <1>2, <1>5, <1>6, <1>7, <1>8 DEF Ordered

(* Tokens and calls that are left: no more marks than calls. *)
Kept(s, c) == Ordered(s) /\ NoBegin(s) /\ c \in Seq(Calls) /\ All(Ending, s) <= Len(c)

LEMMA ResumeKept ==
  ASSUME program \in Programs, NEW call \in Calls, NEW rest, NEW calls, Kept(rest, calls),
         NEW flags, Resume(call, rest, calls, flags)
  PROVE  /\ Ordered(text') /\ stack' \in Seq(Calls) /\ All(Ending, text') <= Len(stack')
         /\ status' = "running" => text' # <<>>
         /\ All({EOA}, text') <= All({EOA}, rest) + All({BOA}, text')
<1>1. Ordered(rest) /\ NoBegin(rest) /\ rest \in Seq(TextTokens) /\ calls \in Seq(Calls)
      /\ All(Ending, rest) <= Len(calls)
  BY DEF Kept, Ordered
<1>2. All({EOA}, rest) \in Nat /\ All({BOA}, rest) = 0 /\ All(Ending, rest) \in Nat /\ Len(calls) \in Nat
  <2>1. All({BOA}, rest) = 0
    BY <1>1, NoBeginCount
  <2>2. All({EOA}, rest) \in Nat
    BY <1>1, AllNat
  <2>3. All(Ending, rest) \in Nat
    BY <1>1, AllNat
  <2> QED BY <2>1, <2>2, <2>3, <1>1
<1>3. /\ EOR \in Ending /\ EOA \in Ending /\ BOA \notin Ending
      /\ EOR \notin {EOA} /\ EOR \notin {BOA} /\ EOA \notin {BOA} /\ BOA \notin {EOA}
      /\ Ending \in SUBSET {EOR, BOA, EOA} /\ {EOA} \in SUBSET {EOR, BOA, EOA}
      /\ {BOA} \in SUBSET {EOR, BOA, EOA}
  BY Marks DEF Ending
<1>4. ASSUME NEW x, Continued(call, calls, x)
      PROVE  stack' \in Seq(Calls) /\ Len(stack') = Len(calls) + 1
  BY <1>1, <1>4, AppendType DEF Continued
<1>5. CASE ReplacementPut(call, rest, calls, flags)
  <2>1. PICK x : Continued(call, calls, x)
    BY <1>5 DEF ReplacementPut
  <2>2. /\ Ordered(text') /\ text' # <<>>
        /\ \A T \in SUBSET {EOR, BOA, EOA} :
             All(T, text') = All(T, rest) + (IF EOR \in T THEN 1 ELSE 0)
    BY <1>1, <1>5, OrderedPutEnd DEF ReplacementPut
  <2>3. All(Ending, text') = All(Ending, rest) + 1
    BY <2>2, <1>3
  <2>4. All({EOA}, text') = All({EOA}, rest) + 0
    BY <2>2, <1>3
  <2>5. All({BOA}, text') = All({BOA}, rest) + 0
    BY <2>2, <1>3
  <2>6. All(Ending, text') <= Len(stack')
    BY <2>1, <2>3, <1>1, <1>2, <1>4
  <2>7. All({EOA}, text') <= All({EOA}, rest) + All({BOA}, text')
    BY <2>4, <2>5, <1>2
  <2> QED BY <2>1, <2>2, <2>6, <2>7, <1>4
<1>6. CASE ArgumentPut(call, rest, calls, flags)
  <2>1. PICK x : Continued(call, calls, x)
    BY <1>6 DEF ArgumentPut
  <2>2. /\ Ordered(text') /\ text' # <<>>
        /\ \A T \in SUBSET {EOR, BOA, EOA} :
             All(T, text') = All(T, rest) + (IF EOA \in T THEN 1 ELSE 0) + (IF BOA \in T THEN 1 ELSE 0)
    BY <1>1, <1>6, OrderedPutArg DEF ArgumentPut
  <2>3. All(Ending, text') = All(Ending, rest) + 1 + 0
    BY <2>2, <1>3
  <2>4. All({EOA}, text') = All({EOA}, rest) + 1 + 0
    BY <2>2, <1>3
  <2>5. All({BOA}, text') = All({BOA}, rest) + 0 + 1
    BY <2>2, <1>3
  <2>6. All(Ending, text') <= Len(stack')
    BY <2>1, <2>3, <1>1, <1>2, <1>4
  <2>7. All({EOA}, text') <= All({EOA}, rest) + All({BOA}, text')
    BY <2>4, <2>5, <1>2
  <2> QED BY <2>1, <2>2, <2>6, <2>7, <1>4
<1>7. CASE NothingPut(call, rest, calls)
  <2>1. text' = rest /\ status' = "aborted" /\ Continued(call, calls, call)
    BY <1>7 DEF NothingPut
  <2>2. stack' \in Seq(Calls) /\ Len(stack') = Len(calls) + 1
    BY <2>1, <1>4
  <2>3. All(Ending, text') <= Len(stack')
    BY <2>1, <2>2, <1>1, <1>2
  <2>4. All({EOA}, text') <= All({EOA}, rest) + All({BOA}, text')
    BY <2>1, <1>2
  <2> QED BY <2>1, <2>2, <2>3, <2>4, <1>1
<1> QED BY <1>1, <1>5, <1>6, <1>7, ResumePuts

------------------------------------------------------------------------------
(* The steps, after an error too.                                              *)

LEMMA InitKept == Init => KeptInv
<1> SUFFICES ASSUME Init PROVE KeptInv
  OBVIOUS
<1>1. MirrorInv
  BY InitMirror
<1>2. /\ Shaped(text) /\ Mirror(text, Len(text), stack, Len(stack), ignored)
      /\ program \in Programs /\ stack \in Seq(Calls) /\ buffer \in Seq(PlainTokens \cup {BOA})
      /\ All({EOA}, text) = All({BOA}, text) + Count(buffer, BOA)
  BY <1>1 DEF MirrorInv, Fits
<1>3. /\ text \in Seq(TextTokens) /\ text # <<>> /\ Len(text) \in Nat
      /\ \A e \in 1 .. Len(text) : From(text, e) = EOU <=> e = 1
      /\ \A e \in 0 .. Len(text) : Number({BOA}, text, e) <= Number({EOA}, text, e)
  <2>1. Shaped(text)
    BY <1>2
  <2>2. text \in Seq(TextTokens) /\ text # <<>>
    BY <2>1 DEF Shaped
  <2>3. \A e \in 1 .. Len(text) : From(text, e) = EOU <=> e = 1
    BY <2>1 DEF Shaped
  <2>4. \A e \in 0 .. Len(text) : Number({BOA}, text, e) <= Number({EOA}, text, e)
    BY <2>1 DEF Shaped
  <2>5. Len(text) \in Nat
    BY <2>2
  <2> QED BY <2>2, <2>3, <2>4, <2>5
<1>4. stack = <<>> /\ Len(stack) = 0
  BY DEF Init
<1>5. All(Ending, text) = 0
  BY <1>2, <1>4 DEF Mirror, All
<1>6. \A e \in 1 .. Len(text) : From(text, e) # BOA
  <2>1. ASSUME NEW e \in 1 .. Len(text), From(text, e) = BOA PROVE FALSE
    <3>1. e \in Nat /\ e <= Len(text) /\ e \in 0 .. Len(text) /\ 0 < e /\ 0 <= e
      BY <1>3
    <3>2. Number({BOA}, text, 0) < Number({BOA}, text, e)
      BY <3>1, <2>1, NumberMonotone
    <3>3. Number({BOA}, text, 0) = 0
      BY NumberZero
    <3>4. Number({BOA}, text, e) <= Number({EOA}, text, e)
      BY <3>1, <1>3
    <3>5. Number({EOA}, text, e) <= Number({EOA}, text, Len(text))
      BY <3>1, <1>3, NumberMonotone
    <3>6. Number({EOA}, text, Len(text)) <= Number(Ending, text, Len(text))
      BY <1>3, NumberSubset DEF All, Ending
    <3>7. Number({BOA}, text, e) \in Nat
      BY <3>1, NumberNat
    <3>8. Number({EOA}, text, e) \in Nat
      BY <3>1, NumberNat
    <3>9. Number({EOA}, text, Len(text)) \in Nat
      BY <1>3, NumberNat
    <3>10. Number(Ending, text, Len(text)) = 0
      BY <1>5 DEF All
    <3> QED BY <3>2, <3>3, <3>4, <3>5, <3>6, <3>7, <3>8, <3>9, <3>10
  <2> QED BY <2>1
<1>7. Ordered(text)
  <2>1. 1 \in 1 .. Len(text)
    BY <1>3
  <2>2. From(text, 1) = EOU
    BY <2>1, <1>3
  <2> QED BY <2>2, <1>3, <1>6 DEF Ordered
<1>8. All({EOA}, text) \in Nat /\ All({EOA}, text) <= All({BOA}, text) + Count(buffer, BOA)
  <2>1. All({EOA}, text) \in Nat
    BY <1>3, AllNat
  <2> QED BY <2>1, <1>2
<1> QED BY <1>2, <1>3, <1>4, <1>5, <1>7, <1>8 DEF KeptInv

LEMMA NothingKept ==
  ASSUME KeptInv, UNCHANGED <<program, text, stack, buffer>>, status' = "running" => status = "running"
  PROVE  KeptInv'
BY DEF KeptInv, Calls, macros

LEMMA CallsSame ==
  ASSUME program' = program
  PROVE  Calls' = Calls
BY DEF Calls, macros

(* The text, and the rest behind its first token. *)
LEMMA KeptHead ==
  ASSUME KeptInv, status = "running"
  PROVE  /\ text \in Seq(TextTokens) /\ text # <<>> /\ Head(text) \in TextTokens
         /\ 1 \in 0 .. Len(text) /\ 1 \in 1 .. Len(text) /\ Tail(text) = Drop(text, 1)
         /\ Head(text) = text[1]
         /\ Tail(text) \in Seq(TextTokens) /\ Ordered(Tail(text)) /\ NoBegin(Tail(text))
         /\ Head(text) \notin {EOU, EOA} => Tail(text) # <<>>
<1>1. Ordered(text) /\ text # <<>> /\ text \in Seq(TextTokens)
  BY DEF KeptInv, Ordered
<1>2. 1 \in 1 .. Len(text) /\ Tail(text) = Drop(text, 1) /\ 1 \in 0 .. Len(text) /\ Head(text) = text[1]
  BY <1>1, TailIsDrop
<1>3. /\ Tail(text) \in Seq(TextTokens) /\ Ordered(Tail(text)) /\ NoBegin(Tail(text))
      /\ Len(Tail(text)) = Len(text) - 1
  BY <1>1, <1>2, OrderedDrop
<1>4. Head(text) \in TextTokens
  BY <1>1, <1>2
<1>5. ASSUME Tail(text) = <<>> PROVE Head(text) \in {EOU, EOA}
  <2>1. Len(text) = 1
    <3>1. Len(Tail(text)) = 0
      <4> DEFINE r == Tail(text)
      <4>1. r = <<>>
        BY <1>5
      <4> HIDE DEF r
      <4>2. Len(r) = 0
        BY <4>1
      <4> QED BY <4>2 DEF r
    <3>2. Len(text) \in Nat
      BY <1>1
    <3> QED BY <3>1, <3>2, <1>3
  <2>2. text[Len(text)] \in {EOU, EOA}
    BY <1>1, OrderedEnd
  <2> QED BY <2>1, <2>2, <1>2
<1> QED BY <1>1, <1>2, <1>3, <1>4, <1>5

LEMMA KeptCount ==
  ASSUME KeptInv, status = "running", NEW T
  PROVE  /\ Head(text) \in T => All(T, text) = All(T, Tail(text)) + 1
         /\ Head(text) \notin T => All(T, text) = All(T, Tail(text))
         /\ All(T, Tail(text)) \in Nat
<1>1. /\ text \in Seq(TextTokens) /\ 1 \in 0 .. Len(text) /\ Tail(text) = Drop(text, 1)
      /\ Head(text) = text[1]
  BY KeptHead
<1>2. /\ All(T, text) = All(T, Tail(text)) + Cardinality(Places(T, text, 1, 1))
      /\ All(T, Tail(text)) \in Nat
  BY <1>1, NumberCut
<1>3. ASSUME Head(text) \in T PROVE All(T, text) = All(T, Tail(text)) + 1
  BY <1>1, <1>2, <1>3, FirstPlace
<1>4. ASSUME Head(text) \notin T PROVE All(T, text) = All(T, Tail(text))
  <2>1. \A i \in 1 .. 1 : text[i] \notin T
    BY <1>1, <1>4
  <2>2. Cardinality(Places(T, text, 1, 1)) = 0
    BY <2>1, NoPlaces
  <2> QED BY <2>2, <1>2
<1> QED BY <1>2, <1>3, <1>4

(* The calls that are left when n of them are popped. *)
LEMMA KeptBelow ==
  ASSUME KeptInv, NEW n \in Nat, NEW r \in Seq(TextTokens), Ordered(r), NoBegin(r),
         All(Ending, r) + n <= Len(stack)
  PROVE  n \in 0 .. Len(stack) /\ Kept(r, Below(n))
<1>1. stack \in Seq(Calls) /\ Len(stack) \in Nat
  BY DEF KeptInv
<1>2. All(Ending, r) \in Nat
  BY AllNat
<1>3. n \in 0 .. Len(stack) /\ Len(stack) - n \in 0 .. Len(stack) /\ All(Ending, r) <= Len(stack) - n
  BY <1>1, <1>2
<1>4. Below(n) = SubSeq(stack, 1, Len(stack) - n) /\ Below(n) \in Seq(Calls)
  BY <1>1, <1>3, Popped
<1>5. Len(Below(n)) = Len(stack) - n
  BY <1>1, <1>3, <1>4, PrefixFacts
<1> QED BY <1>3, <1>4, <1>5 DEF Kept

(* No argument is begun while no call is open, and so none is written. *)
LEMMA OutKept ==
  ASSUME buffer \in Seq(PlainTokens \cup {BOA}), NEW t \in PlainTokens \cup {BOA},
         NEW c, Out(t, c), text' \in Seq(TextTokens), NoBegin(text'), All(Ending, text') <= Len(c),
         NEW k \in {0, 1}, t = BOA <=> k = 1,
         All({EOA}, text') <= Count(buffer, BOA) + k
  PROVE  /\ buffer' \in Seq(PlainTokens \cup {BOA})
         /\ All({EOA}, text') <= All({BOA}, text') + Count(buffer', BOA)
<1>1. All({EOA}, text') \in Nat /\ All({BOA}, text') = 0 /\ Count(buffer, BOA) \in Nat
  BY AllNat, NoBeginCount, CountNat
<1>2. CASE c # <<>>
  <2>1. buffer' = Append(buffer, t)
    BY <1>2 DEF Out
  <2>2. buffer' \in Seq(PlainTokens \cup {BOA})
    BY <2>1, AppendType
  <2>3. /\ t = BOA => Count(Append(buffer, t), BOA) = Count(buffer, BOA) + 1
        /\ t # BOA => Count(Append(buffer, t), BOA) = Count(buffer, BOA)
    BY CountAppend
  <2>4. Count(buffer', BOA) = Count(buffer, BOA) + k
    BY <2>1, <2>3, <1>1
  <2> QED BY <2>2, <2>4, <1>1
<1>3. CASE c = <<>>
  <2>1. buffer' = <<>>
    BY <1>3 DEF Out
  <2>2. All({EOA}, text') <= All(Ending, text')
    BY NumberSubset DEF Ending
  <2>3. All(Ending, text') \in Nat
    BY AllNat
  <2>4. All({EOA}, text') = 0
    BY <2>2, <2>3, <1>1, <1>3
  <2>5. {i \in DOMAIN <<>> : <<>>[i] = BOA} = {}
    OBVIOUS
  <2>6. Count(<<>>, BOA) = 0
    BY <2>5, FS_EmptySet DEF Count
  <2> QED BY <2>1, <2>4, <2>6, <1>1
<1> QED BY <1>2, <1>3

(* A token that is given out. *)
LEMMA GivenKept ==
  ASSUME KeptInv, status = "running", Head(text) \in PlainTokens \cup {BOA},
         NEW t \in PlainTokens \cup {BOA}, t = BOA <=> Head(text) = BOA,
         Out(t, stack), text' = Tail(text), UNCHANGED <<program, stack>>
  PROVE  KeptInv'
<1> DEFINE k == IF t = BOA THEN 1 ELSE 0
<1>1. Head(text) \notin {EOU, EOA} /\ Head(text) \notin Ending /\ Head(text) \notin {EOA}
  BY Marks DEF Ending
<1>2. /\ text' \in Seq(TextTokens) /\ Ordered(text') /\ NoBegin(text') /\ text' # <<>>
  BY <1>1, KeptHead
<1>3. /\ program \in Programs /\ stack \in Seq(Calls) /\ All(Ending, text) <= Len(stack)
      /\ buffer \in Seq(PlainTokens \cup {BOA})
      /\ All({EOA}, text) <= All({BOA}, text) + Count(buffer, BOA)
  BY DEF KeptInv
<1>4. All(Ending, text') = All(Ending, text)
  BY <1>1, KeptCount
<1>5. All({EOA}, text') = All({EOA}, text) /\ All({EOA}, text') \in Nat
  BY <1>1, KeptCount
<1>6. All({BOA}, text) = k
  <2>1. All({BOA}, Tail(text)) = 0
    BY <1>2, NoBeginCount
  <2>2. /\ Head(text) \in {BOA} => All({BOA}, text) = All({BOA}, Tail(text)) + 1
        /\ Head(text) \notin {BOA} => All({BOA}, text) = All({BOA}, Tail(text))
    BY KeptCount
  <2> QED BY <2>1, <2>2
<1>7. k \in {0, 1} /\ (t = BOA <=> k = 1)
  OBVIOUS
<1> HIDE DEF k
<1>8. Count(buffer, BOA) \in Nat
  BY <1>3, CountNat
<1>9. All({EOA}, text') <= Count(buffer, BOA) + k
  BY <1>3, <1>5, <1>6, <1>7, <1>8
<1>10. All(Ending, text') <= Len(stack)
  BY <1>3, <1>4
<1>11. /\ buffer' \in Seq(PlainTokens \cup {BOA})
       /\ All({EOA}, text') <= All({BOA}, text') + Count(buffer', BOA)
  BY <1>2, <1>3, <1>7, <1>9, <1>10, OutKept
<1>12. program' \in Programs /\ Calls' = Calls /\ stack' \in Seq(Calls) /\ Len(stack') = Len(stack)
  BY <1>3, CallsSame
<1> QED BY <1>2, <1>10, <1>11, <1>12 DEF KeptInv

LEMMA CopiedKept ==
  ASSUME KeptInv, Copied
  PROVE  KeptInv'
<1>1. Head(text) \in TextTokens /\ status = "running"
  BY KeptHead DEF Copied
<1>2. Head(text).code \notin {"EOR", "EOA", "EOU"}
  BY DEF Copied
<1>3. Head(text) \in PlainTokens \cup {BOA}
  BY <1>1, <1>2, Codes DEF TextTokens
<1>4. Out(Head(text), stack) /\ text' = Tail(text) /\ UNCHANGED <<program, stack>>
  BY DEF Copied
<1> QED BY <1>1, <1>3, <1>4, GivenKept

LEMMA IgnoreKept ==
  ASSUME KeptInv, Ignore
  PROVE  KeptInv'
<1> DEFINE t == [Head(text) EXCEPT !.code = "no macro"]
<1>1. Head(text) \in TextTokens /\ Head(text).code = "id" /\ status = "running"
  BY KeptHead DEF Ignore, Reads
<1>2. Head(text) \in PlainTokens
  BY <1>1, Codes
<1>3. Head(text) \in [code : {"id", "no macro"}, repr : Names]
  <2>1. Head(text) \notin {Sign(code) : code \in Signs}
    <3>1. ASSUME NEW code \in Signs, Head(text) = Sign(code) PROVE FALSE
      <4>1. Sign(code).code = code
        BY DEF Sign
      <4> QED BY <4>1, <1>1, <3>1, ProgramsAssumption
    <3> QED BY <3>1
  <2> QED BY <2>1, <1>2 DEF PlainTokens
<1>4. t \in PlainTokens
  BY <1>3 DEF PlainTokens
<1>5. t # BOA /\ Head(text) # BOA
  BY <1>2, <1>4, Marks
<1>6. Out(t, stack) /\ text' = Tail(text) /\ UNCHANGED <<program, stack>>
  BY DEF Ignore
<1> HIDE DEF t
<1> QED BY <1>1, <1>2, <1>4, <1>5, <1>6, GivenKept

LEMMA FinishCallKept ==
  ASSUME KeptInv, FinishCall
  PROVE  KeptInv'
<1>1. Head(text) = EOR /\ status = "running"
  BY KeptHead, Codes DEF FinishCall, Reads
<1>2. Head(text) \notin {EOU, EOA} /\ Head(text) \in Ending /\ Head(text) \notin {EOA}
      /\ Head(text) \notin {BOA}
  BY <1>1, Marks DEF Ending
<1>3. /\ Tail(text) \in Seq(TextTokens) /\ Ordered(Tail(text)) /\ NoBegin(Tail(text))
      /\ Tail(text) # <<>>
  BY <1>1, <1>2, KeptHead
<1>4. All(Ending, text) = All(Ending, Tail(text)) + 1
  BY <1>1, <1>2, KeptCount
<1>5. All({EOA}, text) = All({EOA}, Tail(text))
  BY <1>1, <1>2, KeptCount
<1>6. All({BOA}, text) = All({BOA}, Tail(text))
  BY <1>1, <1>2, KeptCount
<1>7. All(Ending, Tail(text)) + 1 <= Len(stack)
  BY <1>4 DEF KeptInv
<1>8. Kept(Tail(text), Below(1))
  BY <1>3, <1>7, KeptBelow
<1>9. text' = Tail(text) /\ stack' = Below(1) /\ program' = program /\ buffer' = buffer
  BY DEF FinishCall
<1>10. stack' \in Seq(Calls) /\ All(Ending, text') <= Len(stack')
  BY <1>8, <1>9 DEF Kept
<1>11. /\ buffer' \in Seq(PlainTokens \cup {BOA})
       /\ All({EOA}, text') <= All({BOA}, text') + Count(buffer', BOA)
  BY <1>5, <1>6, <1>9 DEF KeptInv
<1>12. program' \in Programs /\ Calls' = Calls
  BY <1>9, CallsSame DEF KeptInv
<1> QED BY <1>3, <1>9, <1>10, <1>11, <1>12 DEF KeptInv

LEMMA ExpandObjectKept ==
  ASSUME KeptInv, ExpandObject
  PROVE  KeptInv'
<1> DEFINE name == Head(text).repr
           w == AddTokens(<<>>, macros[name].body)
           call == [macro |-> name, args |-> <<>>, pos |-> 0, repl |-> <<>>, back |-> TRUE]
<1>1. /\ status = "running" /\ Head(text).code = "id" /\ name \in DOMAIN macros
      /\ ~macros[name].function
      /\ text' = w \o <<EOR>> \o Tail(text)
      /\ stack' = Append(stack, call)
      /\ program' = program /\ buffer' = buffer
  BY DEF ExpandObject, Reads
<1>2. Head(text) \in PlainTokens
  BY <1>1, KeptHead, Codes
<1>3. Head(text) \notin {EOU, EOA} /\ Head(text) \notin Ending /\ Head(text) \notin {EOA}
      /\ Head(text) \notin {BOA}
  BY <1>2, Marks DEF Ending
<1>4. /\ Tail(text) \in Seq(TextTokens) /\ Ordered(Tail(text)) /\ NoBegin(Tail(text))
      /\ Tail(text) # <<>>
  BY <1>1, <1>3, KeptHead
<1>5. /\ program \in Programs /\ stack \in Seq(Calls) /\ All(Ending, text) <= Len(stack)
      /\ buffer \in Seq(PlainTokens \cup {BOA})
      /\ All({EOA}, text) <= All({BOA}, text) + Count(buffer, BOA)
  BY DEF KeptInv
<1>6. macros[name].body \in Seq(PlainTokens) /\ macros[name].params = <<>>
  BY <1>1, <1>5, MacroTypes
<1>7. call \in Calls
  <2>1. Len(macros[name].body) \in Nat /\ Len(macros[name].params) = 0 /\ Len(<<>>) = 0
    BY <1>6
  <2> QED BY <1>1, <2>1 DEF Calls
<1>8. w \in Seq(PlainTokens)
  <2>1. <<>> \in Seq(PlainTokens)
    OBVIOUS
  <2> QED BY <2>1, <1>6, AddTokensType
<1> HIDE DEF w, call, name
<1>9. ReplacementBefore(Tail(text), text')
  BY <1>1, <1>4, <1>8, PutEnd
<1>10. /\ Ordered(text') /\ text' # <<>>
       /\ \A T \in SUBSET {EOR, BOA, EOA} :
            All(T, text') = All(T, Tail(text)) + (IF EOR \in T THEN 1 ELSE 0)
  BY <1>4, <1>9, OrderedPutEnd
<1>11. /\ EOR \in Ending /\ EOR \notin {EOA} /\ EOR \notin {BOA}
       /\ Ending \in SUBSET {EOR, BOA, EOA} /\ {EOA} \in SUBSET {EOR, BOA, EOA}
       /\ {BOA} \in SUBSET {EOR, BOA, EOA}
  BY Marks DEF Ending
<1>12. All(Ending, text) = All(Ending, Tail(text)) /\ All(Ending, Tail(text)) \in Nat
  BY <1>1, <1>3, KeptCount
<1>13. All({EOA}, text) = All({EOA}, Tail(text)) /\ All({EOA}, Tail(text)) \in Nat
  BY <1>1, <1>3, KeptCount
<1>14. All({BOA}, text) = All({BOA}, Tail(text)) /\ All({BOA}, Tail(text)) \in Nat
  BY <1>1, <1>3, KeptCount
<1>15. stack' \in Seq(Calls) /\ Len(stack') = Len(stack) + 1 /\ Len(stack) \in Nat
  BY <1>1, <1>5, <1>7, AppendType
<1>16. All(Ending, text') <= Len(stack')
  <2>1. All(Ending, text') = All(Ending, Tail(text)) + 1
    BY <1>10, <1>11
  <2> QED BY <2>1, <1>5, <1>12, <1>15
<1>17. All({EOA}, text') <= All({BOA}, text') + Count(buffer', BOA)
  <2>1. All({EOA}, text') = All({EOA}, Tail(text)) + 0
    BY <1>10, <1>11
  <2>2. All({BOA}, text') = All({BOA}, Tail(text)) + 0
    BY <1>10, <1>11
  <2> QED BY <2>1, <2>2, <1>1, <1>5, <1>13, <1>14
<1>18. program' \in Programs /\ Calls' = Calls
  BY <1>1, <1>5, CallsSame
<1> QED BY <1>1, <1>5, <1>10, <1>15, <1>16, <1>17, <1>18 DEF KeptInv

LEMMA FinishArgKept ==
  ASSUME KeptInv, FinishArg
  PROVE  KeptInv'
<1> DEFINE begin == Max({i \in DOMAIN buffer : buffer[i] = BOA})
           repl == AddTokens(Last(stack).repl, Drop(buffer, begin))
           call == [Last(stack) EXCEPT !.repl = AddTokens(@, Drop(buffer, begin))]
<1>1. Head(text) = EOA /\ status = "running"
  BY KeptHead, Codes DEF FinishArg, Reads
<1>2. Head(text) \in Ending /\ Head(text) \in {EOA} /\ Head(text) \notin {BOA}
  BY <1>1, Marks DEF Ending
<1>3. Tail(text) \in Seq(TextTokens) /\ Ordered(Tail(text)) /\ NoBegin(Tail(text))
  BY <1>1, KeptHead
<1>4. /\ program \in Programs /\ stack \in Seq(Calls) /\ Len(stack) \in Nat
      /\ All(Ending, text) <= Len(stack)
      /\ buffer \in Seq(PlainTokens \cup {BOA})
      /\ All({EOA}, text) <= All({BOA}, text) + Count(buffer, BOA)
  BY DEF KeptInv
<1>5. All(Ending, text) = All(Ending, Tail(text)) + 1 /\ All(Ending, Tail(text)) \in Nat
  BY <1>1, <1>2, KeptCount
<1>6. All({EOA}, text) = All({EOA}, Tail(text)) + 1 /\ All({EOA}, Tail(text)) \in Nat
  BY <1>1, <1>2, KeptCount
<1>7. All({BOA}, text) = 0
  <2>1. All({BOA}, Tail(text)) = 0
    BY <1>3, NoBeginCount
  <2> QED BY <2>1, <1>1, <1>2, KeptCount
<1>8. Count(buffer, BOA) \in Nat
  BY <1>4, CountNat
<1>9. All({EOA}, Tail(text)) + 1 <= Count(buffer, BOA) /\ Count(buffer, BOA) # 0
  BY <1>4, <1>6, <1>7, <1>8
<1>10. Kept(Tail(text), Below(1)) /\ Len(stack) \in 1 .. Len(stack)
  <2>1. All(Ending, Tail(text)) + 1 <= Len(stack)
    BY <1>4, <1>5
  <2>2. 1 \in 0 .. Len(stack) /\ Kept(Tail(text), Below(1))
    BY <2>1, <1>3, KeptBelow
  <2> QED BY <2>2, <1>4
<1>11. /\ begin \in 1 .. Len(buffer) /\ Drop(buffer, begin) \in Seq(PlainTokens)
       /\ SubSeq(buffer, 1, begin - 1) \in Seq(PlainTokens \cup {BOA})
       /\ Count(SubSeq(buffer, 1, begin - 1), BOA) + 1 = Count(buffer, BOA)
  BY <1>4, <1>9, LastMark
<1>12. /\ buffer' = SubSeq(buffer, 1, begin - 1)
       /\ Resume(call, Tail(text), Below(1), ignored)
       /\ program' = program
  BY DEF FinishArg
<1> HIDE DEF begin
<1>13. Last(stack) \in Calls
  BY <1>4, <1>10 DEF Last
<1>14. repl \in Seq(PlainTokens)
  <2>1. Last(stack).repl \in Seq(PlainTokens)
    BY <1>13 DEF Calls
  <2> QED BY <2>1, <1>11, AddTokensType
<1>15. call = [Last(stack) EXCEPT !.repl = repl]
  BY <1>13 DEF Calls
<1> HIDE DEF call, repl
<1>16. call \in Calls
  <2>1. /\ call.macro = Last(stack).macro /\ call.args = Last(stack).args
        /\ call.pos = Last(stack).pos
        /\ call \in [macro : DOMAIN macros, args : Seq(Seq(PlainTokens)), pos : Nat,
                      repl : Seq(PlainTokens), back : BOOLEAN]
    BY <1>13, <1>14, <1>15 DEF Calls
  <2> QED BY <2>1, <1>13 DEF Calls
<1>17. /\ Ordered(text') /\ stack' \in Seq(Calls) /\ All(Ending, text') <= Len(stack')
       /\ status' = "running" => text' # <<>>
       /\ All({EOA}, text') <= All({EOA}, Tail(text)) + All({BOA}, text')
  BY <1>4, <1>10, <1>12, <1>16, ResumeKept
<1>18. /\ buffer' \in Seq(PlainTokens \cup {BOA}) /\ Count(buffer', BOA) \in Nat
       /\ Count(buffer', BOA) + 1 = Count(buffer, BOA)
  BY <1>11, <1>12, CountNat
<1>19. All({EOA}, text') <= All({BOA}, text') + Count(buffer', BOA)
  <2>1. text' \in Seq(TextTokens)
    BY <1>17 DEF Ordered
  <2>2. All({EOA}, text') \in Nat
    BY <2>1, AllNat
  <2>3. All({BOA}, text') \in Nat
    BY <2>1, AllNat
  <2> DEFINE e == All({EOA}, Tail(text))
             b == All({BOA}, text')
             c == Count(buffer', BOA)
             a == All({EOA}, text')
             d == Count(buffer, BOA)
  <2>4. a <= e + b /\ e + 1 <= d /\ c + 1 = d /\ a \in Nat /\ b \in Nat /\ c \in Nat /\ d \in Nat
        /\ e \in Nat
    BY <2>2, <2>3, <1>6, <1>8, <1>9, <1>17, <1>18
  <2> HIDE DEF a, b, c, d, e
  <2>5. a <= b + c
    BY <2>4
  <2> QED BY <2>5 DEF a, b, c
<1>20. program' \in Programs /\ Calls' = Calls
  BY <1>4, <1>12, CallsSame
<1> QED BY <1>17, <1>18, <1>19, <1>20 DEF KeptInv

(* The replacements that end between a name and what is read behind it. *)
LEMMA BehindKept ==
  ASSUME KeptInv, Reads("id"), NEW n, n = Endings(Tail(text))
  PROVE  /\ n \in Nat /\ 1 + n \in 0 .. Len(text) /\ Behind = Drop(text, 1 + n)
         /\ Head(text) \in PlainTokens /\ text \in Seq(TextTokens)
         /\ Behind \in Seq(TextTokens) /\ Ordered(Behind) /\ NoBegin(Behind)
         /\ Behind # <<>> /\ Behind[1] # EOR
         /\ All(Ending, text) = All(Ending, Behind) + n
         /\ All({EOA}, text) = All({EOA}, Behind) /\ All({BOA}, text) = 0
<1>1. /\ text \in Seq(TextTokens) /\ text # <<>> /\ Head(text) \in TextTokens
      /\ Head(text) = text[1] /\ Tail(text) = Drop(text, 1) /\ Head(text).code = "id"
      /\ 1 \in 0 .. Len(text) /\ 1 \in 1 .. Len(text)
      /\ Head(text) \notin {EOU, EOA} => Tail(text) # <<>>
      /\ Tail(text) \in Seq(TextTokens) /\ Ordered(Tail(text)) /\ NoBegin(Tail(text))
  BY KeptHead DEF Reads
<1>2. Head(text) \in PlainTokens
  BY <1>1, Codes
<1>3. text[1] \notin {EOR, EOA, BOA, EOU}
  BY <1>1, <1>2, Marks
<1> DEFINE s == Tail(text)
           l == Len(text)
<1>4. Len(s) = l - 1 /\ (\A i \in 1 .. l - 1 : s[i] = text[1 + i]) /\ l \in Nat
  BY <1>1, DropFacts
<1>5. Len(s) \in Nat \ {0} /\ s[Len(s)] \in {EOU, EOA}
  BY <1>1, <1>3, OrderedEnd
<1>6. Ordered(text)
  BY DEF KeptInv
<1> HIDE DEF s
<1>7. n \in 0 .. Len(s) - 1 /\ s[n + 1] # EOR /\ \A i \in 1 .. n : s[i] = EOR
  <2>1. s[Len(s)] # EOR
    BY <1>5, Marks
  <2> QED BY <2>1, <1>5, EndingsFacts DEF s
<1>8. 1 + n \in 1 .. l /\ 1 + n \in 0 .. l /\ n \in Nat /\ 1 + n # l
  BY <1>4, <1>5, <1>7
<1>9. Behind = Drop(text, 1 + n)
  BY DEF Behind
<1>10. /\ Behind \in Seq(TextTokens) /\ Ordered(Behind) /\ NoBegin(Behind)
       /\ Len(Behind) = l - (1 + n)
  BY <1>6, <1>8, <1>9, OrderedDrop
<1>11. Behind # <<>> /\ Behind[1] # EOR
  <2>1. \A i \in 1 .. Len(text) - (1 + n) : Drop(text, 1 + n)[i] = text[(1 + n) + i]
    BY <1>1, <1>8, DropFacts
  <2>2. /\ 1 \in 1 .. Len(text) - (1 + n) /\ n + 1 \in 1 .. l - 1 /\ (1 + n) + 1 = 1 + (n + 1)
        /\ Len(Behind) # 0
    BY <1>4, <1>8, <1>10
  <2>3. Drop(text, 1 + n)[1] = text[(1 + n) + 1]
    BY <2>1, <2>2
  <2>4. s[n + 1] = text[1 + (n + 1)]
    BY <2>2, <1>4
  <2>5. Behind[1] # EOR
    BY <2>2, <2>3, <2>4, <1>7, <1>9
  <2> DEFINE b == Behind
  <2>6. Len(b) # 0
    BY <2>2
  <2> HIDE DEF b
  <2>7. b # <<>>
    BY <2>6
  <2> QED BY <2>5, <2>7 DEF b
<1>12. ASSUME NEW i \in 2 .. n + 1 PROVE text[i] = EOR
  <2>1. i - 1 \in 1 .. n /\ i - 1 \in 1 .. l - 1 /\ 1 + (i - 1) = i
    BY <1>4, <1>7, <1>8
  <2> QED BY <2>1, <1>4, <1>7
<1>13. Cardinality(Places(Ending, text, 1, 1 + n)) = n
  <2>1. Places(Ending, text, 1, 1 + n) = 2 .. n + 1
    <3>1. ASSUME NEW i \in 1 .. 1 + n PROVE text[i] \in Ending <=> i \in 2 .. n + 1
      <4>1. i = 1 \/ i \in 2 .. n + 1
        BY <1>8
      <4>2. 1 \notin 2 .. n + 1
        OBVIOUS
      <4> QED BY <4>1, <4>2, <1>3, <1>12 DEF Ending
    <3>2. \A i \in 2 .. n + 1 : i \in 1 .. 1 + n
      BY <1>8
    <3> QED BY <3>1, <3>2 DEF Places
  <2>2. 2 \in Int /\ n + 1 \in Int
    BY <1>8
  <2>3. Cardinality(2 .. n + 1) = IF 2 > n + 1 THEN 0 ELSE (n + 1) - 2 + 1
    BY <2>2, FS_Interval
  <2> QED BY <2>1, <2>3, <1>8
<1>14. ASSUME NEW T \in {{EOA}, {BOA}} PROVE Cardinality(Places(T, text, 1, 1 + n)) = 0
  <2>1. ASSUME NEW i \in 1 .. 1 + n PROVE text[i] \notin T
    <3>1. i = 1 \/ i \in 2 .. n + 1
      BY <1>8
    <3> QED BY <3>1, <1>3, <1>12, Marks
  <2> QED BY <2>1, NoPlaces
<1>15. ASSUME NEW T
       PROVE  /\ All(T, text) = All(T, Behind) + Cardinality(Places(T, text, 1, 1 + n))
              /\ All(T, Behind) \in Nat
  <2>1. 1 + n \in 0 .. Len(text)
    BY <1>8
  <2> QED BY <2>1, <1>1, <1>9, NumberCut
<1>16. All(Ending, text) = All(Ending, Behind) + n
  BY <1>13, <1>15
<1>17. All({EOA}, text) = All({EOA}, Behind)
  <2>1. /\ All({EOA}, text) = All({EOA}, Behind) + Cardinality(Places({EOA}, text, 1, 1 + n))
        /\ All({EOA}, Behind) \in Nat
    BY <1>15
  <2>2. Cardinality(Places({EOA}, text, 1, 1 + n)) = 0
    BY <1>14
  <2> QED BY <2>1, <2>2
<1>18. All({BOA}, text) = 0
  <2>1. All({BOA}, text) = All({BOA}, Behind) + Cardinality(Places({BOA}, text, 1, 1 + n))
    BY <1>15
  <2>2. Cardinality(Places({BOA}, text, 1, 1 + n)) = 0
    BY <1>14
  <2>3. All({BOA}, Behind) = 0
    BY <1>10, NoBeginCount
  <2> QED BY <2>1, <2>2, <2>3
<1> QED BY <1>1, <1>2, <1>8, <1>9, <1>10, <1>11, <1>16, <1>17, <1>18

LEMMA NoCallKept ==
  ASSUME KeptInv, NoCall
  PROVE  KeptInv'
<1> DEFINE n == Endings(Tail(text))
<1>1. /\ Reads("id") /\ text' = Behind /\ stack' = Below(n)
      /\ Out(Head(text), stack') /\ program' = program
  BY DEF NoCall, ReadsFunction
<1>2. /\ n \in Nat /\ Head(text) \in PlainTokens
      /\ Behind \in Seq(TextTokens) /\ Ordered(Behind) /\ NoBegin(Behind) /\ Behind # <<>>
      /\ All(Ending, text) = All(Ending, Behind) + n
      /\ All({EOA}, text) = All({EOA}, Behind) /\ All({BOA}, text) = 0
  BY <1>1, BehindKept
<1> HIDE DEF n
<1>3. /\ program \in Programs /\ All(Ending, text) <= Len(stack)
      /\ buffer \in Seq(PlainTokens \cup {BOA})
      /\ All({EOA}, text) <= All({BOA}, text) + Count(buffer, BOA)
  BY DEF KeptInv
<1>4. All(Ending, Behind) + n <= Len(stack)
  BY <1>2, <1>3
<1>5. Kept(Behind, Below(n))
  BY <1>2, <1>4, KeptBelow
<1>6. stack' \in Seq(Calls) /\ All(Ending, text') <= Len(stack')
  BY <1>1, <1>5 DEF Kept
<1>7. Count(buffer, BOA) \in Nat
  BY <1>3, CountNat
<1>8. All({EOA}, text') <= Count(buffer, BOA) + 0
  BY <1>1, <1>2, <1>3, <1>7
<1>9. Head(text) # BOA
  BY <1>2, Marks
<1>10. /\ buffer' \in Seq(PlainTokens \cup {BOA})
       /\ All({EOA}, text') <= All({BOA}, text') + Count(buffer', BOA)
  <2> DEFINE t == Head(text)
  <2>1. t \in PlainTokens \cup {BOA} /\ t # BOA /\ Out(t, stack')
    BY <1>1, <1>2, <1>9
  <2>2. 0 \in {0, 1} /\ (t = BOA <=> 0 = 1)
    BY <2>1
  <2>3. text' \in Seq(TextTokens) /\ NoBegin(text')
    BY <1>1, <1>2
  <2> HIDE DEF t
  <2> QED BY <2>1, <2>2, <2>3, <1>3, <1>6, <1>8, OutKept
<1>11. program' \in Programs /\ Calls' = Calls
  BY <1>1, <1>3, CallsSame
<1> QED BY <1>1, <1>2, <1>6, <1>10, <1>11 DEF KeptInv

(* A call that begins, also a wrong one. *)
Given(name, inParens, stop) ==
  Arguments(macros[name], WithoutEnds(SubSeq(inParens, 1, stop - 1)))

NewCall(name, given) ==
  [macro |-> name, args |-> Fitted(given, Len(macros[name].params)), pos |-> 0,
   repl |-> <<>>, back |-> FALSE]

Begins(name, inParens, stop) ==
  /\ Reads("id") /\ name \in DOMAIN macros \ ignored
  /\ Behind[Opening(Behind)].code = "(" /\ inParens = Drop(Behind, Opening(Behind))
  /\ stop = Min(Stops(inParens))
  /\ ~errors' => ~errors /\ inParens[stop].code = ")"
  /\ Resume(NewCall(name, Given(name, inParens, stop)), Drop(inParens, stop),
            Below(Endings(Tail(text)) + Ended(inParens, stop)),
            Unignored(Endings(Tail(text)) + Ended(inParens, stop)))
  /\ UNCHANGED <<program, buffer, output>>

LEMMA CallBegins ==
  ASSUME BeginCall
  PROVE  \E name, inParens, stop : Begins(name, inParens, stop)
<1> DEFINE name == Head(text).repr
           s == Behind
           inParens == Drop(s, Opening(s))
           stop == Min(Stops(inParens))
           m == macros[name]
           given == Arguments(m, WithoutEnds(SubSeq(inParens, 1, stop - 1)))
           ended == Endings(Tail(text)) + Ended(inParens, stop)
<1>1. /\ Reads("id") /\ name \in DOMAIN macros \ ignored /\ s[Opening(s)].code = "("
      /\ Begin(name, given, inParens[stop].code = ")" /\ Len(given) = Len(m.params),
               Drop(inParens, stop), ended)
  BY DEF BeginCall, ReadsFunction
<1>2. ~errors' => ~errors /\ inParens[stop].code = ")"
  <2> HIDE DEF name, s, inParens, stop, m, given, ended
  <2> QED BY <1>1 DEF Begin
<1>3. /\ Resume(NewCall(name, given), Drop(inParens, stop), Below(ended), Unignored(ended))
      /\ UNCHANGED <<program, buffer, output>>
  <2> HIDE DEF s, inParens, stop, given, ended
  <2> QED BY <1>1 DEF Begin, NewCall
<1>4. given = Given(name, inParens, stop)
  BY DEF Given
<1>5. Begins(name, inParens, stop)
  <2> HIDE DEF given
  <2> QED BY <1>1, <1>2, <1>3, <1>4 DEF Begins
<1> QED BY <1>5

(* A text that is read to a ( has tokens behind it. *)
LEMMA OpeningKept ==
  ASSUME NEW s, Ordered(s), s # <<>>, s[1] # EOR, NoBegin(s), s[Opening(s)].code = "("
  PROVE  /\ Opening(s) \in 1 .. Len(s) - 1 /\ Opening(s) \in 1 .. Len(s) /\ Opening(s) \in 0 .. Len(s)
         /\ \A i \in 1 .. Opening(s) : s[i] \notin {EOR, EOA, BOA, EOU}
<1>1. s \in Seq(TextTokens)
  BY DEF Ordered
<1> DEFINE l == Len(s)
<1>2. Head(s) = s[1] /\ l \in Nat /\ l # 0 /\ s[l] \in {EOU, EOA}
  BY <1>1, OrderedEnd
<1> HIDE DEF l
<1>3. s[Opening(s)] \notin {EOR, EOA, BOA, EOU}
  BY Marks
<1>4. CASE s[1] = Space
  <2>1. Opening(s) = 2
    BY <1>2, <1>4 DEF Opening
  <2>2. s[1] \notin {EOR, EOA, BOA, EOU}
    BY <1>4, Marks
  <2>3. l # 1 /\ l # 2
    BY <1>2, <1>3, <2>1, <2>2
  <2>4. 2 \in 1 .. l - 1 /\ 2 \in 1 .. l /\ 2 \in 0 .. l
    BY <2>3, <1>2
  <2>5. \A i \in 1 .. 2 : i = 1 \/ i = 2
    OBVIOUS
  <2> QED BY <2>1, <2>2, <2>4, <2>5, <1>3 DEF l
<1>5. CASE s[1] # Space
  <2>1. Opening(s) = 1
    BY <1>2, <1>5 DEF Opening
  <2>2. l # 1
    BY <1>2, <1>3, <2>1
  <2>3. 1 \in 1 .. l - 1 /\ 1 \in 1 .. l /\ 1 \in 0 .. l
    BY <2>2, <1>2
  <2>4. \A i \in 1 .. 1 : i = 1
    OBVIOUS
  <2> QED BY <2>1, <2>3, <2>4, <1>3 DEF l
<1> QED BY <1>4, <1>5

(* The text behind a call, and the calls that are left. *)
LEMMA CallKept ==
  ASSUME KeptInv, NEW name, NEW inParens, NEW stop, Begins(name, inParens, stop),
         NEW rest, rest = Drop(inParens, stop),
         NEW ended, ended = Endings(Tail(text)) + Ended(inParens, stop)
  PROVE  /\ NewCall(name, Given(name, inParens, stop)) \in Calls
         /\ Kept(rest, Below(ended)) /\ All({BOA}, text) = 0
         /\ All({EOA}, rest) <= All({EOA}, text)
<1> DEFINE n == Endings(Tail(text))
           s == Behind
           o == Opening(s)
           e == Ended(inParens, stop)
<1>1. /\ Reads("id") /\ name \in DOMAIN macros /\ s[o].code = "("
      /\ inParens = Drop(s, o) /\ stop = Min(Stops(inParens))
  BY DEF Begins
<1>2. /\ n \in Nat /\ text \in Seq(TextTokens)
      /\ s \in Seq(TextTokens) /\ Ordered(s) /\ NoBegin(s) /\ s # <<>> /\ s[1] # EOR
      /\ All(Ending, text) = All(Ending, s) + n
      /\ All({EOA}, text) = All({EOA}, s) /\ All({BOA}, text) = 0
  BY <1>1, BehindKept
<1>3. o \in 1 .. Len(s) - 1 /\ o \in 1 .. Len(s) /\ o \in 0 .. Len(s)
  BY <1>1, <1>2, OpeningKept
<1> HIDE DEF n, s, o
<1>4. inParens \in Seq(TextTokens) /\ Len(inParens) = Len(s) - o /\ Ordered(inParens)
  BY <1>1, <1>2, <1>3, OrderedDrop
<1>5. Len(inParens) \in Nat \ {0} /\ inParens # <<>> /\ inParens[Len(inParens)] \in {EOU, EOA}
  <2>1. Len(s) - o \in Nat \ {0}
    BY <1>2, <1>3
  <2>2. inParens # <<>>
    BY <2>1, <1>4
  <2> QED BY <2>1, <2>2, <1>4, OrderedEnd
<1>6. /\ stop \in 1 .. Len(inParens)
      /\ WithoutEnds(SubSeq(inParens, 1, stop - 1)) \in Seq(PlainTokens)
  BY <1>1, <1>4, <1>5, StopFacts
<1>7. stop \in 0 .. Len(inParens) /\ stop \in Nat
  BY <1>5, <1>6
<1>8. rest \in Seq(TextTokens) /\ Ordered(rest) /\ NoBegin(rest)
  BY <1>4, <1>6, OrderedDrop
<1>9. ASSUME NEW T
      PROVE  /\ All(T, s) = All(T, inParens) + Cardinality(Places(T, s, 1, o))
             /\ All(T, inParens) \in Nat /\ Cardinality(Places(T, s, 1, o)) \in Nat
  BY <1>1, <1>2, <1>3, NumberCut
<1>10. ASSUME NEW T
       PROVE  /\ All(T, inParens) = All(T, rest) + Cardinality(Places(T, inParens, 1, stop))
              /\ All(T, rest) \in Nat /\ Cardinality(Places(T, inParens, 1, stop)) \in Nat
  BY <1>4, <1>7, NumberCut
<1>11. e \in Nat /\ e <= Cardinality(Places(Ending, inParens, 1, stop))
  <2> DEFINE E == {i \in 1 .. stop - 1 : inParens[i] = EOR}
             P == Places(Ending, inParens, 1, stop)
  <2>1. \A i \in 1 .. stop - 1 : i \in 1 .. stop
    BY <1>7
  <2>2. E \subseteq P /\ P \subseteq 1 .. stop
    BY <2>1 DEF Places, Ending
  <2>3. IsFiniteSet(1 .. stop) /\ e = Cardinality(E)
    BY <1>7, FS_Interval DEF Ended
  <2> HIDE DEF E, P, e
  <2>4. IsFiniteSet(P)
    BY <2>2, <2>3, FS_Subset
  <2>5. IsFiniteSet(E) /\ Cardinality(E) <= Cardinality(P)
    BY <2>2, <2>4, FS_Subset
  <2>6. Cardinality(E) \in Nat
    BY <2>5, FS_CardinalityType
  <2> QED BY <2>3, <2>5, <2>6 DEF P
<1> HIDE DEF e
<1>12. ended = n + e /\ ended \in Nat
  BY <1>2, <1>11 DEF n, e
<1>13. All(Ending, rest) + ended <= Len(stack)
  <2>1. All(Ending, text) <= Len(stack) /\ Len(stack) \in Nat
    BY DEF KeptInv
  <2> DEFINE a == All(Ending, s)
             b == All(Ending, inParens)
             c == All(Ending, rest)
             x == Cardinality(Places(Ending, s, 1, o))
             y == Cardinality(Places(Ending, inParens, 1, stop))
  <2>2. /\ a = b + x /\ b = c + y /\ a + n <= Len(stack) /\ b \in Nat /\ c \in Nat /\ x \in Nat
        /\ y \in Nat /\ e <= y
    BY <2>1, <1>2, <1>9, <1>10, <1>11
  <2> HIDE DEF a, b, c, x, y
  <2>3. c + (n + e) <= Len(stack)
    BY <2>1, <2>2, <1>2, <1>11
  <2> QED BY <2>3, <1>12 DEF c
<1>14. Kept(rest, Below(ended))
  BY <1>8, <1>12, <1>13, KeptBelow
<1>15. All({EOA}, rest) <= All({EOA}, text)
  <2> DEFINE a == All({EOA}, s)
             b == All({EOA}, inParens)
             c == All({EOA}, rest)
             x == Cardinality(Places({EOA}, s, 1, o))
             y == Cardinality(Places({EOA}, inParens, 1, stop))
  <2>1. a = b + x /\ b = c + y /\ b \in Nat /\ c \in Nat /\ x \in Nat /\ y \in Nat
    BY <1>9, <1>10
  <2> HIDE DEF a, b, c, x, y
  <2>2. c <= a
    BY <2>1
  <2> QED BY <2>2, <1>2 DEF a, c
<1>16. NewCall(name, Given(name, inParens, stop)) \in Calls
  <2> DEFINE given == Given(name, inParens, stop)
             k == Len(macros[name].params)
             fitted == Fitted(given, k)
             call == NewCall(name, given)
  <2>1. given \in Seq(Seq(PlainTokens))
    BY <1>6, ArgumentsType DEF Given
  <2> HIDE DEF given
  <2>2. macros[name].body \in Seq(PlainTokens) /\ k \in Nat
    <3>1. program \in Programs
      BY DEF KeptInv
    <3> QED BY <3>1, <1>1, MacroTypes
  <2>3. fitted \in Seq(Seq(PlainTokens)) /\ Len(fitted) = k
    <3> HIDE DEF k
    <3> QED BY <2>1, <2>2, FittedType
  <2>4. Len(macros[name].body) \in Nat /\ 0 \in Nat /\ <<>> \in Seq(PlainTokens)
    BY <2>2
  <2>5. call = [macro |-> name, args |-> fitted, pos |-> 0, repl |-> <<>>, back |-> FALSE]
    BY DEF NewCall
  <2> HIDE DEF call, fitted
  <2>6. /\ call.macro = name /\ call.args = fitted /\ call.pos = 0
        /\ call \in [macro : DOMAIN macros, args : Seq(Seq(PlainTokens)), pos : Nat,
                   repl : Seq(PlainTokens), back : BOOLEAN]
    BY <2>3, <2>4, <2>5, <1>1
  <2>7. call \in Calls
    BY <2>3, <2>4, <2>6 DEF Calls
  <2> QED BY <2>7 DEF call, given
<1> QED BY <1>2, <1>14, <1>15, <1>16

LEMMA BeginCallKept ==
  ASSUME KeptInv, BeginCall
  PROVE  KeptInv'
<1>1. PICK name, inParens, stop : Begins(name, inParens, stop)
  BY CallBegins
<1> DEFINE rest == Drop(inParens, stop)
           ended == Endings(Tail(text)) + Ended(inParens, stop)
           call == NewCall(name, Given(name, inParens, stop))
<1>2. /\ call \in Calls /\ Kept(rest, Below(ended)) /\ All({BOA}, text) = 0
      /\ All({EOA}, rest) <= All({EOA}, text)
  BY <1>1, CallKept
<1>3. Resume(call, rest, Below(ended), Unignored(ended)) /\ UNCHANGED <<program, buffer>>
  BY <1>1 DEF Begins
<1> HIDE DEF rest, ended, call
<1>4. /\ program \in Programs /\ buffer \in Seq(PlainTokens \cup {BOA}) /\ text \in Seq(TextTokens)
      /\ All({EOA}, text) <= All({BOA}, text) + Count(buffer, BOA)
  BY DEF KeptInv, Ordered
<1>5. /\ Ordered(text') /\ stack' \in Seq(Calls) /\ All(Ending, text') <= Len(stack')
      /\ status' = "running" => text' # <<>>
      /\ All({EOA}, text') <= All({EOA}, rest) + All({BOA}, text')
  BY <1>2, <1>3, <1>4, ResumeKept
<1>6. All({EOA}, text') <= All({BOA}, text') + Count(buffer', BOA)
  <2>1. text' \in Seq(TextTokens) /\ rest \in Seq(TextTokens)
    BY <1>2, <1>5 DEF Ordered, Kept
  <2> DEFINE a == All({EOA}, text)
             b == All({EOA}, rest)
             c == All({EOA}, text')
             d == All({BOA}, text')
             e == Count(buffer, BOA)
  <2>2. a \in Nat
    BY <1>4, AllNat
  <2>3. b \in Nat
    BY <2>1, AllNat
  <2>4. c \in Nat
    BY <2>1, AllNat
  <2>5. d \in Nat
    BY <2>1, AllNat
  <2>6. e \in Nat
    BY <1>4, CountNat
  <2>7. b <= a /\ a <= 0 + e /\ c <= b + d
    BY <1>2, <1>4, <1>5
  <2> HIDE DEF a, b, c, d, e
  <2>8. c <= d + e
    BY <2>2, <2>3, <2>4, <2>5, <2>6, <2>7
  <2> QED BY <2>8, <1>3 DEF c, d, e
<1>7. program' \in Programs /\ Calls' = Calls
  BY <1>3, <1>4, CallsSame
<1> QED BY <1>3, <1>4, <1>5, <1>6, <1>7 DEF KeptInv

------------------------------------------------------------------------------
(* A call that begins before the first error.                                  *)

LEMMA BeginCallMirror ==
  ASSUME KeptInv, MirrorInv, BeginCall, ~errors'
  PROVE  MirrorInv'
<1>1. PICK name, inParens, stop : Begins(name, inParens, stop)
  BY CallBegins
<1> DEFINE rest == Drop(inParens, stop)
           e == Endings(Tail(text)) + Ended(inParens, stop)
           c == NewCall(name, Given(name, inParens, stop))
<1>2. c \in Calls
  BY <1>1, CallKept
<1>3. /\ Reads("id") /\ name \notin ignored /\ Behind[Opening(Behind)].code = "("
      /\ inParens = Drop(Behind, Opening(Behind)) /\ stop = Min(Stops(inParens))
      /\ inParens[stop].code = ")"
      /\ Resume(c, rest, Below(e), Unignored(e))
      /\ program' = program /\ buffer' = buffer
  BY <1>1 DEF Begins
<1>4. c.macro = name
  BY DEF NewCall
<1>5. /\ Below(e) \in Seq(Calls) /\ Fits(rest, Below(e), Unignored(e))
      /\ All({EOA}, text) = All({EOA}, rest) /\ All({BOA}, text) = All({BOA}, rest)
  <2> DEFINE s == Behind
  <2>1. s = Behind /\ s[Opening(s)].code = "(" /\ inParens = Drop(s, Opening(s))
    BY <1>3
  <2> HIDE DEF s
  <2> QED BY <2>1, <1>3, CallCut
<1> HIDE DEF c, rest, e
<1>6. c.macro \notin Unignored(e)
  BY <1>3, <1>4 DEF Unignored
<1>7. program \in Programs /\ buffer \in Seq(PlainTokens \cup {BOA})
      /\ All({EOA}, text) = All({BOA}, text) + Count(buffer, BOA)
  BY DEF MirrorInv
<1>8. /\ Fits(text', stack', ignored') /\ stack' \in Seq(Calls)
      /\ \E n \in {0, 1} : /\ All({EOA}, text') = All({EOA}, rest) + n
                           /\ All({BOA}, text') = All({BOA}, rest) + n
  BY <1>2, <1>3, <1>5, <1>6, <1>7, ResumeFits
<1>9. /\ buffer' \in Seq(PlainTokens \cup {BOA})
      /\ All({EOA}, text') = All({BOA}, text') + Count(buffer', BOA)
  <2>1. PICK n \in {0, 1} : /\ All({EOA}, text') = All({EOA}, rest) + n
                            /\ All({BOA}, text') = All({BOA}, rest) + n
    BY <1>8
  <2>2. rest \in Seq(TextTokens)
    BY <1>5 DEF Fits, Shaped
  <2> DEFINE x == All({EOA}, rest)
             y == All({BOA}, rest)
             z == Count(buffer, BOA)
  <2>3. x \in Nat
    BY <2>2, AllNat
  <2>4. y \in Nat
    BY <2>2, AllNat
  <2>5. z \in Nat
    BY <1>7, CountNat
  <2>6. x = y + z /\ n \in Nat
    BY <1>5, <1>7
  <2>7. All({EOA}, text') = x + n /\ All({BOA}, text') = y + n /\ Count(buffer', BOA) = z
    BY <2>1, <1>3
  <2> HIDE DEF x, y, z
  <2>8. x + n = (y + n) + z
    BY <2>3, <2>4, <2>5, <2>6
  <2> QED BY <2>7, <2>8, <1>3, <1>7
<1>10. program' \in Programs /\ Calls' = Calls
  BY <1>3, SameCalls
<1> QED BY <1>8, <1>9, <1>10 DEF MirrorInv

LEMMA StepKept ==
  ASSUME KeptInv, [Next]_vars
  PROVE  KeptInv'
<1>1. CASE EndOfText
  BY <1>1, NothingKept DEF EndOfText
<1>2. CASE Copied
  BY <1>2, CopiedKept
<1>3. CASE Ignore
  BY <1>3, IgnoreKept
<1>4. CASE FinishCall
  BY <1>4, FinishCallKept
<1>5. CASE ExpandObject
  BY <1>5, ExpandObjectKept
<1>6. CASE FinishArg
  BY <1>6, FinishArgKept
<1>7. CASE ArgOfOther
  BY <1>7, NothingKept DEF ArgOfOther
<1>8. CASE NoCall
  BY <1>8, NoCallKept
<1>9. CASE BeginCall
  BY <1>9, BeginCallKept
<1>10. CASE UNCHANGED vars
  BY <1>10, NothingKept DEF vars
<1> QED BY <1>1, <1>2, <1>3, <1>4, <1>5, <1>6, <1>7, <1>8, <1>9, <1>10 DEF Next

LEMMA StepMirror ==
  ASSUME KeptInv, ~errors => MirrorInv, [Next]_vars, ~errors'
  PROVE  MirrorInv'
<1>1. CASE EndOfText
  BY <1>1, NothingDone DEF EndOfText
<1>2. CASE Copied
  BY <1>2, CopiedMirror DEF Copied
<1>3. CASE Ignore
  BY <1>3, IgnoreMirror DEF Ignore
<1>4. CASE FinishCall
  BY <1>4, FinishCallMirror DEF FinishCall
<1>5. CASE ExpandObject
  BY <1>5, ExpandObjectMirror DEF ExpandObject
<1>6. CASE FinishArg
  BY <1>6, FinishArgMirror DEF FinishArg
<1>7. CASE ArgOfOther
  BY <1>7, NothingDone DEF ArgOfOther
<1>8. CASE NoCall
  BY <1>8, NoCallMirror DEF NoCall
<1>9. CASE BeginCall
  <2>1. PICK name, inParens, stop : Begins(name, inParens, stop)
    BY <1>9, CallBegins
  <2>2. ~errors
    BY <2>1 DEF Begins
  <2> QED BY <2>2, <1>9, BeginCallMirror
<1>10. CASE UNCHANGED vars
  BY <1>10, NothingDone DEF vars
<1> QED BY <1>1, <1>2, <1>3, <1>4, <1>5, <1>6, <1>7, <1>8, <1>9, <1>10 DEF Next

(* The marks in the text, the calls on the stack and the ignored macros fit together  *)
(* at every step before the first error, however calls, replacements and arguments    *)
(* are nested, and each mark has a call at every step behind it.                     *)
THEOREM CallsInvariant == Spec => []CallsInv
<1>1. Init => CallsInv
  BY InitMirror, InitKept DEF CallsInv
<1>2. CallsInv /\ [Next]_vars => CallsInv'
  BY StepKept, StepMirror DEF CallsInv
<1> QED BY <1>1, <1>2, PTL DEF Spec

------------------------------------------------------------------------------
(* The same by places from the beginning.                                      *)

LEMMA CountAll ==
  ASSUME NEW S, NEW s \in Seq(S), NEW t
  PROVE  Count(s, t) = All({t}, s)
<1> DEFINE n == Len(s)
<1>1. n \in Nat /\ DOMAIN s = 1 .. n
  OBVIOUS
<1>2. n \in 0 .. n /\ n + 1 - n = 1
  BY <1>1
<1>3. Number({t}, s, n) = Cardinality(Places({t}, s, n + 1 - n, n))
  BY <1>1, <1>2, NumberPlaces
<1>4. Places({t}, s, 1, n) = {i \in DOMAIN s : s[i] = t}
  BY <1>1 DEF Places
<1> QED BY <1>2, <1>3, <1>4 DEF Count, All

LEMMA AllEndings ==
  ASSUME NEW S, NEW s \in Seq(S)
  PROVE  All(Ending, s) = All({EOR}, s) + All({EOA}, s)
<1> DEFINE n == Len(s)
           places(T) == {i \in 1 .. n : From(s, i) \in T}
           both == places(Ending)
           ends == places({EOR})
           args == places({EOA})
<1>1. n \in Nat
  OBVIOUS
<1>2. both = ends \cup args /\ ends \cap args = {}
  BY Marks DEF Ending
<1>3. IsFiniteSet(ends) /\ IsFiniteSet(args)
  <2>1. ASSUME NEW T PROVE IsFiniteSet(places(T))
    BY <1>1, NumberNat
  <2> HIDE DEF places
  <2> QED BY <2>1
<1>4. All(Ending, s) = Cardinality(both) /\ All({EOR}, s) = Cardinality(ends)
      /\ All({EOA}, s) = Cardinality(args)
  BY DEF All, Number
<1> HIDE DEF both, ends, args
<1>5. Cardinality(ends \cup args)
        = Cardinality(ends) + Cardinality(args) - Cardinality(ends \cap args)
  BY <1>3, FS_Union
<1>6. Cardinality(ends \cap args) = 0 /\ Cardinality(ends) \in Nat /\ Cardinality(args) \in Nat
  BY <1>2, <1>3, FS_EmptySet, FS_CardinalityType
<1> QED BY <1>2, <1>4, <1>5, <1>6

LEMMA CallOfPlace ==
  ASSUME text \in Seq(TextTokens), NEW i \in 1 .. Len(text)
  PROVE  /\ Len(text) + 1 - i \in 1 .. Len(text)
         /\ From(text, Len(text) + 1 - i) = text[i]
         /\ CallOf(i).macro = Opens(text, stack, Len(text) + 1 - i)
<1> DEFINE n == Len(text)
           e == n + 1 - i
<1>1. n \in Nat
  OBVIOUS
<1>2. e \in 1 .. n /\ e \in 0 .. n /\ n + 1 - e = i
  BY <1>1
<1> HIDE DEF e
<1>3. From(text, e) = text[i]
  BY <1>2 DEF From
<1>4. Number(Ending, text, e) = Cardinality(Places(Ending, text, n + 1 - e, n))
  BY <1>1, <1>2, NumberPlaces
<1>5. Places(Ending, text, i, n) = {j \in i .. n : text[j] \in {EOR, EOA}}
  BY DEF Places, Ending
<1>6. CallOf(i) = stack[Number(Ending, text, e)]
  BY <1>2, <1>4, <1>5 DEF CallOf
<1> QED BY <1>2, <1>3, <1>6 DEF e, Opens

(* The part of CallsMirrored that holds before an error. *)
Mirrored ==
  /\ Count(text, EOR) + Count(text, EOA) = Len(stack)
  /\ ignored = {CallOf(i).macro : i \in {j \in DOMAIN text : text[j] = EOR}}
  /\ Cardinality(ignored) = Count(text, EOR)
  /\ Count(text, EOA) = Count(buffer, BOA) + Count(text, BOA)

LEMMA MirrorMirrored == MirrorInv => Mirrored
<1> SUFFICES ASSUME MirrorInv PROVE Mirrored
  OBVIOUS
<1> DEFINE n == Len(text)
           m == Len(stack)
           ends == {j \in DOMAIN text : text[j] = EOR}
           macro(i) == CallOf(i).macro
<1>1. text \in Seq(TextTokens) /\ n \in Nat /\ DOMAIN text = 1 .. n
  BY TextFacts
<1>2. /\ m = Number(Ending, text, n)
      /\ ignored = {Opens(text, stack, e) : e \in Replacements(text, n)}
      /\ \A e \in Replacements(text, n), j \in 1 .. m :
           Number(Ending, text, e) < j => stack[j].macro # Opens(text, stack, e)
  BY DEF MirrorInv, Fits, Mirror
<1>3. buffer \in Seq(PlainTokens \cup {BOA}) /\ All({EOA}, text) = All({BOA}, text) + Count(buffer, BOA)
  BY DEF MirrorInv
<1>4. Count(text, EOR) + Count(text, EOA) = m
  <2>1. Count(text, EOR) = All({EOR}, text) /\ Count(text, EOA) = All({EOA}, text)
    BY <1>1, CountAll
  <2>2. All(Ending, text) = All({EOR}, text) + All({EOA}, text)
    BY <1>1, AllEndings
  <2> QED BY <2>1, <2>2, <1>2 DEF All
<1>5. Count(text, EOA) = Count(buffer, BOA) + Count(text, BOA)
  <2>1. Count(text, EOA) = All({EOA}, text) /\ Count(text, BOA) = All({BOA}, text)
    BY <1>1, CountAll
  <2>2. Count(text, BOA) \in Nat /\ Count(buffer, BOA) \in Nat
    BY <1>1, <1>3, CountNat
  <2> QED BY <2>1, <2>2, <1>3
<1>6. ASSUME NEW i \in ends
      PROVE  n + 1 - i \in Replacements(text, n) /\ macro(i) = Opens(text, stack, n + 1 - i)
  <2>1. i \in 1 .. n /\ text[i] = EOR
    BY <1>1
  <2> QED BY <2>1, <1>1, CallOfPlace DEF Replacements
<1>7. ASSUME NEW e \in Replacements(text, n)
      PROVE  n + 1 - e \in ends /\ macro(n + 1 - e) = Opens(text, stack, e)
  <2>1. e \in 1 .. n /\ From(text, e) = EOR
    BY DEF Replacements
  <2>2. n + 1 - e \in 1 .. n /\ n + 1 - (n + 1 - e) = e
    BY <2>1, <1>1
  <2>3. text[n + 1 - e] = EOR
    BY <2>1 DEF From
  <2>4. CallOf(n + 1 - e).macro = Opens(text, stack, n + 1 - (n + 1 - e))
    BY <2>2, <1>1, CallOfPlace
  <2> QED BY <2>2, <2>3, <2>4, <1>1
<1>8. ignored = {macro(i) : i \in ends}
  <2>1. \A i \in ends : macro(i) \in ignored
    BY <1>2, <1>6
  <2>2. \A x \in ignored : \E i \in ends : x = macro(i)
    BY <1>2, <1>7
  <2> HIDE DEF ends, macro
  <2> QED BY <2>1, <2>2
<1>9. ASSUME NEW i \in ends, NEW j \in ends, i < j PROVE macro(i) # macro(j)
  <2> DEFINE e == n + 1 - i
             f == n + 1 - j
  <2>1. i \in 1 .. n /\ j \in 1 .. n
    BY <1>1
  <2>2. e \in 1 .. n /\ f \in 1 .. n /\ f < e /\ e \in Nat /\ f \in Nat /\ f <= e
    BY <2>1, <1>1, <1>9
  <2>3. e \in Replacements(text, n) /\ f \in Replacements(text, n)
        /\ macro(i) = Opens(text, stack, e) /\ macro(j) = Opens(text, stack, f)
    BY <1>6
  <2> HIDE DEF e, f, macro, ends
  <2>4. From(text, e) \in Ending
    BY <2>3 DEF Replacements, Ending
  <2>5. Number(Ending, text, f) < Number(Ending, text, e)
    BY <2>2, <2>4, NumberMonotone
  <2>6. Number(Ending, text, e) \in 1 .. m
    BY <2>3, <1>1, <1>2, ReplacementNumber
  <2>7. stack[Number(Ending, text, e)].macro # Opens(text, stack, f)
    BY <2>3, <2>5, <2>6, <1>2
  <2> QED BY <2>3, <2>7 DEF Opens
<1>10. Cardinality(ignored) = Count(text, EOR)
  <2> DEFINE g == [i \in ends |-> macro(i)]
  <2>1. IsFiniteSet(ends)
    BY <1>1, CountNat
  <2>2. g \in [ends -> ignored] /\ \A x \in ignored : \E i \in ends : g[i] = x
    BY <1>8
  <2>3. ends \subseteq Nat
    BY <1>1
  <2>4. \A i, j \in ends : i < j => g[i] # g[j]
    BY <1>9
  <2> HIDE DEF g
  <2>5. ASSUME NEW i \in ends, NEW j \in ends, g[i] = g[j] PROVE i = j
    <3>1. i \in Nat /\ j \in Nat
      BY <2>3
    <3>2. ~(i < j) /\ ~(j < i)
      BY <2>4, <2>5
    <3> QED BY <3>1, <3>2
  <2> HIDE DEF ends
  <2>6. g \in Bijection(ends, ignored)
    BY <2>2, <2>5, Fun_IsBij
  <2>7. ExistsBijection(ends, ignored)
    BY <2>6 DEF ExistsBijection
  <2>8. Cardinality(ignored) = Cardinality(ends)
    BY <2>1, <2>7, FS_Bijection
  <2> QED BY <2>8 DEF Count, ends
<1> QED BY <1>4, <1>5, <1>8, <1>10 DEF Mirrored

LEMMA KeptMirrored ==
  ASSUME KeptInv
  PROVE  /\ Count(text, EOR) + Count(text, EOA) <= Len(stack)
         /\ Count(text, EOA) <= Count(buffer, BOA) + Count(text, BOA)
<1>1. text \in Seq(TextTokens) /\ buffer \in Seq(PlainTokens \cup {BOA})
      /\ All(Ending, text) <= Len(stack)
      /\ All({EOA}, text) <= All({BOA}, text) + Count(buffer, BOA)
  BY DEF KeptInv, Ordered
<1>2. Count(text, EOR) = All({EOR}, text)
  BY <1>1, CountAll
<1>3. Count(text, EOA) = All({EOA}, text)
  BY <1>1, CountAll
<1>4. Count(text, BOA) = All({BOA}, text)
  BY <1>1, CountAll
<1>5. All(Ending, text) = All({EOR}, text) + All({EOA}, text)
  BY <1>1, AllEndings
<1>6. Count(buffer, BOA) \in Nat
  BY <1>1, CountNat
<1>7. Count(text, BOA) \in Nat
  BY <1>1, CountNat
<1> QED BY <1>1, <1>2, <1>3, <1>4, <1>5, <1>6, <1>7

(* No macro stays ignored behind its replacement and none is expanded in its own,      *)
(* replacements and arguments nest as the calls on the stack do, and an argument that   *)
(* ends has its beginning in the buffer (the assertion at c2mir.c:2671): all of it up to   *)
(* the first error, and the last, with a call for each mark, behind it too.             *)
THEOREM MarksMirrorCalls == Spec => []CallsMirrored
<1>1. CallsInv => CallsMirrored
  BY KeptMirrored, MirrorMirrored DEF CallsInv, CallsMirrored, Mirrored
<1> QED BY <1>1, CallsInvariant, PTL
==============================================================================
