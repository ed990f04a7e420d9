--------------------------- MODULE BinaryFile_proofs ---------------------------
(****************************************************************************)
(* Proofs about BinaryFile, for any data and any sizes of bytes, tags, buffers  *)
(* and tables.                                                                 *)
(****************************************************************************)
EXTENDS BinaryFile, FiniteSetTheorems, SequenceTheorems, WellFoundedInduction, TLAPS

------------------------------------------------------------------------------
(* Numbers and their bytes.                                                    *)

Bits == 4 * ByteBits

(* The least number of a set. *)
LEMMA LeastNumber ==
  ASSUME NEW i \in Nat, NEW T \in SUBSET (0 .. i), T # {}
  PROVE  \E n \in T : \A m \in T : n <= m
<1> DEFINE Starts == {0 .. n : n \in T}
<1>1. IsFiniteSet(0 .. i)
  BY FS_Interval
<1>2. IsWellFoundedOn(StrictSubsetOrdering(0 .. i), FiniteSubsetsOf(0 .. i))
  BY <1>1, FS_StrictSubsetOrderingWellFounded
<1>3. Starts \subseteq FiniteSubsetsOf(0 .. i)
  <2>1. Starts \subseteq SUBSET (0 .. i)
    OBVIOUS
  <2> QED BY <2>1, <1>1, FS_FiniteSubsetsOfFinite
<1>4. Starts # {}
  OBVIOUS
<1>5. PICK least \in Starts : \A e \in Starts : ~ (<<e, least>> \in StrictSubsetOrdering(0 .. i))
  BY <1>2, <1>3, <1>4, WFMin
<1>6. PICK n \in T : least = 0 .. n
  BY <1>5
<1>7. ASSUME NEW m \in T, m < n PROVE FALSE
  <2>1. 0 .. m \in Starts /\ 0 .. m \subseteq 0 .. i /\ 0 .. n \subseteq 0 .. i
    OBVIOUS
  <2>2. n \in 0 .. n /\ n \notin 0 .. m /\ 0 .. m \subseteq 0 .. n
    BY <1>7
  <2>3. <<0 .. m, 0 .. n>> \in StrictSubsetOrdering(0 .. i)
    BY <2>1, <2>2 DEF StrictSubsetOrdering
  <2> QED BY <2>1, <2>3, <1>5, <1>6
<1>8. n \in T /\ \A m \in T : n <= m
  BY <1>7
<1> QED BY <1>8

(* The powers of two up to n: the recursive definition has a solution.          *)
Doubles(n, p) == p = [k \in 0 .. n |-> IF k = 0 THEN 1 ELSE 2 * p[k - 1]]

LEMMA LongerDoubles ==
  ASSUME NEW n \in Nat, NEW f, Doubles(n, f)
  PROVE  \E g : Doubles(n + 1, g)
<1> DEFINE g == [k \in 0 .. n + 1 |-> IF k = n + 1 THEN 2 * f[n] ELSE f[k]]
<1>1. \A k \in 0 .. n : g[k] = f[k]
  OBVIOUS
<1>2. \A k \in 0 .. n : f[k] = IF k = 0 THEN 1 ELSE 2 * f[k - 1]
  BY DEF Doubles
<1>3. ASSUME NEW k \in 0 .. n + 1 PROVE g[k] = IF k = 0 THEN 1 ELSE 2 * g[k - 1]
  <2>1. CASE k = n + 1
    <3>1. g[k] = 2 * f[n] /\ k # 0 /\ k - 1 = n /\ n \in 0 .. n
      BY <2>1
    <3> QED BY <1>1, <3>1
  <2>2. CASE k # n + 1
    <3>1. k \in 0 .. n /\ (k # 0 => k - 1 \in 0 .. n)
      BY <2>2
    <3> HIDE DEF g
    <3> QED BY <1>1, <1>2, <3>1
  <2> QED BY <2>1, <2>2
<1>4. g = [k \in 0 .. n + 1 |-> g[k]]
  OBVIOUS
<1> HIDE DEF g
<1>5. g = [k \in 0 .. n + 1 |-> IF k = 0 THEN 1 ELSE 2 * g[k - 1]]
  BY <1>3, <1>4
<1> QED BY <1>5 DEF Doubles

LEMMA BitsNat ==
  /\ ByteBits \in Nat /\ ByteBits >= 4 /\ Bits \in Nat
  /\ 4 * ByteBits = Bits
BY FileAssumption DEF Bits

LEMMA Powers ==
  /\ Pow2[0] = 1
  /\ \A k \in 1 .. Bits : Pow2[k] = 2 * Pow2[k - 1]
<1>1. \E f : Doubles(Bits, f)
  <2> DEFINE T == {n \in 0 .. Bits : ~ \E f : Doubles(n, f)}
  <2>1. SUFFICES ASSUME T # {} PROVE FALSE
    BY BitsNat
  <2>2. Bits \in Nat /\ T \in SUBSET (0 .. Bits)
    BY BitsNat
  <2>3. PICK n \in T : \A m \in T : n <= m
    BY <2>1, <2>2, LeastNumber
  <2>4. Doubles(0, [k \in 0 .. 0 |-> 1])
    BY DEF Doubles
  <2>5. n # 0
    BY <2>3, <2>4
  <2>6. n - 1 \in 0 .. Bits /\ n - 1 \notin T /\ n - 1 \in Nat /\ (n - 1) + 1 = n
    BY <2>2, <2>3, <2>5
  <2>7. PICK f : Doubles(n - 1, f)
    BY <2>6
  <2>8. \E g : Doubles(n, g)
    BY <2>6, <2>7, LongerDoubles
  <2> QED BY <2>3, <2>8
<1>2. Pow2 = CHOOSE f : Doubles(Bits, f)
  BY DEF Pow2, Doubles, Bits
<1>3. Pow2 = [k \in 0 .. Bits |-> IF k = 0 THEN 1 ELSE 2 * Pow2[k - 1]]
  BY <1>1, <1>2 DEF Doubles
<1>4. \A k \in 0 .. Bits : Pow2[k] = IF k = 0 THEN 1 ELSE 2 * Pow2[k - 1]
  BY <1>3
<1>5. 0 \in 0 .. Bits /\ \A k \in 1 .. Bits : k \in 0 .. Bits /\ k # 0
  BY BitsNat
<1> QED BY <1>4, <1>5

LEMMA PowersPositive == \A k \in 0 .. Bits : Pow2[k] \in Nat \ {0}
<1> DEFINE T == {k \in 0 .. Bits : Pow2[k] \notin Nat \ {0}}
<1> SUFFICES ASSUME T # {} PROVE FALSE
  OBVIOUS
<1>1. T \in SUBSET (0 .. Bits) /\ Bits \in Nat
  BY BitsNat
<1>2. PICK n \in T : \A m \in T : n <= m
  BY <1>1, LeastNumber
<1>3. n # 0
  BY <1>2, Powers
<1>4. n \in 1 .. Bits /\ n - 1 \in 0 .. Bits /\ n - 1 \notin T
  BY <1>1, <1>2, <1>3
<1>5. Pow2[n - 1] \in Nat \ {0} /\ Pow2[n] = 2 * Pow2[n - 1]
  BY <1>4, Powers
<1> QED BY <1>2, <1>5

LEMMA PowersMultiply ==
  ASSUME NEW a \in Nat, NEW b \in Nat, a + b <= Bits
  PROVE  Pow2[a + b] = Pow2[a] * Pow2[b]
<1> DEFINE T == {k \in 0 .. b : Pow2[a + k] # Pow2[a] * Pow2[k]}
<1> SUFFICES ASSUME Pow2[a + b] # Pow2[a] * Pow2[b] PROVE FALSE
  OBVIOUS
<1>0. b \in 0 .. b
  OBVIOUS
<1>1. b \in T
  BY <1>0
<1>2. PICK n \in T : \A m \in T : n <= m
  BY <1>1, LeastNumber
<1>3. a \in 0 .. Bits /\ Pow2[a] \in Nat
  BY BitsNat, PowersPositive
<1>4. n # 0
  <2>1. Pow2[a + 0] = Pow2[a] * 1
    BY <1>3
  <2> QED BY <1>2, <2>1, Powers
<1>5. n - 1 \in 0 .. b /\ n - 1 \notin T
  BY <1>2, <1>4
<1>6. Pow2[a + (n - 1)] = Pow2[a] * Pow2[n - 1]
  BY <1>5
<1>7. /\ n \in 1 .. Bits /\ a + n \in 1 .. Bits /\ (a + n) - 1 = a + (n - 1)
      /\ n - 1 \in 0 .. Bits
  BY <1>2, <1>4, BitsNat
<1>8. Pow2[n] = 2 * Pow2[n - 1] /\ Pow2[a + n] = 2 * Pow2[a + (n - 1)]
  BY <1>7, Powers
<1>9. Pow2[n - 1] \in Nat
  BY <1>7, PowersPositive
<1>10. Pow2[a + n] = Pow2[a] * Pow2[n]
  <2>1. \A x, y \in Nat : 2 * (x * y) = x * (2 * y)
    OBVIOUS
  <2> QED BY <1>3, <1>6, <1>8, <1>9, <2>1
<1> QED BY <1>2, <1>10

LEMMA PowersGrow ==
  ASSUME NEW a \in Nat, NEW b \in Nat, a < b, b <= Bits
  PROVE  2 * Pow2[a] <= Pow2[b]
<1>1. /\ a + 1 \in 1 .. Bits /\ (a + 1) - 1 = a /\ a \in 0 .. Bits
      /\ b - (a + 1) \in Nat /\ b - (a + 1) \in 0 .. Bits
      /\ (a + 1) + (b - (a + 1)) = b
  BY BitsNat
<1>2. Pow2[a + 1] = 2 * Pow2[a]
  BY <1>1, Powers
<1>3. Pow2[b] = Pow2[a + 1] * Pow2[b - (a + 1)]
  BY <1>1, PowersMultiply
<1>4. Pow2[a] \in Nat /\ Pow2[b - (a + 1)] \in Nat \ {0}
  BY <1>1, PowersPositive
<1>5. \A x \in Nat, y \in Nat \ {0} : x <= x * y
  OBVIOUS
<1>6. 2 * Pow2[a] \in Nat
  BY <1>4
<1> QED BY <1>2, <1>3, <1>4, <1>5, <1>6

(* Division: the quotient is the only number that fits, dividing twice is        *)
(* dividing by the product, and a number is its quotient and its rest.            *)
LEMMA Quotient ==
  ASSUME NEW u \in Nat, NEW b \in Nat \ {0}
  PROVE  /\ u \div b \in Nat /\ u % b \in 0 .. b - 1
         /\ u = ((u \div b) * b) + (u % b)
         /\ \A q \in Nat : q * b <= u /\ u < (q + 1) * b => q = u \div b
<1>1. u \div b \in Nat /\ u % b \in 0 .. b - 1 /\ u = ((u \div b) * b) + (u % b)
  OBVIOUS
<1>2. ASSUME NEW q \in Nat, q * b <= u, u < (q + 1) * b PROVE q = u \div b
  <2>1. u - q * b \in Nat /\ u - q * b < b /\ u = q * b + (u - q * b)
    BY <1>2
  <2>2. \A r \in Nat : r < b => (q * b + r) \div b = q
    OBVIOUS
  <2> QED BY <2>1, <2>2
<1> QED BY <1>1, <1>2

LEMMA DividedTwice ==
  ASSUME NEW u \in Nat, NEW a \in Nat \ {0}, NEW b \in Nat \ {0}
  PROVE  u \div (a * b) = (u \div a) \div b
<1> DEFINE x == u \div a
           y == x \div b
<1>0. ASSUME NEW v \in Nat, NEW c \in Nat \ {0}
      PROVE  v \div c \in Nat /\ (v \div c) * c <= v /\ v < ((v \div c) + 1) * c
  <2> DEFINE q == v \div c
             r == v % c
  <2>1. q \in Nat /\ r \in 0 .. c - 1 /\ v = (q * c) + r
    BY Quotient
  <2> HIDE DEF q, r
  <2>2. (q + 1) * c = (q * c) + c /\ q * c \in Nat
    BY <2>1
  <2>3. q * c <= v /\ v < (q + 1) * c
    BY <2>1, <2>2
  <2> QED BY <2>1, <2>3 DEF q
<1>1. x \in Nat /\ x * a <= u /\ u < (x + 1) * a
  BY <1>0
<1>2. y \in Nat /\ y * b <= x /\ x < (y + 1) * b
  BY <1>0, <1>1
<1> HIDE DEF x, y
<1>3. (y * b) * a <= x * a
  BY <1>1, <1>2
<1>4. (x + 1) * a <= ((y + 1) * b) * a
  BY <1>1, <1>2
<1>5. a * b \in Nat \ {0} /\ (y * b) * a = y * (a * b) /\ ((y + 1) * b) * a = (y + 1) * (a * b)
  BY <1>2
<1>6. y * (a * b) <= u /\ u < (y + 1) * (a * b)
  BY <1>1, <1>2, <1>3, <1>4, <1>5
<1>7. y = u \div (a * b)
  BY <1>2, <1>5, <1>6, Quotient
<1> QED BY <1>7 DEF x, y

(* How many bytes a number takes. *)
Writable == 0 .. Pow2[4 * (ByteBits - 1)] - 1

LEMMA SizeOfNumber ==
  ASSUME NEW u \in Writable
  PROVE  RefOffsetSize(u) \in 1 .. 4 /\ u < Pow2[(ByteBits - 1) * RefOffsetSize(u)]
<1> DEFINE Fits(n) == u < Pow2[(ByteBits - 1) * n]
           Least(n) == Fits(n) /\ \A k \in 1 .. n - 1 : u >= Pow2[(ByteBits - 1) * k]
<1>1. \A n \in 1 .. 4 : (ByteBits - 1) * n \in 0 .. Bits
  BY BitsNat
<1>2. u \in Nat /\ \A n \in 1 .. 4 : Pow2[(ByteBits - 1) * n] \in Nat
  BY <1>1, BitsNat, PowersPositive DEF Writable
<1>3. Fits(4)
  <2>1. (ByteBits - 1) * 4 = 4 * (ByteBits - 1) /\ 4 \in 1 .. 4
    BY BitsNat
  <2> QED BY <1>2, <2>1 DEF Writable
<1>4. \A n \in 1 .. 4 : Fits(n) \/ u >= Pow2[(ByteBits - 1) * n]
  BY <1>2
<1> HIDE DEF Fits
<1>5. \E n \in 1 .. 4 : Least(n)
  <2>1. \A n \in 1 .. 4 : (\A k \in 1 .. n - 1 : ~Fits(k)) /\ Fits(n) => Least(n)
    BY <1>4
  <2> HIDE DEF Least
  <2>2. CASE Fits(1)
    BY <2>1, <2>2
  <2>3. CASE ~Fits(1) /\ Fits(2)
    BY <2>1, <2>3
  <2>4. CASE ~Fits(1) /\ ~Fits(2) /\ Fits(3)
    <3>1. \A k \in 1 .. 3 - 1 : k = 1 \/ k = 2
      OBVIOUS
    <3> QED BY <2>1, <2>4, <3>1
  <2>5. CASE ~Fits(1) /\ ~Fits(2) /\ ~Fits(3)
    <3>1. \A k \in 1 .. 4 - 1 : k = 1 \/ k = 2 \/ k = 3
      OBVIOUS
    <3> QED BY <1>3, <2>1, <2>5, <3>1
  <2> QED BY <2>2, <2>3, <2>4, <2>5
<1>6. RefOffsetSize(u) = CHOOSE n \in 1 .. 4 : Least(n)
  BY DEF RefOffsetSize, Fits
<1>7. RefOffsetSize(u) \in 1 .. 4 /\ Least(RefOffsetSize(u))
  BY <1>5, <1>6
<1> QED BY <1>7 DEF Fits

(* The number that its first bytes are, up to byte i of n.                       *)
LEMMA ReadWhatWasWritten ==
  ASSUME NEW u \in Writable
  PROVE  UintRead(UintWrite(u)) = u
<1> DEFINE n == RefOffsetSize(u)
           B == Pow2[ByteBits]
           part(i) == u \div Pow2[(n - i) * ByteBits]
           lead(k) == Pow2[ByteBits - k]
           bytes == UintWrite(u)
<1>1. u \in Nat /\ n \in 1 .. 4 /\ u < Pow2[(ByteBits - 1) * n]
  BY SizeOfNumber, PowersPositive, BitsNat DEF Writable
<1> HIDE DEF n
<1>2. \A i \in 1 .. n : (n - i) * ByteBits \in 0 .. Bits /\ (n - i) * ByteBits + ByteBits <= Bits
  BY <1>1, BitsNat
<1>3. B \in Nat \ {0} /\ \A i \in 1 .. n : Pow2[(n - i) * ByteBits] \in Nat \ {0}
  BY <1>2, BitsNat, PowersPositive
<1>4. \A k \in 1 .. 4 : ByteBits - k \in 0 .. Bits /\ lead(k) \in Nat \ {0}
  BY BitsNat, PowersPositive
<1>5. \A i \in 1 .. n : part(i) \in Nat
  BY <1>1, <1>3, Quotient
<1>6. ASSUME NEW i \in 2 .. n PROVE part(i) = (part(i - 1) * B) + (part(i) % B)
  <2>1. i \in 1 .. n /\ i - 1 \in 1 .. n
    BY <1>1
  <2>2. (n - (i - 1)) * ByteBits = (n - i) * ByteBits + ByteBits
    BY <1>1, BitsNat
  <2>3. Pow2[(n - (i - 1)) * ByteBits] = Pow2[(n - i) * ByteBits] * B
    BY <1>2, <2>1, <2>2, BitsNat, PowersMultiply
  <2>4. part(i - 1) = part(i) \div B
    BY <1>1, <1>3, <2>1, <2>3, DividedTwice
  <2> QED BY <1>3, <1>5, <2>1, <2>4, Quotient
<1>7. part(n) = u
  <2>1. (n - n) * ByteBits = 0
    BY <1>1, BitsNat
  <2>2. u \div 1 = u
    BY <1>1
  <2> QED BY <2>1, <2>2, Powers
<1>8. part(1) < lead(n) /\ lead(n) <= B
  <2>1. (ByteBits - n) + (n - 1) * ByteBits = (ByteBits - 1) * n
    BY <1>1, BitsNat
  <2>2. Pow2[(ByteBits - 1) * n] = lead(n) * Pow2[(n - 1) * ByteBits]
    <3>1. ByteBits - n \in Nat /\ (n - 1) * ByteBits \in Nat /\ (ByteBits - 1) * n <= Bits
      BY <1>1, BitsNat
    <3> QED BY <2>1, <3>1, PowersMultiply
  <2>3. \A q, c, r \in Nat : c # 0 /\ q >= r => q * c >= r * c
    OBVIOUS
  <2>4. 1 \in 1 .. n /\ part(1) * Pow2[(n - 1) * ByteBits] <= u
    <3>1. 1 \in 1 .. n
      BY <1>1
    <3> DEFINE C == Pow2[(n - 1) * ByteBits]
    <3>2. C \in Nat \ {0} /\ part(1) = u \div C
      BY <1>3, <3>1
    <3> HIDE DEF C, part
    <3>3. u \div C \in Nat /\ u % C \in 0 .. C - 1 /\ u = ((u \div C) * C) + (u % C)
      BY <1>1, <3>2, Quotient
    <3>4. (u \div C) * C <= u
      BY <1>1, <3>2, <3>3
    <3> QED BY <3>1, <3>2, <3>4 DEF C
  <2>5. part(1) < lead(n)
    <3> DEFINE C == Pow2[(n - 1) * ByteBits]
    <3>1. C \in Nat \ {0} /\ lead(n) \in Nat /\ part(1) \in Nat
      BY <1>1, <1>3, <1>4, <1>5, <2>4
    <3>2. part(1) * C <= u /\ u < lead(n) * C
      BY <1>1, <2>2, <2>4
    <3> HIDE DEF C, part, lead
    <3>3. part(1) * C \in Nat /\ lead(n) * C \in Nat
      BY <3>1
    <3>4. ~(part(1) * C >= lead(n) * C)
      BY <1>1, <3>2, <3>3
    <3> QED BY <2>3, <3>1, <3>4
  <2>6. 2 * lead(n) <= B
    BY <1>1, BitsNat, PowersGrow
  <2> QED BY <1>1, <1>3, <1>4, <2>5, <2>6
(* The bytes that are written. *)
<1>9. \A i \in 1 .. n : bytes[i] = IF i = 1 THEN lead(n) + (part(1) % B) ELSE part(i) % B
  BY DEF UintWrite, n
<1>10. bytes[1] = lead(n) + part(1)
  <2>1. 1 \in 1 .. n /\ part(1) \in Nat /\ part(1) < B
    BY <1>1, <1>3, <1>4, <1>5, <1>8
  <2>2. part(1) % B = part(1)
    BY <1>3, <2>1
  <2> QED BY <1>9, <2>1, <2>2
(* The first byte says how many there are. *)
<1>11. \A k \in 1 .. 4 : bytes[1] \div lead(k) = 1 <=> k = n
  <2> SUFFICES ASSUME NEW k \in 1 .. 4 PROVE bytes[1] \div lead(k) = 1 <=> k = n
    OBVIOUS
  <2>1. part(1) \in Nat /\ lead(n) \in Nat \ {0} /\ lead(k) \in Nat \ {0}
    BY <1>1, <1>4, <1>5
  <2>2. k < n => 2 * lead(n) <= lead(k)
    BY <1>1, BitsNat, PowersGrow
  <2>3. k > n => 2 * lead(k) <= lead(n)
    BY <1>1, BitsNat, PowersGrow
  <2> DEFINE b == bytes[1]
             x == lead(k)
             y == lead(n)
             q == part(1)
  <2>4. b = y + q /\ q < y /\ q \in Nat /\ x \in Nat \ {0} /\ y \in Nat \ {0}
    BY <1>8, <1>10, <2>1
  <2>5. (k < n => 2 * y <= x) /\ (k > n => 2 * x <= y) /\ (k = n => x = y)
    BY <2>2, <2>3
  <2> HIDE DEF b, x, y, q
  <2>6. ASSUME k = n PROVE b \div x = 1
    <3>1. b = 1 * x + q /\ q < x
      BY <2>4, <2>5, <2>6
    <3>2. (1 * x + q) \div x = 1
      BY <2>4, <3>1
    <3> QED BY <3>1, <3>2
  <2>7. ASSUME k < n PROVE b \div x # 1
    <3>1. b \in Nat /\ b < x
      BY <2>4, <2>5, <2>7
    <3>2. b \div x = 0
      BY <2>4, <3>1
    <3> QED BY <3>2
  <2>8. ASSUME k > n PROVE b \div x # 1
    <3>1. b \in Nat /\ 2 * x <= b
      BY <2>4, <2>5, <2>8
    <3>2. b = ((b \div x) * x) + (b % x) /\ b % x \in 0 .. x - 1 /\ b \div x \in Nat
      BY <2>4, <3>1, Quotient
    <3> QED BY <2>4, <3>1, <3>2
  <2>9. k = n => bytes[1] \div lead(k) = 1
    BY <2>6 DEF b, x
  <2>10. k # n => bytes[1] \div lead(k) # 1
    <3>1. k < n \/ k > n \/ k = n
      BY <1>1
    <3>2. b \div x # 1 => bytes[1] \div lead(k) # 1
      BY DEF b, x
    <3> QED BY <2>7, <2>8, <3>1, <3>2
  <2> HIDE DEF bytes, lead
  <2> QED BY <2>9, <2>10
<1>12. n = CHOOSE k \in 1 .. 4 : bytes[1] \div lead(k) = 1
  BY <1>1, <1>11
<1>13. bytes[1] % lead(n) = part(1)
  <2> DEFINE x == lead(n)
             q == part(1)
  <2>1. x \in Nat \ {0} /\ q \in Nat /\ q < x /\ bytes[1] = x + q
    BY <1>1, <1>4, <1>5, <1>8, <1>10
  <2> HIDE DEF x, q
  <2>2. (1 * x + q) % x = q
    BY <2>1
  <2>3. 1 * x + q = x + q
    BY <2>1
  <2>4. bytes[1] % x = q
    BY <2>1, <2>2, <2>3
  <2> QED BY <2>4 DEF x, q
(* The loop over the bytes behind it. *)
<1> DEFINE Reads(v) == v = [i \in 1 .. n |-> IF i = 1 THEN bytes[1] % lead(n)
                                             ELSE (v[i - 1] * B) + bytes[i]]
<1>14. Reads([i \in 1 .. n |-> part(i)])
  <2>1. \A i \in 1 .. n : part(i) = IF i = 1 THEN bytes[1] % lead(n)
                                    ELSE (part(i - 1) * B) + bytes[i]
    BY <1>1, <1>6, <1>9, <1>13
  <2>2. \A i \in 1 .. n : i # 1 => i - 1 \in 1 .. n
    BY <1>1
  <2> HIDE DEF part, lead, bytes
  <2> QED BY <2>1, <2>2
<1>15. ASSUME NEW v, Reads(v) PROVE v[n] = u
  <2>1. \A i \in 1 .. n : v[i] = IF i = 1 THEN bytes[1] % lead(n) ELSE (v[i - 1] * B) + bytes[i]
    BY <1>15
  <2>2. v[1] = part(1)
    BY <1>1, <1>13, <2>1
  <2>3. ASSUME NEW i \in 2 .. n, v[i - 1] = part(i - 1) PROVE v[i] = part(i)
    BY <1>1, <1>6, <1>9, <2>1, <2>3
  <2>4. CASE n = 1
    BY <1>7, <2>2, <2>4
  <2>5. CASE n = 2
    BY <1>7, <2>2, <2>3, <2>5
  <2>6. CASE n = 3
    <3>1. v[2] = part(2)
      BY <2>2, <2>3, <2>6
    <3> QED BY <1>7, <2>3, <2>6, <3>1
  <2>7. CASE n = 4
    <3>1. v[2] = part(2)
      BY <2>2, <2>3, <2>7
    <3>2. v[3] = part(3)
      BY <2>3, <2>7, <3>1
    <3> QED BY <1>7, <2>3, <2>7, <3>2
  <2> QED BY <1>1, <2>4, <2>5, <2>6, <2>7
<1>16. UintRead(bytes) = (CHOOSE v : Reads(v))[n]
  BY <1>12 DEF UintRead
<1> HIDE DEF Reads
<1> QED BY <1>14, <1>15, <1>16
------------------------------------------------------------------------------
(* Elements of the file.                                                      *)

LEMMA TagFacts ==
  /\ Pow2[RefTagLen] \in Nat /\ Pow2[RefTagLen] >= 2
  /\ SymbTagLong \in Nat \ {0} /\ RefTagLong \in Nat \ {0}
  /\ RefTagLong = Pow2[RefTagLen] - 1
<1>1. SymbTagLen \in 1 .. Bits /\ RefTagLen \in 1 .. Bits
  BY BitsNat, FileAssumption DEF RefTagLen
<1>2. ASSUME NEW k \in 1 .. Bits PROVE Pow2[k] \in Nat /\ Pow2[k] >= 2
  <2>1. 0 \in Nat /\ k \in Nat /\ 0 < k /\ k <= Bits /\ k \in 0 .. Bits
    BY BitsNat
  <2> QED BY <2>1, BitsNat, Powers, PowersGrow, PowersPositive
<1> QED BY <1>1, <1>2 DEF SymbTagLong, RefTagLong

LEMMA ElementFacts ==
  ASSUME NEW symb \in Seq(Byte), Len(symb) <= MaxSymbLen,
         NEW ref \in 0 .. BufLen, NEW offset \in 0 .. BufLen,
         NEW e, e = Element(symb, ref, offset)
  PROVE  /\ e.symb = symb /\ SymbLen(e) = Len(symb)
         /\ RefTag(e) = 0 <=> ref = 0
         /\ RefLen(e) = ref + StartLen - 1
         /\ ref # 0 => UintRead(e.offset) = offset
         /\ e.tag = 0 <=> symb = <<>> /\ ref = 0
<1> DEFINE R == Pow2[RefTagLen]
           a == Tagged(Len(symb), SymbTagLong)
           r == Tagged(ref, RefTagLong)
<1>1. /\ Len(symb) \in Nat /\ Len(symb) \in Writable /\ ref \in Writable /\ offset \in Writable
      /\ ref \in Nat
  <2> DEFINE P == Pow2[4 * (ByteBits - 1)]
  <2>1. 4 * (ByteBits - 1) \in 0 .. Bits
    BY BitsNat
  <2>2. P \in Nat
    BY <2>1, PowersPositive
  <2>3. BufLen \in 1 .. P - 1 /\ MaxSymbLen \in 1 .. P - 1 /\ Writable = 0 .. P - 1
    BY FileAssumption DEF Writable
  <2> HIDE DEF P
  <2>4. Len(symb) \in Nat
    BY LenProperties
  <2> QED BY <2>2, <2>3, <2>4
<1>2. /\ R \in Nat /\ R >= 2 /\ a \in Nat /\ r \in Nat /\ r < R
  BY <1>1, TagFacts DEF Tagged
<1>3. /\ e.tag = a * R + r /\ e.symb = symb
      /\ e.symbLen = Number(Len(symb), SymbTagLong) /\ e.refLen = Number(ref, RefTagLong)
      /\ e.offset = IF ref = 0 THEN <<>> ELSE UintWrite(offset)
  BY DEF Element
<1> HIDE DEF R, a, r
<1>4. e.tag \div R = a /\ e.tag % R = r
  BY <1>2, <1>3
<1>5. SymbTag(e) = a /\ RefTag(e) = r
  BY <1>4 DEF SymbTag, RefTag, R
<1>6. SymbLen(e) = Len(symb)
  <2>1. CASE Len(symb) < SymbTagLong
    <3>1. a = Len(symb) /\ a # SymbTagLong
      BY <1>1, <2>1, TagFacts DEF a, Tagged
    <3> QED BY <1>5, <3>1 DEF SymbLen
  <2>2. CASE ~(Len(symb) < SymbTagLong)
    <3>1. a = SymbTagLong /\ e.symbLen = UintWrite(Len(symb))
      BY <1>3, <2>2 DEF a, Tagged, Number
    <3>2. UintRead(e.symbLen) = Len(symb)
      BY <1>1, <3>1, ReadWhatWasWritten
    <3> QED BY <1>5, <3>1, <3>2 DEF SymbLen
  <2> QED BY <2>1, <2>2
<1>7. RefLen(e) = ref + StartLen - 1
  <2>1. CASE ref < RefTagLong
    <3>1. r = ref /\ r # RefTagLong
      BY <1>1, <2>1, TagFacts DEF r, Tagged
    <3> QED BY <1>5, <3>1 DEF RefLen
  <2>2. CASE ~(ref < RefTagLong)
    <3>1. r = RefTagLong /\ e.refLen = UintWrite(ref)
      BY <1>3, <2>2 DEF r, Tagged, Number
    <3>2. UintRead(e.refLen) = ref
      BY <1>1, <3>1, ReadWhatWasWritten
    <3> QED BY <1>5, <3>1, <3>2 DEF RefLen
  <2> QED BY <2>1, <2>2
<1>8. r = 0 <=> ref = 0
  BY <1>1, TagFacts DEF r, Tagged
<1>9. a = 0 <=> symb = <<>>
  <2>1. Len(symb) = 0 <=> symb = <<>>
    BY EmptySeq
  <2> QED BY <1>1, <2>1, TagFacts DEF a, Tagged
<1>10. ref # 0 => UintRead(e.offset) = offset
  BY <1>1, <1>3, ReadWhatWasWritten
<1>11. a * R + r = 0 <=> a = 0 /\ r = 0
  <2>1. a # 0 => a * R > 0
    BY <1>2
  <2>2. a * R \in Nat
    BY <1>2
  <2>3. a = 0 => a * R = 0
    BY <1>2
  <2> HIDE DEF Element
  <2> QED BY <1>2, <2>1, <2>2, <2>3
<1> QED BY <1>3, <1>5, <1>6, <1>7, <1>8, <1>9, <1>10, <1>11

------------------------------------------------------------------------------
(* Pieces of sequences.                                                       *)

LEMMA PieceFacts ==
  ASSUME NEW S, NEW b \in Seq(S), NEW pos \in Nat, NEW len \in Nat, pos + len <= Len(b)
  PROVE  /\ Piece(b, pos, len) \in Seq(S) /\ Len(Piece(b, pos, len)) = len
         /\ \A i \in 1 .. len : Piece(b, pos, len)[i] = b[pos + i]
<1>1. Len(b) \in Nat /\ \A i \in 1 .. Len(b) : b[i] \in S
  BY LenProperties, ElementOfSeq
<1>2. /\ pos + 1 \in Int /\ pos + len \in Int
      /\ \A i \in pos + 1 .. pos + len : b[i] \in S
  BY <1>1
<1>3. /\ Piece(b, pos, len) \in Seq(S)
      /\ Len(Piece(b, pos, len)) = IF pos + 1 <= pos + len THEN (pos + len) - (pos + 1) + 1 ELSE 0
      /\ \A i \in 1 .. (pos + len) - (pos + 1) + 1 : Piece(b, pos, len)[i] = b[(pos + 1) + i - 1]
  BY <1>2, SubSeqProperties DEF Piece
<1>4. (pos + len) - (pos + 1) + 1 = len /\ (pos + 1 <= pos + len <=> len > 0)
  OBVIOUS
<1>5. \A i \in 1 .. len : (pos + 1) + i - 1 = pos + i
  OBVIOUS
<1> QED BY <1>3, <1>4, <1>5

LEMMA PieceIs ==
  ASSUME NEW S, NEW b \in Seq(S), NEW s \in Seq(S), NEW pos \in Nat, pos + Len(s) <= Len(b),
         \A i \in 1 .. Len(s) : s[i] = b[pos + i]
  PROVE  s = Piece(b, pos, Len(s))
<1> DEFINE n == Len(s)
           t == Piece(b, pos, n)
<1>1. n \in Nat
  BY LenProperties
<1>2. t \in Seq(S) /\ Len(t) = n /\ \A i \in 1 .. n : t[i] = b[pos + i]
  BY <1>1, PieceFacts
<1> HIDE DEF t
<1>3. \A i \in 1 .. Len(s) : s[i] = t[i]
  BY <1>2
<1>4. s = t
  BY <1>2, <1>3, SeqEqual
<1> QED BY <1>4 DEF t

LEMMA WholePiece ==
  ASSUME NEW S, NEW b \in Seq(S)
  PROVE  Piece(b, 0, Len(b)) = b
BY SubSeqFull, LenProperties DEF Piece

LEMMA EmptyPiece ==
  ASSUME NEW S, NEW b \in Seq(S), NEW pos \in Nat
  PROVE  Piece(b, pos, 0) = <<>>
BY SubSeqEmpty DEF Piece

LEMMA PieceJoins ==
  ASSUME NEW S, NEW b \in Seq(S), NEW pos \in Nat, NEW n \in Nat, NEW k \in Nat,
         pos + n + k <= Len(b)
  PROVE  Piece(b, pos, n) \o Piece(b, pos + n, k) = Piece(b, pos, n + k)
<1> DEFINE s == Piece(b, pos, n)
           t == Piece(b, pos + n, k)
<1>0. Len(b) \in Nat
  BY LenProperties
<1>1. s \in Seq(S) /\ Len(s) = n /\ \A i \in 1 .. n : s[i] = b[pos + i]
  BY <1>0, PieceFacts
<1>2. t \in Seq(S) /\ Len(t) = k /\ \A i \in 1 .. k : t[i] = b[pos + n + i]
  <2>1. pos + n \in Nat /\ (pos + n) + k <= Len(b)
    BY <1>0
  <2> QED BY <2>1, PieceFacts
<1> HIDE DEF s, t
<1>3. /\ s \o t \in Seq(S) /\ Len(s \o t) = n + k
      /\ \A i \in 1 .. n + k : (s \o t)[i] = IF i <= n THEN s[i] ELSE t[i - n]
  BY <1>1, <1>2, ConcatProperties
<1>4. ASSUME NEW i \in 1 .. n + k PROVE (s \o t)[i] = b[pos + i]
  <2>1. CASE i <= n
    BY <1>1, <1>3, <2>1
  <2>2. CASE ~(i <= n)
    <3>1. i - n \in 1 .. k /\ pos + n + (i - n) = pos + i
      BY <2>2
    <3> QED BY <1>2, <1>3, <2>2, <3>1
  <2> QED BY <2>1, <2>2
<1>5. pos + (n + k) <= Len(b)
  BY <1>0
<1>6. s \o t = Piece(b, pos, n + k)
  BY <1>3, <1>4, <1>5, PieceIs
<1> QED BY <1>6 DEF s, t

LEMMA FirstPieceJoins ==
  ASSUME NEW S, NEW b \in Seq(S), NEW n \in Nat, NEW k \in Nat, n + k <= Len(b)
  PROVE  Piece(b, 0, n) \o Piece(b, n, k) = Piece(b, 0, n + k)
<1>1. ASSUME NEW z \in Nat, z = 0
      PROVE  Piece(b, z, n) \o Piece(b, n, k) = Piece(b, z, n + k)
  <2>1. z + n = n /\ z + n + k <= Len(b)
    BY <1>1
  <2>2. Piece(b, z, n) \o Piece(b, z + n, k) = Piece(b, z, n + k)
    BY <2>1, PieceJoins
  <2> QED BY <2>1, <2>2
<1> QED BY <1>1

LEMMA PieceGrows ==
  ASSUME NEW S, NEW b \in Seq(S), NEW pos \in Nat, NEW n \in Nat, pos + n < Len(b)
  PROVE  Append(Piece(b, pos, n), b[pos + n + 1]) = Piece(b, pos, n + 1)
<1> DEFINE s == Piece(b, pos, n)
           x == b[pos + n + 1]
<1>0. Len(b) \in Nat /\ x \in S
  BY LenProperties, ElementOfSeq
<1>1. s \in Seq(S) /\ Len(s) = n /\ \A i \in 1 .. n : s[i] = b[pos + i]
  BY <1>0, PieceFacts
<1> HIDE DEF s
<1>2. /\ Append(s, x) \in Seq(S) /\ Len(Append(s, x)) = n + 1
      /\ \A i \in 1 .. n : Append(s, x)[i] = b[pos + i]
      /\ Append(s, x)[n + 1] = x
  BY <1>0, <1>1, AppendProperties
<1>3. \A i \in 1 .. n + 1 : Append(s, x)[i] = b[pos + i]
  BY <1>2
<1> HIDE DEF x
<1>4. pos + (n + 1) <= Len(b)
  BY <1>0
<1>5. Append(s, x) = Piece(b, pos, n + 1)
  BY <1>2, <1>3, <1>4, PieceIs
<1> QED BY <1>5 DEF s, x

LEMMA PieceOfPiece ==
  ASSUME NEW S, NEW b \in Seq(S), NEW pos \in Nat, NEW n \in Nat, pos + n <= Len(b),
         NEW at \in Nat, NEW k \in Nat, at + k <= n
  PROVE  Piece(Piece(b, pos, n), at, k) = Piece(b, pos + at, k)
<1> DEFINE s == Piece(b, pos, n)
           t == Piece(s, at, k)
<1>0. Len(b) \in Nat
  BY LenProperties
<1>1. s \in Seq(S) /\ Len(s) = n /\ \A i \in 1 .. n : s[i] = b[pos + i]
  BY <1>0, PieceFacts
<1> HIDE DEF s
<1>2. t \in Seq(S) /\ Len(t) = k /\ \A i \in 1 .. k : t[i] = s[at + i]
  BY <1>1, PieceFacts
<1> HIDE DEF t
<1>3. ASSUME NEW i \in 1 .. k PROVE t[i] = b[(pos + at) + i]
  <2>1. at + i \in 1 .. n /\ pos + (at + i) = (pos + at) + i
    OBVIOUS
  <2> QED BY <1>1, <1>2, <2>1
<1>4. pos + at \in Nat /\ (pos + at) + k <= Len(b)
  BY <1>0
<1>5. t = Piece(b, pos + at, k)
  BY <1>2, <1>3, <1>4, PieceIs
<1> QED BY <1>5 DEF s, t

------------------------------------------------------------------------------
(* What the elements of a file say, replayed. A decoder, as far as it matters: the  *)
(* bytes of the current buffer, the places of its symbols, and the full buffers.    *)

Decoders == [filled : Seq(Byte), ind2pos : Seq(Nat), check : Seq(Seq(Byte))]
Blank == [filled |-> <<>>, ind2pos |-> <<>>, check |-> <<>>]

After(d, e) ==
  IF Len(Filled(d, e)) < BufLen
  THEN [filled |-> Filled(d, e), ind2pos |-> Numbered(d, e), check |-> d.check]
  ELSE [filled |-> <<>>, ind2pos |-> <<>>, check |-> Append(d.check, Filled(d, e))]

(* The full buffers and the current one are the beginning of w. *)
Done(d) == Len(d.check) * BufLen

Good(w, d) ==
  /\ d \in Decoders
  /\ Len(d.filled) < BufLen /\ Done(d) + Len(d.filled) <= Len(w)
  /\ d.filled = Piece(w, Done(d), Len(d.filled))
  /\ \A i \in 1 .. Len(d.check) : d.check[i] = Piece(w, (i - 1) * BufLen, BufLen)

(* The states s of the decoder on its way through the elements of f. *)
Replay(w, f, s) ==
  /\ s[0] = Blank
  /\ \A k \in 0 .. Len(f) : Good(w, s[k])
  /\ \A k \in 1 .. Len(f) : /\ f[k].tag # 0 /\ Legal(s[k - 1], f[k])
                            /\ s[k] = After(s[k - 1], f[k])

(* The encoder n, of which p bytes of w were given, and the decoder d of the        *)
(* elements it has written: while the buffer is filled, ...                        *)
Entry == [pos : Nat, num : Nat]
Encoders == [buf : Seq(Byte), pos : Nat, num : Nat, symb : Seq(Byte), free : Nat,
             chains : [0 .. TableSize - 1 -> Seq(Entry)], check : Seq(Seq(Byte))]

Buffered(w, n, p, d) ==
  /\ n \in Encoders /\ Good(w, d)
  /\ p = Done(d) + Len(n.buf) /\ p <= Len(w)
  /\ Len(n.buf) <= BufLen /\ n.buf = Piece(w, Done(d), Len(n.buf))

Renewed(buf, check) == [Fresh EXCEPT !.buf = buf, !.check = check]

Collecting(w, n, p, d) ==
  /\ Buffered(w, n, p, d)
  /\ n = Renewed(n.buf, d.check)
  /\ d.filled = <<>> /\ d.ind2pos = <<>>

(* ... while it is encoded: a symbol has for the decoder the place that it has in    *)
(* the table, once the bytes that wait are written, ...                            *)
SymbolPlace(d, num) ==
  IF num < Len(d.ind2pos) THEN d.ind2pos[num + 1] ELSE Len(d.filled) + (num - Len(d.ind2pos))

Known(num, pos, d, el) == el.num < num /\ el.pos < pos /\ SymbolPlace(d, el.num) = el.pos

InBuffer(w, n, p, d) ==
  /\ Buffered(w, n, p, d)
  /\ p = Len(w) \/ Len(n.buf) = BufLen
  /\ n.check = Append(d.check, n.buf) /\ n.buf # <<>>
  /\ n.pos <= Len(n.buf) /\ n.num <= n.pos /\ Len(n.symb) <= MaxSymbLen
  /\ d.filled \o n.symb = Piece(n.buf, 0, n.pos)
  /\ Len(d.ind2pos) + Len(n.symb) = n.num
  /\ \A h \in 0 .. TableSize - 1 : \A i \in 1 .. Len(n.chains[h]) :
       Known(n.num, n.pos, d, n.chains[h][i])

(* ... and when a full buffer ends with a reference, or nothing is left.            *)
TurnedOver(w, n, p, d) ==
  /\ n \in Encoders /\ Good(w, d)
  /\ d.filled = <<>> /\ n.symb = <<>> /\ d.ind2pos = <<>>
  /\ n.check = d.check /\ n.pos = Len(n.buf)
  /\ p = Done(d)

(* The check hash of what the decoder has got. *)
Checks(d) == IF d.filled = <<>> THEN d.check ELSE Append(d.check, d.filled)

Elems == {Element(symb, ref, offset) : symb \in Seq(Byte), ref \in Nat, offset \in Nat}

Writing ==
  /\ cut = FALSE /\ taken = 0 /\ given = <<>> /\ result = "none"
  /\ dec = [buf |-> <<>>, next |-> 0, filled |-> <<>>, ind2pos |-> <<>>,
            check |-> <<>>, eof |-> FALSE]
  /\ file \in Seq(Elems)
  /\ \E s : /\ Replay(data, file, s)
            /\ \/ stage = "putting" /\ Collecting(data, enc, put, s[Len(file)])
               \/ stage = "encoding" /\ InBuffer(data, enc, put, s[Len(file)])
               \/ stage = "encoding" /\ TurnedOver(data, enc, put, s[Len(file)])

(* The file is the beginning of g and the end that belongs to it, and the reader is  *)
(* where the replay of g is.                                                      *)
FileOf(g, s) ==
  /\ Replay(data, g, s)
  /\ Done(s[Len(g)]) + Len(s[Len(g)].filled) = Len(data)
  /\ Len(file) <= Len(g) + 1 /\ cut = (Len(file) <= Len(g))
  /\ \A k \in 1 .. Len(file) :
       file[k] = IF k <= Len(g) THEN g[k] ELSE [tag |-> 0, hash |-> Checks(s[Len(g)])]

ReaderAt(g, s) ==
  /\ taken \in 0 .. Len(file)
  /\ IF dec.eof THEN ~cut /\ taken = Len(file)
     ELSE /\ taken <= Len(g) /\ dec.filled = s[taken].filled
          /\ dec.ind2pos = s[taken].ind2pos /\ dec.check = s[taken].check

(* The bytes given and the bytes that can be given are the next of data. *)
Given ==
  /\ Len(given) <= Len(data) /\ given = Piece(data, 0, Len(given))
  /\ dec.next \in 0 .. Len(dec.buf) /\ Len(dec.buf) <= BufLen
  /\ \E pos \in Nat : /\ Len(given) = pos + dec.next
                      /\ dec.buf = Piece(data, pos, Len(dec.buf))
                      /\ pos + Len(dec.buf) = IF dec.eof THEN Len(data) ELSE Done(dec)

Readers == [buf : Seq(Byte), next : Nat, filled : Seq(Byte), ind2pos : Seq(Nat),
            check : Seq(Seq(Byte)), eof : BOOLEAN]

Reading ==
  /\ result = "none"
  /\ file \in Seq(Elems \cup [tag : {0}, hash : Seq(Seq(Byte))])
  /\ dec \in Readers
  /\ Given
  /\ \E g \in Seq(Elems) : \E s : FileOf(g, s) /\ ReaderAt(g, s)

RoundTripInv ==
  /\ data \in Inputs /\ client \in {"MIR_read", "reduce_decode"}
  /\ \/ stage \in {"putting", "encoding"} /\ Writing
     \/ stage = "reading" /\ Reading
     \/ stage = "ended" /\ RoundTrip

------------------------------------------------------------------------------
(* The replay goes one element further. *)
LEMMA Extends ==
  ASSUME NEW w, NEW T, NEW f \in Seq(T), NEW s, Replay(w, f, s),
         NEW e \in T, e.tag # 0, Legal(s[Len(f)], e),
         NEW d, d = After(s[Len(f)], e), Good(w, d)
  PROVE  \E r : Replay(w, Append(f, e), r) /\ r[Len(f) + 1] = d
<1> DEFINE m == Len(f)
           g == Append(f, e)
           r == [k \in 0 .. m + 1 |-> IF k = m + 1 THEN d ELSE s[k]]
<1>1. m \in Nat /\ Len(g) = m + 1 /\ g[m + 1] = e /\ \A k \in 1 .. m : g[k] = f[k]
  BY LenProperties, AppendProperties
<1>2. r[m + 1] = d /\ \A k \in 0 .. m : r[k] = s[k]
  BY <1>1
<1>3. /\ s[0] = Blank
      /\ \A k \in 0 .. m : Good(w, s[k])
      /\ \A k \in 1 .. m : /\ f[k].tag # 0 /\ Legal(s[k - 1], f[k])
                           /\ s[k] = After(s[k - 1], f[k])
  BY DEF Replay
<1> HIDE DEF g, r, m
<1>4. Legal(s[m], e) /\ d = After(s[m], e)
  BY DEF m
<1>5. r[0] = Blank
  BY <1>1, <1>2, <1>3
<1>6. ASSUME NEW k \in 0 .. m + 1 PROVE Good(w, r[k])
  <2>1. k \in 0 .. m \/ k = m + 1
    BY <1>1
  <2> QED BY <1>2, <1>3, <2>1
<1>7. ASSUME NEW k \in 1 .. m + 1
      PROVE  g[k].tag # 0 /\ Legal(r[k - 1], g[k]) /\ r[k] = After(r[k - 1], g[k])
  <2>1. CASE k \in 1 .. m
    <3>1. k \in 0 .. m /\ k - 1 \in 0 .. m
      BY <1>1, <2>1
    <3>2. g[k] = f[k] /\ r[k - 1] = s[k - 1] /\ r[k] = s[k]
      BY <1>1, <1>2, <2>1, <3>1
    <3> QED BY <1>3, <2>1, <3>2
  <2>2. CASE k = m + 1
    <3>1. k - 1 = m /\ m \in 0 .. m
      BY <1>1, <2>2
    <3>2. g[k] = e /\ r[k - 1] = s[m] /\ r[k] = d
      BY <1>1, <1>2, <2>2, <3>1
    <3> QED BY <1>4, <3>2
  <2> QED BY <1>1, <2>1, <2>2
<1>8. Replay(w, g, r)
  BY <1>1, <1>5, <1>6, <1>7 DEF Replay
<1> QED BY <1>1, <1>2, <1>8 DEF g, m

(* The places of the symbols after the bytes symb. *)
LEMMA SymbolsFacts ==
  ASSUME NEW d \in Decoders, NEW symb \in Seq(Byte),
         NEW e, e.symb = symb, SymbLen(e) = Len(symb)
  PROVE  /\ Bytes(d, e) = d.filled \o symb
         /\ Symbols(d, e) \in Seq(Nat)
         /\ Len(Symbols(d, e)) = Len(d.ind2pos) + Len(symb)
         /\ \A k \in Nat : k < Len(Symbols(d, e)) => Symbols(d, e)[k + 1] = SymbolPlace(d, k)
<1> DEFINE m == Len(symb)
           a == d.ind2pos
           b == [i \in 1 .. m |-> Len(d.filled) + i - 1]
<1>1. m \in Nat /\ Len(d.filled) \in Nat /\ a \in Seq(Nat) /\ Len(a) \in Nat
  BY LenProperties DEF Decoders
<1>2. b \in [1 .. m -> Nat]
  BY <1>1
<1>3. b \in Seq(Nat) /\ Len(b) = m
  <2> HIDE DEF b
  <2> QED BY <1>1, <1>2, SeqDef, LenProperties
<1>4. \A i \in 1 .. m : b[i] = Len(d.filled) + i - 1
  OBVIOUS
<1>5. Symbols(d, e) = a \o b
  BY DEF Symbols
<1>6. Bytes(d, e) = d.filled \o symb
  BY SubSeqFull DEF Bytes
<1> HIDE DEF a, b, m
<1>7. /\ a \o b \in Seq(Nat) /\ Len(a \o b) = Len(a) + m
      /\ \A i \in 1 .. Len(a) + m : (a \o b)[i] = IF i <= Len(a) THEN a[i] ELSE b[i - Len(a)]
  BY <1>1, <1>3, ConcatProperties
<1>8. ASSUME NEW k \in 0 .. Len(a) + m - 1
      PROVE (a \o b)[k + 1] = IF k < Len(a) THEN a[k + 1] ELSE Len(d.filled) + (k - Len(a))
  <2>1. k + 1 \in 1 .. Len(a) + m /\ (k + 1 <= Len(a) <=> k < Len(a))
    BY <1>1
  <2>2. CASE k < Len(a)
    BY <1>7, <2>1, <2>2
  <2>3. CASE ~(k < Len(a))
    <3>1. (k + 1) - Len(a) \in 1 .. m
      BY <1>1, <2>3
    <3>2. b[(k + 1) - Len(a)] = Len(d.filled) + ((k + 1) - Len(a)) - 1
      BY <1>4, <3>1
    <3>3. Len(d.filled) + ((k + 1) - Len(a)) - 1 = Len(d.filled) + (k - Len(a))
      <4>1. \A u, v, z \in Int : u + ((v + 1) - z) - 1 = u + (v - z)
        OBVIOUS
      <4>2. Len(d.filled) \in Int /\ k \in Int /\ Len(a) \in Int
        BY <1>1
      <4> QED BY <4>1, <4>2
    <3> QED BY <1>7, <2>1, <2>3, <3>2, <3>3
  <2> QED BY <2>2, <2>3
<1>9. \A k \in Nat : k < Len(a \o b) => (a \o b)[k + 1] = SymbolPlace(d, k)
  <2>1. ASSUME NEW k \in Nat, k < Len(a \o b) PROVE (a \o b)[k + 1] = SymbolPlace(d, k)
    <3>1. k \in 0 .. Len(a) + m - 1
      BY <1>1, <1>7, <2>1
    <3> QED BY <1>8, <3>1 DEF SymbolPlace, a
  <2> QED BY <2>1
<1> QED BY <1>5, <1>6, <1>7, <1>9 DEF a, m

(* When the buffer of the encoder is decoded up to q, the decoder is where it should be. *)
LEMMA AfterPiece ==
  ASSUME NEW w \in Seq(Byte), NEW n, NEW p, NEW d, Buffered(w, n, p, d),
         NEW q \in Nat, q <= Len(n.buf),
         NEW e, Filled(d, e) = Piece(n.buf, 0, q), Numbered(d, e) \in Seq(Nat)
  PROVE  /\ Good(w, After(d, e))
         /\ q < BufLen => After(d, e) = [filled |-> Piece(n.buf, 0, q),
                                         ind2pos |-> Numbered(d, e), check |-> d.check]
         /\ q = BufLen => After(d, e) = [filled |-> <<>>, ind2pos |-> <<>>,
                                         check |-> Append(d.check, n.buf)]
<1> DEFINE b == n.buf
           x == Piece(b, 0, q)
           c == d.check
           base == Done(d)
           m == Len(c)
<1>1. /\ b \in Seq(Byte) /\ Len(b) \in Nat /\ Len(w) \in Nat /\ Len(b) <= BufLen
      /\ d \in Decoders /\ c \in Seq(Seq(Byte)) /\ m \in Nat /\ BufLen \in Nat \ {0}
      /\ base = m * BufLen /\ base \in Nat
      /\ b = Piece(w, base, Len(b)) /\ base + Len(b) <= Len(w)
      /\ \A i \in 1 .. m : c[i] = Piece(w, (i - 1) * BufLen, BufLen)
  <2>1. b \in Seq(Byte) /\ d \in Decoders
    BY DEF Buffered, Good, Encoders
  <2>2. c \in Seq(Seq(Byte)) /\ m \in Nat /\ Len(b) \in Nat /\ Len(w) \in Nat
    BY <2>1, LenProperties DEF Decoders
  <2>3. Pow2[4 * (ByteBits - 1)] \in Nat
    <3>1. 4 * (ByteBits - 1) \in 0 .. Bits
      BY BitsNat
    <3> QED BY <3>1, PowersPositive
  <2>4. BufLen \in Nat \ {0}
    BY <2>3, FileAssumption
  <2>5. base = m * BufLen /\ base \in Nat
    BY <2>2, <2>4 DEF Done
  <2> QED BY <2>1, <2>2, <2>4, <2>5 DEF Buffered, Good
<1> HIDE DEF b, c, base
<1>2. x \in Seq(Byte) /\ Len(x) = q
  <2>1. 0 + q <= Len(b)
    BY DEF b
  <2> QED BY <1>1, <2>1, PieceFacts
<1>3. x = Piece(w, base, q)
  <2>1. 0 + q <= Len(b) /\ base + 0 = base
    BY <1>1 DEF b
  <2>2. Piece(Piece(w, base, Len(b)), 0, q) = Piece(w, base + 0, q)
    BY <1>1, <2>1, PieceOfPiece
  <2> QED BY <1>1, <2>1, <2>2
<1> HIDE DEF x
<1>4. base + q <= Len(w) /\ q <= BufLen
  BY <1>1 DEF b
<1>5. Filled(d, e) = x /\ Numbered(d, e) \in Seq(Nat)
  BY DEF x, b
<1>6. ASSUME q < BufLen
      PROVE  /\ After(d, e) = [filled |-> x, ind2pos |-> Numbered(d, e), check |-> c]
             /\ Good(w, After(d, e))
  <2> DEFINE r == After(d, e)
  <2>1. r = [filled |-> x, ind2pos |-> Numbered(d, e), check |-> c]
    BY <1>2, <1>5, <1>6 DEF After, c
  <2>2. r \in Decoders /\ r.filled = x /\ r.check = c
    BY <1>1, <1>2, <1>5, <2>1 DEF Decoders
  <2>3. Done(r) = base
    BY <1>1, <2>2 DEF Done
  <2> HIDE DEF r
  <2>4. Good(w, r)
    BY <1>1, <1>2, <1>3, <1>4, <1>6, <2>2, <2>3 DEF Good
  <2> QED BY <2>1, <2>4 DEF r
<1>7. ASSUME q = BufLen
      PROVE  /\ After(d, e) = [filled |-> <<>>, ind2pos |-> <<>>, check |-> Append(c, b)]
             /\ Good(w, After(d, e))
  <2> DEFINE r == After(d, e)
             cc == Append(c, b)
  <2>1. Len(b) = BufLen /\ x = b
    <3>1. Len(b) = q
      BY <1>1, <1>4, <1>7 DEF b
    <3> QED BY <1>1, <1>7, <3>1, WholePiece DEF x
  <2>2. r = [filled |-> <<>>, ind2pos |-> <<>>, check |-> cc]
    <3>1. Filled(d, e) = b /\ ~(Len(b) < BufLen)
      BY <1>1, <1>5, <2>1
    <3> QED BY <3>1 DEF After, c
  <2>3. /\ cc \in Seq(Seq(Byte)) /\ Len(cc) = m + 1 /\ cc[m + 1] = b
        /\ \A i \in 1 .. m : cc[i] = c[i]
    BY <1>1, AppendProperties
  <2> HIDE DEF cc, r
  <2>4. <<>> \in Seq(Byte) /\ <<>> \in Seq(Nat) /\ Len(<<>>) = 0
    BY EmptySeq
  <2>5. r \in Decoders /\ r.filled = <<>> /\ r.check = cc
    BY <2>2, <2>3, <2>4 DEF Decoders
  <2>6. Done(r) = base + BufLen /\ Done(r) \in Nat
    <3>1. \A u, v \in Nat : (u + 1) * v = u * v + v /\ u * v + v \in Nat
      OBVIOUS
    <3>2. Done(r) = (m + 1) * BufLen
      BY <2>3, <2>5 DEF Done
    <3>3. m \in Nat /\ BufLen \in Nat /\ base = m * BufLen
      BY <1>1
    <3> QED BY <3>1, <3>2, <3>3
  <2>7. ASSUME NEW i \in 1 .. m + 1 PROVE cc[i] = Piece(w, (i - 1) * BufLen, BufLen)
    <3>1. CASE i \in 1 .. m
      BY <1>1, <2>3, <3>1
    <3>2. CASE i = m + 1
      <4>1. (i - 1) * BufLen = base
        BY <1>1, <3>2
      <4> QED BY <1>1, <2>1, <2>3, <3>2, <4>1
    <3> QED BY <1>1, <3>1, <3>2
  <2>8. Piece(w, Done(r), 0) = <<>>
    BY <2>6, EmptyPiece
  <2>9. Good(w, r)
    BY <1>1, <1>4, <1>7, <2>3, <2>4, <2>5, <2>6, <2>7, <2>8 DEF Good
  <2> QED BY <2>2, <2>9 DEF r, cc
<1>8. q < BufLen \/ q = BufLen
  BY <1>1, <1>4
<1> QED BY <1>6, <1>7, <1>8 DEF b, c, x
(* What an encoder with a buffer has, in numbers. *)
LEMMA InBufferFacts ==
  ASSUME NEW w \in Seq(Byte), NEW n, NEW p, NEW d, InBuffer(w, n, p, d)
  PROVE  /\ n.buf \in Seq(Byte) /\ Len(n.buf) \in 1 .. BufLen /\ BufLen \in Nat \ {0}
         /\ n.pos \in Nat /\ n.num \in Nat /\ n.pos <= Len(n.buf) /\ n.num <= n.pos
         /\ n.symb \in Seq(Byte) /\ Len(n.symb) \in Nat /\ Len(n.symb) <= MaxSymbLen
         /\ d \in Decoders /\ Len(d.filled) \in Nat /\ Len(d.ind2pos) \in Nat
         /\ Len(d.filled) + Len(n.symb) = n.pos
         /\ Len(d.ind2pos) + Len(n.symb) = n.num
<1>1. n \in Encoders /\ d \in Decoders
  BY DEF InBuffer, Buffered, Good
<1>2. /\ n.buf \in Seq(Byte) /\ n.pos \in Nat /\ n.num \in Nat /\ n.symb \in Seq(Byte)
      /\ d.filled \in Seq(Byte) /\ d.ind2pos \in Seq(Nat)
  BY <1>1 DEF Encoders, Decoders
<1>3. /\ Len(n.buf) \in Nat /\ Len(n.symb) \in Nat /\ Len(d.filled) \in Nat
      /\ Len(d.ind2pos) \in Nat
  BY <1>2, LenProperties
<1>4. /\ n.pos <= Len(n.buf) /\ n.num <= n.pos /\ Len(n.symb) <= MaxSymbLen
      /\ d.filled \o n.symb = Piece(n.buf, 0, n.pos) /\ n.buf # <<>> /\ Len(n.buf) <= BufLen
      /\ Len(d.ind2pos) + Len(n.symb) = n.num
  BY DEF InBuffer, Buffered
<1>5. Len(d.filled \o n.symb) = Len(d.filled) + Len(n.symb)
  BY <1>2, ConcatProperties
<1>6. Len(Piece(n.buf, 0, n.pos)) = n.pos
  <2>1. 0 + n.pos <= Len(n.buf)
    BY <1>2, <1>4
  <2> QED BY <1>2, <2>1, PieceFacts
<1>7. Len(n.buf) # 0
  BY <1>2, <1>4, EmptySeq
<1>8. BufLen \in Nat \ {0}
  <2>1. 4 * (ByteBits - 1) \in 0 .. Bits
    BY BitsNat
  <2> QED BY <2>1, PowersPositive, FileAssumption
<1>9. Len(d.filled) + Len(n.symb) = n.pos
  BY <1>4, <1>5, <1>6
<1>10. Len(n.buf) \in 1 .. BufLen
  BY <1>3, <1>4, <1>7, <1>8
<1> QED BY <1>1, <1>2, <1>3, <1>4, <1>8, <1>9, <1>10

(* The decoder takes bytes that no reference follows ... *)
LEMMA DecodeSymb ==
  ASSUME NEW w \in Seq(Byte), NEW n, NEW p, NEW d, InBuffer(w, n, p, d), n.symb # <<>>,
         NEW e, e = Element(n.symb, 0, 0)
  PROVE  /\ e.tag # 0 /\ Legal(d, e) /\ Filled(d, e) = Piece(n.buf, 0, n.pos)
         /\ Numbered(d, e) \in Seq(Nat) /\ Len(Numbered(d, e)) = n.num
         /\ \A k \in Nat : k < n.num => Numbered(d, e)[k + 1] = SymbolPlace(d, k)
<1>1. /\ n.buf \in Seq(Byte) /\ Len(n.buf) \in 1 .. BufLen /\ BufLen \in Nat \ {0}
      /\ n.pos \in Nat /\ n.num \in Nat /\ n.pos <= Len(n.buf) /\ n.num <= n.pos
      /\ n.symb \in Seq(Byte) /\ Len(n.symb) \in Nat /\ Len(n.symb) <= MaxSymbLen
      /\ d \in Decoders /\ Len(d.filled) \in Nat /\ Len(d.ind2pos) \in Nat
      /\ Len(d.filled) + Len(n.symb) = n.pos
      /\ Len(d.ind2pos) + Len(n.symb) = n.num
  BY InBufferFacts
<1>2. 0 \in 0 .. BufLen
  BY <1>1
<1>3. e.symb = n.symb /\ SymbLen(e) = Len(n.symb) /\ RefTag(e) = 0 /\ e.tag # 0
  <2>1. /\ e.symb = n.symb /\ SymbLen(e) = Len(n.symb) /\ (RefTag(e) = 0 <=> 0 = 0)
        /\ (e.tag = 0 <=> n.symb = <<>> /\ 0 = 0)
    BY <1>1, <1>2, ElementFacts
  <2> QED BY <2>1
<1>4. /\ Bytes(d, e) = d.filled \o n.symb
      /\ Symbols(d, e) \in Seq(Nat)
      /\ Len(Symbols(d, e)) = Len(d.ind2pos) + Len(n.symb)
      /\ \A k \in Nat : k < Len(Symbols(d, e)) => Symbols(d, e)[k + 1] = SymbolPlace(d, k)
  BY <1>1, <1>3, SymbolsFacts
<1>5. Legal(d, e)
  <2>1. n.pos <= BufLen
    BY <1>1
  <2>2. Len(d.filled) + Len(n.symb) <= BufLen
    BY <1>1, <2>1
  <2> QED BY <1>1, <1>3, <2>2 DEF Legal
<1>6. d.filled \o n.symb = Piece(n.buf, 0, n.pos) /\ d.filled \o n.symb \in Seq(Byte)
  <2>1. d.filled \in Seq(Byte)
    BY <1>1 DEF Decoders
  <2> QED BY <1>1, <2>1, ConcatProperties DEF InBuffer
<1>7. Filled(d, e) = Piece(n.buf, 0, n.pos)
  <2>1. Filled(d, e) = (d.filled \o n.symb) \o <<>>
    BY <1>3, <1>4 DEF Filled
  <2> QED BY <1>6, <2>1, ConcatEmptySeq
<1>8. Numbered(d, e) = Symbols(d, e)
  <2>1. Numbered(d, e) = Symbols(d, e) \o <<>>
    BY <1>3 DEF Numbered
  <2> QED BY <1>4, <2>1, ConcatEmptySeq
<1>9. Len(d.ind2pos) + Len(n.symb) = n.num
  BY <1>1
<1>10. \A k \in Nat : k < n.num => Symbols(d, e)[k + 1] = SymbolPlace(d, k)
  BY <1>4, <1>9
<1> QED BY <1>3, <1>4, <1>5, <1>7, <1>8, <1>9, <1>10

(* ... and bytes with a reference to what was there before. *)
LEMMA DecodeRef ==
  ASSUME NEW w \in Seq(Byte), NEW n, NEW p, NEW d, InBuffer(w, n, p, d),
         NEW el \in Entry, Known(n.num, n.pos, d, el),
         NEW len \in Nat, len >= StartLen, n.pos + len <= Len(n.buf), el.pos + len <= n.pos,
         Piece(n.buf, el.pos, len) = Piece(n.buf, n.pos, len),
         NEW e, e = Element(n.symb, len - (StartLen - 1), n.num - el.num)
  PROVE  /\ e.tag # 0 /\ Legal(d, e) /\ Filled(d, e) = Piece(n.buf, 0, n.pos + len)
         /\ Numbered(d, e) \in Seq(Nat) /\ Len(Numbered(d, e)) = n.num + 1
         /\ \A k \in Nat : k < n.num => Numbered(d, e)[k + 1] = SymbolPlace(d, k)
         /\ Numbered(d, e)[n.num + 1] = n.pos
<1> DEFINE ref == len - (StartLen - 1)
           offset == n.num - el.num
           b == n.buf
           pos == n.pos
           num == n.num
<1>1. /\ b \in Seq(Byte) /\ Len(b) \in 1 .. BufLen /\ BufLen \in Nat \ {0}
      /\ pos \in Nat /\ num \in Nat /\ pos <= Len(b) /\ num <= pos
      /\ n.symb \in Seq(Byte) /\ Len(n.symb) \in Nat /\ Len(n.symb) <= MaxSymbLen
      /\ d \in Decoders /\ Len(d.filled) \in Nat /\ Len(d.ind2pos) \in Nat
      /\ Len(d.filled) + Len(n.symb) = pos
      /\ Len(d.ind2pos) + Len(n.symb) = num
  BY InBufferFacts
<1>2. /\ el.num \in Nat /\ el.pos \in Nat /\ el.num < num /\ el.pos < pos
      /\ SymbolPlace(d, el.num) = el.pos
  BY DEF Known, Entry
<1>3. d.filled \o n.symb = Piece(b, 0, pos)
  BY DEF InBuffer
<1>4. pos + len <= Len(b) /\ el.pos + len <= pos /\ Piece(b, el.pos, len) = Piece(b, pos, len)
  OBVIOUS
<1>5. e = Element(n.symb, ref, offset)
  OBVIOUS
<1>6. ref \in 1 .. BufLen /\ ref + StartLen - 1 = len
  BY <1>1, <1>4, FileAssumption
<1>7. offset \in 1 .. num /\ offset \in 0 .. BufLen /\ num + 1 - offset = el.num + 1
  BY <1>1, <1>2
<1> HIDE DEF ref, offset, b, pos, num
<1>8. /\ e.symb = n.symb /\ SymbLen(e) = Len(n.symb) /\ RefTag(e) # 0 /\ e.tag # 0
      /\ RefLen(e) = len /\ UintRead(e.offset) = offset
  <2>1. ref \in 0 .. BufLen /\ ref # 0
    BY <1>1, <1>6
  <2>2. /\ e.symb = n.symb /\ SymbLen(e) = Len(n.symb) /\ (RefTag(e) = 0 <=> ref = 0)
        /\ RefLen(e) = ref + StartLen - 1
        /\ (ref # 0 => UintRead(e.offset) = offset)
        /\ (e.tag = 0 <=> n.symb = <<>> /\ ref = 0)
    <3>1. n.symb \in Seq(Byte) /\ Len(n.symb) <= MaxSymbLen /\ offset \in 0 .. BufLen
      BY <1>1, <1>7
    <3> QED BY <1>5, <2>1, <3>1, ElementFacts
  <2> QED BY <1>6, <2>1, <2>2
<1>9. /\ Bytes(d, e) = d.filled \o n.symb
      /\ Symbols(d, e) \in Seq(Nat)
      /\ Len(Symbols(d, e)) = num
      /\ \A k \in Nat : k < num => Symbols(d, e)[k + 1] = SymbolPlace(d, k)
  <2>1. /\ Bytes(d, e) = d.filled \o n.symb
        /\ Symbols(d, e) \in Seq(Nat)
        /\ Len(Symbols(d, e)) = Len(d.ind2pos) + Len(n.symb)
        /\ \A k \in Nat : k < Len(Symbols(d, e)) => Symbols(d, e)[k + 1] = SymbolPlace(d, k)
    <3>1. d \in Decoders /\ n.symb \in Seq(Byte) /\ e.symb = n.symb /\ SymbLen(e) = Len(n.symb)
      BY <1>1, <1>8
    <3> QED BY <3>1, SymbolsFacts
  <2>2. Len(d.ind2pos) + Len(n.symb) = num
    BY <1>1
  <2> QED BY <2>1, <2>2
<1>10. Place(d, e) = el.pos
  <2>1. Place(d, e) = Symbols(d, e)[num + 1 - offset]
    BY <1>8, <1>9 DEF Place
  <2>2. el.num \in Nat /\ el.num < num
    BY <1>1, <1>2
  <2> QED BY <1>2, <1>7, <1>9, <2>1, <2>2
<1>11. Legal(d, e)
  <2>1. pos <= BufLen /\ offset <= num /\ el.pos + len <= BufLen
    BY <1>1, <1>2, <1>4, <1>7
  <2>2. Len(d.filled) + Len(n.symb) <= BufLen
    BY <1>1, <2>1
  <2> QED BY <1>1, <1>8, <1>9, <1>10, <2>1, <2>2 DEF Legal
<1>12. Filled(d, e) = Piece(b, 0, pos + len)
  <2>1. Bytes(d, e) = Piece(b, 0, pos)
    BY <1>3, <1>9
  <2>2. Filled(d, e) = Piece(b, 0, pos) \o Piece(Piece(b, 0, pos), el.pos, len)
    BY <1>8, <1>10, <2>1 DEF Filled
  <2>3. 0 + pos <= Len(b) /\ 0 + el.pos = el.pos
    BY <1>1, <1>2
  <2>4. Piece(Piece(b, 0, pos), el.pos, len) = Piece(b, 0 + el.pos, len)
    BY <1>1, <1>2, <1>4, <2>3, PieceOfPiece
  <2>5. Piece(b, 0, pos) \o Piece(b, pos, len) = Piece(b, 0, pos + len)
    BY <1>1, <1>4, FirstPieceJoins
  <2> QED BY <1>4, <2>2, <2>3, <2>4, <2>5
<1>13. /\ Numbered(d, e) \in Seq(Nat) /\ Len(Numbered(d, e)) = num + 1
       /\ \A k \in 1 .. num : Numbered(d, e)[k] = Symbols(d, e)[k]
       /\ Numbered(d, e)[num + 1] = pos
  <2> DEFINE t == Symbols(d, e)
  <2>1. Len(Bytes(d, e)) = pos
    <3>1. d.filled \in Seq(Byte) /\ n.symb \in Seq(Byte)
      BY <1>1 DEF Decoders
    <3>2. Len(d.filled \o n.symb) = Len(d.filled) + Len(n.symb)
      BY <3>1, ConcatProperties
    <3>3. Bytes(d, e) = d.filled \o n.symb
      BY <1>9
    <3>4. Len(d.filled) + Len(n.symb) = pos
      BY <1>1
    <3> QED BY <3>2, <3>3, <3>4
  <2>2. Numbered(d, e) = t \o <<pos>>
    BY <1>8, <2>1 DEF Numbered
  <2>3. t \in Seq(Nat) /\ Len(t) = num
    BY <1>9
  <2> HIDE DEF t
  <2>4. t \o <<pos>> = Append(t, pos)
    BY <1>1, <2>3, AppendIsConcat
  <2>5. /\ Append(t, pos) \in Seq(Nat) /\ Len(Append(t, pos)) = num + 1
        /\ \A k \in 1 .. num : Append(t, pos)[k] = t[k]
        /\ Append(t, pos)[num + 1] = pos
    BY <1>1, <2>3, AppendProperties
  <2> QED BY <2>2, <2>4, <2>5 DEF t
<1>14. \A k \in Nat : k < num => Numbered(d, e)[k + 1] = SymbolPlace(d, k)
  <2>1. \A k \in Nat : k < num => k + 1 \in 1 .. num
    BY <1>1
  <2> QED BY <1>9, <1>13, <2>1
<1> QED BY <1>8, <1>11, <1>12, <1>13, <1>14 DEF b, pos, num
------------------------------------------------------------------------------
(* The encoder.                                                               *)

LEMMA GreatestNumber ==
  ASSUME NEW i \in Nat, NEW T \in SUBSET (0 .. i), T # {}
  PROVE  Max(T) \in T /\ \A m \in T : m <= Max(T)
<1> DEFINE U == {i - n : n \in T}
<1>1. U \in SUBSET (0 .. i) /\ U # {}
  <2>1. ASSUME NEW n \in T PROVE i - n \in 0 .. i
    <3>1. n \in 0 .. i
      OBVIOUS
    <3> QED BY <3>1
  <2> QED BY <2>1
<1>2. PICK u \in U : \A m \in U : u <= m
  BY <1>1, LeastNumber
<1>3. PICK n \in T : u = i - n
  BY <1>2
<1>4. ASSUME NEW m \in T PROVE n >= m
  <2>1. i - m \in U
    OBVIOUS
  <2>2. i - n <= i - m
    BY <1>2, <1>3, <2>1
  <2> QED BY <2>2
<1>5. \E x \in T : \A y \in T : x >= y
  BY <1>4
<1>6. Max(T) \in T /\ \A y \in T : Max(T) >= y
  BY <1>5 DEF Max
<1> QED BY <1>6

LEMMA GreaterOfTwo ==
  ASSUME NEW a \in Int, NEW b \in Int
  PROVE  Max({a, b}) \in {a, b} /\ Max({a, b}) >= a /\ Max({a, b}) >= b
<1>1. \E x \in {a, b} : \A y \in {a, b} : x >= y
  OBVIOUS
<1> QED BY <1>1 DEF Max

LEMMA LessOfTwo ==
  ASSUME NEW a \in Int, NEW b \in Int
  PROVE  Min({a, b}) \in {a, b} /\ Min({a, b}) <= a /\ Min({a, b}) <= b
<1>1. \E x \in {a, b} : \A y \in {a, b} : x <= y
  OBVIOUS
<1> QED BY <1>1 DEF Min

(* What agrees is in the buffer, and does not overlap. *)
LEMMA AgreeFacts ==
  ASSUME enc.buf \in Seq(Byte), enc.pos \in Nat, enc.pos <= Len(enc.buf),
         NEW el \in Entry, el.pos <= enc.pos
  PROVE  /\ Agree(el) \in Nat
         /\ enc.pos + Agree(el) <= Len(enc.buf) /\ el.pos + Agree(el) <= enc.pos
         /\ Piece(enc.buf, el.pos, Agree(el)) = Piece(enc.buf, enc.pos, Agree(el))
<1> DEFINE a == Len(enc.buf) - enc.pos
           b == enc.pos - el.pos
           m == Min({a, b})
           T == {n \in 0 .. m : Piece(enc.buf, el.pos, n) = Piece(enc.buf, enc.pos, n)}
<1>1. Len(enc.buf) \in Nat /\ el.pos \in Nat
  BY LenProperties DEF Entry
<1>2. a \in Nat /\ b \in Nat
  BY <1>1
<1>3. Agree(el) = Max(T)
  BY DEF Agree
<1>4. m \in Nat /\ m <= a /\ m <= b
  <2> HIDE DEF a, b
  <2>1. a \in Int /\ b \in Int
    BY <1>2
  <2>2. m \in {a, b} /\ m <= a /\ m <= b
    BY <2>1, LessOfTwo
  <2> HIDE DEF m
  <2> QED BY <1>2, <2>2
<1>5. 0 \in T
  <2>1. Piece(enc.buf, el.pos, 0) = <<>> /\ Piece(enc.buf, enc.pos, 0) = <<>>
    BY <1>1, EmptyPiece
  <2> HIDE DEF m
  <2> QED BY <1>4, <2>1
<1>6. T \in SUBSET (0 .. m)
  OBVIOUS
<1>7. Max(T) \in T
  <2> HIDE DEF T, m
  <2> QED BY <1>4, <1>5, <1>6, GreatestNumber
<1>8. /\ Max(T) \in 0 .. m
      /\ Piece(enc.buf, el.pos, Max(T)) = Piece(enc.buf, enc.pos, Max(T))
  BY <1>7
<1> HIDE DEF T, m
<1>9. Max(T) \in Nat /\ enc.pos + Max(T) <= Len(enc.buf) /\ el.pos + Max(T) <= enc.pos
  BY <1>1, <1>2, <1>4, <1>8
<1> QED BY <1>3, <1>8, <1>9

(* An element of the table after a symbol was added is the new one or an old one.    *)
LEMMA AddedFacts ==
  ASSUME enc \in Encoders, NEW len \in Nat
  PROVE  /\ Added(len) \in Encoders
         /\ Added(len).buf = enc.buf /\ Added(len).check = enc.check
         /\ Added(len).pos = enc.pos + len /\ Added(len).num = enc.num + 1
         /\ \A h \in 0 .. TableSize - 1 : \A i \in 1 .. Len(Added(len).chains[h]) :
              \/ Added(len).chains[h][i] = [pos |-> enc.pos, num |-> enc.num]
              \/ \E j \in 1 .. Len(enc.chains[h]) : Added(len).chains[h][i] = enc.chains[h][j]
<1> DEFINE h == Slot(enc.pos)
           c == enc.chains
           next == [enc EXCEPT !.num = @ + 1, !.pos = @ + len]
           chain == IF enc.free = 0 THEN Front(c[h]) ELSE c[h]
           new == [pos |-> enc.pos, num |-> enc.num]
           r == [next EXCEPT !.free = Max({0, @ - 1}), !.chains[h] = <<new>> \o chain]
           none == enc.pos + StartLen > Len(enc.buf) \/ (enc.free = 0 /\ c[h] = <<>>)
           Chains(x) == \A k \in 0 .. TableSize - 1 : \A i \in 1 .. Len(x[k]) :
                          x[k][i] = new \/ \E j \in 1 .. Len(c[k]) : x[k][i] = c[k][j]
<1>1. Added(len) = IF none THEN next ELSE r
  BY DEF Added
<1>2. /\ enc.buf \in Seq(Byte) /\ enc.pos \in Nat /\ enc.num \in Nat /\ enc.symb \in Seq(Byte)
      /\ enc.free \in Nat /\ c \in [0 .. TableSize - 1 -> Seq(Entry)] /\ enc.check \in Seq(Seq(Byte))
  BY DEF Encoders
<1>3. /\ next \in Encoders /\ next.buf = enc.buf /\ next.check = enc.check /\ next.chains = c
      /\ next.pos = enc.pos + len /\ next.num = enc.num + 1 /\ next.free = enc.free
  <2>1. enc.num + 1 \in Nat /\ enc.pos + len \in Nat
    BY <1>2
  <2> DEFINE num == enc.num + 1
             pos == enc.pos + len
  <2>2. next = [enc EXCEPT !.num = num, !.pos = pos]
    BY DEF Encoders
  <2>3. num \in Nat /\ pos \in Nat
    BY <2>1
  <2> HIDE DEF next, num, pos
  <2>4. next \in Encoders
    BY <2>2, <2>3 DEF Encoders
  <2>5. /\ next.buf = enc.buf /\ next.check = enc.check /\ next.chains = c
        /\ next.pos = pos /\ next.num = num /\ next.free = enc.free
    BY <2>2 DEF Encoders
  <2> QED BY <2>4, <2>5 DEF pos, num
<1>4. new \in Entry
  BY <1>2 DEF Entry
<1>5. CASE none
  <2>1. Chains(c)
    OBVIOUS
  <2> HIDE DEF next, none, r
  <2> QED BY <1>1, <1>3, <1>5, <2>1
<1>6. CASE ~none
  <2>1. h \in 0 .. TableSize - 1
    <3>1. enc.pos + StartLen <= Len(enc.buf) /\ StartLen \in Nat
      BY <1>2, <1>6, LenProperties, FileAssumption
    <3> DEFINE start == Piece(enc.buf, enc.pos, StartLen)
    <3>2. start \in Seq(Byte) /\ Len(start) = StartLen
      BY <1>2, <3>1, PieceFacts
    <3>3. start \in [1 .. StartLen -> Byte]
      BY <3>2, LenProperties
    <3> HIDE DEF start
    <3>4. Hash(start) \in 0 .. TableSize - 1
      BY <3>3, FileAssumption
    <3> QED BY <3>4 DEF start, Slot
  <2>2. c[h] \in Seq(Entry)
    BY <1>2, <2>1
  <2>3. /\ chain \in Seq(Entry)
        /\ \A i \in 1 .. Len(chain) : \E j \in 1 .. Len(c[h]) : chain[i] = c[h][j]
    <3> DEFINE t == c[h]
    <3>1. CASE enc.free # 0
      BY <2>2, <3>1
    <3>2. CASE enc.free = 0
      <4>1. t \in Seq(Entry) /\ t # <<>> /\ chain = Front(t)
        BY <1>6, <2>2, <3>2
      <4> HIDE DEF t, chain
      <4>2. Len(t) \in Nat \ {0}
        BY <4>1, EmptySeq, LenProperties
      <4>3. Front(t) = SubSeq(t, 1, Len(t) - 1)
        BY DEF Front
      <4>4. /\ 1 \in Int /\ Len(t) - 1 \in Int
            /\ \A i \in 1 .. Len(t) - 1 : t[i] \in Entry
        BY <4>1, <4>2, ElementOfSeq
      <4>5. /\ Front(t) \in Seq(Entry)
            /\ Len(Front(t)) = IF 1 <= Len(t) - 1 THEN (Len(t) - 1) - 1 + 1 ELSE 0
            /\ \A i \in 1 .. (Len(t) - 1) - 1 + 1 : Front(t)[i] = t[1 + i - 1]
        BY <4>3, <4>4, SubSeqProperties
      <4>6. Len(Front(t)) = Len(t) - 1
        <5>1. \A k \in Nat \ {0} : (IF 1 <= k - 1 THEN (k - 1) - 1 + 1 ELSE 0) = k - 1
          OBVIOUS
        <5>2. Len(Front(t)) = IF 1 <= Len(t) - 1 THEN (Len(t) - 1) - 1 + 1 ELSE 0
          BY <4>5
        <5> QED BY <4>2, <5>1, <5>2
      <4>7. ASSUME NEW i \in 1 .. Len(Front(t)) PROVE \E j \in 1 .. Len(t) : Front(t)[i] = t[j]
        <5>1. i \in 1 .. (Len(t) - 1) - 1 + 1 /\ 1 + i - 1 = i /\ i \in 1 .. Len(t)
          BY <4>2, <4>6
        <5> QED BY <4>5, <5>1
      <4> QED BY <4>1, <4>5, <4>7 DEF t
    <3> QED BY <3>1, <3>2
  <2> DEFINE z == <<new>> \o chain
             x == [c EXCEPT ![h] = z]
             free == Max({0, enc.free - 1})
  <2>4. /\ z \in Seq(Entry)
        /\ \A i \in 1 .. Len(z) : z[i] = new \/ \E j \in 1 .. Len(c[h]) : z[i] = c[h][j]
    <3> HIDE DEF chain, new
    <3>1. <<new>> \in Seq(Entry) /\ Len(<<new>>) = 1 /\ <<new>>[1] = new
      BY <1>4
    <3>2. /\ z \in Seq(Entry) /\ Len(z) = 1 + Len(chain)
          /\ \A i \in 1 .. Len(<<new>>) + Len(chain) :
               z[i] = IF i <= Len(<<new>>) THEN <<new>>[i] ELSE chain[i - Len(<<new>>)]
      BY <2>3, <3>1, ConcatProperties
    <3>3. Len(chain) \in Nat
      BY <2>3, LenProperties
    <3> HIDE DEF z
    <3>4. ASSUME NEW i \in 1 .. Len(z) PROVE z[i] = new \/ \E j \in 1 .. Len(c[h]) : z[i] = c[h][j]
      <4>1. CASE i = 1
        BY <3>1, <3>2, <3>3, <4>1
      <4>2. CASE i # 1
        <5>1. i - 1 \in 1 .. Len(chain) /\ i \in 1 .. Len(<<new>>) + Len(chain) /\ ~(i <= Len(<<new>>))
          BY <3>1, <3>2, <3>3, <4>2
        <5>2. z[i] = chain[i - 1]
          BY <3>1, <3>2, <5>1
        <5> QED BY <2>3, <5>1, <5>2
      <4> QED BY <4>1, <4>2
    <3> QED BY <3>2, <3>4
  <2>5. free \in Nat
    <3>1. enc.free - 1 \in Int /\ 0 \in Int
      BY <1>2
    <3>2. free \in {0, enc.free - 1} /\ free >= 0
      BY <3>1, GreaterOfTwo
    <3> HIDE DEF free
    <3> QED BY <3>1, <3>2
  <2>6. r = [next EXCEPT !.free = free, !.chains = x]
    BY <1>3
  <2>7. x \in [0 .. TableSize - 1 -> Seq(Entry)]
    <3> HIDE DEF z
    <3> QED BY <1>2, <2>1, <2>4
  <2>8. Chains(x)
    <3> HIDE DEF z
    <3>1. ASSUME NEW k \in 0 .. TableSize - 1, NEW i \in 1 .. Len(x[k])
          PROVE  x[k][i] = new \/ \E j \in 1 .. Len(c[k]) : x[k][i] = c[k][j]
      <4>1. CASE k = h
        <5>1. x[k] = z
          BY <1>2, <4>1
        <5> HIDE DEF x
        <5> QED BY <2>4, <4>1, <5>1
      <4>2. CASE k # h
        <5>1. x[k] = c[k]
          BY <1>2, <4>2
        <5> HIDE DEF x
        <5> QED BY <5>1
      <4> QED BY <4>1, <4>2
    <3> HIDE DEF x, c
    <3> QED BY <3>1
  <2> HIDE DEF x, free, next
  <2>9. /\ r \in Encoders /\ r.buf = enc.buf /\ r.check = enc.check /\ r.chains = x
        /\ r.pos = enc.pos + len /\ r.num = enc.num + 1
    BY <1>3, <2>5, <2>6, <2>7 DEF Encoders
  <2> HIDE DEF r, none
  <2> QED BY <1>1, <1>6, <2>8, <2>9
<1> QED BY <1>5, <1>6

LEMMA IsElement ==
  ASSUME NEW symb \in Seq(Byte), NEW ref \in Nat, NEW offset \in Nat
  PROVE  Element(symb, ref, offset) \in Elems
BY DEF Elems

(* The decoder x that d becomes when the bytes that wait are written: it is at the    *)
(* position of the encoder n.                                                     *)
CaughtUp(n, d, x) ==
  /\ n.pos < BufLen =>
       /\ x.check = d.check /\ x.filled = Piece(n.buf, 0, n.pos)
       /\ Len(x.ind2pos) = n.num
       /\ \A k \in Nat : k < n.num => SymbolPlace(x, k) = SymbolPlace(d, k)
  /\ n.pos = BufLen =>
       x = [filled |-> <<>>, ind2pos |-> <<>>, check |-> Append(d.check, n.buf)]

LEMMA FlushFacts ==
  ASSUME NEW w \in Seq(Byte), NEW f \in Seq(Elems), NEW s, Replay(w, f, s),
         NEW n, NEW p, InBuffer(w, n, p, s[Len(f)])
  PROVE  /\ f \o Flushed(n.symb) \in Seq(Elems)
         /\ \E r : /\ Replay(w, f \o Flushed(n.symb), r)
                   /\ CaughtUp(n, s[Len(f)], r[Len(f \o Flushed(n.symb))])
<1> DEFINE g == f \o Flushed(n.symb)
           d == s[Len(f)]
           At(x) == CaughtUp(n, d, x)
<1>1. InBuffer(w, n, p, d)
  OBVIOUS
<1>2. Replay(w, f, s) /\ d = s[Len(f)]
  OBVIOUS
<1> HIDE DEF d
<1>3. /\ n.buf \in Seq(Byte) /\ Len(n.buf) \in 1 .. BufLen /\ BufLen \in Nat \ {0}
      /\ n.pos \in Nat /\ n.num \in Nat /\ n.pos <= Len(n.buf) /\ n.num <= n.pos
      /\ n.symb \in Seq(Byte) /\ Len(n.symb) \in Nat /\ Len(n.symb) <= MaxSymbLen
      /\ d \in Decoders /\ Len(d.filled) \in Nat /\ Len(d.ind2pos) \in Nat
      /\ Len(d.filled) + Len(n.symb) = n.pos
      /\ Len(d.ind2pos) + Len(n.symb) = n.num
  BY <1>1, InBufferFacts
<1>4. Buffered(w, n, p, d) /\ d.filled \o n.symb = Piece(n.buf, 0, n.pos) /\ Good(w, d)
  BY <1>1 DEF InBuffer, Buffered
<1>5. Len(f) \in Nat
  BY LenProperties
<1>6. ASSUME n.symb = <<>>
      PROVE  g = f /\ At(d)
  <2>1. Flushed(n.symb) = <<>>
    BY <1>6 DEF Flushed
  <2>2. g = f
    BY <2>1, ConcatEmptySeq
  <2>3. d.filled \in Seq(Byte) /\ Len(d.filled) < BufLen
    BY <1>3, <1>4 DEF Decoders, Good
  <2>4. d.filled = Piece(n.buf, 0, n.pos)
    <3>1. d.filled \o <<>> = d.filled
      BY <2>3, ConcatEmptySeq
    <3> QED BY <1>4, <1>6, <3>1
  <2>5. Len(n.symb) = 0
    BY <1>6, EmptySeq
  <2>6. Len(d.filled) = n.pos /\ Len(d.ind2pos) = n.num
    BY <1>3, <2>5
  <2>7. n.pos < BufLen
    BY <2>3, <2>6
  <2>8. n.pos # BufLen
    BY <1>3, <2>7
  <2> QED BY <2>2, <2>4, <2>6, <2>8 DEF CaughtUp
<1>7. ASSUME n.symb # <<>>
      PROVE  /\ g \in Seq(Elems) /\ Len(g) = Len(f) + 1
             /\ \E r : Replay(w, g, r) /\ At(r[Len(f) + 1])
  <2> DEFINE e == Element(n.symb, 0, 0)
             x == After(d, e)
  <2>1. e \in Elems
    BY <1>3, IsElement
  <2>2. /\ e.tag # 0 /\ Legal(d, e) /\ Filled(d, e) = Piece(n.buf, 0, n.pos)
        /\ Numbered(d, e) \in Seq(Nat) /\ Len(Numbered(d, e)) = n.num
        /\ \A k \in Nat : k < n.num => Numbered(d, e)[k + 1] = SymbolPlace(d, k)
    BY <1>1, <1>7, DecodeSymb
  <2>3. g = f \o <<e>>
    BY <1>7 DEF Flushed
  <2> HIDE DEF e
  <2>4. g = Append(f, e)
    BY <2>1, <2>3, AppendIsConcat
  <2>5. g \in Seq(Elems) /\ Len(g) = Len(f) + 1
    BY <2>1, <2>4, AppendProperties
  <2>6. /\ Good(w, x)
        /\ n.pos < BufLen => x = [filled |-> Piece(n.buf, 0, n.pos),
                                  ind2pos |-> Numbered(d, e), check |-> d.check]
        /\ n.pos = BufLen => x = [filled |-> <<>>, ind2pos |-> <<>>,
                                  check |-> Append(d.check, n.buf)]
    BY <1>3, <1>4, <2>2, AfterPiece
  <2> HIDE DEF x, g
  <2>7. ASSUME n.pos < BufLen
        PROVE  /\ x.check = d.check /\ x.filled = Piece(n.buf, 0, n.pos)
               /\ Len(x.ind2pos) = n.num
               /\ \A k \in Nat : k < n.num => SymbolPlace(x, k) = SymbolPlace(d, k)
    <3>1. x.check = d.check /\ x.filled = Piece(n.buf, 0, n.pos) /\ x.ind2pos = Numbered(d, e)
      BY <2>6, <2>7
    <3>2. Len(x.ind2pos) = n.num
      BY <2>2, <3>1
    <3>3. \A k \in Nat : k < n.num => SymbolPlace(x, k) = SymbolPlace(d, k)
      BY <2>2, <3>1, <3>2 DEF SymbolPlace
    <3> QED BY <3>1, <3>2, <3>3
  <2>8. At(x)
    BY <2>6, <2>7 DEF CaughtUp
  <2> HIDE DEF At
  <2>9. x = After(s[Len(f)], e) /\ Legal(s[Len(f)], e)
    BY <1>2, <2>2 DEF x
  <2>10. \E r : Replay(w, Append(f, e), r) /\ r[Len(f) + 1] = x
    BY <1>2, <2>1, <2>2, <2>6, <2>9, Extends
  <2> QED BY <2>4, <2>5, <2>8, <2>10
<1> HIDE DEF At
<1>8. g \in Seq(Elems) /\ \E r : Replay(w, g, r) /\ At(r[Len(g)])
  <2>1. CASE n.symb = <<>>
    <3>1. g = f /\ At(d)
      BY <1>6, <2>1
    <3> HIDE DEF g
    <3> QED BY <1>2, <3>1
  <2>2. CASE n.symb # <<>>
    <3> HIDE DEF g
    <3> QED BY <1>7, <2>2
  <2> QED BY <2>1, <2>2
<1> QED BY <1>8 DEF At, d

(* A symbol that was known has its place still. *)
LEMMA StillKnown ==
  ASSUME NEW num \in Nat, NEW pos \in Nat, NEW d, NEW el \in Entry, Known(num, pos, d, el),
         NEW num2 \in Nat, NEW pos2 \in Nat, num <= num2, pos <= pos2,
         NEW d2, \A k \in Nat : k < num => SymbolPlace(d2, k) = SymbolPlace(d, k)
  PROVE  Known(num2, pos2, d2, el)
<1>1. el.num \in Nat /\ el.pos \in Nat /\ el.num < num /\ el.pos < pos
  BY DEF Known, Entry
<1>2. SymbolPlace(d2, el.num) = el.pos
  BY <1>1 DEF Known
<1>3. el.num < num2 /\ el.pos < pos2
  BY <1>1
<1> QED BY <1>2, <1>3 DEF Known

(* The encoder has put a symbol of len bytes into the table and has x waiting, and    *)
(* the decoder has what was before.                                               *)
LEMMA StillInBuffer ==
  ASSUME NEW w \in Seq(Byte), NEW p, NEW d, InBuffer(w, enc, p, d),
         NEW len \in Nat, len >= 1, enc.pos + len <= Len(enc.buf),
         NEW x \in Seq(Byte), Len(x) <= MaxSymbLen,
         NEW d2, Good(w, d2), d2.check = d.check,
         d2.filled \o x = Piece(enc.buf, 0, enc.pos + len),
         Len(d2.ind2pos) + Len(x) = enc.num + 1,
         \A k \in Nat : k < enc.num => SymbolPlace(d2, k) = SymbolPlace(d, k),
         SymbolPlace(d2, enc.num) = enc.pos
  PROVE  InBuffer(w, [Added(len) EXCEPT !.symb = x], p, d2)
<1> DEFINE r == Added(len)
           n == [r EXCEPT !.symb = x]
           new == [pos |-> enc.pos, num |-> enc.num]
<1>1. enc \in Encoders
  BY DEF InBuffer, Buffered
<1>2. /\ r \in Encoders /\ r.buf = enc.buf /\ r.check = enc.check
      /\ r.pos = enc.pos + len /\ r.num = enc.num + 1
      /\ \A h \in 0 .. TableSize - 1 : \A i \in 1 .. Len(r.chains[h]) :
           r.chains[h][i] = new \/ \E j \in 1 .. Len(enc.chains[h]) : r.chains[h][i] = enc.chains[h][j]
  BY <1>1, AddedFacts
<1> HIDE DEF r
<1>3. /\ n \in Encoders /\ n.buf = enc.buf /\ n.check = enc.check /\ n.symb = x
      /\ n.pos = enc.pos + len /\ n.num = enc.num + 1 /\ n.chains = r.chains
  BY <1>2 DEF Encoders
<1>4. /\ enc.pos \in Nat /\ enc.num \in Nat /\ enc.num <= enc.pos
      /\ enc.chains \in [0 .. TableSize - 1 -> Seq(Entry)]
  BY <1>1 DEF Encoders, InBuffer
<1> DEFINE num == enc.num + 1
           pos == enc.pos + len
<1>5. num \in Nat /\ pos \in Nat /\ enc.num < num /\ enc.pos < pos /\ num <= pos
  BY <1>4
<1> HIDE DEF n, num, pos
<1>6. ASSUME NEW h \in 0 .. TableSize - 1, NEW i \in 1 .. Len(r.chains[h])
      PROVE  Known(num, pos, d2, r.chains[h][i])
  <2>1. CASE r.chains[h][i] = new
    <3>1. new.pos = enc.pos /\ new.num = enc.num
      OBVIOUS
    <3> HIDE DEF new
    <3> QED BY <1>5, <2>1, <3>1 DEF Known
  <2>2. ASSUME NEW j \in 1 .. Len(enc.chains[h]) PROVE Known(num, pos, d2, enc.chains[h][j])
    <3>1. enc.chains[h] \in Seq(Entry)
      BY <1>4
    <3>2. enc.chains[h][j] \in Entry
      BY <3>1, ElementOfSeq
    <3>3. Known(enc.num, enc.pos, d, enc.chains[h][j])
      BY DEF InBuffer
    <3> HIDE DEF num, pos
    <3>4. enc.num <= num /\ enc.pos <= pos
      BY <1>4, <1>5
    <3> QED BY <1>4, <1>5, <3>2, <3>3, <3>4, StillKnown
  <2> QED BY <1>2, <2>1, <2>2
<1>7. Done(d2) = Done(d)
  BY DEF Done
<1>8. Buffered(w, n, p, d2)
  BY <1>3, <1>7 DEF InBuffer, Buffered
<1>9. n.pos = pos /\ n.num = num
  BY <1>3 DEF pos, num
<1>10. /\ n.pos <= Len(n.buf) /\ n.num <= n.pos
       /\ Len(d2.ind2pos) + Len(n.symb) = n.num /\ d2.filled \o n.symb = Piece(n.buf, 0, n.pos)
  <2>1. pos <= Len(enc.buf) /\ d2.filled \o x = Piece(enc.buf, 0, pos)
    BY DEF pos
  <2>2. Len(d2.ind2pos) + Len(x) = num
    BY DEF num
  <2> QED BY <1>3, <1>5, <1>9, <2>1, <2>2
<1>11. /\ p = Len(w) \/ Len(n.buf) = BufLen
       /\ n.check = Append(d2.check, n.buf) /\ n.buf # <<>> /\ Len(n.symb) <= MaxSymbLen
  BY <1>3 DEF InBuffer
<1>12. InBuffer(w, n, p, d2)
  BY <1>3, <1>6, <1>8, <1>9, <1>10, <1>11 DEF InBuffer
<1> QED BY <1>12 DEF n, r
------------------------------------------------------------------------------
(* The steps of the writer keep the invariant.                                  *)

LEMMA Sizes == BufLen \in Nat \ {0} /\ MaxSymbLen \in Nat \ {0} /\ StartLen \in Nat \ {0}
<1>1. 4 * (ByteBits - 1) \in 0 .. Bits
  BY BitsNat
<1> QED BY <1>1, PowersPositive, FileAssumption

LEMMA FreshFacts ==
  ASSUME NEW b \in Seq(Byte), NEW c \in Seq(Seq(Byte)),
         NEW n, n = Renewed(b, c)
  PROVE  /\ n \in Encoders /\ n.buf = b /\ n.check = c /\ n.pos = 0 /\ n.num = 0 /\ n.symb = <<>>
         /\ \A h \in 0 .. TableSize - 1 : n.chains[h] = <<>>
<1> DEFINE none == [h \in 0 .. TableSize - 1 |-> <<>>]
           m == [buf |-> b, pos |-> 0, num |-> 0, symb |-> <<>>, free |-> TableSize,
                 chains |-> none, check |-> c]
<1>0. n = m
  BY DEF Fresh, Renewed
<1>1. <<>> \in Seq(Byte) /\ <<>> \in Seq(Entry) /\ <<>> \in Seq(Seq(Byte))
  BY EmptySeq
<1>2. none \in [0 .. TableSize - 1 -> Seq(Entry)] /\ \A h \in 0 .. TableSize - 1 : none[h] = <<>>
  BY <1>1
<1> HIDE DEF none
<1>3. TableSize \in Nat
  BY FileAssumption
<1>4. m \in Encoders
  BY <1>1, <1>2, <1>3 DEF Encoders
<1>5. /\ m.buf = b /\ m.check = c /\ m.pos = 0 /\ m.num = 0 /\ m.symb = <<>> /\ m.chains = none
  OBVIOUS
<1> HIDE DEF m
<1> QED BY <1>0, <1>2, <1>4, <1>5

LEMMA FreshRenewed == Fresh = Renewed(<<>>, <<>>)
<1> DEFINE m == [buf |-> <<>>, pos |-> 0, num |-> 0, symb |-> <<>>, free |-> TableSize,
                 chains |-> [h \in 0 .. TableSize - 1 |-> <<>>], check |-> <<>>]
<1>1. Fresh = m
  BY DEF Fresh
<1>2. ASSUME NEW n, n = Renewed(<<>>, <<>>) PROVE n = m
  BY <1>2 DEF Fresh, Renewed
<1> DEFINE r == Renewed(<<>>, <<>>)
<1>3. r = Renewed(<<>>, <<>>)
  OBVIOUS
<1> HIDE DEF m, r
<1>4. r = m
  BY <1>2, <1>3
<1> QED BY <1>1, <1>3, <1>4

LEMMA CollectingFacts ==
  ASSUME NEW w, NEW n, NEW p, NEW d, Collecting(w, n, p, d)
  PROVE  /\ n \in Encoders /\ n.buf \in Seq(Byte) /\ n.check = d.check /\ n.pos = 0 /\ n.num = 0
         /\ n.symb = <<>> /\ \A h \in 0 .. TableSize - 1 : n.chains[h] = <<>>
<1>1. n.buf \in Seq(Byte) /\ d.check \in Seq(Seq(Byte))
  BY DEF Collecting, Buffered, Good, Encoders, Decoders
<1> DEFINE b == n.buf
           c == d.check
<1>2. b \in Seq(Byte) /\ c \in Seq(Seq(Byte)) /\ n = Renewed(b, c)
  BY <1>1 DEF Collecting
<1>3. n.buf = b /\ c = d.check
  OBVIOUS
<1> HIDE DEF b, c
<1>4. /\ n \in Encoders /\ n.check = c /\ n.pos = 0 /\ n.num = 0 /\ n.symb = <<>>
      /\ \A h \in 0 .. TableSize - 1 : n.chains[h] = <<>>
  BY <1>2, FreshFacts
<1> QED BY <1>2, <1>3, <1>4

(* What is written stays the beginning of what the decoder needs. *)
LEMMA WritingStays ==
  ASSUME Writing, UNCHANGED <<data, cut, reader>>, file' \in Seq(Elems),
         NEW s, Replay(data, file', s),
         \/ stage' = "putting" /\ Collecting(data, enc', put', s[Len(file')])
         \/ stage' = "encoding" /\ InBuffer(data, enc', put', s[Len(file')])
         \/ stage' = "encoding" /\ TurnedOver(data, enc', put', s[Len(file')])
  PROVE  Writing'
BY DEF Writing, reader

LEMMA BeginEncoding ==
  ASSUME NEW w \in Seq(Byte), NEW n, NEW p, NEW d, Collecting(w, n, p, d), n.buf # <<>>,
         p = Len(w) \/ Len(n.buf) = BufLen
  PROVE  InBuffer(w, [n EXCEPT !.check = Append(@, n.buf)], p, d)
<1> DEFINE m == [n EXCEPT !.check = Append(@, n.buf)]
<1>1. /\ n \in Encoders /\ n.buf \in Seq(Byte) /\ n.check = d.check /\ n.pos = 0 /\ n.num = 0
      /\ n.symb = <<>> /\ \A h \in 0 .. TableSize - 1 : n.chains[h] = <<>>
  BY CollectingFacts
<1>2. d.filled = <<>> /\ d.ind2pos = <<>> /\ Buffered(w, n, p, d)
  BY DEF Collecting
<1>3. Append(n.check, n.buf) \in Seq(Seq(Byte))
  <2>1. n.check \in Seq(Seq(Byte))
    BY <1>1 DEF Encoders
  <2> QED BY <1>1, <2>1, AppendProperties
<1>4. /\ m \in Encoders /\ m.buf = n.buf /\ m.check = Append(d.check, n.buf) /\ m.pos = 0
      /\ m.num = 0 /\ m.symb = <<>> /\ m.chains = n.chains
  BY <1>1, <1>3 DEF Encoders
<1> HIDE DEF m
<1>5. Buffered(w, m, p, d)
  BY <1>2, <1>4 DEF Buffered
<1>6. /\ d.filled \o m.symb = <<>> /\ Piece(m.buf, 0, m.pos) = <<>>
  BY <1>1, <1>2, <1>4, EmptyPiece
<1>7. Len(d.ind2pos) + Len(m.symb) = m.num /\ Len(m.symb) <= MaxSymbLen
  BY <1>2, <1>4, Sizes
<1>8. m.pos <= Len(m.buf) /\ m.num <= m.pos
  <2>1. Len(n.buf) \in Nat
    BY <1>1, LenProperties
  <2> QED BY <1>4, <2>1
<1>9. \A h \in 0 .. TableSize - 1 : \A i \in 1 .. Len(m.chains[h]) :
        Known(m.num, m.pos, d, m.chains[h][i])
  <2>1. \A h \in 0 .. TableSize - 1 : Len(m.chains[h]) = 0
    BY <1>1, <1>4
  <2> QED BY <2>1
<1>10. InBuffer(w, m, p, d)
  BY <1>4, <1>5, <1>6, <1>7, <1>8, <1>9 DEF InBuffer
<1> QED BY <1>10 DEF m

LEMMA BeginBuffer ==
  ASSUME NEW w \in Seq(Byte), NEW d, Good(w, d), d.filled = <<>>, d.ind2pos = <<>>,
         NEW p, p = Done(d), p < Len(w)
  PROVE  Collecting(w, Renewed(<<w[p + 1]>>, d.check), p + 1, d)
<1> DEFINE x == w[p + 1]
           n == Renewed(<<x>>, d.check)
<1>1. d.check \in Seq(Seq(Byte)) /\ Len(d.check) \in Nat
  BY LenProperties DEF Good, Decoders
<1>2. p \in Nat /\ Len(w) \in Nat
  BY <1>1, Sizes, LenProperties DEF Done
<1>3. x \in Byte
  <2>1. p + 1 \in 1 .. Len(w)
    BY <1>2
  <2> QED BY <2>1, ElementOfSeq
<1>4. <<x>> = Piece(w, p, 1)
  <2>1. p + 0 < Len(w) /\ p + 0 + 1 = p + 1 /\ 0 + 1 = 1
    BY <1>2
  <2>2. ASSUME NEW z \in Nat, z = 0 PROVE Append(Piece(w, p, z), w[p + 1]) = Piece(w, p, 1)
    <3>1. p + z < Len(w) /\ p + z + 1 = p + 1 /\ z + 1 = 1
      BY <1>2, <2>2
    <3>2. Append(Piece(w, p, z), w[p + z + 1]) = Piece(w, p, z + 1)
      BY <1>2, <3>1, PieceGrows
    <3> QED BY <3>1, <3>2
  <2>3. Piece(w, p, 0) = <<>>
    BY <1>2, EmptyPiece
  <2> HIDE DEF x
  <2>4. Append(<<>>, x) = <<x>>
    OBVIOUS
  <2> QED BY <2>2, <2>3, <2>4 DEF x
<1> HIDE DEF x
<1>5. <<x>> \in Seq(Byte) /\ Len(<<x>>) = 1
  BY <1>3
<1>6. n \in Encoders /\ n.buf = <<x>> /\ n.check = d.check
  <2> DEFINE b == <<x>>
             c == d.check
  <2>1. b \in Seq(Byte) /\ c \in Seq(Seq(Byte)) /\ n = Renewed(b, c)
    BY <1>1, <1>5
  <2> HIDE DEF n, b, c
  <2>2. n \in Encoders /\ n.buf = b /\ n.check = c
    BY <2>1, FreshFacts
  <2> QED BY <2>2 DEF b, c
<1>7. n = Renewed(n.buf, d.check)
  BY <1>6
<1> HIDE DEF n
<1>8. Buffered(w, n, p + 1, d)
  <2>1. p + 1 = Done(d) + Len(n.buf) /\ p + 1 <= Len(w) /\ Len(n.buf) <= BufLen
    BY <1>2, <1>5, <1>6, Sizes
  <2>2. n.buf = Piece(w, Done(d), Len(n.buf))
    BY <1>4, <1>5, <1>6
  <2> QED BY <1>6, <2>1, <2>2 DEF Buffered
<1>9. Collecting(w, n, p + 1, d)
  BY <1>7, <1>8 DEF Collecting
<1> QED BY <1>9 DEF n, x

(* At the end of a buffer all of it is written. *)
LEMMA EndOfBuffer ==
  ASSUME data \in Seq(Byte), Writing, stage = "encoding", enc.pos = Len(enc.buf)
  PROVE  /\ file \o Flushed(enc.symb) \in Seq(Elems)
         /\ \E r : LET g == file \o Flushed(enc.symb) IN
              /\ Replay(data, g, r) /\ Checks(r[Len(g)]) = enc.check
              /\ Done(r[Len(g)]) + Len(r[Len(g)].filled) = put
              /\ put < Len(data) => /\ r[Len(g)].filled = <<>> /\ r[Len(g)].ind2pos = <<>>
                                    /\ r[Len(g)].check = enc.check
<1> DEFINE g == file \o Flushed(enc.symb)
           Ends(x) == /\ Checks(x) = enc.check /\ Done(x) + Len(x.filled) = put
                      /\ put < Len(data) => x.filled = <<>> /\ x.ind2pos = <<>> /\ x.check = enc.check
<1>1. PICK s : /\ Replay(data, file, s)
               /\ \/ InBuffer(data, enc, put, s[Len(file)])
                  \/ TurnedOver(data, enc, put, s[Len(file)])
  BY DEF Writing
<1> DEFINE d == s[Len(file)]
<1>2. file \in Seq(Elems)
  BY DEF Writing
<1>3. ASSUME TurnedOver(data, enc, put, d)
      PROVE  g \in Seq(Elems) /\ Replay(data, g, s) /\ Ends(s[Len(g)])
  <2>1. enc.symb = <<>> /\ d.filled = <<>> /\ d.ind2pos = <<>> /\ enc.check = d.check /\ put = Done(d)
    BY <1>3 DEF TurnedOver
  <2>2. g = file
    BY <1>2, <2>1, ConcatEmptySeq DEF Flushed
  <2>3. Good(data, d) /\ Done(d) \in Nat
    <3>1. Good(data, d)
      BY <1>3 DEF TurnedOver
    <3>2. Len(d.check) \in Nat
      BY <3>1, LenProperties DEF Good, Decoders
    <3> QED BY <3>1, <3>2, Sizes DEF Done
  <2> HIDE DEF d
  <2>4. Done(d) + Len(d.filled) = put
    <3>1. Len(d.filled) = 0
      BY <2>1
    <3> QED BY <2>1, <2>3, <3>1
  <2>5. Ends(d)
    BY <2>1, <2>4 DEF Checks
  <2> HIDE DEF g, Ends
  <2> QED BY <1>1, <1>2, <2>2, <2>5 DEF d
<1>4. ASSUME InBuffer(data, enc, put, d)
      PROVE  g \in Seq(Elems) /\ \E r : Replay(data, g, r) /\ Ends(r[Len(g)])
  <2>1. /\ enc.buf \in Seq(Byte) /\ Len(enc.buf) \in 1 .. BufLen /\ d \in Decoders
        /\ BufLen \in Nat
    BY <1>4, InBufferFacts
  <2>2. /\ put = Len(data) \/ Len(enc.buf) = BufLen
        /\ enc.check = Append(d.check, enc.buf) /\ put = Done(d) + Len(enc.buf)
    BY <1>4 DEF InBuffer, Buffered
  <2>3. d.check \in Seq(Seq(Byte)) /\ Len(d.check) \in Nat
    BY <2>1, LenProperties DEF Decoders
  <2>4. g \in Seq(Elems) /\ \E r : Replay(data, g, r) /\ CaughtUp(enc, d, r[Len(g)])
    BY <1>1, <1>2, <1>4, FlushFacts
  <2> HIDE DEF g
  <2>5. PICK r : Replay(data, g, r) /\ CaughtUp(enc, d, r[Len(g)])
    BY <2>4
  <2> DEFINE x == r[Len(g)]
  <2>6. /\ enc.pos < BufLen => x.check = d.check /\ x.filled = Piece(enc.buf, 0, enc.pos)
        /\ enc.pos = BufLen =>
             x = [filled |-> <<>>, ind2pos |-> <<>>, check |-> Append(d.check, enc.buf)]
    BY <2>5 DEF CaughtUp
  <2> HIDE DEF x, d
  <2>7. ASSUME enc.pos < BufLen PROVE Ends(x)
    <3>1. x.filled = enc.buf /\ x.check = d.check
      BY <2>1, <2>6, <2>7, WholePiece
    <3>2. x.filled # <<>>
      <4>1. Len(enc.buf) # 0
        BY <2>1
      <4> QED BY <3>1, <4>1
    <3>3. Len(enc.buf) # BufLen
      BY <2>1, <2>7
    <3>4. ~(put < Len(data))
      <4>1. Len(data) \in Nat
        BY LenProperties
      <4> QED BY <2>2, <3>3, <4>1
    <3>5. Checks(x) = enc.check /\ Done(x) + Len(x.filled) = put
      BY <2>2, <3>1, <3>2 DEF Checks, Done
    <3> QED BY <3>4, <3>5
  <2>8. ASSUME enc.pos = BufLen PROVE Ends(x)
    <3>1. x.filled = <<>> /\ x.ind2pos = <<>> /\ x.check = enc.check
      BY <2>2, <2>6, <2>8
    <3>2. Len(x.check) = Len(d.check) + 1
      BY <2>1, <2>2, <2>3, <3>1, AppendProperties
    <3>3. Done(x) = Done(d) + BufLen /\ Done(d) \in Nat
      <4>1. \A u, v \in Nat : (u + 1) * v = u * v + v /\ u * v \in Nat
        OBVIOUS
      <4>2. Done(x) = (Len(d.check) + 1) * BufLen /\ Done(d) = Len(d.check) * BufLen
        BY <3>2 DEF Done
      <4> QED BY <2>1, <2>3, <4>1, <4>2
    <3>4. Len(x.filled) = 0
      BY <3>1
    <3>5. Done(x) + Len(x.filled) = put
      BY <2>1, <2>2, <2>8, <3>3, <3>4
    <3> QED BY <3>1, <3>5 DEF Checks
  <2>9. enc.pos < BufLen \/ enc.pos = BufLen
    BY <2>1
  <2> HIDE DEF Ends
  <2>10. Ends(x)
    BY <2>7, <2>8, <2>9
  <2> QED BY <2>4, <2>5, <2>10 DEF x
<1> HIDE DEF Ends, g
<1>5. g \in Seq(Elems) /\ \E r : Replay(data, g, r) /\ Ends(r[Len(g)])
  BY <1>1, <1>3, <1>4
<1> QED BY <1>5 DEF Ends, g

LEMMA DataBytes == RoundTripInv => data \in Seq(Byte)
BY FileAssumption DEF RoundTripInv

(* A step of the writer that leaves the rest as it is. *)
LEMMA WriterStep ==
  ASSUME RoundTripInv, stage \in {"putting", "encoding"}, UNCHANGED <<data, cut, reader>>,
         file' \in Seq(Elems),
         \E s : /\ Replay(data, file', s)
                /\ \/ stage' = "putting" /\ Collecting(data, enc', put', s[Len(file')])
                   \/ stage' = "encoding" /\ InBuffer(data, enc', put', s[Len(file')])
                   \/ stage' = "encoding" /\ TurnedOver(data, enc', put', s[Len(file')])
  PROVE  RoundTripInv'
<1>1. Writing
  BY DEF RoundTripInv
<1>2. Writing'
  BY <1>1, WritingStays
<1>3. stage' \in {"putting", "encoding"}
  OBVIOUS
<1> QED BY <1>2, <1>3 DEF RoundTripInv, reader

LEMMA PutStep == RoundTripInv /\ Put => RoundTripInv'
<1> SUFFICES ASSUME RoundTripInv, Put PROVE RoundTripInv'
  OBVIOUS
<1>1. data \in Seq(Byte) /\ stage = "putting" /\ put < Len(data) /\ UNCHANGED <<data, file, cut, reader>>
  BY DataBytes DEF Put
<1>2. Writing
  BY <1>1 DEF RoundTripInv
<1>3. PICK s : Replay(data, file, s) /\ Collecting(data, enc, put, s[Len(file)])
  BY <1>1, <1>2 DEF Writing
<1> DEFINE d == s[Len(file)]
           b == enc.buf
<1>4. /\ Collecting(data, enc, put, d) /\ Buffered(data, enc, put, d) /\ Good(data, d)
      /\ enc = Renewed(b, d.check) /\ d.filled = <<>> /\ d.ind2pos = <<>>
  BY <1>3 DEF Collecting, Buffered
<1>5. file \in Seq(Elems) /\ file' = file /\ data' = data
  BY <1>1, <1>2 DEF Writing
<1> HIDE DEF d
<1>6. enc \in Encoders /\ b \in Seq(Byte) /\ Len(b) \in Nat /\ d.check \in Seq(Seq(Byte)) /\ Len(d.check) \in Nat
  <2>1. enc \in Encoders /\ b \in Seq(Byte) /\ d.check \in Seq(Seq(Byte))
    BY <1>4 DEF Buffered, Good, Encoders, Decoders
  <2> QED BY <2>1, LenProperties
<1>7. put = Done(d) + Len(b) /\ b = Piece(data, Done(d), Len(b)) /\ Len(b) <= BufLen
  BY <1>4 DEF Buffered
<1>8. ASSUME Len(b) < BufLen PROVE stage' = "putting" /\ Collecting(data, enc', put', d)
  <2> DEFINE x == data[put + 1]
             c == Append(b, x)
             m == Len(b)
             base == Done(d)
  <2>1. put' = put + 1 /\ enc' = [enc EXCEPT !.buf = c] /\ stage' = "putting"
    BY <1>1, <1>8 DEF Put
  <2>2. base \in Nat /\ Len(data) \in Nat
    BY <1>1, <1>6, Sizes, LenProperties DEF Done
  <2>3. put \in Nat /\ base + m < Len(data) /\ put + 1 = base + m + 1 /\ put + 1 \in 1 .. Len(data)
    BY <1>1, <1>6, <1>7, <2>2
  <2>4. x \in Byte
    BY <1>1, <2>3, ElementOfSeq
  <2>5. c = Piece(data, base, m + 1)
    <3>1. Append(Piece(data, base, m), data[base + m + 1]) = Piece(data, base, m + 1)
      BY <1>1, <1>6, <2>2, <2>3, PieceGrows
    <3> QED BY <1>7, <2>3, <3>1
  <2> HIDE DEF x
  <2>6. c \in Seq(Byte) /\ Len(c) = m + 1
    BY <1>6, <2>4, AppendProperties
  <2> HIDE DEF c
  <2>7. enc' = Renewed(c, d.check)
    <3> DEFINE z == d.check
    <3>1. enc = Renewed(b, z)
      BY <1>4
    <3> HIDE DEF z, b
    <3>2. enc' = Renewed(c, z)
      BY <2>1, <3>1 DEF Renewed, Fresh
    <3> QED BY <3>2 DEF z
  <2>8. enc' \in Encoders /\ enc'.buf = c
    <3> DEFINE n == enc'
               z == d.check
    <3>1. n = Renewed(c, z) /\ z \in Seq(Seq(Byte))
      BY <1>6, <2>7
    <3> HIDE DEF n, z
    <3>2. n \in Encoders /\ n.buf = c
      BY <2>6, <3>1, FreshFacts
    <3> QED BY <3>2 DEF n
  <2>9. /\ put' = base + Len(c) /\ put' <= Len(data) /\ Len(c) <= BufLen
        /\ c = Piece(data, base, Len(c))
    <3>1. m + 1 <= BufLen /\ put + 1 <= Len(data) /\ put + 1 = base + (m + 1)
      BY <1>6, <1>8, <2>2, <2>3, Sizes
    <3> HIDE DEF m, base
    <3> QED BY <2>1, <2>5, <2>6, <3>1
  <2>10. Buffered(data, enc', put', d)
    BY <1>4, <2>8, <2>9 DEF Buffered
  <2> QED BY <1>4, <2>1, <2>7, <2>8, <2>10 DEF Collecting
<1>9. ASSUME ~(Len(b) < BufLen) PROVE stage' = "encoding" /\ InBuffer(data, enc', put', d)
  <2>1. stage' = "encoding" /\ enc' = [enc EXCEPT !.check = Append(@, b)] /\ put' = put
    BY <1>9 DEF Put
  <2>2. Len(b) = BufLen /\ b # <<>>
    <3>1. Len(b) = BufLen /\ Len(b) # 0
      BY <1>6, <1>7, <1>9, Sizes
    <3> QED BY <3>1
  <2>3. InBuffer(data, [enc EXCEPT !.check = Append(@, enc.buf)], put, d)
    BY <1>1, <1>4, <2>2, BeginEncoding
  <2> QED BY <2>1, <2>3
<1>10. \/ stage' = "putting" /\ Collecting(data, enc', put', d)
       \/ stage' = "encoding" /\ InBuffer(data, enc', put', d)
  BY <1>8, <1>9
<1> QED BY <1>1, <1>3, <1>5, <1>10, WriterStep DEF d

LEMMA FinishStep == RoundTripInv /\ Finish => RoundTripInv'
<1> SUFFICES ASSUME RoundTripInv, Finish PROVE RoundTripInv'
  OBVIOUS
<1>1. /\ data \in Seq(Byte) /\ stage = "putting" /\ put = Len(data) /\ stage' = "encoding"
      /\ enc' = IF enc.buf = <<>> THEN enc ELSE [enc EXCEPT !.check = Append(@, enc.buf)]
      /\ UNCHANGED <<data, put, file, cut, reader>>
  BY DataBytes DEF Finish
<1>2. Writing
  BY <1>1 DEF RoundTripInv
<1>3. PICK s : Replay(data, file, s) /\ Collecting(data, enc, put, s[Len(file)])
  BY <1>1, <1>2 DEF Writing
<1> DEFINE d == s[Len(file)]
<1>4. /\ Collecting(data, enc, put, d) /\ Buffered(data, enc, put, d) /\ Good(data, d)
      /\ d.filled = <<>> /\ d.ind2pos = <<>>
  BY <1>3 DEF Collecting, Buffered
<1>5. file \in Seq(Elems) /\ file' = file
  BY <1>1, <1>2 DEF Writing
<1> HIDE DEF d
<1>6. enc \in Encoders /\ enc.check = d.check /\ enc.pos = 0 /\ enc.symb = <<>>
  BY <1>4, CollectingFacts
<1>7. ASSUME enc.buf = <<>> PROVE TurnedOver(data, enc', put', d)
  <2>1. enc' = enc /\ put' = put
    BY <1>1, <1>7
  <2>2. Len(enc.buf) = 0
    BY <1>7
  <2>3. d.check \in Seq(Seq(Byte))
    BY <1>4 DEF Good, Decoders
  <2>4. Done(d) \in Nat
    BY <2>3, Sizes, LenProperties DEF Done
  <2>5. put = Done(d)
    <3>1. put = Done(d) + Len(enc.buf)
      BY <1>4 DEF Buffered
    <3> QED BY <2>2, <2>4, <3>1
  <2> QED BY <1>4, <1>6, <2>1, <2>2, <2>5 DEF TurnedOver
<1>8. ASSUME enc.buf # <<>> PROVE InBuffer(data, enc', put', d)
  <2>1. enc' = [enc EXCEPT !.check = Append(@, enc.buf)] /\ put' = put
    BY <1>1, <1>8
  <2>2. InBuffer(data, [enc EXCEPT !.check = Append(@, enc.buf)], put, d)
    BY <1>1, <1>4, <1>8, BeginEncoding
  <2> QED BY <2>1, <2>2
<1> QED BY <1>1, <1>3, <1>5, <1>7, <1>8, WriterStep DEF d

LEMMA NextBufferStep == RoundTripInv /\ NextBuffer => RoundTripInv'
<1> SUFFICES ASSUME RoundTripInv, NextBuffer PROVE RoundTripInv'
  OBVIOUS
<1>1. /\ data \in Seq(Byte) /\ stage = "encoding" /\ enc.pos = Len(enc.buf) /\ put < Len(data)
      /\ file' = file \o Flushed(enc.symb) /\ put' = put + 1 /\ stage' = "putting"
      /\ enc' = Renewed(<<data[put + 1]>>, enc.check) /\ UNCHANGED <<data, cut, reader>>
  BY DataBytes DEF NextBuffer, Renewed
<1>2. Writing
  BY <1>1 DEF RoundTripInv
<1>3. /\ file' \in Seq(Elems)
      /\ \E r : LET g == file' IN
           /\ Replay(data, g, r) /\ Checks(r[Len(g)]) = enc.check
           /\ Done(r[Len(g)]) + Len(r[Len(g)].filled) = put
           /\ put < Len(data) => /\ r[Len(g)].filled = <<>> /\ r[Len(g)].ind2pos = <<>>
                                 /\ r[Len(g)].check = enc.check
  BY <1>1, <1>2, EndOfBuffer
<1>4. PICK r :
        /\ Replay(data, file', r) /\ Done(r[Len(file')]) + Len(r[Len(file')].filled) = put
        /\ r[Len(file')].filled = <<>> /\ r[Len(file')].ind2pos = <<>>
        /\ r[Len(file')].check = enc.check
  BY <1>1, <1>3
<1> DEFINE d == r[Len(file')]
<1>5. Len(file') \in Nat
  BY <1>3, LenProperties
<1>6. /\ Good(data, d) /\ d.filled = <<>> /\ d.ind2pos = <<>> /\ d.check = enc.check
      /\ Done(d) + Len(d.filled) = put
  <2>1. Len(file') \in 0 .. Len(file')
    BY <1>5
  <2> QED BY <1>4, <2>1 DEF Replay
<1>7. put = Done(d)
  <2> HIDE DEF d
  <2>1. Len(d.filled) = 0 /\ d.check \in Seq(Seq(Byte))
    BY <1>6 DEF Good, Decoders
  <2>2. Done(d) \in Nat
    BY <2>1, Sizes, LenProperties DEF Done
  <2> QED BY <1>6, <2>1, <2>2
<1>8. Collecting(data, enc', put', d)
  <2> DEFINE e == d
  <2>1. Good(data, e) /\ e.filled = <<>> /\ e.ind2pos = <<>> /\ put = Done(e) /\ e.check = enc.check
    BY <1>6, <1>7
  <2> HIDE DEF e
  <2>2. Collecting(data, Renewed(<<data[put + 1]>>, e.check), put + 1, e)
    BY <1>1, <2>1, BeginBuffer
  <2>3. Collecting(data, enc', put', e)
    BY <1>1, <2>1, <2>2
  <2> QED BY <2>3 DEF e
<1> QED BY <1>1, <1>3, <1>4, <1>8, WriterStep

LEMMA FirstPieceGrows ==
  ASSUME NEW S, NEW b \in Seq(S), NEW n \in Nat, n < Len(b)
  PROVE  Append(Piece(b, 0, n), b[n + 1]) = Piece(b, 0, n + 1)
<1>1. ASSUME NEW z \in Nat, z = 0 PROVE Append(Piece(b, z, n), b[n + 1]) = Piece(b, z, n + 1)
  <2>1. z + n < Len(b) /\ z + n + 1 = n + 1
    BY <1>1
  <2>2. Append(Piece(b, z, n), b[z + n + 1]) = Piece(b, z, n + 1)
    BY <2>1, PieceGrows
  <2> QED BY <2>1, <2>2
<1> QED BY <1>1

LEMMA OutputByteStep == RoundTripInv /\ OutputByte => RoundTripInv'
<1> SUFFICES ASSUME RoundTripInv, OutputByte PROVE RoundTripInv'
  OBVIOUS
<1> DEFINE full == Len(enc.symb) + 1 > MaxSymbLen
           symb == IF full THEN <<>> ELSE enc.symb
           x == enc.buf[enc.pos + 1]
           n == [Added(1) EXCEPT !.symb = Append(symb, x)]
<1>1. /\ data \in Seq(Byte) /\ stage = "encoding" /\ enc.pos < Len(enc.buf)
      /\ file' = file \o (IF full THEN Flushed(enc.symb) ELSE <<>>)
      /\ enc' = n /\ stage' = "encoding" /\ put' = put /\ UNCHANGED <<data, cut, reader>>
  BY DataBytes DEF OutputByte, Encoding
<1>2. Writing
  BY <1>1 DEF RoundTripInv
<1>3. file \in Seq(Elems)
  BY <1>2 DEF Writing
<1>4. PICK s : Replay(data, file, s) /\ InBuffer(data, enc, put, s[Len(file)])
  <2>1. PICK s : /\ Replay(data, file, s)
                 /\ \/ InBuffer(data, enc, put, s[Len(file)])
                    \/ TurnedOver(data, enc, put, s[Len(file)])
    BY <1>1, <1>2 DEF Writing
  <2>2. ASSUME TurnedOver(data, enc, put, s[Len(file)]) PROVE FALSE
    <3>1. enc.pos = Len(enc.buf) /\ enc.buf \in Seq(Byte)
      BY <2>2 DEF TurnedOver, Encoders
    <3>2. Len(enc.buf) \in Nat
      BY <3>1, LenProperties
    <3> QED BY <1>1, <3>1, <3>2
  <2> QED BY <2>1, <2>2
<1> DEFINE d == s[Len(file)]
<1>5. InBuffer(data, enc, put, d) /\ Replay(data, file, s)
  BY <1>4
<1>6. /\ enc.buf \in Seq(Byte) /\ Len(enc.buf) \in 1 .. BufLen /\ BufLen \in Nat \ {0}
      /\ enc.pos \in Nat /\ enc.num \in Nat /\ enc.pos <= Len(enc.buf) /\ enc.num <= enc.pos
      /\ enc.symb \in Seq(Byte) /\ Len(enc.symb) \in Nat /\ Len(enc.symb) <= MaxSymbLen
      /\ d \in Decoders /\ Len(d.filled) \in Nat /\ Len(d.ind2pos) \in Nat
      /\ Len(d.filled) + Len(enc.symb) = enc.pos
      /\ Len(d.ind2pos) + Len(enc.symb) = enc.num
  BY <1>1, <1>5, InBufferFacts
<1>7. d.filled \o enc.symb = Piece(enc.buf, 0, enc.pos)
  BY <1>5 DEF InBuffer
<1> HIDE DEF n, x, d
<1>8. PICK r : LET d2 == r[Len(file')] IN
        /\ file' \in Seq(Elems) /\ Replay(data, file', r) /\ d2.check = d.check
        /\ symb \in Seq(Byte) /\ Len(symb) + 1 <= MaxSymbLen
        /\ d2.filled \o symb = Piece(enc.buf, 0, enc.pos)
        /\ Len(d2.ind2pos) + Len(symb) = enc.num
        /\ \A k \in Nat : k < enc.num => SymbolPlace(d2, k) = SymbolPlace(d, k)
  <2>1. CASE ~full
    <3>1. file' = file \o <<>> /\ symb = enc.symb
      BY <1>1, <2>1
    <3>2. file' = file
      BY <1>3, <3>1, ConcatEmptySeq
    <3>3. Len(symb) + 1 <= MaxSymbLen
      BY <1>6, <2>1, <3>1, Sizes
    <3> HIDE DEF symb, full
    <3> QED BY <1>3, <1>5, <1>6, <1>7, <3>1, <3>2, <3>3 DEF d
  <2>2. CASE full
    <3>1. file' = file \o Flushed(enc.symb) /\ symb = <<>>
      BY <1>1, <2>2
    <3>2. /\ file' \in Seq(Elems)
          /\ \E r : Replay(data, file', r) /\ CaughtUp(enc, d, r[Len(file')])
      <4>1. InBuffer(data, enc, put, s[Len(file)])
        BY <1>4
      <4> QED BY <1>1, <1>3, <1>4, <3>1, <4>1, FlushFacts DEF d
    <3>3. PICK r : Replay(data, file', r) /\ CaughtUp(enc, d, r[Len(file')])
      BY <3>2
    <3> DEFINE d2 == r[Len(file')]
    <3>4. enc.pos < BufLen
      BY <1>1, <1>6
    <3>5. /\ d2.check = d.check /\ d2.filled = Piece(enc.buf, 0, enc.pos)
          /\ Len(d2.ind2pos) = enc.num
          /\ \A k \in Nat : k < enc.num => SymbolPlace(d2, k) = SymbolPlace(d, k)
      BY <3>3, <3>4 DEF CaughtUp
    <3> HIDE DEF symb, full
    <3>6. Len(symb) = 0 /\ Len(symb) + 1 <= MaxSymbLen /\ symb \in Seq(Byte)
      BY <3>1, Sizes, EmptySeq
    <3>7. d2.filled \o symb = Piece(enc.buf, 0, enc.pos)
      <4>1. 0 + enc.pos <= Len(enc.buf)
        BY <1>6
      <4>2. Piece(enc.buf, 0, enc.pos) \in Seq(Byte)
        BY <1>6, <4>1, PieceFacts
      <4> QED BY <3>1, <3>5, <4>2, ConcatEmptySeq
    <3>8. Len(d2.ind2pos) + Len(symb) = enc.num
      BY <1>6, <3>5, <3>6
    <3> QED BY <3>2, <3>3, <3>5, <3>6, <3>7, <3>8
  <2> QED BY <2>1, <2>2
<1> DEFINE d2 == r[Len(file')]
           y == Append(symb, x)
<1>9. /\ file' \in Seq(Elems) /\ Replay(data, file', r) /\ d2.check = d.check
      /\ symb \in Seq(Byte) /\ Len(symb) + 1 <= MaxSymbLen
      /\ d2.filled \o symb = Piece(enc.buf, 0, enc.pos)
      /\ Len(d2.ind2pos) + Len(symb) = enc.num
      /\ \A k \in Nat : k < enc.num => SymbolPlace(d2, k) = SymbolPlace(d, k)
  BY <1>8
<1>10. Good(data, d2)
  <2>1. Len(file') \in 0 .. Len(file')
    BY <1>9, LenProperties
  <2> QED BY <1>9, <2>1 DEF Replay
<1> HIDE DEF symb, full, d2
<1>11. d2.filled \in Seq(Byte) /\ d2.ind2pos \in Seq(Nat)
  BY <1>10 DEF Good, Decoders
<1>12. /\ Len(d2.filled) \in Nat /\ Len(d2.ind2pos) \in Nat /\ Len(symb) \in Nat
  BY <1>9, <1>11, LenProperties
<1>13. Len(d2.filled) + Len(symb) = enc.pos
  <2>1. 0 + enc.pos <= Len(enc.buf)
    BY <1>6
  <2>2. Len(Piece(enc.buf, 0, enc.pos)) = enc.pos
    BY <1>6, <2>1, PieceFacts
  <2>3. Len(d2.filled \o symb) = Len(d2.filled) + Len(symb)
    BY <1>9, <1>11, ConcatProperties
  <2>4. d2.filled \o symb = Piece(enc.buf, 0, enc.pos)
    BY <1>9
  <2> QED BY <2>2, <2>3, <2>4
<1>14. x \in Byte
  <2>1. enc.pos + 1 \in 1 .. Len(enc.buf)
    BY <1>1, <1>6
  <2> QED BY <1>6, <2>1, ElementOfSeq DEF x
<1>15. y \in Seq(Byte) /\ Len(y) = Len(symb) + 1
  BY <1>9, <1>14, AppendProperties
<1>16. d2.filled \o y = Piece(enc.buf, 0, enc.pos + 1)
  <2>1. d2.filled \o Append(symb, x) = Append(d2.filled \o symb, x)
    <3> DEFINE a == d2.filled
    <3>1. a \in Seq(Byte) /\ symb \in Seq(Byte) /\ <<x>> \in Seq(Byte) /\ a \o symb \in Seq(Byte)
      <4>1. a \in Seq(Byte) /\ symb \in Seq(Byte)
        BY <1>9, <1>11
      <4>2. <<x>> \in Seq(Byte)
        BY <1>14
      <4> HIDE DEF a
      <4> QED BY <4>1, <4>2, ConcatProperties
    <3> HIDE DEF a
    <3>2. Append(symb, x) = symb \o <<x>> /\ Append(a \o symb, x) = (a \o symb) \o <<x>>
      BY <1>14, <3>1, AppendIsConcat
    <3>3. (a \o symb) \o <<x>> = a \o (symb \o <<x>>)
      BY <3>1, ConcatAssociative
    <3>4. a \o Append(symb, x) = Append(a \o symb, x)
      BY <3>2, <3>3
    <3> QED BY <3>4 DEF a
  <2>2. Append(Piece(enc.buf, 0, enc.pos), enc.buf[enc.pos + 1]) = Piece(enc.buf, 0, enc.pos + 1)
    BY <1>1, <1>6, FirstPieceGrows
  <2>3. d2.filled \o symb = Piece(enc.buf, 0, enc.pos)
    BY <1>9
  <2> QED BY <2>1, <2>2, <2>3 DEF x
<1>17. Len(d2.ind2pos) + Len(symb) = enc.num /\ Len(symb) + 1 <= MaxSymbLen
  BY <1>9
<1>18. Len(d2.ind2pos) + Len(y) = enc.num + 1 /\ Len(y) <= MaxSymbLen
  <2> DEFINE u == Len(d2.ind2pos)
             v == Len(symb)
             l == Len(y)
             z == enc.num
  <2>1. u \in Nat /\ v \in Nat /\ z \in Nat /\ u + v = z /\ l = v + 1 /\ v + 1 <= MaxSymbLen
    BY <1>6, <1>12, <1>15, <1>17
  <2> HIDE DEF u, v, l, z
  <2>2. u + l = z + 1 /\ l <= MaxSymbLen
    BY <2>1
  <2> QED BY <2>2 DEF u, l, z
<1>19. SymbolPlace(d2, enc.num) = enc.pos
  <2>1. \A u, v, z, c, p \in Nat : u + v = z /\ c + v = p => ~(z < u) /\ c + (z - u) = p
    OBVIOUS
  <2>2. ~(enc.num < Len(d2.ind2pos)) /\ Len(d2.filled) + (enc.num - Len(d2.ind2pos)) = enc.pos
    BY <1>6, <1>12, <1>13, <1>17, <2>1
  <2> QED BY <2>2 DEF SymbolPlace
<1>20. InBuffer(data, [Added(1) EXCEPT !.symb = y], put, d2)
  <2>1. enc.pos + 1 <= Len(enc.buf) /\ 1 \in Nat /\ 1 >= 1
    BY <1>1, <1>6
  <2> HIDE DEF y
  <2> QED BY <1>1, <1>5, <1>9, <1>10, <1>15, <1>16, <1>18, <1>19, <2>1, StillInBuffer
<1>21. InBuffer(data, enc', put', r[Len(file')])
  BY <1>1, <1>20 DEF n, d2
<1> QED BY <1>1, <1>9, <1>21, WriterStep

(* A chain is found for a position when there are enough bytes behind it. *)
LEMMA SlotIn ==
  ASSUME enc \in Encoders, enc.pos + StartLen <= Len(enc.buf)
  PROVE  Slot(enc.pos) \in 0 .. TableSize - 1
<1>1. enc.buf \in Seq(Byte) /\ enc.pos \in Nat
  BY DEF Encoders
<1> DEFINE start == Piece(enc.buf, enc.pos, StartLen)
<1>2. start \in Seq(Byte) /\ Len(start) = StartLen
  BY <1>1, Sizes, PieceFacts
<1>3. start \in [1 .. StartLen -> Byte]
  BY <1>2, LenProperties
<1> HIDE DEF start
<1>4. Hash(start) \in 0 .. TableSize - 1
  BY <1>3, FileAssumption
<1> QED BY <1>4 DEF start, Slot

LEMMA OutputRefStep == RoundTripInv /\ OutputRef => RoundTripInv'
<1> SUFFICES ASSUME RoundTripInv, OutputRef PROVE RoundTripInv'
  OBVIOUS
<1>1. /\ data \in Seq(Byte) /\ stage = "encoding" /\ enc.pos < Len(enc.buf)
      /\ stage' = "encoding" /\ put' = put /\ UNCHANGED <<data, cut, reader>>
  BY DataBytes DEF OutputRef, Encoding
<1>2. PICK i \in Usable : LET el == Chain[i] IN
        /\ file' = Append(file, Element(enc.symb, Agree(el) - (StartLen - 1), enc.num - el.num))
        /\ enc' = [Added(Agree(el)) EXCEPT !.symb = <<>>]
  BY DEF OutputRef
<1> DEFINE el == Chain[i]
           len == Agree(el)
           e == Element(enc.symb, len - (StartLen - 1), enc.num - el.num)
           n == [Added(len) EXCEPT !.symb = <<>>]
<1>3. file' = Append(file, e) /\ enc' = n
  BY <1>2
<1>4. Writing
  BY <1>1 DEF RoundTripInv
<1>5. file \in Seq(Elems)
  BY <1>4 DEF Writing
<1>6. PICK s : Replay(data, file, s) /\ InBuffer(data, enc, put, s[Len(file)])
  <2>1. PICK s : /\ Replay(data, file, s)
                 /\ \/ InBuffer(data, enc, put, s[Len(file)])
                    \/ TurnedOver(data, enc, put, s[Len(file)])
    BY <1>1, <1>4 DEF Writing
  <2>2. ASSUME TurnedOver(data, enc, put, s[Len(file)]) PROVE FALSE
    <3>1. enc.pos = Len(enc.buf) /\ enc.buf \in Seq(Byte)
      BY <2>2 DEF TurnedOver, Encoders
    <3>2. Len(enc.buf) \in Nat
      BY <3>1, LenProperties
    <3> QED BY <1>1, <3>1, <3>2
  <2> QED BY <2>1, <2>2
<1> DEFINE d == s[Len(file)]
<1>7. InBuffer(data, enc, put, d) /\ Replay(data, file, s) /\ d = s[Len(file)]
  BY <1>6
<1> HIDE DEF n, e, len, d
<1>8. /\ enc.buf \in Seq(Byte) /\ Len(enc.buf) \in 1 .. BufLen /\ BufLen \in Nat \ {0}
      /\ enc.pos \in Nat /\ enc.num \in Nat /\ enc.pos <= Len(enc.buf) /\ enc.num <= enc.pos
      /\ enc.symb \in Seq(Byte) /\ d \in Decoders
  BY <1>1, <1>7, InBufferFacts
<1>9. /\ enc \in Encoders /\ Buffered(data, enc, put, d) /\ Good(data, d)
      /\ enc.check = Append(d.check, enc.buf)
  BY <1>7 DEF InBuffer, Buffered
(* The element of the chain is one that the decoder knows. *)
<1>10. el \in Entry /\ Known(enc.num, enc.pos, d, el) /\ len >= StartLen
  <2>1. /\ enc.pos + StartLen <= Len(enc.buf) /\ i \in DOMAIN Chain /\ len >= StartLen
    <3>1. ~(enc.pos + StartLen > Len(enc.buf)) /\ i \in DOMAIN Chain /\ Agree(Chain[i]) >= StartLen
      BY <1>2 DEF Usable
    <3>2. enc.pos + StartLen <= Len(enc.buf)
      BY <1>8, <3>1, Sizes
    <3> QED BY <3>1, <3>2 DEF len
  <2> DEFINE h == Slot(enc.pos)
  <2>2. h \in 0 .. TableSize - 1
    BY <1>9, <2>1, SlotIn
  <2>3. enc.chains[h] \in Seq(Entry)
    BY <1>9, <2>2 DEF Encoders
  <2>4. Chain = enc.chains[h] /\ i \in 1 .. Len(enc.chains[h])
    <3>1. Chain = enc.chains[h]
      BY DEF Chain
    <3> HIDE DEF h
    <3>2. DOMAIN enc.chains[h] = 1 .. Len(enc.chains[h])
      BY <2>3, LenProperties
    <3> QED BY <2>1, <3>1, <3>2
  <2> HIDE DEF h
  <2>5. el \in Entry
    BY <2>3, <2>4, ElementOfSeq
  <2>6. Known(enc.num, enc.pos, d, el)
    BY <1>7, <2>2, <2>4 DEF InBuffer
  <2> QED BY <2>1, <2>5, <2>6
<1> HIDE DEF el
<1>11. el.pos \in Nat /\ el.num \in Nat /\ el.pos < enc.pos /\ el.num < enc.num
  BY <1>10 DEF Known, Entry
<1>12. /\ len \in Nat /\ enc.pos + len <= Len(enc.buf) /\ el.pos + len <= enc.pos
       /\ Piece(enc.buf, el.pos, len) = Piece(enc.buf, enc.pos, len)
  <2>1. el.pos <= enc.pos
    BY <1>8, <1>11
  <2> QED BY <1>8, <1>10, <2>1, AgreeFacts DEF len
<1>13. e = Element(enc.symb, len - (StartLen - 1), enc.num - el.num)
  BY DEF e
<1>14. /\ e.tag # 0 /\ Legal(d, e) /\ Filled(d, e) = Piece(enc.buf, 0, enc.pos + len)
       /\ Numbered(d, e) \in Seq(Nat) /\ Len(Numbered(d, e)) = enc.num + 1
       /\ \A k \in Nat : k < enc.num => Numbered(d, e)[k + 1] = SymbolPlace(d, k)
       /\ Numbered(d, e)[enc.num + 1] = enc.pos
  BY <1>1, <1>7, <1>10, <1>12, <1>13, DecodeRef
<1>15. e \in Elems
  <2>1. len - (StartLen - 1) \in Nat /\ enc.num - el.num \in Nat
    BY <1>8, <1>10, <1>11, <1>12, Sizes
  <2> QED BY <1>8, <1>13, <2>1, IsElement
<1> DEFINE q == enc.pos + len
           d2 == After(d, e)
<1>16. q \in Nat /\ q <= Len(enc.buf) /\ len >= 1
  BY <1>8, <1>10, <1>12, Sizes
<1>17. /\ Good(data, d2)
       /\ q < BufLen => d2 = [filled |-> Piece(enc.buf, 0, q),
                              ind2pos |-> Numbered(d, e), check |-> d.check]
       /\ q = BufLen => d2 = [filled |-> <<>>, ind2pos |-> <<>>,
                              check |-> Append(d.check, enc.buf)]
  BY <1>1, <1>9, <1>14, <1>16, AfterPiece
<1>18. file' \in Seq(Elems) /\ Len(file') = Len(file) + 1
  BY <1>3, <1>5, <1>15, AppendProperties
<1> HIDE DEF d2
<1>19. \E r : Replay(data, file', r) /\ r[Len(file')] = d2
  <2>1. d2 = After(s[Len(file)], e) /\ Legal(s[Len(file)], e) /\ e.tag # 0
    BY <1>14 DEF d2, d
  <2>2. \E r : Replay(data, Append(file, e), r) /\ r[Len(file) + 1] = d2
    BY <1>5, <1>7, <1>15, <1>17, <2>1, Extends
  <2> QED BY <1>3, <1>18, <2>2
<1>20. ASSUME q < BufLen PROVE InBuffer(data, enc', put', d2)
  <2>1. /\ d2.filled = Piece(enc.buf, 0, q) /\ d2.ind2pos = Numbered(d, e) /\ d2.check = d.check
    BY <1>17, <1>20
  <2>2. <<>> \in Seq(Byte) /\ Len(<<>>) = 0 /\ Len(<<>>) <= MaxSymbLen
    BY Sizes, EmptySeq
  <2>3. d2.filled \o <<>> = Piece(enc.buf, 0, enc.pos + len)
    <3>1. d2.filled \in Seq(Byte)
      BY <1>17 DEF Good, Decoders
    <3> QED BY <2>1, <3>1, ConcatEmptySeq
  <2>4. Len(d2.ind2pos) = enc.num + 1
    BY <1>14, <2>1
  <2>5. Len(d2.ind2pos) + Len(<<>>) = enc.num + 1
    BY <1>8, <2>2, <2>4
  <2>6. ASSUME NEW k \in Nat, k < enc.num PROVE SymbolPlace(d2, k) = SymbolPlace(d, k)
    <3>1. k < Len(d2.ind2pos)
      BY <1>8, <2>4, <2>6
    <3> QED BY <1>14, <2>1, <2>6, <3>1 DEF SymbolPlace
  <2>7. SymbolPlace(d2, enc.num) = enc.pos
    <3>1. enc.num < Len(d2.ind2pos)
      BY <1>8, <2>4
    <3> QED BY <1>14, <2>1, <3>1 DEF SymbolPlace
  <2>8. InBuffer(data, [Added(len) EXCEPT !.symb = <<>>], put, d2)
    BY <1>1, <1>7, <1>12, <1>16, <1>17, <2>1, <2>2, <2>3, <2>5, <2>6, <2>7, StillInBuffer
  <2> QED BY <1>1, <1>3, <2>8 DEF n
<1>21. ASSUME q = BufLen PROVE TurnedOver(data, enc', put', d2)
  <2>1. d2.filled = <<>> /\ d2.ind2pos = <<>> /\ d2.check = enc.check
    BY <1>9, <1>17, <1>21
  <2>2. /\ Added(len) \in Encoders /\ Added(len).buf = enc.buf
        /\ Added(len).check = enc.check /\ Added(len).pos = enc.pos + len
    BY <1>9, <1>12, AddedFacts
  <2>3. <<>> \in Seq(Byte)
    BY EmptySeq
  <2>4. /\ n \in Encoders /\ n.buf = enc.buf /\ n.check = enc.check /\ n.pos = q /\ n.symb = <<>>
    <3> DEFINE r == Added(len)
    <3>1. /\ r \in Encoders /\ r.buf = enc.buf /\ r.check = enc.check /\ r.pos = enc.pos + len
          /\ n = [r EXCEPT !.symb = <<>>]
      BY <2>2 DEF n
    <3> HIDE DEF r
    <3> QED BY <2>3, <3>1 DEF Encoders
  <2>5. q = Len(enc.buf)
    BY <1>8, <1>16, <1>21
  <2>6. put = Done(d2)
    <3>1. put = Done(d) + Len(enc.buf)
      BY <1>9 DEF Buffered
    <3>2. d.check \in Seq(Seq(Byte)) /\ Len(d.check) \in Nat
      BY <1>8, LenProperties DEF Decoders
    <3>3. Len(d2.check) = Len(d.check) + 1
      BY <1>8, <1>9, <2>1, <3>2, AppendProperties
    <3>4. \A u, v \in Nat : (u + 1) * v = u * v + v
      OBVIOUS
    <3>5. Done(d2) = (Len(d.check) + 1) * BufLen /\ Done(d) = Len(d.check) * BufLen
      BY <3>3 DEF Done
    <3>6. Done(d2) = Done(d) + BufLen
      BY <1>8, <3>2, <3>4, <3>5
    <3> QED BY <1>21, <2>5, <3>1, <3>6
  <2>7. TurnedOver(data, n, put, d2)
    BY <1>17, <2>1, <2>4, <2>5, <2>6 DEF TurnedOver
  <2> QED BY <1>1, <1>3, <2>7
<1>22. q < BufLen \/ q = BufLen
  BY <1>8, <1>16
<1>23. PICK r : Replay(data, file', r) /\ r[Len(file')] = d2
  BY <1>19
<1>24. \/ InBuffer(data, enc', put', r[Len(file')])
       \/ TurnedOver(data, enc', put', r[Len(file')])
  BY <1>20, <1>21, <1>22, <1>23
<1> QED BY <1>1, <1>18, <1>23, <1>24, WriterStep
(* The reader begins where the writer began. *)
LEMMA OpenStep == RoundTripInv /\ Open => RoundTripInv'
<1> SUFFICES ASSUME RoundTripInv, Open PROVE RoundTripInv'
  OBVIOUS
<1>1. /\ data \in Seq(Byte) /\ stage = "encoding" /\ enc.pos = Len(enc.buf) /\ put = Len(data)
      /\ stage' = "reading" /\ UNCHANGED <<data, reader>>
  BY DataBytes DEF Open
<1>2. Writing
  BY <1>1 DEF RoundTripInv
<1>3. PICK g \in Seq(Elems) : g = file \o Flushed(enc.symb)
  BY <1>1, <1>2, EndOfBuffer
<1>4. PICK r : /\ Replay(data, g, r) /\ Checks(r[Len(g)]) = enc.check
               /\ Done(r[Len(g)]) + Len(r[Len(g)].filled) = put
  BY <1>1, <1>2, <1>3, EndOfBuffer
<1>5. PICK last : last = [tag |-> 0, hash |-> enc.check]
  OBVIOUS
<1> DEFINE All == Elems \cup [tag : {0}, hash : Seq(Seq(Byte))]
           m == Len(g)
           whole == g \o <<last>>
<1>6. PICK n \in 0 .. Len(whole) : file' = SubSeq(whole, 1, n) /\ cut' = (n < Len(whole))
  BY <1>3, <1>5 DEF Open
<1>7. m \in Nat /\ \A k \in 1 .. m : g[k] \in Elems
  BY LenProperties, ElementOfSeq
<1>8. enc.check \in Seq(Seq(Byte))
  <2>1. PICK s : \/ InBuffer(data, enc, put, s)
                 \/ TurnedOver(data, enc, put, s)
    BY <1>1, <1>2 DEF Writing
  <2>2. enc \in Encoders
    BY <2>1 DEF InBuffer, Buffered, TurnedOver
  <2> QED BY <2>2 DEF Encoders
<1>9. last \in All
  BY <1>5, <1>8
<1>10. g \in Seq(All)
  <2>1. \A k \in 1 .. m : g[k] \in All
    BY <1>7
  <2> HIDE DEF All
  <2>2. g \in [1 .. m -> All]
    <3>1. g = [k \in 1 .. m |-> g[k]]
      BY LenProperties
    <3> HIDE DEF m
    <3> QED BY <2>1, <3>1
  <2> QED BY <1>7, <2>2, SeqDef
<1> HIDE DEF All
<1>11. /\ whole \in Seq(All) /\ Len(whole) = m + 1 /\ whole[m + 1] = last
       /\ \A k \in 1 .. m : whole[k] = g[k]
  <2>1. whole = Append(g, last)
    BY <1>9, <1>10, AppendIsConcat
  <2> HIDE DEF whole
  <2> QED BY <1>9, <1>10, <2>1, AppendProperties
<1> HIDE DEF whole, m
<1>12. /\ file' \in Seq(All) /\ Len(file') = n
       /\ \A k \in 1 .. n : file'[k] = whole[k]
  <2>1. n \in Nat /\ n <= Len(whole)
    BY <1>7, <1>11
  <2>2. ASSUME NEW z \in Nat, z = 0 PROVE file' = Piece(whole, z, n)
    <3>1. z + 1 = 1 /\ z + n = n
      BY <2>1, <2>2
    <3> QED BY <1>6, <3>1 DEF Piece
  <2>3. ASSUME NEW z \in Nat, z = 0 PROVE /\ file' \in Seq(All) /\ Len(file') = n
                                          /\ \A k \in 1 .. n : file'[k] = whole[k]
    <3>1. z + n <= Len(whole)
      BY <2>1, <2>3
    <3>2. \A k \in 1 .. n : z + k = k
      BY <2>3
    <3>3. /\ Piece(whole, z, n) \in Seq(All) /\ Len(Piece(whole, z, n)) = n
          /\ \A k \in 1 .. n : Piece(whole, z, n)[k] = whole[z + k]
      <4>1. whole \in Seq(All)
        BY <1>11
      <4> QED BY <2>1, <3>1, <4>1, PieceFacts
    <3> QED BY <2>2, <2>3, <3>2, <3>3
  <2> QED BY <2>3
<1>13. FileOf(g, r)'
  <2>1. Len(file') <= m + 1 /\ cut' = (Len(file') <= m)
    <3>1. n <= m + 1 /\ n \in Nat /\ (n < m + 1 <=> n <= m)
      BY <1>7, <1>11
    <3> QED BY <1>6, <1>11, <1>12, <3>1
  <2>2. ASSUME NEW k \in 1 .. Len(file')
        PROVE  file'[k] = IF k <= m THEN g[k] ELSE [tag |-> 0, hash |-> Checks(r[m])]
    <3>1. k \in 1 .. n /\ file'[k] = whole[k]
      BY <1>12
    <3>2. k \in 1 .. m \/ (k = m + 1 /\ ~(k <= m))
      BY <1>7, <1>11, <3>1
    <3> QED BY <1>4, <1>5, <1>7, <1>11, <3>1, <3>2 DEF m
  <2>3. Replay(data', g, r) /\ Done(r[m]) + Len(r[m].filled) = Len(data')
    BY <1>1, <1>4 DEF m
  <2> QED BY <2>1, <2>2, <2>3 DEF FileOf, m
<1>14. /\ taken' = 0 /\ given' = <<>> /\ result' = "none"
       /\ dec' = [buf |-> <<>>, next |-> 0, filled |-> <<>>, ind2pos |-> <<>>,
                  check |-> <<>>, eof |-> FALSE]
  BY <1>1, <1>2 DEF Writing, reader
<1>15. ReaderAt(g, r)'
  <2>1. r[0] = Blank
    BY <1>4 DEF Replay
  <2>2. n \in Nat
    BY <1>7, <1>11
  <2> QED BY <1>7, <1>12, <1>14, <2>1, <2>2 DEF ReaderAt, Blank, m
<1>16. Given'
  <2>1. Piece(data', 0, 0) = <<>>
    BY <1>1, EmptyPiece
  <2>2. Len(<<>>) = 0 /\ Len(data') \in Nat
    BY <1>1, LenProperties
  <2>3. Done(dec)' = 0
    <3>1. 0 * BufLen = 0
      BY Sizes
    <3> QED BY <1>14, <2>2, <3>1 DEF Done
  <2>4. 0 = 0 + 0 /\ 0 \in Nat /\ 0 <= BufLen
    BY Sizes
  <2>5. /\ Len(given') = 0 /\ Len(dec'.buf) = 0 /\ dec'.next = 0 /\ ~dec'.eof
        /\ given' = <<>> /\ dec'.buf = <<>>
    BY <1>14, <2>2
  <2>6. \E pos \in Nat : /\ Len(given') = pos + dec'.next
                         /\ dec'.buf = Piece(data', pos, Len(dec'.buf))
                         /\ pos + Len(dec'.buf) = IF dec'.eof THEN Len(data') ELSE Done(dec)'
    BY <2>1, <2>3, <2>4, <2>5
  <2> QED BY <2>1, <2>2, <2>4, <2>5, <2>6 DEF Given
<1>17. dec' \in Readers
  BY <1>14, EmptySeq DEF Readers
<1>18. Reading'
  BY <1>12, <1>13, <1>14, <1>15, <1>16, <1>17 DEF Reading, All
<1> QED BY <1>1, <1>18 DEF RoundTripInv, reader

------------------------------------------------------------------------------
(* The steps of the reader.                                                     *)

(* What an element says depends only on the bytes and the symbols of the decoder. *)
LEMMA SameDecoder ==
  ASSUME NEW d, NEW x, d.filled = x.filled, d.ind2pos = x.ind2pos, NEW e
  PROVE  /\ Legal(d, e) = Legal(x, e) /\ Filled(d, e) = Filled(x, e)
         /\ Numbered(d, e) = Numbered(x, e)
<1>1. Symbols(d, e) = Symbols(x, e) /\ Bytes(d, e) = Bytes(x, e)
  BY DEF Symbols, Bytes
<1>2. Place(d, e) = Place(x, e)
  BY <1>1 DEF Place
<1> QED BY <1>1, <1>2 DEF Legal, Filled, Numbered

LEMMA GiveStep == RoundTripInv /\ Give => RoundTripInv'
<1> SUFFICES ASSUME RoundTripInv, Give PROVE RoundTripInv'
  OBVIOUS
<1> DEFINE x == dec.buf[dec.next + 1]
<1>1. /\ data \in Seq(Byte) /\ stage = "reading" /\ dec.next < Len(dec.buf)
      /\ given' = Append(given, x) /\ dec' = [dec EXCEPT !.next = @ + 1]
      /\ UNCHANGED <<data, put, stage, enc, file, cut, client, taken, result>>
  BY DataBytes DEF Give, Wants
<1>2. Reading
  BY <1>1 DEF RoundTripInv
<1>3. dec \in Readers /\ dec.next \in Nat /\ dec.buf \in Seq(Byte)
  BY <1>2 DEF Reading, Readers
<1>4. /\ dec' \in Readers
      /\ dec'.buf = dec.buf /\ dec'.next = dec.next + 1 /\ dec'.filled = dec.filled
      /\ dec'.ind2pos = dec.ind2pos /\ dec'.check = dec.check /\ dec'.eof = dec.eof
  <2> DEFINE next == dec.next + 1
  <2>1. next \in Nat /\ dec' = [dec EXCEPT !.next = next]
    BY <1>1, <1>3
  <2> HIDE DEF next
  <2>2. /\ dec'.buf = dec.buf /\ dec'.next = next /\ dec'.filled = dec.filled
        /\ dec'.ind2pos = dec.ind2pos /\ dec'.check = dec.check /\ dec'.eof = dec.eof
    BY <1>3, <2>1 DEF Readers
  <2>3. dec' \in Readers
    BY <1>3, <2>1 DEF Readers
  <2> QED BY <2>2, <2>3 DEF next
<1>5. PICK g, s : g \in Seq(Elems) /\ FileOf(g, s) /\ ReaderAt(g, s)
  BY <1>2 DEF Reading
<1>6. FileOf(g, s)' /\ ReaderAt(g, s)'
  BY <1>1, <1>4, <1>5 DEF FileOf, ReaderAt
<1>7. Given'
  <2>1. /\ Len(given) <= Len(data) /\ given = Piece(data, 0, Len(given))
        /\ dec.next \in 0 .. Len(dec.buf) /\ Len(dec.buf) <= BufLen
    BY <1>2 DEF Reading, Given
  <2>2. PICK pos \in Nat :
          /\ Len(given) = pos + dec.next
          /\ dec.buf = Piece(data, pos, Len(dec.buf))
          /\ pos + Len(dec.buf) = IF dec.eof THEN Len(data) ELSE Done(dec)
    BY <1>2 DEF Reading, Given
  <2>3. Len(data) \in Nat /\ Len(dec.buf) \in Nat
    BY <1>1, <1>3, LenProperties
  <2>4. pos + Len(dec.buf) <= Len(data)
    <3>1. CASE dec.eof
      BY <2>2, <2>3, <3>1
    <3>2. CASE ~dec.eof
      <4>1. taken \in 0 .. Len(g) /\ dec.check = s[taken].check
        <5>1. taken \in Nat /\ taken <= Len(g) /\ dec.check = s[taken].check
          <6>1. taken \in 0 .. Len(file) /\ taken <= Len(g) /\ dec.check = s[taken].check
            BY <1>5, <3>2 DEF ReaderAt
          <6> QED BY <6>1
        <5>2. Len(g) \in Nat
          BY LenProperties
        <5> QED BY <5>1, <5>2
      <4>2. Good(data, s[taken])
        BY <1>5, <4>1 DEF FileOf, Replay
      <4>3. Done(s[taken]) + Len(s[taken].filled) <= Len(data) /\ s[taken].filled \in Seq(Byte)
            /\ s[taken].check \in Seq(Seq(Byte))
        BY <4>2 DEF Good, Decoders
      <4>4. Len(s[taken].filled) \in Nat /\ Done(s[taken]) \in Nat
        BY <4>3, LenProperties, Sizes DEF Done
      <4>5. Done(dec) = Done(s[taken])
        BY <4>1 DEF Done
      <4> QED BY <2>2, <2>3, <3>2, <4>3, <4>4, <4>5
    <3> QED BY <3>1, <3>2
  <2>5. Len(given) \in Nat /\ Len(given) < Len(data)
    BY <1>1, <2>1, <2>2, <2>3, <2>4
  <2>6. x = data[Len(given) + 1]
    <3>1. dec.next + 1 \in 1 .. Len(dec.buf) /\ pos + (dec.next + 1) = Len(given) + 1
      BY <1>1, <2>1, <2>2, <2>3
    <3>2. \A i \in 1 .. Len(dec.buf) : Piece(data, pos, Len(dec.buf))[i] = data[pos + i]
      BY <1>1, <2>3, <2>4, PieceFacts
    <3> QED BY <2>2, <3>1, <3>2
  <2>7. Len(given) + 1 \in 1 .. Len(data)
    BY <2>3, <2>5
  <2>8. x \in Byte
    BY <1>1, <2>6, <2>7, ElementOfSeq
  <2> HIDE DEF x
  <2>9. given' = Piece(data, 0, Len(given) + 1)
    <3> DEFINE m == Len(given)
    <3>1. m \in Nat /\ m < Len(data) /\ given = Piece(data, 0, m) /\ x = data[m + 1]
      BY <2>1, <2>5, <2>6
    <3> HIDE DEF m
    <3>2. Append(Piece(data, 0, m), data[m + 1]) = Piece(data, 0, m + 1)
      BY <1>1, <3>1, FirstPieceGrows
    <3>3. given' = Piece(data, 0, m + 1)
      BY <1>1, <3>1, <3>2
    <3> QED BY <3>3 DEF m
  <2>10. Len(given') = Len(given) + 1
    <3> DEFINE m == Len(given) + 1
    <3>1. m \in Nat /\ 0 + m <= Len(data) /\ given' = Piece(data, 0, m)
      BY <2>5, <2>7, <2>9
    <3> HIDE DEF m
    <3>2. Len(given') = m
      BY <1>1, <3>1, PieceFacts
    <3> QED BY <3>2 DEF m
  <2>11. Len(given') <= Len(data) /\ given' = Piece(data, 0, Len(given'))
    BY <2>7, <2>9, <2>10
  <2>12. dec'.next \in 0 .. Len(dec'.buf) /\ Len(dec'.buf) <= BufLen
    BY <1>1, <1>4, <2>1, <2>3
  <2>13. Len(given') = pos + dec'.next
    BY <1>3, <1>4, <2>2, <2>10
  <2>14. Done(dec)' = Done(dec)
    BY <1>4 DEF Done
  <2>15. /\ dec'.buf = Piece(data', pos, Len(dec'.buf))
         /\ pos + Len(dec'.buf) = IF dec'.eof THEN Len(data') ELSE Done(dec)'
    BY <1>1, <1>4, <2>2, <2>14
  <2> QED BY <1>1, <2>11, <2>12, <2>13, <2>15 DEF Given
<1>8. Reading'
  BY <1>1, <1>2, <1>4, <1>5, <1>6, <1>7 DEF Reading
<1> QED BY <1>1, <1>8 DEF RoundTripInv

LEMMA ReaderFacts ==
  ASSUME data \in Seq(Byte), dec \in Readers, NEW g \in Seq(Elems), NEW s,
         FileOf(g, s), ReaderAt(g, s), ~dec.eof
  PROVE  /\ taken \in 0 .. Len(g) /\ Len(g) \in Nat /\ Good(data, s[taken])
         /\ dec.filled = s[taken].filled /\ dec.ind2pos = s[taken].ind2pos
         /\ dec.check = s[taken].check
         /\ Done(dec) = Done(s[taken]) /\ Done(dec) \in Nat
         /\ Len(dec.filled) \in Nat /\ Done(dec) + Len(dec.filled) <= Len(data)
<1>1. taken \in 0 .. Len(file) /\ taken <= Len(g)
  BY DEF ReaderAt
<1>2. Len(g) \in Nat /\ taken \in 0 .. Len(g)
  BY <1>1, LenProperties
<1>3. /\ dec.filled = s[taken].filled /\ dec.ind2pos = s[taken].ind2pos
      /\ dec.check = s[taken].check
  BY DEF ReaderAt
<1>4. Good(data, s[taken])
  BY <1>2 DEF FileOf, Replay
<1>5. Len(dec.filled) \in Nat /\ Len(dec.check) \in Nat
  BY LenProperties DEF Readers
<1>6. Done(dec) = Done(s[taken]) /\ Done(dec) \in Nat
  BY <1>3, <1>5, Sizes DEF Done
<1>7. Done(dec) + Len(dec.filled) <= Len(data)
  <2>1. Done(s[taken]) + Len(s[taken].filled) <= Len(data)
    BY <1>4 DEF Good
  <2> QED BY <1>3, <1>6, <2>1
<1> QED BY <1>2, <1>3, <1>4, <1>5, <1>6, <1>7

(* Nothing is there to give: what was given are the buffers that were full. *)
LEMMA GivenFacts ==
  ASSUME Given, dec \in Readers, dec.next = Len(dec.buf), ~dec.eof
  PROVE  Len(given) = Done(dec) /\ given = Piece(data, 0, Len(given)) /\ Len(given) <= Len(data)
<1>1. PICK pos \in Nat : Len(given) = pos + dec.next /\ pos + Len(dec.buf) = Done(dec)
  BY DEF Given
<1> QED BY <1>1 DEF Given

LEMMA DecodeStep == RoundTripInv /\ Decode => RoundTripInv'
<1> SUFFICES ASSUME RoundTripInv, Decode PROVE RoundTripInv'
  OBVIOUS
<1>1. /\ data \in Seq(Byte) /\ stage = "reading" /\ dec.next = Len(dec.buf) /\ ~dec.eof
      /\ taken < Len(file) /\ file[taken + 1].tag # 0 /\ taken' = taken + 1
      /\ UNCHANGED <<data, put, enc, file, cut, client, given>>
  BY DataBytes DEF Decode, Decoding, Wants
<1>2. Reading
  BY <1>1 DEF RoundTripInv
<1>3. dec \in Readers /\ Given /\ result = "none" /\ Len(file) \in Nat
  BY <1>2, LenProperties DEF Reading
<1>4. PICK g, s : g \in Seq(Elems) /\ FileOf(g, s) /\ ReaderAt(g, s)
  BY <1>2 DEF Reading
<1>5. /\ taken \in 0 .. Len(g) /\ Len(g) \in Nat /\ Good(data, s[taken])
      /\ dec.filled = s[taken].filled /\ dec.ind2pos = s[taken].ind2pos
      /\ dec.check = s[taken].check
      /\ Done(dec) = Done(s[taken]) /\ Done(dec) \in Nat
      /\ Len(dec.filled) \in Nat /\ Done(dec) + Len(dec.filled) <= Len(data)
  BY <1>1, <1>3, <1>4, ReaderFacts
<1> DEFINE k == taken + 1
           e == file[k]
           filled == Filled(dec, e)
<1>6. k \in 1 .. Len(file) /\ k \in 1 .. Len(g) /\ e = g[k] /\ k - 1 = taken
  <2>1. k \in 1 .. Len(file) /\ k - 1 = taken
    BY <1>1, <1>3, <1>5
  <2>2. e = IF k <= Len(g) THEN g[k] ELSE [tag |-> 0, hash |-> Checks(s[Len(g)])]
    BY <1>4, <2>1 DEF FileOf
  <2>3. ASSUME ~(k <= Len(g)) PROVE FALSE
    <3>1. e.tag = 0
      BY <2>2, <2>3
    <3> QED BY <1>1, <3>1
  <2>4. k \in 1 .. Len(g)
    BY <1>3, <1>5, <2>1, <2>3
  <2> QED BY <2>1, <2>2, <2>3, <2>4
<1>7. Legal(s[taken], e) /\ s[k] = After(s[taken], e) /\ Good(data, s[k])
  <2>1. k \in 0 .. Len(g)
    BY <1>5, <1>6
  <2> HIDE DEF e, k
  <2>2. Legal(s[k - 1], g[k]) /\ s[k] = After(s[k - 1], g[k]) /\ Good(data, s[k])
    BY <1>4, <1>6, <2>1 DEF FileOf, Replay
  <2> QED BY <1>6, <2>2
<1>8. /\ Legal(dec, e) /\ filled = Filled(s[taken], e) /\ Numbered(dec, e) = Numbered(s[taken], e)
  BY <1>5, <1>7, SameDecoder
<1>9. /\ dec' = IF Len(filled) < BufLen
                THEN [dec EXCEPT !.filled = filled, !.ind2pos = Numbered(dec, e)]
                ELSE [dec EXCEPT !.buf = filled, !.next = 0, !.filled = <<>>,
                                 !.ind2pos = <<>>, !.check = Append(@, filled)]
      /\ stage' = stage /\ result' = result
  BY <1>8 DEF Decode
<1> HIDE DEF filled, e, k
<1>10. s[k] \in Decoders
  BY <1>7 DEF Good
<1>11. dec.check \in Seq(Seq(Byte)) /\ Len(dec.check) \in Nat /\ Len(data) \in Nat
  BY <1>1, <1>3, LenProperties DEF Readers
<1>12. ASSUME Len(filled) < BufLen
       PROVE  /\ dec' \in Readers /\ dec'.filled = s[k].filled /\ dec'.ind2pos = s[k].ind2pos
              /\ dec'.check = s[k].check /\ ~dec'.eof /\ Given'
  <2>1. s[k] = [filled |-> filled, ind2pos |-> Numbered(dec, e), check |-> dec.check]
    BY <1>5, <1>7, <1>8, <1>12 DEF After
  <2> DEFINE ind2pos == Numbered(dec, e)
  <2>2. filled \in Seq(Byte) /\ ind2pos \in Seq(Nat)
    BY <1>10, <2>1 DEF Decoders
  <2>3. dec' = [dec EXCEPT !.filled = filled, !.ind2pos = ind2pos]
    BY <1>9, <1>12
  <2> HIDE DEF ind2pos
  <2>4. /\ dec'.filled = filled /\ dec'.ind2pos = ind2pos /\ dec'.check = dec.check
        /\ dec'.eof = dec.eof /\ dec'.buf = dec.buf /\ dec'.next = dec.next
    BY <1>3, <2>3 DEF Readers
  <2>5. dec' \in Readers
    BY <1>3, <2>2, <2>3 DEF Readers
  <2>6. Done(dec)' = Done(dec)
    BY <2>4 DEF Done
  <2>7. Given'
    BY <1>1, <1>3, <2>4, <2>6 DEF Given
  <2>8. s[k].filled = filled /\ s[k].ind2pos = ind2pos /\ s[k].check = dec.check
    BY <2>1 DEF ind2pos
  <2> QED BY <1>1, <2>4, <2>5, <2>7, <2>8
<1>13. ASSUME ~(Len(filled) < BufLen)
       PROVE  /\ dec' \in Readers /\ dec'.filled = s[k].filled /\ dec'.ind2pos = s[k].ind2pos
              /\ dec'.check = s[k].check /\ ~dec'.eof /\ Given'
  <2> DEFINE check == Append(dec.check, filled)
             m == Len(dec.check)
             base == Done(dec)
  <2>1. s[k] = [filled |-> <<>>, ind2pos |-> <<>>, check |-> check]
    BY <1>5, <1>7, <1>8, <1>13 DEF After
  <2>2. s[k].filled = <<>> /\ s[k].ind2pos = <<>> /\ s[k].check = check
    BY <2>1
  <2>3. Len(check) = m + 1 /\ check[m + 1] = filled
    <3>1. \A S, x : \A c \in Seq(S) : Len(Append(c, x)) = Len(c) + 1 /\ Append(c, x)[Len(c) + 1] = x
      OBVIOUS
    <3> QED BY <1>11, <3>1
  <2>4. check \in Seq(Seq(Byte))
    BY <1>10, <2>2 DEF Decoders
  <2> HIDE DEF check
  <2>5. Done(s[k]) = base + BufLen
    <3>1. \A u, v \in Nat : (u + 1) * v = u * v + v
      OBVIOUS
    <3>2. Done(s[k]) = (m + 1) * BufLen /\ base = m * BufLen
      BY <2>2, <2>3 DEF Done
    <3> QED BY <1>11, <3>1, <3>2, Sizes
  <2>6. filled = Piece(data, base, BufLen) /\ base + BufLen <= Len(data)
    <3>1. m + 1 \in 1 .. Len(s[k].check)
      BY <1>11, <2>2, <2>3
    <3>2. s[k].check[m + 1] = Piece(data, ((m + 1) - 1) * BufLen, BufLen)
      BY <1>7, <3>1 DEF Good
    <3>3. ((m + 1) - 1) * BufLen = base
      <4>1. (m + 1) - 1 = m
        BY <1>11
      <4> QED BY <4>1 DEF Done
    <3>4. Done(s[k]) + Len(s[k].filled) <= Len(data) /\ Len(s[k].filled) = 0
      BY <1>7, <2>2 DEF Good
    <3>5. base \in Nat
      BY <1>5
    <3> HIDE DEF base, m
    <3>6. base + BufLen <= Len(data)
      BY <1>11, <2>5, <3>4, <3>5, Sizes
    <3> QED BY <2>2, <2>3, <3>2, <3>3, <3>6
  <2>7. filled \in Seq(Byte) /\ Len(filled) = BufLen
    <3>1. base \in Nat /\ BufLen \in Nat
      BY <1>5, Sizes
    <3> HIDE DEF base
    <3> QED BY <1>1, <2>6, <3>1, PieceFacts
  <2>8. dec' = [dec EXCEPT !.buf = filled, !.next = 0, !.filled = <<>>, !.ind2pos = <<>>,
                           !.check = check]
    BY <1>9, <1>13 DEF check
  <2>9. <<>> \in Seq(Byte) /\ <<>> \in Seq(Nat)
    BY EmptySeq
  <2>10. dec' \in Readers
    BY <1>3, <2>4, <2>7, <2>8, <2>9 DEF Readers
  <2>11. /\ dec'.filled = <<>> /\ dec'.ind2pos = <<>> /\ dec'.check = check
         /\ dec'.eof = dec.eof /\ dec'.buf = filled /\ dec'.next = 0
    BY <1>3, <2>8 DEF Readers
  <2>12. Len(given) = base /\ given = Piece(data, 0, Len(given)) /\ Len(given) <= Len(data)
    BY <1>1, <1>3, GivenFacts
  <2>13. Done(dec)' = base + BufLen
    <3>1. Done(dec)' = Done(s[k])
      BY <2>2, <2>11 DEF Done
    <3> QED BY <2>5, <3>1
  <2>14. dec'.next \in 0 .. Len(dec'.buf) /\ Len(dec'.buf) <= BufLen
    BY <2>7, <2>11, Sizes
  <2>15. /\ base \in Nat /\ Len(given) = base + 0
    BY <1>5, <2>12
  <2> HIDE DEF base
  <2>16. /\ Len(given') = base + dec'.next /\ dec'.buf = Piece(data', base, Len(dec'.buf))
         /\ base + Len(dec'.buf) = IF dec'.eof THEN Len(data') ELSE Done(dec)'
    BY <1>1, <2>6, <2>7, <2>11, <2>13, <2>15
  <2>17. Given'
    BY <1>1, <2>12, <2>14, <2>15, <2>16 DEF Given
  <2> QED BY <1>1, <2>2, <2>10, <2>11, <2>17
<1>14. /\ dec' \in Readers /\ dec'.filled = s[k].filled /\ dec'.ind2pos = s[k].ind2pos
       /\ dec'.check = s[k].check /\ ~dec'.eof /\ Given'
  BY <1>12, <1>13
<1>15. FileOf(g, s)'
  BY <1>1, <1>4 DEF FileOf
<1>16. ReaderAt(g, s)'
  <2>1. taken' = k /\ file' = file /\ k \in 0 .. Len(file) /\ k <= Len(g)
    BY <1>1, <1>3, <1>5, <1>6 DEF k
  <2> QED BY <1>14, <2>1 DEF ReaderAt
<1>17. Reading'
  BY <1>1, <1>2, <1>3, <1>4, <1>9, <1>14, <1>15, <1>16 DEF Reading
<1> QED BY <1>1, <1>9, <1>17 DEF RoundTripInv

LEMMA PrefixOf ==
  ASSUME NEW S, NEW t \in Seq(S), NEW s, Len(s) \in Nat, Len(s) <= Len(t), s = Piece(t, 0, Len(s))
  PROVE  IsPrefix(s, t)
<1> DEFINE n == Len(s)
<1>1. n \in Nat /\ 0 + n <= Len(t) /\ s = Piece(t, 0, n)
  OBVIOUS
<1> HIDE DEF n
<1>2. s \in Seq(S)
  BY <1>1, PieceFacts
<1>3. SubSeq(s, 1, Len(s)) = s
  BY <1>2, SubSeqFull
<1>4. SubSeq(t, 1, Len(s)) = s
  <2>1. ASSUME NEW z \in Nat, z = 0 PROVE s = SubSeq(t, 1, n)
    <3>1. z + 1 = 1 /\ z + n = n /\ s = Piece(t, z, n)
      BY <1>1, <2>1
    <3> QED BY <3>1 DEF Piece
  <2> QED BY <2>1 DEF n
<1> QED BY <1>3, <1>4 DEF IsPrefix

(* What was given is the beginning of data, and all of it when it is as long. *)
LEMMA GivenIsPrefix ==
  ASSUME data \in Seq(Byte), dec \in Readers, Given
  PROVE  /\ Len(dec.buf) <= BufLen /\ IsPrefix(given, data)
         /\ Len(given) = Len(data) => given = data
<1>1. Len(given) <= Len(data) /\ given = Piece(data, 0, Len(given)) /\ Len(dec.buf) <= BufLen
  BY DEF Given
<1>2. Len(given) \in Nat
  <2>1. PICK pos \in Nat : Len(given) = pos + dec.next
    BY DEF Given
  <2>2. dec.next \in Nat
    BY DEF Readers
  <2> QED BY <2>1, <2>2
<1>3. IsPrefix(given, data)
  BY <1>1, <1>2, PrefixOf
<1>4. Len(given) = Len(data) => given = data
  BY <1>1, WholePiece
<1> QED BY <1>1, <1>3, <1>4

LEMMA CheckHashStep == RoundTripInv /\ CheckHash => RoundTripInv'
<1> SUFFICES ASSUME RoundTripInv, CheckHash PROVE RoundTripInv'
  OBVIOUS
<1>1. /\ data \in Seq(Byte) /\ stage = "reading" /\ dec.next = Len(dec.buf) /\ ~dec.eof
      /\ taken < Len(file) /\ file[taken + 1].tag = 0 /\ taken' = taken + 1
      /\ UNCHANGED <<data, put, enc, file, cut, client, given>>
  BY DataBytes DEF CheckHash, Decoding, Wants
<1>2. Reading
  BY <1>1 DEF RoundTripInv
<1>3. dec \in Readers /\ Given /\ result = "none" /\ Len(file) \in Nat
  BY <1>2, LenProperties DEF Reading
<1>4. PICK g, s : g \in Seq(Elems) /\ FileOf(g, s) /\ ReaderAt(g, s)
  BY <1>2 DEF Reading
<1>5. /\ taken \in 0 .. Len(g) /\ Len(g) \in Nat /\ Good(data, s[taken])
      /\ dec.filled = s[taken].filled /\ dec.ind2pos = s[taken].ind2pos
      /\ dec.check = s[taken].check
      /\ Done(dec) = Done(s[taken]) /\ Done(dec) \in Nat
      /\ Len(dec.filled) \in Nat /\ Done(dec) + Len(dec.filled) <= Len(data)
  BY <1>1, <1>3, <1>4, ReaderFacts
(* The element is the end of the file, which therefore was not cut. *)
<1>6. taken = Len(g) /\ Len(file) = Len(g) + 1 /\ ~cut /\ file[taken + 1].hash = Checks(s[Len(g)])
  <2> DEFINE k == taken + 1
  <2>1. k \in 1 .. Len(file)
    BY <1>1, <1>3, <1>5
  <2>2. file[k] = IF k <= Len(g) THEN g[k] ELSE [tag |-> 0, hash |-> Checks(s[Len(g)])]
    BY <1>4, <2>1 DEF FileOf
  <2>3. ASSUME k <= Len(g) PROVE FALSE
    <3>1. k \in 1 .. Len(g)
      BY <1>5, <2>3
    <3> HIDE DEF k
    <3>2. g[k].tag # 0
      BY <1>4, <3>1 DEF FileOf, Replay
    <3> QED BY <1>1, <2>2, <2>3, <3>2 DEF k
  <2>4. Len(file) <= Len(g) + 1 /\ cut = (Len(file) <= Len(g))
    BY <1>4 DEF FileOf
  <2>5. taken = Len(g) /\ Len(file) = Len(g) + 1
    BY <1>1, <1>3, <1>5, <2>3, <2>4
  <2>6. ~(Len(file) <= Len(g))
    BY <1>5, <2>5
  <2>7. file[k].hash = Checks(s[Len(g)])
    BY <2>2, <2>3
  <2> QED BY <2>4, <2>5, <2>6, <2>7
<1> DEFINE check == IF dec.filled = <<>> THEN dec.check ELSE Append(dec.check, dec.filled)
<1>7. check = file[taken + 1].hash /\ taken + 1 = Len(file)
  BY <1>5, <1>6 DEF Checks
<1>8. /\ dec' = [dec EXCEPT !.buf = dec.filled, !.next = 0, !.check = check, !.eof = TRUE]
      /\ stage' = stage /\ result' = result
  BY <1>7 DEF CheckHash
<1>9. check \in Seq(Seq(Byte)) /\ dec.filled \in Seq(Byte)
  <2>1. dec.check \in Seq(Seq(Byte)) /\ dec.filled \in Seq(Byte)
    BY <1>3 DEF Readers
  <2> QED BY <2>1, AppendProperties
<1> HIDE DEF check
<1>10. dec' \in Readers /\ dec'.buf = dec.filled /\ dec'.next = 0 /\ dec'.eof
  BY <1>3, <1>8, <1>9 DEF Readers
<1>11. Given'
  <2>1. Len(given) = Done(dec) /\ given = Piece(data, 0, Len(given)) /\ Len(given) <= Len(data)
    BY <1>1, <1>3, GivenFacts
  <2>2. Done(dec) + Len(dec.filled) = Len(data)
    BY <1>4, <1>5, <1>6 DEF FileOf
  <2>3. dec.filled = Piece(data, Done(dec), Len(dec.filled)) /\ Len(dec.filled) < BufLen
    BY <1>5 DEF Good
  <2> DEFINE pos == Done(dec)
             b == dec.filled
  <2>4. pos \in Nat /\ Len(b) \in Nat /\ Len(given) = pos /\ pos + Len(b) = Len(data)
        /\ b = Piece(data, pos, Len(b)) /\ Len(b) < BufLen
    BY <1>5, <2>1, <2>2, <2>3
  <2>5. dec'.buf = b
    BY <1>10
  <2> HIDE DEF pos, b
  <2>6. /\ Len(given') = pos + dec'.next /\ dec'.buf = Piece(data', pos, Len(dec'.buf))
        /\ pos + Len(dec'.buf) = IF dec'.eof THEN Len(data') ELSE Done(dec)'
    BY <1>1, <1>10, <2>4, <2>5
  <2>7. dec'.next \in 0 .. Len(dec'.buf) /\ Len(dec'.buf) <= BufLen
    BY <1>10, <2>4, <2>5, Sizes
  <2> QED BY <1>1, <2>1, <2>4, <2>6, <2>7 DEF Given
<1>12. FileOf(g, s)'
  BY <1>1, <1>4 DEF FileOf
<1>13. ReaderAt(g, s)'
  <2>1. taken' = Len(file') /\ taken' \in 0 .. Len(file') /\ ~cut'
    BY <1>1, <1>3, <1>6, <1>7
  <2> QED BY <1>10, <2>1 DEF ReaderAt
<1>14. Reading'
  BY <1>1, <1>2, <1>3, <1>4, <1>8, <1>10, <1>11, <1>12, <1>13 DEF Reading
<1> QED BY <1>1, <1>8, <1>14 DEF RoundTripInv

LEMMA CutOffStep == RoundTripInv /\ CutOff => RoundTripInv'
<1> SUFFICES ASSUME RoundTripInv, CutOff PROVE RoundTripInv'
  OBVIOUS
<1>1. /\ data \in Seq(Byte) /\ stage = "reading" /\ ~dec.eof /\ taken = Len(file)
      /\ stage' = "ended" /\ result' = "refused"
      /\ UNCHANGED <<data, put, enc, file, cut, client, taken, dec, given>>
  BY DataBytes DEF CutOff, Decoding, Wants, Refuse
<1>2. Reading
  BY <1>1 DEF RoundTripInv
<1>3. dec \in Readers /\ Given
  BY <1>2 DEF Reading
<1>4. PICK g, s : g \in Seq(Elems) /\ FileOf(g, s) /\ ReaderAt(g, s)
  BY <1>2 DEF Reading
<1>5. cut
  BY <1>1, <1>4 DEF FileOf, ReaderAt
<1>6. Len(dec.buf) <= BufLen /\ IsPrefix(given, data)
  BY <1>1, <1>3, GivenIsPrefix
<1>7. RoundTrip'
  BY <1>1, <1>5, <1>6 DEF RoundTrip
<1> QED BY <1>1, <1>7 DEF RoundTripInv

(* The client has all it wants. When the file was not cut, MIR_read has not taken    *)
(* its end only if no buffer but full ones were there.                            *)
LEMMA EndedStep == RoundTripInv /\ Ended => RoundTripInv'
<1> SUFFICES ASSUME RoundTripInv, Ended PROVE RoundTripInv'
  OBVIOUS
<1>1. /\ data \in Seq(Byte) /\ stage = "reading" /\ stage' = "ended"
      /\ IF client = "MIR_read" THEN Len(given) = Len(data)
         ELSE dec.next = Len(dec.buf) /\ dec.eof
      /\ \/ taken = Len(file) /\ result' = "accepted"
         \/ (taken < Len(file) \/ cut) /\ result' = "refused"
      /\ UNCHANGED <<data, put, enc, file, cut, client, taken, dec, given>>
  BY DataBytes DEF Ended
<1>2. Reading
  BY <1>1 DEF RoundTripInv
<1>3. dec \in Readers /\ Given /\ Len(file) \in Nat /\ Len(data) \in Nat
  BY <1>1, <1>2, LenProperties DEF Reading
<1>4. PICK g, s : g \in Seq(Elems) /\ FileOf(g, s) /\ ReaderAt(g, s)
  BY <1>2 DEF Reading
<1>5. Len(dec.buf) <= BufLen /\ IsPrefix(given, data) /\ (Len(given) = Len(data) => given = data)
  BY <1>1, <1>3, GivenIsPrefix
<1>6. PICK pos \in Nat : /\ Len(given) = pos + dec.next
                         /\ pos + Len(dec.buf) = IF dec.eof THEN Len(data) ELSE Done(dec)
  BY <1>3 DEF Given
<1>7. given = data
  <2>1. CASE client = "MIR_read"
    BY <1>1, <1>5, <2>1
  <2>2. CASE client # "MIR_read"
    BY <1>1, <1>5, <1>6, <2>2
  <2> QED BY <2>1, <2>2
<1>8. ASSUME result' = "refused", ~cut
      PROVE  client = "MIR_read" /\ Len(data) % BufLen = 0
  <2>1. taken < Len(file)
    BY <1>1, <1>8
  <2>2. ~dec.eof
    <3>1. dec.eof => taken = Len(file)
      BY <1>4 DEF ReaderAt
    <3> QED BY <1>3, <2>1, <3>1
  <2>3. client = "MIR_read" /\ Len(given) = Len(data)
    BY <1>1, <2>2
  <2>4. Done(dec) \in Nat /\ Len(dec.filled) \in Nat /\ Done(dec) + Len(dec.filled) <= Len(data)
    BY <1>1, <1>3, <1>4, <2>2, ReaderFacts
  <2>5. Len(data) = Done(dec)
    <3>1. dec.next \in 0 .. Len(dec.buf) /\ Len(dec.buf) \in Nat
      BY <1>3, LenProperties DEF Given, Readers
    <3>2. pos + dec.next <= pos + Len(dec.buf) /\ pos + Len(dec.buf) = Done(dec)
      BY <1>6, <2>2, <3>1
    <3>3. Len(data) <= Done(dec)
      BY <1>6, <2>3, <3>2
    <3> QED BY <1>3, <2>4, <3>3
  <2>6. Len(dec.check) \in Nat
    BY <1>3, LenProperties DEF Readers
  <2>7. \A u \in Nat, v \in Nat \ {0} : (u * v) % v = 0
    OBVIOUS
  <2>8. Done(dec) % BufLen = 0
    BY <2>6, <2>7, Sizes DEF Done
  <2> QED BY <2>3, <2>5, <2>8
<1>9. RoundTrip'
  <2>1. (result' = "refused" => cut' \/ (client' = "MIR_read" /\ Len(data') % BufLen = 0))
    BY <1>1, <1>8
  <2> QED BY <1>1, <1>5, <1>7, <2>1 DEF RoundTrip
<1> QED BY <1>1, <1>9 DEF RoundTripInv

(* The decoder replays what the encoder has written: the invariant of the writer and  *)
(* of the reader (reduce_encode_put, reduce_encode_finish, reduce_decode_get).        *)
THEOREM ReplayInvariant == Spec => []RoundTripInv
<1>1. Init => RoundTripInv
  <2> SUFFICES ASSUME Init PROVE RoundTripInv
    OBVIOUS
  <2>1. /\ data \in Inputs /\ client \in {"MIR_read", "reduce_decode"} /\ stage = "putting"
        /\ put = 0 /\ enc = Fresh /\ file = <<>>
        /\ cut = FALSE /\ taken = 0 /\ given = <<>> /\ result = "none"
        /\ dec = [buf |-> <<>>, next |-> 0, filled |-> <<>>, ind2pos |-> <<>>,
                  check |-> <<>>, eof |-> FALSE]
    BY DEF Init
  <2>2. data \in Seq(Byte) /\ Len(data) \in Nat
    BY <2>1, FileAssumption, LenProperties
  <2> DEFINE s == [k \in 0 .. 0 |-> Blank]
  <2>3. s[0] = Blank /\ Len(file) = 0 /\ file \in Seq(Elems)
    BY <2>1, EmptySeq
  <2> HIDE DEF s
  <2>4. Done(Blank) = 0 /\ Len(Blank.filled) = 0 /\ Len(Blank.check) = 0
    <3>1. Len(Blank.filled) = 0 /\ Len(Blank.check) = 0
      BY DEF Blank
    <3>2. 0 * BufLen = 0
      BY Sizes
    <3> QED BY <3>1, <3>2 DEF Done
  <2>5. Good(data, Blank)
    <3>1. Blank \in Decoders
      BY EmptySeq DEF Blank, Decoders
    <3>2. Blank.filled = Piece(data, 0, 0)
      BY <2>2, EmptyPiece DEF Blank
    <3>3. 0 < BufLen /\ 0 + 0 <= Len(data)
      BY <2>2, Sizes
    <3> QED BY <2>4, <3>1, <3>2, <3>3 DEF Good
  <2>6. Replay(data, file, s)
    BY <2>3, <2>5 DEF Replay
  <2>7. Collecting(data, enc, put, Blank)
    <3> DEFINE b == <<>>
               c == <<>>
    <3>1. b \in Seq(Byte) /\ c \in Seq(Seq(Byte)) /\ Len(b) = 0
      BY EmptySeq
    <3>2. enc = Renewed(b, c)
      BY <2>1, FreshRenewed
    <3> HIDE DEF b, c
    <3>3. enc \in Encoders /\ enc.buf = b
      BY <3>1, <3>2, FreshFacts
    <3>4. Blank.check = c /\ Blank.filled = <<>> /\ Blank.ind2pos = <<>>
      BY DEF Blank, c
    <3>5. b = Piece(data, 0, 0)
      BY <2>2, EmptyPiece DEF b
    <3>6. put = 0 + 0 /\ put <= Len(data) /\ 0 <= BufLen
      BY <2>1, <2>2, Sizes
    <3>7. Buffered(data, enc, put, Blank)
      BY <2>4, <2>5, <3>1, <3>3, <3>5, <3>6 DEF Buffered
    <3> QED BY <3>2, <3>3, <3>4, <3>7 DEF Collecting
  <2>8. Writing
    BY <2>1, <2>3, <2>6, <2>7 DEF Writing
  <2> QED BY <2>1, <2>8 DEF RoundTripInv
<1>2. RoundTripInv /\ [Next]_vars => RoundTripInv'
  <2> SUFFICES ASSUME RoundTripInv, [Next]_vars PROVE RoundTripInv'
    OBVIOUS
  <2>1. CASE Next
    BY <2>1, PutStep, OutputByteStep, OutputRefStep, NextBufferStep, FinishStep, OpenStep,
       GiveStep, DecodeStep, CheckHashStep, CutOffStep, EndedStep DEF Next
  <2>2. CASE UNCHANGED vars
    <3>1. UNCHANGED <<data, put, stage, enc, file, cut, client, taken, dec, given, result>>
      BY <2>2 DEF vars
    <3>2. Writing => Writing'
      BY <3>1 DEF Writing
    <3>3. Reading => Reading'
      BY <3>1 DEF Reading, Given, FileOf, ReaderAt, Done
    <3>4. RoundTrip => RoundTrip'
      BY <3>1 DEF RoundTrip
    <3> QED BY <3>1, <3>2, <3>3, <3>4 DEF RoundTripInv
  <2> QED BY <2>1, <2>2
<1> QED BY <1>1, <1>2, PTL DEF Spec

(* What is read is what was written, and only what was cut is refused, but for the    *)
(* full last buffer of MIR_read (mir-reduce.h:309-432, mir.c:5165).                  *)
THEOREM ReadsWhatWasWritten == Spec => []RoundTrip
<1>1. RoundTripInv => RoundTrip
  <2> SUFFICES ASSUME RoundTripInv PROVE RoundTrip
    OBVIOUS
  <2>1. data \in Seq(Byte)
    BY DataBytes
  <2>2. CASE Writing
    <3>1. given = <<>> /\ result = "none" /\ dec.buf = <<>>
      BY <2>2 DEF Writing
    <3>2. IsPrefix(given, data)
      <4>1. <<>> = Piece(data, 0, 0) /\ Len(<<>>) = 0 /\ 0 \in Nat /\ 0 <= Len(data)
        BY <2>1, EmptyPiece, LenProperties
      <4> QED BY <2>1, <3>1, <4>1, PrefixOf
    <3>3. Len(dec.buf) <= BufLen
      BY <3>1, Sizes
    <3> QED BY <3>1, <3>2, <3>3 DEF RoundTrip
  <2>3. CASE Reading
    <3>1. result = "none" /\ dec \in Readers /\ Given
      BY <2>3 DEF Reading
    <3>2. Len(dec.buf) <= BufLen /\ IsPrefix(given, data)
      BY <2>1, <3>1, GivenIsPrefix
    <3> QED BY <3>1, <3>2 DEF RoundTrip
  <2> QED BY <2>2, <2>3 DEF RoundTripInv
<1> QED BY <1>1, ReplayInvariant, PTL
==============================================================================
