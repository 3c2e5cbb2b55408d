--------------------------- MODULE PrefixesProofs ---------------------------
(***************************************************************************)
(* The proof that interval_prefixes decomposes every interval, of any      *)
(* width of addresses, into the fewest prefixes.                           *)
(*                                                                         *)
(* The loop is a recursive function and 2^k is one, too.  Inductions are   *)
(* taken over sets of numbers (NatSetInduction, from the well-foundedness  *)
(* of the natural numbers).  That two prefixes are nested or apart         *)
(* (Nested, Apart) makes the largest prefix at the first address one of    *)
(* the maximal ones, and the maximal ones behind it those of the rest of   *)
(* the interval (FirstAndRest): so Minimal satisfies the equation of the   *)
(* recursion, whose only solution on an interval it is.  MinimalIsFewest   *)
(* says that no other decomposition is smaller.                            *)
(***************************************************************************)
EXTENDS Prefixes, Integers, FiniteSetTheorems, WellFoundedInduction, TLAPS

-----------------------------------------------------------------------------
(* Induction over sets of numbers.                                         *)

\* A set of numbers that is not empty has a least one.
LEMMA LeastNumber ==
    ASSUME NEW S, S \subseteq Nat, S # {}
    PROVE  \E x \in S : \A y \in S : x <= y
<1> DEFINE Less == {pair \in Nat \X Nat : pair[1] < pair[2]}
<1>1. IsWellFoundedOn(Less, Nat)
  BY NatLessThanWellFounded DEF OpToRel
<1>2. \A y, x \in Nat : y < x => <<y, x>> \in Less
  OBVIOUS
<1>3. PICK x \in S : \A y \in S : ~(<<y, x>> \in Less)
  <2> HIDE DEF Less
  <2> QED
    BY <1>1, WFMin
<1>4. ASSUME NEW y \in S PROVE x <= y
  <2>1. x \in Nat /\ y \in Nat
    OBVIOUS
  <2>2. ~(y < x)
    BY <1>2, <1>3, <2>1
  <2> QED
    BY <2>1, <2>2
<1> QED
  BY <1>4

\* A set that holds 0 and the successor of every number it holds, holds them
\* all: otherwise the least number it lacks would have a predecessor in it.
LEMMA NatSetInduction ==
    ASSUME NEW S, S \subseteq Nat, 0 \in S, \A n \in S : n + 1 \in S
    PROVE  S = Nat
<1>1. SUFFICES ASSUME Nat \ S # {} PROVE FALSE
  OBVIOUS
<1>2. PICK x \in Nat \ S : \A y \in Nat \ S : x <= y
  BY <1>1, LeastNumber
<1>3. x - 1 \in Nat /\ x - 1 \notin Nat \ S
  BY <1>2
<1> QED
  BY <1>2, <1>3

-----------------------------------------------------------------------------
(* Powers of two: Pow2 is the function its definition describes.           *)

\* g doubles with every step up to n.
Doubles(g, n) == \A k \in 0..n : g[k] = IF k = 0 THEN 1 ELSE 2 * g[k - 1]

\* Such functions exist, agree with one another, and their union is Pow2.
LEMMA Pow2Exists == \A n \in Nat : \E g \in [Nat -> Nat \ {0}] : Doubles(g, n)
<1> DEFINE S == {n \in Nat : \E g \in [Nat -> Nat \ {0}] : Doubles(g, n)}
<1>1. 0 \in S
  <2>1. [k \in Nat |-> 1] \in [Nat -> Nat \ {0}] /\ Doubles([k \in Nat |-> 1], 0)
    BY DEF Doubles
  <2> QED
    BY <2>1
<1>2. ASSUME NEW n \in S PROVE n + 1 \in S
  <2>1. PICK g \in [Nat -> Nat \ {0}] : Doubles(g, n)
    OBVIOUS
  <2> DEFINE h == [k \in Nat |-> IF k <= n THEN g[k] ELSE 2 * g[n]]
  <2>2. h \in [Nat -> Nat \ {0}]
    OBVIOUS
  <2>3. Doubles(h, n + 1)
    <3> SUFFICES ASSUME NEW k \in 0..(n + 1) PROVE h[k] = IF k = 0 THEN 1 ELSE 2 * h[k-1]
      BY DEF Doubles
    <3>1. CASE k <= n
      BY <2>1, <3>1 DEF Doubles
    <3>2. CASE k = n + 1
      BY <2>1, <3>2 DEF Doubles
    <3> QED
      BY <3>1, <3>2
  <2> QED
    BY <2>2, <2>3
<1> HIDE DEF S
<1>3. S = Nat
  <2>1. S \subseteq Nat
    BY DEF S
  <2> QED
    BY <1>1, <1>2, <2>1, NatSetInduction
<1> QED
  BY <1>3 DEF S

LEMMA Pow2Agree ==
    ASSUME NEW n \in Nat, NEW m \in Nat, n <= m,
           NEW g, Doubles(g, n), NEW h, Doubles(h, m)
    PROVE  \A k \in 0..n : g[k] = h[k]
<1> DEFINE S == {k \in Nat : k <= n => g[k] = h[k]}
<1>1. 0 \in S
  BY DEF Doubles
<1>2. ASSUME NEW k \in S PROVE k + 1 \in S
  <2> SUFFICES ASSUME k + 1 <= n PROVE g[k + 1] = h[k + 1]
    OBVIOUS
  <2>1. k + 1 \in 0..n /\ k + 1 \in 0..m /\ k + 1 # 0 /\ (k + 1) - 1 = k
    OBVIOUS
  <2>2. g[k] = h[k]
    OBVIOUS
  <2>3. g[k+1] = 2 * g[k] /\ h[k+1] = 2 * h[k]
    BY <2>1 DEF Doubles
  <2> QED
    BY <2>2, <2>3
<1> HIDE DEF S
<1>3. S = Nat
  <2>1. S \subseteq Nat
    BY DEF S
  <2> QED
    BY <1>1, <1>2, <2>1, NatSetInduction
<1> QED
  BY <1>3 DEF S

LEMMA Pow2Def == Pow2 = [k \in Nat |-> IF k = 0 THEN 1 ELSE 2 * Pow2[k - 1]]
<1> DEFINE Up(n) == CHOOSE g \in [Nat -> Nat \ {0}] : Doubles(g, n)
<1> DEFINE p == [k \in Nat |-> Up(k)[k]]
<1>1. \A n \in Nat : Up(n) \in [Nat -> Nat \ {0}] /\ Doubles(Up(n), n)
  BY Pow2Exists
<1>2. \A k \in Nat : p[k] = IF k = 0 THEN 1 ELSE 2 * p[k - 1]
  <2> HIDE DEF Up
  <2> SUFFICES ASSUME NEW k \in Nat PROVE p[k] = IF k = 0 THEN 1 ELSE 2 * p[k - 1]
    OBVIOUS
  <2>1. CASE k = 0
    <3>1. Up(0)[0] = 1
      <4>1. 0 \in Nat /\ 0 \in 0..0
        OBVIOUS
      <4>2. Doubles(Up(0), 0)
        BY <1>1, <4>1
      <4> QED
        BY <4>1, <4>2 DEF Doubles
    <3> QED
      BY <2>1, <3>1
  <2>2. CASE k # 0
    <3>1. k - 1 \in Nat /\ k - 1 <= k /\ k - 1 \in 0..(k - 1)
      BY <2>2
    <3>2. Up(k)[k] = 2 * Up(k)[k - 1]
      BY <1>1, <2>2 DEF Doubles
    <3>3. Up(k - 1)[k - 1] = Up(k)[k - 1]
      BY <1>1, <3>1, Pow2Agree
    <3> QED
      BY <2>2, <3>1, <3>2, <3>3
  <2> QED
    BY <2>1, <2>2
<1> DEFINE q == [k \in Nat |-> IF k = 0 THEN 1 ELSE 2 * p[k - 1]]
<1>3. p = q
  <2>1. \A k \in Nat : p[k] = q[k]
    BY <1>2
  <2> QED
    BY <2>1
<1> HIDE DEF p
<1> QED
  BY <1>3 DEF Pow2

LEMMA Pow2Type ==
    /\ Pow2 \in [Nat -> Nat \ {0}]
    /\ Pow2[0] = 1
    /\ \A k \in Nat : Pow2[k+1] = 2 * Pow2[k]
<1>1. Pow2[0] = 1 /\ \A k \in Nat : Pow2[k+1] = 2 * Pow2[k]
  <2> HIDE DEF Pow2
  <2>1. Pow2[0] = 1
    BY Pow2Def
  <2>2. ASSUME NEW k \in Nat PROVE Pow2[k+1] = 2 * Pow2[k]
    <3>1. k + 1 \in Nat /\ k + 1 # 0 /\ (k+1) - 1 = k
      OBVIOUS
    <3>2. Pow2[k+1] = IF k + 1 = 0 THEN 1 ELSE 2 * Pow2[(k+1)-1]
      BY <3>1, Pow2Def
    <3> QED
      BY <3>1, <3>2
  <2> QED
    BY <2>1, <2>2
<1> DEFINE S == {k \in Nat : Pow2[k] \in Nat \ {0}}
<1> HIDE DEF Pow2
<1>2. S = Nat
  <2>1. 0 \in S
    BY <1>1
  <2>2. ASSUME NEW k \in S PROVE k + 1 \in S
    BY <1>1
  <2> HIDE DEF S
  <2>3. S \subseteq Nat
    BY DEF S
  <2> QED
    BY <2>1, <2>2, <2>3, NatSetInduction
<1>3. Pow2 \in [Nat -> Nat \ {0}]
  BY <1>2, Pow2Def
<1> QED
  BY <1>1, <1>3

-----------------------------------------------------------------------------
(* Divisibility.                                                           *)

\* Divisibility by a number, with a quotient for a witness.
LEMMA MultipleOf ==
    ASSUME NEW n \in Nat, NEW d \in Nat \ {0}
    PROVE  n % d = 0 <=> \E m \in Nat : n = m * d
<1>1. ASSUME n % d = 0 PROVE \E m \in Nat : n = m * d
  <2>1. n = (n \div d) * d + (n % d) /\ n \div d \in Nat
    OBVIOUS
  <2> QED
    BY <1>1, <2>1
<1>2. ASSUME NEW m \in Nat, n = m * d PROVE n % d = 0
  BY <1>2
<1> QED
  BY <1>1, <1>2

LEMMA NextMultiple ==
    ASSUME NEW d \in Nat \ {0}, NEW m \in Nat, NEW n \in Nat, m * d < n * d
    PROVE  m * d + d <= n * d
<1>1. m < n
  <2> SUFFICES ASSUME n <= m PROVE FALSE
    OBVIOUS
  <2>1. m - n \in Nat /\ (m - n) * d >= 0 /\ m * d = n * d + (m - n) * d
    OBVIOUS
  <2> QED
    BY <2>1
<1>2. n - m - 1 \in Nat
  BY <1>1
<1>3. (n - m - 1) * d >= 0
  BY <1>2
<1>4. n * d = m * d + d + (n - m - 1) * d
  BY <1>1
<1> QED
  BY <1>3, <1>4

\* A power of two divides the larger ones.
LEMMA Pow2Divides ==
    ASSUME NEW j \in Nat, NEW k \in Nat, j <= k
    PROVE  /\ \E m \in Nat \ {0} : Pow2[k] = m * Pow2[j]
           /\ Pow2[j] <= Pow2[k]
           /\ j < k => Pow2[j] < Pow2[k]
<1> DEFINE Divided(i) == \E m \in Nat \ {0} : Pow2[j + i] = m * Pow2[j] /\ (i > 0 => m > 1)
<1> DEFINE S == {i \in Nat : Divided(i)}
<1> USE Pow2Type
<1>1. 0 \in S
  <2>1. Pow2[j + 0] = 1 * Pow2[j]
    OBVIOUS
  <2> QED
    BY <2>1
<1>2. ASSUME NEW i \in S PROVE i + 1 \in S
  <2>1. PICK m \in Nat \ {0} : Pow2[j + i] = m * Pow2[j]
    OBVIOUS
  <2>2. j + i \in Nat /\ j + (i + 1) = (j + i) + 1
    OBVIOUS
  <2>3. Pow2[j + (i + 1)] = 2 * Pow2[j + i]
    BY <2>2
  <2>4. Pow2[j + (i + 1)] = (2 * m) * Pow2[j] /\ 2 * m > 1 /\ 2 * m \in Nat \ {0}
    BY <2>1, <2>3
  <2> QED
    BY <2>4
<1> HIDE DEF S
<1>3. S = Nat
  <2>1. S \subseteq Nat
    BY DEF S
  <2> QED
    BY <1>1, <1>2, <2>1, NatSetInduction
<1>4. k - j \in S
  BY <1>3
<1>5. PICK m \in Nat \ {0} : Pow2[k] = m * Pow2[j] /\ (k - j > 0 => m > 1)
  <2>1. j + (k - j) = k
    OBVIOUS
  <2> QED
    BY <1>4, <2>1 DEF S
<1>6. Pow2[j] \in Nat \ {0}
  OBVIOUS
<1>7. m * Pow2[j] >= Pow2[j] /\ (m > 1 => m * Pow2[j] > Pow2[j])
  BY <1>6
<1> QED
  BY <1>5, <1>7

LEMMA SamePower ==
    ASSUME NEW j \in Nat, NEW k \in Nat, Pow2[j] = Pow2[k]
    PROVE  j = k
<1>1. Pow2[j] \in Nat /\ Pow2[k] \in Nat
  BY Pow2Type
<1>2. j < k => Pow2[j] < Pow2[k]
  BY Pow2Divides
<1>3. k < j => Pow2[k] < Pow2[j]
  BY Pow2Divides
<1> QED
  BY <1>1, <1>2, <1>3

LEMMA DividesSmaller ==
    ASSUME NEW n \in Nat, NEW j \in Nat, NEW k \in Nat, j <= k, n % Pow2[k] = 0
    PROVE  n % Pow2[j] = 0
<1> USE Pow2Type
<1>1. PICK m \in Nat : n = m * Pow2[k]
  BY MultipleOf
<1>2. PICK i \in Nat \ {0} : Pow2[k] = i * Pow2[j]
  BY Pow2Divides
<1>3. n = (m * i) * Pow2[j] /\ m * i \in Nat
  BY <1>1, <1>2
<1> QED
  BY <1>3, MultipleOf

\* Multiples of a power of two are at least that far apart.
LEMMA Apart ==
    ASSUME NEW a \in Nat, NEW b \in Nat, NEW k \in Nat, a < b, a % Pow2[k] = 0, b % Pow2[k] = 0
    PROVE  a + Pow2[k] <= b
<1> USE Pow2Type
<1>1. PICK m \in Nat : a = m * Pow2[k]
  BY MultipleOf
<1>2. PICK n \in Nat : b = n * Pow2[k]
  BY MultipleOf
<1> QED
  BY <1>1, <1>2, NextMultiple

\* A prefix that begins inside another one ends in it.
LEMMA Nested ==
    ASSUME NEW a \in Nat, NEW b \in Nat, NEW j \in Nat, NEW k \in Nat, j <= k,
           a % Pow2[j] = 0, b % Pow2[k] = 0, a < b + Pow2[k]
    PROVE  a + Pow2[j] <= b + Pow2[k]
<1> USE Pow2Type
<1>1. Pow2[k] \in Nat /\ Pow2[j] \in Nat \ {0}
  OBVIOUS
<1>2. b % Pow2[j] = 0 /\ \E m \in Nat \ {0} : Pow2[k] = m * Pow2[j]
  BY DividesSmaller, Pow2Divides
<1>3. PICK m \in Nat : b = m * Pow2[j]
  BY <1>2, MultipleOf
<1>4. PICK n \in Nat : Pow2[k] = n * Pow2[j]
  BY <1>2
<1>5. b + Pow2[k] = (m + n) * Pow2[j] /\ m + n \in Nat
  BY <1>3, <1>4
<1>6. (b + Pow2[k]) % Pow2[j] = 0
  <2>1. \E i \in Nat : b + Pow2[k] = i * Pow2[j]
    BY <1>5
  <2>2. b + Pow2[k] \in Nat
    BY <1>1
  <2> HIDE Pow2Type
  <2> QED
    BY <1>1, <2>1, <2>2, MultipleOf
<1> DEFINE c == b + Pow2[k]
<1>7. c \in Nat /\ a < c /\ c % Pow2[j] = 0
  BY <1>1, <1>6
<1> HIDE DEF c
<1>8. a + Pow2[j] <= c
  BY <1>7, Apart
<1> QED
  BY <1>8 DEF c

LEMMA BelowModulus ==
    ASSUME NEW n \in Nat, NEW d \in Nat, n < d
    PROVE  n % d = n
OBVIOUS

-----------------------------------------------------------------------------
(* The largest prefix at an address.                                       *)

LEMMA MaxOf ==
    ASSUME NEW w \in Nat, NEW S, S \subseteq 0..w, S # {}
    PROVE  Max(S) \in S /\ \A k \in S : k <= Max(S)
<1> DEFINE T == {w - k : k \in S}
<1>1. PICK t \in T : \A u \in T : t <= u
  <2>1. T # {}
    OBVIOUS
  <2>2. \A k \in S : w - k \in Nat
    OBVIOUS
  <2>3. T \subseteq Nat
    BY <2>2
  <2> HIDE DEF T
  <2> QED
    BY <2>1, <2>3, LeastNumber
<1>2. PICK k \in S : t = w - k
  OBVIOUS
<1>3. \A j \in S : k >= j
  <2> TAKE j \in S
  <2>1. w - k <= w - j
    BY <1>1, <1>2
  <2>2. k \in Nat /\ j \in Nat
    OBVIOUS
  <2> QED
    BY <2>1, <2>2
<1>4. Max(S) \in S /\ \A j \in S : Max(S) >= j
  BY <1>3 DEF Max
<1> QED
  BY <1>4

LEMMA MinOfTwo ==
    ASSUME NEW a \in Nat, NEW b \in Nat
    PROVE  Min({a, b}) \in {a, b} /\ Min({a, b}) <= a /\ Min({a, b}) <= b
<1>1. \E x \in {a, b} : \A y \in {a, b} : x <= y
  <2>1. CASE a <= b
    BY <2>1
  <2>2. CASE b <= a
    BY <2>2
  <2> QED
    BY <2>1, <2>2
<1>2. Min({a, b}) \in {a, b} /\ \A y \in {a, b} : Min({a, b}) <= y
  BY <1>1 DEF Min
<1> QED
  BY <1>2

\* A prefix of k host bits begins at start and stays inside the interval.
BeginsAt(start, end, width, k) ==
    k \in 0..width /\ start % Pow2[k] = 0 /\ start + Pow2[k] - 1 <= end

\* The code takes the largest prefix that begins at start.
LEMMA LargestPrefix ==
    ASSUME NEW family, NEW width \in Nat, NEW start \in Nat, NEW end \in Nat, start <= end,
           Remaining(family, start, end, width) = end - start + 1
    PROVE  LET bits == HostBits(family, start, end, width)
           IN  /\ BeginsAt(start, end, width, bits)
               /\ \A k : BeginsAt(start, end, width, k) => k <= bits
<1> USE Pow2Type
<1> DEFINE align == Alignment(start, width)
           n == end - start + 1
           fit == HighestBit(n, width)
<1>1. /\ align \in 0..width /\ start % Pow2[align] = 0
      /\ \A k \in 0..width : start % Pow2[k] = 0 => k <= align
  <2>1. CASE start = 0
    <3>1. Pow2[width] \in Nat \ {0} /\ 0 % Pow2[width] = 0
      OBVIOUS
    <3> QED
      BY <2>1, <3>1 DEF Alignment
  <2>2. CASE start # 0
    <3> DEFINE S == {k \in 0..width : start % Pow2[k] = 0}
    <3>1. 0 \in S
      OBVIOUS
    <3>2. Max(S) \in S /\ \A k \in S : k <= Max(S)
      <4> HIDE DEF S
      <4>1. S \subseteq 0..width
        BY DEF S
      <4> QED
        BY <3>1, <4>1, MaxOf
    <3>3. align = Max(S)
      BY <2>2 DEF Alignment, TrailingZeros
    <3> HIDE DEF align
    <3> QED
      BY <3>2, <3>3
  <2> QED
    BY <2>1, <2>2
<1>2. fit \in 0..width /\ Pow2[fit] <= n /\ \A k \in 0..width : Pow2[k] <= n => k <= fit
  <2> DEFINE S == {k \in 0..width : Pow2[k] <= n}
  <2>1. 0 \in S
    OBVIOUS
  <2>2. Max(S) \in S /\ \A k \in S : k <= Max(S)
    <3> HIDE DEF S
    <3>1. S \subseteq 0..width
      BY DEF S
    <3> QED
      BY <2>1, <3>1, MaxOf
  <2> QED
    BY <2>2 DEF HighestBit
<1> DEFINE bits == HostBits(family, start, end, width)
<1>3. bits = Min({align, fit})
  BY DEF HostBits
<1> HIDE DEF align, fit
<1>4. bits \in {align, fit} /\ bits <= align /\ bits <= fit
  <2>1. align \in Nat /\ fit \in Nat
    BY <1>1, <1>2
  <2> HIDE DEF bits
  <2> QED
    BY <1>3, <2>1, MinOfTwo
<1> HIDE DEF bits
<1>5. bits \in 0..width
  BY <1>1, <1>2, <1>4
<1>6. start % Pow2[bits] = 0
  BY <1>1, <1>4, <1>5, DividesSmaller
<1>7. Pow2[bits] <= n
  <2>1. bits \in Nat /\ fit \in Nat /\ bits <= fit
    BY <1>2, <1>4, <1>5
  <2>2. Pow2[bits] <= Pow2[fit] /\ Pow2[bits] \in Nat /\ Pow2[fit] \in Nat
    BY <2>1, Pow2Divides
  <2> QED
    BY <1>2, <2>2
<1>8. BeginsAt(start, end, width, bits)
  BY <1>5, <1>6, <1>7 DEF BeginsAt
<1>9. ASSUME NEW k, BeginsAt(start, end, width, k) PROVE k <= bits
  <2>1. k \in 0..width /\ start % Pow2[k] = 0 /\ Pow2[k] <= n
    <3>1. k \in Nat /\ Pow2[k] \in Nat
      BY <1>9 DEF BeginsAt
    <3> QED
      BY <1>9, <3>1 DEF BeginsAt
  <2> QED
    BY <1>1, <1>2, <1>4, <2>1
<1> QED
  BY <1>8, <1>9 DEF bits

-----------------------------------------------------------------------------
(* The decomposition.                                                      *)

\* Containment of prefixes, by their ends.
LEMMA CoveredBy ==
    ASSUME NEW p, NEW q, p.address \in Nat, p.hostBits \in Nat,
           q.address \in Nat, q.hostBits \in Nat
    PROVE  Covered(p) \subseteq Covered(q)
             <=> /\ q.address <= p.address
                 /\ p.address + Pow2[p.hostBits] <= q.address + Pow2[q.hostBits]
<1> USE Pow2Type
<1>1. Pow2[p.hostBits] \in Nat \ {0} /\ Pow2[q.hostBits] \in Nat \ {0}
  OBVIOUS
<1>2. ASSUME Covered(p) \subseteq Covered(q)
      PROVE  /\ q.address <= p.address
             /\ p.address + Pow2[p.hostBits] <= q.address + Pow2[q.hostBits]
  <2>1. p.address \in Covered(p) /\ p.address + Pow2[p.hostBits] - 1 \in Covered(p)
    BY <1>1 DEF Covered
  <2>2. p.address \in Covered(q) /\ p.address + Pow2[p.hostBits] - 1 \in Covered(q)
    BY <1>2, <2>1
  <2> QED
    BY <1>1, <2>2 DEF Covered
<1>3. ASSUME q.address <= p.address,
             p.address + Pow2[p.hostBits] <= q.address + Pow2[q.hostBits]
      PROVE  Covered(p) \subseteq Covered(q)
  BY <1>1, <1>3 DEF Covered
<1> QED
  BY <1>2, <1>3

LEMMA InsideTyped ==
    ASSUME NEW width \in Nat, NEW first \in Nat, NEW end \in Nat,
           NEW p \in Inside(first, end, width)
    PROVE  /\ p.address \in first..end /\ p.hostBits \in 0..width
           /\ p.address \in Nat /\ p.hostBits \in Nat
           /\ Pow2[p.hostBits] \in Nat \ {0}
           /\ p.address % Pow2[p.hostBits] = 0
           /\ p.address + Pow2[p.hostBits] - 1 <= end
           /\ p = [address |-> p.address, hostBits |-> p.hostBits]
BY Pow2Type DEF Inside

\* Of two prefixes inside an interval that share an address, the one with
\* fewer host bits lies in the other one.
LEMMA NestedInside ==
    ASSUME NEW width \in Nat, NEW first \in Nat, NEW end \in Nat,
           NEW p \in Inside(first, end, width), NEW q \in Inside(first, end, width),
           p.hostBits <= q.hostBits, NEW x, x \in Covered(p), x \in Covered(q)
    PROVE  Covered(p) \subseteq Covered(q)
<1> USE Pow2Type
<1>1. /\ p.address \in Nat /\ p.hostBits \in Nat /\ Pow2[p.hostBits] \in Nat \ {0}
      /\ p.address % Pow2[p.hostBits] = 0
      /\ q.address \in Nat /\ q.hostBits \in Nat /\ Pow2[q.hostBits] \in Nat \ {0}
      /\ q.address % Pow2[q.hostBits] = 0
  BY InsideTyped
<1>2. /\ x \in Nat /\ x >= p.address /\ x < p.address + Pow2[p.hostBits]
      /\ x >= q.address /\ x < q.address + Pow2[q.hostBits]
  BY <1>1 DEF Covered
<1>3. p.address < q.address + Pow2[q.hostBits]
  BY <1>1, <1>2
<1>4. q.address <= p.address
  <2> SUFFICES ASSUME p.address < q.address PROVE FALSE
    BY <1>1
  <2>1. q.address % Pow2[p.hostBits] = 0
    BY <1>1, DividesSmaller
  <2>2. p.address + Pow2[p.hostBits] <= q.address
    BY <1>1, <2>1, Apart
  <2> QED
    BY <1>1, <1>2, <2>2
<1>5. p.address + Pow2[p.hostBits] <= q.address + Pow2[q.hostBits]
  BY <1>1, <1>3, <1>4, Nested
<1> QED
  BY <1>1, <1>4, <1>5, CoveredBy

\* The maximal prefixes of an interval are the largest one at its first address
\* and those of the rest.
LEMMA FirstAndRest ==
    ASSUME NEW family, NEW width \in Nat, NEW start \in Nat, NEW end \in Nat, start <= end,
           Remaining(family, start, end, width) = end - start + 1
    PROVE  LET bits  == HostBits(family, start, end, width)
               after == start + Pow2[bits]
           IN  /\ bits \in Nat /\ after \in Nat /\ after > start
               /\ Minimal(start, end, width) =
                    {Prefix(start, bits)}
                      \cup (IF after > end THEN {} ELSE Minimal(after, end, width))
<1> USE Pow2Type
<1> DEFINE bits == HostBits(family, start, end, width)
           after == start + Pow2[bits]
           P == Prefix(start, bits)
           Ins(s) == Inside(s, end, width)
<1>1. BeginsAt(start, end, width, bits) /\ \A k : BeginsAt(start, end, width, k) => k <= bits
  BY LargestPrefix
<1> HIDE DEF bits
<1>2. bits \in Nat /\ Pow2[bits] \in Nat \ {0} /\ after \in Nat /\ after > start
  BY <1>1 DEF BeginsAt
<1>3. P \in Ins(start) /\ P.address = start /\ P.hostBits = bits
  BY <1>1, <1>2 DEF BeginsAt, Prefix, Inside
<1>4. ASSUME NEW q \in Ins(start)
      PROVE  /\ q.address \in start..end /\ q.hostBits \in 0..width
             /\ q.address \in Nat /\ q.hostBits \in Nat
             /\ q.address % Pow2[q.hostBits] = 0
             /\ q.address + Pow2[q.hostBits] - 1 <= end
             /\ q = [address |-> q.address, hostBits |-> q.hostBits]
  BY InsideTyped
<1> HIDE DEF P
<1>5. ASSUME NEW q \in Ins(start), q.address < after
      PROVE  Covered(q) \subseteq Covered(P)
  <2>1. q.address + Pow2[q.hostBits] <= after
    <3>1. CASE q.hostBits <= bits
      BY <1>1, <1>2, <1>4, <1>5, <3>1, Nested DEF BeginsAt
    <3>2. CASE q.hostBits > bits
      <4>1. q.address % Pow2[bits] = 0
        BY <1>2, <1>4, <3>2, DividesSmaller
      <4>2. q.address = start
        <5> SUFFICES ASSUME start < q.address PROVE FALSE
          BY <1>4
        <5>1. start + Pow2[bits] <= q.address
          BY <1>1, <1>2, <1>4, <4>1, Apart DEF BeginsAt
        <5> QED
          BY <1>2, <1>4, <1>5, <5>1
      <4>3. BeginsAt(start, end, width, q.hostBits)
        BY <1>4, <4>2 DEF BeginsAt
      <4> QED
        BY <1>1, <1>2, <1>4, <3>2, <4>3
    <3> QED
      BY <1>2, <1>4, <3>1, <3>2
  <2> QED
    BY <1>2, <1>3, <1>4, <2>1, CoveredBy
<1>6. ASSUME NEW q \in Ins(start), Covered(P) \subseteq Covered(q) PROVE q = P
  <2>1. q.address = start /\ after <= q.address + Pow2[q.hostBits]
    <3>1. q.address <= P.address /\ P.address + Pow2[P.hostBits] <= q.address + Pow2[q.hostBits]
      BY <1>2, <1>3, <1>4, <1>6, CoveredBy
    <3> QED
      BY <1>3, <1>4, <3>1
  <2>2. BeginsAt(start, end, width, q.hostBits)
    BY <1>4, <2>1 DEF BeginsAt
  <2>3. q.hostBits <= bits /\ Pow2[bits] <= Pow2[q.hostBits]
    BY <1>1, <1>2, <1>4, <2>1, <2>2
  <2>4. q.hostBits = bits
    <3>0. q.hostBits \in Nat /\ bits \in Nat /\ q.hostBits <= bits
      BY <1>2, <1>4, <2>3
    <3> DEFINE h == q.hostBits
    <3> HIDE DEF h
    <3>1. h \in Nat /\ bits \in Nat /\ h <= bits /\ Pow2[bits] <= Pow2[h]
      BY <3>0, <2>3 DEF h
    <3>2. ~(h < bits)
      BY <3>1, Pow2Divides
    <3>3. h = bits
      BY <3>1, <3>2
    <3> QED
      BY <3>3 DEF h
  <2> QED
    BY <1>4, <2>1, <2>4 DEF P, Prefix
<1>7. P \in Minimal(start, end, width)
  BY <1>3, <1>6 DEF Minimal
<1>8. ASSUME NEW q \in Minimal(start, end, width), q.address < after PROVE q = P
  BY <1>3, <1>5, <1>8 DEF Minimal
<1>9. CASE after > end
  <2>1. \A q \in Minimal(start, end, width) : q.address < after
    <3> TAKE q \in Minimal(start, end, width)
    <3>1. q \in Ins(start)
      BY DEF Minimal
    <3> QED
      BY <1>2, <1>4, <1>9, <3>1
  <2>2. Minimal(start, end, width) = {P}
    BY <1>7, <1>8, <2>1
  <2> QED
    BY <1>2, <1>9, <2>2 DEF P, bits
<1>10. CASE after <= end
  <2>1. \A q : q \in Ins(after) <=> q \in Ins(start) /\ q.address >= after
    BY <1>2, <1>10 DEF Inside
  <2>2. ASSUME NEW q \in Ins(after), NEW r \in Ins(start), Covered(q) \subseteq Covered(r)
        PROVE  r \in Ins(after)
    <3> SUFFICES ASSUME r.address < after PROVE FALSE
      BY <1>2, <1>4, <2>1
    <3>1. Covered(q) \subseteq Covered(P)
      BY <1>5, <2>2
    <3>2. q \in Ins(start) /\ q.address >= after
      BY <2>1
    <3>3. q.address + Pow2[q.hostBits] <= start + Pow2[bits]
      BY <1>2, <1>3, <1>4, <3>1, <3>2, CoveredBy
    <3>4. Pow2[q.hostBits] \in Nat \ {0} /\ q.address \in Nat
      BY <1>4, <3>2
    <3>5. q.address >= after /\ after = start + Pow2[bits]
      BY <3>2
    <3> DEFINE x == Pow2[q.hostBits]
               y == Pow2[bits]
    <3>6. x \in Nat \ {0} /\ y \in Nat /\ q.address + x <= start + y /\ q.address >= start + y
      BY <1>2, <3>3, <3>4, <3>5
    <3> HIDE DEF x, y
    <3> QED
      BY <3>4, <3>6
  <2>3. ASSUME NEW q \in Ins(after)
        PROVE  q \in Minimal(start, end, width) <=> q \in Minimal(after, end, width)
    BY <2>1, <2>2 DEF Minimal
  <2>4. ASSUME NEW q \in Minimal(start, end, width), q # P
        PROVE  q \in Minimal(after, end, width)
    <3>1. q \in Ins(start)
      BY DEF Minimal
    <3>2. q \in Ins(after)
      BY <1>2, <1>4, <1>8, <2>1, <2>4, <3>1
    <3> QED
      BY <2>3, <3>2
  <2>5. ASSUME NEW q \in Minimal(after, end, width) PROVE q \in Minimal(start, end, width)
    <3>1. q \in Ins(after)
      BY DEF Minimal
    <3> QED
      BY <2>3, <3>1
  <2>6. Minimal(start, end, width) = {P} \cup Minimal(after, end, width)
    BY <1>7, <2>4, <2>5
  <2>7. ~(after > end)
    BY <1>2, <1>10
  <2> QED
    BY <1>2, <2>6, <2>7 DEF P, bits
<1> QED
  BY <1>2, <1>9, <1>10

\* The case the IPv6 branch treats on its own.
LEMMA WholeSpace ==
    ASSUME NEW width \in Nat
    PROVE  Minimal(0, Pow2[width] - 1, width) = {Prefix(0, width)}
<1> USE Pow2Type
<1> DEFINE end == Pow2[width] - 1
           bits == HostBits(4, 0, end, width)
<1>1. end \in Nat /\ 0 <= end /\ Remaining(4, 0, end, width) = end - 0 + 1
  BY DEF Remaining
<1>2. BeginsAt(0, end, width, width)
  BY DEF BeginsAt
<1>3. BeginsAt(0, end, width, bits) /\ \A k : BeginsAt(0, end, width, k) => k <= bits
  <2> HIDE DEF end
  <2> QED
    BY <1>1, LargestPrefix
<1> HIDE DEF bits
<1>4. bits = width
  <2>1. bits \in 0..width /\ width <= bits
    BY <1>2, <1>3 DEF BeginsAt
  <2> QED
    BY <2>1
<1>5. 0 + Pow2[bits] > end
  BY <1>4
<1>6. Minimal(0, end, width) =
        {Prefix(0, bits)}
          \cup (IF 0 + Pow2[bits] > end THEN {} ELSE Minimal(0 + Pow2[bits], end, width))
  <2> HIDE DEF end
  <2> QED
    BY <1>1, FirstAndRest DEF bits
<1> QED
  BY <1>4, <1>5, <1>6

\* Whatever the interval and the width of an address, the loop yields the
\* maximal prefixes inside the interval and no others, although it looks at one
\* address at a time and the IPv6 branch computes modulo the address space.
THEOREM PrefixesAreMinimal ==
    ASSUME NEW family \in {4, 6}, NEW width \in Nat, NEW first \in Nat, NEW end \in Nat,
           first <= end, end < Pow2[width]
    PROVE  IntervalPrefixes(family, first, end, width) = Minimal(first, end, width)
<1> USE Pow2Type
<1>1. CASE family = 6 /\ first = 0 /\ end = Pow2[width] - 1
  BY <1>1, WholeSpace DEF IntervalPrefixes
<1>2. CASE ~(family = 6 /\ first = 0 /\ end = Pow2[width] - 1)
  <2>1. ASSUME NEW start \in first..end PROVE Remaining(family, start, end, width) = end - start + 1
    <3>1. CASE family = 4
      BY <3>1 DEF Remaining
    <3>2. CASE family = 6
      <4> DEFINE n == end - start + 1
                 d == Pow2[width]
      <4>1. d \in Nat /\ end < d /\ start \in first..end
        OBVIOUS
      <4>2. ~(first = 0 /\ end = d - 1)
        BY <1>2, <3>2
      <4> HIDE DEF d
      <4>3. n \in Nat /\ n < d
        BY <4>1, <4>2
      <4> HIDE DEF n
      <4>4. n % d = n
        BY <4>1, <4>3, BelowModulus
      <4> QED
        BY <3>2, <4>4 DEF Remaining, n, d
    <3> QED
      BY <3>1, <3>2
  <2> DEFINE Bits(s) == HostBits(family, s, end, width)
             After(s) == s + Pow2[Bits(s)]
             Step(f) == [start \in first..end |->
                           {Prefix(start, Bits(start))}
                             \cup (IF After(start) > end THEN {} ELSE f[After(start)])]
             M == [s \in first..end |-> Minimal(s, end, width)]
             from == CHOOSE f : f = Step(f)
  <2>2. ASSUME NEW s \in first..end
        PROVE  /\ After(s) \in Nat /\ After(s) > s
               /\ Minimal(s, end, width) =
                    {Prefix(s, Bits(s))}
                      \cup (IF After(s) > end THEN {} ELSE Minimal(After(s), end, width))
    <3>1. s \in Nat /\ s <= end
      OBVIOUS
    <3> QED
      BY <2>1, <3>1, FirstAndRest
  <2> HIDE DEF After, Bits
  <2>3. M = Step(M)
    <3>1. ASSUME NEW s \in first..end PROVE M[s] = Step(M)[s]
      <4>1. CASE After(s) > end
        BY <2>2, <4>1
      <4>2. CASE ~(After(s) > end)
        <5>1. After(s) \in first..end
          BY <2>2, <4>2
        <5>2. M[After(s)] = Minimal(After(s), end, width)
          BY <5>1
        <5> QED
          BY <2>2, <4>2, <5>2
      <4> QED
        BY <4>1, <4>2
    <3> QED
      BY <3>1
  <2>4. from = Step(from)
    <3> HIDE DEF M, Step
    <3> QED
      BY <2>3
  <2>5. ASSUME NEW s \in first..end, from[s] # M[s] PROVE FALSE
    <3> DEFINE T == {i \in Nat : \E t \in first..end : end - t = i /\ from[t] # M[t]}
    <3> HIDE DEF M, from
    <3>1. end - s \in T
      BY <2>5
    <3>2. PICK i \in T : \A j \in T : i <= j
      <4>1. T \subseteq Nat /\ T # {}
        BY <3>1
      <4> HIDE DEF T
      <4> QED
        BY <4>1, LeastNumber
    <3>3. PICK t \in first..end : end - t = i /\ from[t] # M[t]
      OBVIOUS
    <3>4. After(t) \in Nat /\ After(t) > t
      BY <2>2
    <3>5. ASSUME ~(After(t) > end) PROVE from[After(t)] = M[After(t)]
      <4>1. After(t) \in first..end
        BY <3>4, <3>5
      <4>2. end - After(t) \in Nat /\ end - After(t) < i
        BY <3>3, <3>4, <4>1
      <4>3. end - After(t) \notin T
        <5> DEFINE j == end - After(t)
        <5>1. j \in Nat /\ j < i /\ i \in Nat
          BY <4>2 DEF T
        <5> HIDE DEF j, T
        <5>2. j \notin T
          BY <3>2, <5>1
        <5> QED
          BY <5>2 DEF j
      <4> QED
        BY <4>1, <4>2, <4>3
    <3>6. Step(from)[t] = Step(M)[t]
      BY <3>5
    <3> QED
      BY <2>3, <2>4, <3>3, <3>6
  <2>6. from[first] = M[first]
    <3>1. first \in first..end
      OBVIOUS
    <3> HIDE DEF M, from
    <3> QED
      BY <2>5, <3>1
  <2>7. IntervalPrefixes(family, first, end, width) = from[first]
    BY <1>2 DEF IntervalPrefixes, After, Bits
  <2> QED
    BY <2>6, <2>7
<1> QED
  BY <1>1, <1>2

\* The reference is what the tries need: the maximal prefixes of an interval
\* cover exactly its addresses, none of them twice.
THEOREM MinimalIsExact ==
    ASSUME NEW width \in Nat, NEW first \in Nat, NEW end \in Nat
    PROVE  /\ UNION {Covered(p) : p \in Minimal(first, end, width)} = first..end
           /\ \A p, q \in Minimal(first, end, width) : p # q => Covered(p) \cap Covered(q) = {}
<1> USE Pow2Type
<1> DEFINE M == Minimal(first, end, width)
           Ins == Inside(first, end, width)
<1>1. ASSUME NEW p \in Ins
      PROVE  /\ p.address \in first..end /\ p.hostBits \in 0..width
             /\ p.address \in Nat /\ p.hostBits \in Nat
             /\ Pow2[p.hostBits] \in Nat \ {0}
             /\ p.address % Pow2[p.hostBits] = 0
             /\ p.address + Pow2[p.hostBits] - 1 <= end
             /\ p = [address |-> p.address, hostBits |-> p.hostBits]
  BY InsideTyped
<1>2. ASSUME NEW p \in Ins PROVE Covered(p) \subseteq first..end
  BY <1>1 DEF Covered
<1>3. ASSUME NEW p \in Ins, NEW q \in Ins, p.hostBits <= q.hostBits, NEW x,
             x \in Covered(p), x \in Covered(q)
      PROVE  Covered(p) \subseteq Covered(q)
  BY <1>3, NestedInside
<1>4. ASSUME NEW x \in first..end PROVE \E p \in M : x \in Covered(p)
  <2> DEFINE S == {k \in 0..width : \E p \in Ins : p.hostBits = k /\ x \in Covered(p)}
  <2>1. 0 \in S
    <3>1. Prefix(x, 0) \in Ins /\ x \in Covered(Prefix(x, 0)) /\ Prefix(x, 0).hostBits = 0
      BY DEF Inside, Prefix, Covered
    <3> QED
      BY <3>1
  <2>2. Max(S) \in S /\ \A k \in S : k <= Max(S)
    <3>1. S \subseteq 0..width
      OBVIOUS
    <3> HIDE DEF S
    <3> QED
      BY <2>1, <3>1, MaxOf
  <2>3. PICK p \in Ins : p.hostBits = Max(S) /\ x \in Covered(p)
    BY <2>2
  <2>4. ASSUME NEW q \in Ins, Covered(p) \subseteq Covered(q) PROVE q = p
    <3>1. q.hostBits \in S
      BY <1>1, <2>3, <2>4
    <3>2. q.hostBits <= p.hostBits
      BY <2>2, <2>3, <3>1
    <3>3. Covered(q) \subseteq Covered(p)
      BY <1>3, <2>3, <2>4, <3>2
    <3>4. /\ q.address <= p.address
          /\ p.address + Pow2[p.hostBits] <= q.address + Pow2[q.hostBits]
          /\ p.address <= q.address
          /\ q.address + Pow2[q.hostBits] <= p.address + Pow2[p.hostBits]
      BY <1>1, <2>4, <3>3, CoveredBy
    <3>5. q.address = p.address /\ Pow2[q.hostBits] = Pow2[p.hostBits]
      BY <1>1, <3>4
    <3>6. q.hostBits = p.hostBits
      BY <1>1, <3>5, SamePower
    <3> QED
      BY <1>1, <3>5, <3>6
  <2> QED
    BY <2>3, <2>4 DEF Minimal
<1>5. M \subseteq Ins
  BY DEF Minimal
<1>6. UNION {Covered(p) : p \in M} = first..end
  <2> HIDE DEF M
  <2> QED
    BY <1>2, <1>4, <1>5
<1>7. ASSUME NEW p \in M, NEW q \in M, p # q PROVE Covered(p) \cap Covered(q) = {}
  <2> SUFFICES ASSUME NEW x, x \in Covered(p), x \in Covered(q) PROVE FALSE
    OBVIOUS
  <2>1. p \in Ins /\ q \in Ins
    BY <1>5
  <2>2. Covered(p) \subseteq Covered(q) \/ Covered(q) \subseteq Covered(p)
    <3>1. p.hostBits <= q.hostBits \/ q.hostBits <= p.hostBits
      BY <1>1, <2>1
    <3> QED
      BY <1>3, <2>1, <3>1
  <2> QED
    BY <1>7, <2>1, <2>2 DEF Minimal
<1> QED
  BY <1>6, <1>7

\* An interval has finitely many prefixes inside it.
LEMMA InsideFinite ==
    ASSUME NEW width \in Nat, NEW first \in Nat, NEW end \in Nat
    PROVE  IsFiniteSet(Inside(first, end, width))
<1> DEFINE Ins == Inside(first, end, width)
           Pairs == (first..end) \X (0..width)
           pair == [p \in Ins |-> <<p.address, p.hostBits>>]
<1>1. IsFiniteSet(first..end) /\ IsFiniteSet(0..width)
  BY FS_Interval
<1>2. IsFiniteSet(Pairs)
  BY <1>1, FS_Product
<1>3. pair \in Injection(Ins, Pairs)
  <2>1. ASSUME NEW p \in Ins
        PROVE  /\ p.address \in first..end /\ p.hostBits \in 0..width
               /\ p = [address |-> p.address, hostBits |-> p.hostBits]
    BY InsideTyped
  <2>2. pair \in [Ins -> Pairs]
    BY <2>1
  <2>3. ASSUME NEW p \in Ins, NEW q \in Ins, pair[p] = pair[q] PROVE p = q
    <3>1. p.address = q.address /\ p.hostBits = q.hostBits
      BY <2>3
    <3> QED
      BY <2>1, <3>1
  <2> QED
    BY <2>2, <2>3 DEF Injection, IsInjective
<1> HIDE DEF Ins, Pairs, pair
<1>4. IsFiniteSet(Ins)
  BY <1>2, <1>3, FS_Injection
<1> QED
  BY <1>4 DEF Ins

\* "the smallest set of CIDR prefixes" (blocklist.rs:36): prefixes that together
\* cover an interval and nothing else are at least as many as the maximal ones.
THEOREM MinimalIsFewest ==
    ASSUME NEW width \in Nat, NEW first \in Nat, NEW end \in Nat,
           NEW D \in SUBSET Inside(first, end, width),
           UNION {Covered(p) : p \in D} = first..end
    PROVE  /\ IsFiniteSet(Minimal(first, end, width)) /\ IsFiniteSet(D)
           /\ Cardinality(Minimal(first, end, width)) <= Cardinality(D)
<1> DEFINE M == Minimal(first, end, width)
           Ins == Inside(first, end, width)
           at == [p \in M |-> CHOOSE q \in D : p.address \in Covered(q)]
<1>1. IsFiniteSet(D)
  BY InsideFinite, FS_Subset
<1>2. M \subseteq Ins
  BY DEF Minimal
<1>3. ASSUME NEW p \in M
      PROVE  at[p] \in D /\ p.address \in Covered(at[p]) /\ p.address \in Covered(p)
  <2>1. p.address \in Covered(p) /\ p.address \in first..end
    <3>1. /\ p.address \in Nat /\ Pow2[p.hostBits] \in Nat \ {0} /\ p.address \in first..end
      BY <1>2, InsideTyped
    <3> QED
      BY <3>1 DEF Covered
  <2>2. \E q \in D : p.address \in Covered(q)
    BY <2>1
  <2> QED
    BY <2>1, <2>2
<1>4. ASSUME NEW p \in M PROVE Covered(at[p]) \subseteq Covered(p)
  <2> DEFINE q == at[p]
  <2>1. p \in Ins /\ q \in Ins /\ p.address \in Covered(q) /\ p.address \in Covered(p)
    BY <1>2, <1>3
  <2> HIDE DEF q
  <2>2. q.hostBits \in Nat /\ p.hostBits \in Nat
    BY <2>1, InsideTyped
  <2>3. CASE q.hostBits <= p.hostBits
    BY <2>1, <2>3, NestedInside DEF q
  <2>4. CASE p.hostBits <= q.hostBits
    <3>1. Covered(p) \subseteq Covered(q)
      BY <2>1, <2>4, NestedInside
    <3>2. q = p
      BY <2>1, <3>1 DEF Minimal
    <3> QED
      BY <3>2 DEF q
  <2> QED
    BY <2>2, <2>3, <2>4
<1>5. at \in Injection(M, D)
  <2>1. ASSUME NEW p \in M, NEW q \in M, at[p] = at[q] PROVE p = q
    <3>1. p.address \in Covered(at[p]) /\ Covered(at[q]) \subseteq Covered(q)
      BY <1>3, <1>4
    <3>2. p.address \in Covered(p) /\ p.address \in Covered(q)
      BY <1>3, <2>1, <3>1
    <3> QED
      BY <3>2, MinimalIsExact
  <2> HIDE DEF M
  <2>2. at \in [M -> D]
    BY <1>3
  <2> HIDE DEF at
  <2> QED
    BY <2>1, <2>2 DEF Injection, IsInjective
<1> HIDE DEF M, at
<1>6. IsFiniteSet(M) /\ Cardinality(M) <= Cardinality(D)
  BY <1>1, <1>5, FS_Injection
<1> QED
  BY <1>1, <1>6 DEF M
=============================================================================
