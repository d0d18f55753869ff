---------------------------- MODULE AddressProofs ----------------------------
(* Proofs about the two algorithms that decide where an access goes: the      *)
(* ranges and locks of the PMP, and the regions of the memory map with their  *)
(* sort, bisection and host buffer. Induction over a bound comes from the     *)
(* least element of a set of naturals, with a set in place of the property.   *)
EXTENDS Pmp, MemoryMap, WellFoundedInduction, FiniteSetTheorems, SequenceTheorems, TLAPS

-----------------------------------------------------------------------------
\* Induction and recursion up to a bound.

\* A nonempty set of naturals has a least element.
LEMMA LeastNatural ==
  ASSUME NEW S \in SUBSET Nat, S # {}
  PROVE  \E m \in S : \A k \in S : m <= k
<1> DEFINE R == OpToRel(<, Nat)
<1>1. IsWellFoundedOn(R, Nat)
  BY NatLessThanWellFounded
<1>2. \A x, y \in Nat : x < y => <<x, y>> \in R
  BY DEF OpToRel
<1> HIDE DEF R
<1>3. PICK m \in S : \A k \in S : ~(<<k, m>> \in R)
  BY <1>1, WFMin
<1>4. \A k \in S : ~(k < m)
  BY <1>2, <1>3, Zenon
<1>5. QED
  BY <1>4

\* Induction over the naturals, with the set where the property holds in place of the
\* property.
LEMMA Induction ==
  ASSUME NEW S \in SUBSET Nat, 0 \in S, \A n \in S : n + 1 \in S
  PROVE  S = Nat
<1>1. SUFFICES ASSUME Nat \ S # {} PROVE FALSE
  OBVIOUS
<1>2. PICK m \in Nat \ S : \A k \in Nat \ S : m <= k
  BY <1>1, LeastNatural
<1>3. m # 0 /\ m - 1 \in Nat
  BY <1>2
<1>4. m - 1 \in S
  BY <1>2, <1>3
<1>5. QED
  BY <1>2, <1>3, <1>4

\* Induction as far as N.
LEMMA InductionTo ==
  ASSUME NEW N \in Nat, NEW S, 0 \in S, \A n \in 0 .. N - 1 : n \in S => n + 1 \in S
  PROVE  0 .. N \subseteq S
<1> DEFINE T == {n \in Nat : n \in 0 .. N => n \in S}
<1>1. 0 \in T
  OBVIOUS
<1>2. \A n \in T : n + 1 \in T
  OBVIOUS
<1>3. T \in SUBSET Nat
  OBVIOUS
<1> HIDE DEF T
<1>4. T = Nat
  BY <1>1, <1>2, <1>3, Induction
<1>5. QED
  BY <1>4 DEF T

\* f takes the value c at 0 and after that what step makes of the value before.
Solves(f, N, V, c, step) ==
    f \in [0 .. N -> V] /\ f[0] = c /\ \A k \in 1 .. N : f[k] = step[k][f[k - 1]]

\* A function defined by recursion up to N exists.
LEMMA Recursion ==
  ASSUME NEW N \in Nat, NEW V, NEW c \in V, NEW step,
         \A k \in 1 .. N : \A v \in V : step[k][v] \in V
  PROVE  \E f : Solves(f, N, V, c, step)
<1> DEFINE Right(f, n) == \A k \in 0 .. n : f[k] = IF k = 0 THEN c ELSE step[k][f[k - 1]]
           S == {n \in 0 .. N : \E f \in [0 .. N -> V] : Right(f, n)}
<1>1. 0 \in S
  <2> DEFINE f == [k \in 0 .. N |-> c]
  <2>1. f \in [0 .. N -> V] /\ Right(f, 0)
    OBVIOUS
  <2> HIDE DEF f, Right
  <2>2. QED
    BY <2>1
<1>2. \A n \in 0 .. N - 1 : n \in S => n + 1 \in S
  <2> SUFFICES ASSUME NEW n \in 0 .. N - 1, n \in S PROVE n + 1 \in S
    OBVIOUS
  <2>1. PICK f \in [0 .. N -> V] : Right(f, n)
    OBVIOUS
  <2> DEFINE g == [f EXCEPT ![n + 1] = step[n + 1][f[n]]]
  <2>2. g \in [0 .. N -> V]
    BY <2>1
  <2>3. Right(g, n + 1)
    <3> SUFFICES ASSUME NEW k \in 0 .. n + 1
                 PROVE  g[k] = IF k = 0 THEN c ELSE step[k][g[k - 1]]
      OBVIOUS
    <3>1. CASE k \in 0 .. n
      BY <2>1, <3>1
    <3>2. CASE k = n + 1
      <4>1. g[n] = f[n] /\ g[n + 1] = step[n + 1][f[n]] /\ k # 0 /\ k - 1 = n
        BY <2>1, <3>2
      <4> HIDE DEF g
      <4>2. QED
        BY <3>2, <4>1
    <3>3. QED
      BY <3>1, <3>2
  <2> HIDE DEF g, Right
  <2>4. QED
    BY <2>2, <2>3
<1> HIDE DEF S
<1>3. 0 .. N \subseteq S
  BY <1>1, <1>2, InductionTo
<1>4. PICK f \in [0 .. N -> V] : Right(f, N)
  <2>1. N \in S
    BY <1>3
  <2> HIDE DEF Right
  <2>2. QED
    BY <2>1 DEF S
<1>5. f[0] = c /\ \A k \in 1 .. N : f[k] = step[k][f[k - 1]]
  <2>1. 0 \in 0 .. N /\ \A k \in 1 .. N : k \in 0 .. N /\ k # 0
    OBVIOUS
  <2>2. QED
    BY <1>4, <2>1
<1>6. QED
  BY <1>5 DEF Solves

-----------------------------------------------------------------------------
\* The ranges of the PMP.

\* The powers of two are what they should be.
LEMMA Powers ==
  /\ Power2[0] = 1
  /\ \A k \in 1 .. PmpAddressBits + 3 : Power2[k] = 2 * Power2[k - 1]
  /\ \A k \in 0 .. PmpAddressBits + 3 : Power2[k] \in Nat \ {0}
<1> DEFINE N == PmpAddressBits + 3
<1>1. N \in Nat
  BY PmpAssumption DEF PmpAssumption
<1> HIDE DEF N
<1> DEFINE step == [k \in 1 .. N |-> [v \in Nat |-> 2 * v]]
<1>2. step \in [1 .. N -> [Nat -> Nat]]
  OBVIOUS
<1>3. \A k \in 1 .. N, v \in Nat : step[k][v] = 2 * v
  OBVIOUS
<1> HIDE DEF step
<1>4. PICK f : Solves(f, N, Nat, 1, step)
  <2>1. 1 \in Nat /\ \A k \in 1 .. N : \A v \in Nat : step[k][v] \in Nat
    BY <1>3
  <2>2. QED
    BY <1>1, <2>1, Recursion, Zenon
<1>41. f \in [0 .. N -> Nat] /\ f[0] = 1 /\ \A k \in 1 .. N : f[k] = step[k][f[k - 1]]
  BY <1>4 DEF Solves
<1>5. f = [k \in 0 .. N |-> IF k = 0 THEN 1 ELSE 2 * f[k - 1]]
  <2>1. \A k \in 0 .. N : f[k] = IF k = 0 THEN 1 ELSE 2 * f[k - 1]
    <3>1. \A k \in 1 .. N : f[k - 1] \in Nat /\ k # 0
      BY <1>1, <1>41
    <3>2. \A k \in 1 .. N : f[k] = 2 * f[k - 1]
      BY <1>3, <1>41, <3>1
    <3>3. \A k \in 0 .. N : k = 0 \/ k \in 1 .. N
      OBVIOUS
    <3>4. QED
      BY <1>41, <3>1, <3>2, <3>3
  <2>2. QED
    BY <2>1, <1>41
<1>6. Power2 = [k \in 0 .. N |-> IF k = 0 THEN 1 ELSE 2 * Power2[k - 1]]
  BY <1>5 DEF Power2, N
<1>7. Power2[0] = 1 /\ \A k \in 1 .. N : Power2[k] = 2 * Power2[k - 1]
  BY <1>1, <1>6
<1> DEFINE S == {k \in 0 .. N : Power2[k] \in Nat \ {0}}
<1>8. 0 \in S /\ \A k \in 0 .. N - 1 : k \in S => k + 1 \in S
  BY <1>1, <1>7
<1> HIDE DEF S
<1>9. 0 .. N \subseteq S
  BY <1>1, <1>8, InductionTo
<1>10. \A k \in 0 .. N : Power2[k] \in Nat \ {0}
  BY <1>9 DEF S
<1>11. QED
  BY <1>7, <1>10 DEF N

\* Division by a positive number leaves a remainder below it.
LEMMA Division ==
  ASSUME NEW a \in Nat, NEW p \in Nat \ {0}
  PROVE  a \div p \in Nat /\ a % p \in 0 .. p - 1 /\ a = p * (a \div p) + (a % p)
OBVIOUS

\* A multiple below a and less than p below it is the quotient.
LEMMA QuotientIs ==
  ASSUME NEW a \in Nat, NEW p \in Nat \ {0}, NEW q \in Nat
  PROVE  a \div p = q <=> p * q <= a /\ a < p * q + p
<1> DEFINE d == a \div p
<1>1. d \in Nat /\ p * d <= a /\ a < p * d + p
  BY Division
<1> HIDE DEF d
<1>2. ASSUME p * q <= a, a < p * q + p, d < q PROVE FALSE
  <2>1. p * (d + 1) <= p * q
    BY <1>1, <1>2
  <2>2. QED
    BY <1>1, <1>2, <2>1
<1>3. ASSUME p * q <= a, a < p * q + p, q < d PROVE FALSE
  <2>1. p * (q + 1) <= p * d
    BY <1>1, <1>3
  <2>2. QED
    BY <1>1, <1>3, <2>1
<1>4. (p * q <= a /\ a < p * q + p) => d = q
  BY <1>1, <1>2, <1>3
<1>5. QED
  BY <1>1, <1>4 DEF d

\* Halving a quotient doubles the divisor, and the remainder takes in the bit that goes.
LEMMA DoubleDivisor ==
  ASSUME NEW a \in Nat, NEW p \in Nat \ {0}
  PROVE  /\ a \div (2 * p) = (a \div p) \div 2
         /\ a % (2 * p) = (a % p) + p * ((a \div p) % 2)
<1> DEFINE d == a \div p
           r == a % p
           h == d \div 2
           b == d % 2
<1>1. d \in Nat /\ r \in 0 .. p - 1 /\ a = p * d + r
  BY Division
<1>2. h \in Nat /\ b \in {0, 1} /\ d = 2 * h + b
  BY <1>1
<1> HIDE DEF d, r, h, b
<1>3. a = 2 * p * h + (p * b + r)
  BY <1>1, <1>2
<1>4. p * b + r \in 0 .. 2 * p - 1
  BY <1>1, <1>2
<1>5. a \div (2 * p) = h
  BY <1>2, <1>3, <1>4, QuotientIs
<1>6. a % (2 * p) = p * b + r
  <2> DEFINE m == 2 * p
  <2>1. m \in Nat \ {0} /\ m * h = 2 * p * h
    BY <1>2
  <2> HIDE DEF m
  <2>2. a = m * (a \div m) + (a % m) /\ a % m \in Nat
    BY <2>1
  <2>3. a \div m = h
    BY <1>5 DEF m
  <2>4. a = m * h + (a % m)
    BY <2>2, <2>3
  <2>5. a % m = p * b + r
    BY <1>1, <1>2, <1>3, <2>1, <2>2, <2>4
  <2>6. QED
    BY <2>5 DEF m
<1>7. QED
  BY <1>1, <1>2, <1>5, <1>6 DEF d, r, h, b

\* What one more bit makes of a remainder.
LEMMA NextRemainder ==
  ASSUME NEW a \in Nat, NEW k \in 0 .. PmpAddressBits + 2
  PROVE  a % Power2[k + 1] = (a % Power2[k]) + Power2[k] * ((a \div Power2[k]) % 2)
<1>1. k + 1 \in 1 .. PmpAddressBits + 3 /\ k \in 0 .. PmpAddressBits + 3 /\ (k + 1) - 1 = k
  BY PmpAssumption DEF PmpAssumption
<1>2. Power2[k + 1] = 2 * Power2[k] /\ Power2[k] \in Nat \ {0}
  BY <1>1, Powers
<1>3. QED
  BY <1>2, DoubleDivisor

\* The low k bits are ones exactly when each of them is.
LEMMA OnesBelow ==
  ASSUME NEW a \in Nat
  PROVE  \A k \in 0 .. PmpAddressBits + 1 :
           a % Power2[k] = Power2[k] - 1 <=> \A j \in 0 .. k - 1 : (a \div Power2[j]) % 2 = 1
<1> DEFINE N == PmpAddressBits + 1
           Ones(k) == a % Power2[k] = Power2[k] - 1
           Bit(j) == (a \div Power2[j]) % 2
           S == {k \in 0 .. N : Ones(k) <=> \A j \in 0 .. k - 1 : Bit(j) = 1}
<1>1. N \in Nat
  BY PmpAssumption DEF PmpAssumption
<1>2. 0 \in S
  BY <1>1, Powers
<1>3. \A n \in 0 .. N - 1 : n \in S => n + 1 \in S
  <2> SUFFICES ASSUME NEW n \in 0 .. N - 1, n \in S PROVE n + 1 \in S
    OBVIOUS
  <2> DEFINE p == Power2[n]
             r == a % p
             b == Bit(n)
  <2>1. n \in 0 .. PmpAddressBits + 2 /\ n \in 0 .. PmpAddressBits + 3
        /\ n + 1 \in 1 .. PmpAddressBits + 3 /\ (n + 1) - 1 = n
    BY PmpAssumption DEF PmpAssumption
  <2>2. p \in Nat \ {0} /\ Power2[n + 1] = 2 * p
    BY <2>1, Powers
  <2>3. a % Power2[n + 1] = r + p * b
    BY <2>1, NextRemainder
  <2>4. r \in 0 .. p - 1 /\ b \in {0, 1}
    <3> HIDE DEF p
    <3>1. a \div p \in Nat /\ a % p \in 0 .. p - 1
      BY <2>2, Division
    <3>2. (a \div p) % 2 \in {0, 1}
      BY <3>1
    <3>3. QED
      BY <3>1, <3>2 DEF p
  <2> HIDE DEF p, r, b
  <2>5. Ones(n + 1) <=> b = 1 /\ r = p - 1
    <3>1. CASE b = 0
      BY <2>2, <2>3, <2>4, <3>1
    <3>2. CASE b = 1
      BY <2>2, <2>3, <2>4, <3>2
    <3>3. QED
      BY <2>4, <3>1, <3>2
  <2>6. (r = p - 1) <=> \A j \in 0 .. n - 1 : Bit(j) = 1
    BY DEF p, r
  <2>7. (\A j \in 0 .. (n + 1) - 1 : Bit(j) = 1) <=> Bit(n) = 1 /\ \A j \in 0 .. n - 1 : Bit(j) = 1
    <3> HIDE DEF Bit
    <3>1. \A j : j \in 0 .. (n + 1) - 1 <=> j = n \/ j \in 0 .. n - 1
      OBVIOUS
    <3>2. QED
      BY <3>1
  <2>8. n + 1 \in 0 .. N
    BY <1>1
  <2> HIDE DEF Bit, Ones
  <2>9. QED
    BY <2>5, <2>6, <2>7, <2>8 DEF b
<1> HIDE DEF S
<1>4. 0 .. N \subseteq S
  BY <1>1, <1>2, <1>3, InductionTo
<1>5. \A k \in 0 .. N : Ones(k) <=> \A j \in 0 .. k - 1 : Bit(j) = 1
  <2> HIDE DEF Ones, Bit
  <2>1. QED
    BY <1>4 DEF S
<1>6. QED
  BY <1>5 DEF N, Ones, Bit

\* The loop's count is the one k for which the low k bits are ones and the next is zero.
LEMMA TrailingOnes ==
  ASSUME NEW a \in 0 .. Power2[PmpAddressBits] - 1
  PROVE  /\ trailingOnes(a) \in 0 .. PmpAddressBits
         /\ \A k \in 0 .. PmpAddressBits :
              a % Power2[k + 1] = Power2[k] - 1 <=> k = trailingOnes(a)
<1> DEFINE N == PmpAddressBits
           Bit(j) == (a \div Power2[j]) % 2
           Z == {k \in 0 .. N : Bit(k) = 0}
           t == trailingOnes(a)
<1>1. N \in Nat
  BY PmpAssumption DEF PmpAssumption
<1>2. Power2[N] \in Nat \ {0} /\ a \in Nat
  <2>1. N \in 0 .. PmpAddressBits + 3
    BY <1>1
  <2>2. QED
    BY <2>1, Powers
<1>3. N \in Z
  <2> DEFINE p == Power2[N]
  <2>1. p \in Nat \ {0} /\ a \in 0 .. p - 1
    BY <1>2
  <2> HIDE DEF p
  <2>2. a \div p = 0
    BY <2>1
  <2>3. Bit(N) = 0
    BY <2>2 DEF p
  <2>4. QED
    BY <1>1, <2>3
<1>4. t \in Z /\ \A k \in Z : t <= k
  <2>1. Z \in SUBSET Nat /\ Z # {}
    BY <1>1, <1>3
  <2>2. t = CHOOSE x \in Z : \A y \in Z : x <= y
    BY DEF trailingOnes, Min
  <2> HIDE DEF Z, t
  <2>3. \E x \in Z : \A y \in Z : x <= y
    BY <2>1, LeastNatural
  <2>4. QED
    BY <2>2, <2>3
<1>5. t \in 0 .. N /\ Bit(t) = 0 /\ \A k \in 0 .. N : Bit(k) = 0 => t <= k
  <2> HIDE DEF t, Bit
  <2>1. QED
    BY <1>4
<1>6. \A k \in 0 .. N : Bit(k) \in {0, 1}
  <2> SUFFICES ASSUME NEW k \in 0 .. N PROVE Bit(k) \in {0, 1}
    OBVIOUS
  <2> DEFINE p == Power2[k]
  <2>1. k \in 0 .. PmpAddressBits + 3
    BY <1>1
  <2>2. p \in Nat \ {0}
    BY <2>1, Powers
  <2> HIDE DEF p
  <2>3. (a \div p) % 2 \in {0, 1}
    BY <1>2, <2>2
  <2>4. QED
    BY <2>3 DEF p
<1>7. \A k \in 0 .. N : a % Power2[k] = Power2[k] - 1 <=> \A j \in 0 .. k - 1 : Bit(j) = 1
  <2>1. 0 .. N \subseteq 0 .. PmpAddressBits + 1
    BY <1>1
  <2>2. QED
    BY <1>2, <2>1, OnesBelow
<1>8. \A k \in 0 .. N : a % Power2[k + 1] = Power2[k] - 1
                            <=> Bit(k) = 0 /\ a % Power2[k] = Power2[k] - 1
  <2> SUFFICES ASSUME NEW k \in 0 .. N
               PROVE  a % Power2[k + 1] = Power2[k] - 1
                          <=> Bit(k) = 0 /\ a % Power2[k] = Power2[k] - 1
    OBVIOUS
  <2> DEFINE p == Power2[k]
             r == a % p
             b == Bit(k)
  <2>1. k \in 0 .. PmpAddressBits + 3 /\ k \in 0 .. PmpAddressBits + 2
    BY <1>1
  <2>2. p \in Nat \ {0}
    BY <2>1, Powers
  <2>3. a % Power2[k + 1] = r + p * b
    BY <1>2, <2>1, NextRemainder
  <2>4. r \in 0 .. p - 1
    <3> HIDE DEF p
    <3>1. QED
      BY <1>2, <2>2, Division
  <2>5. b \in {0, 1}
    BY <1>6
  <2> HIDE DEF p, r, b
  <2>6. r + p * b = p - 1 <=> b = 0 /\ r = p - 1
    <3>1. CASE b = 0
      BY <2>2, <2>4, <3>1
    <3>2. CASE b = 1
      BY <2>2, <2>4, <3>2
    <3>3. QED
      BY <2>5, <3>1, <3>2
  <2>7. QED
    BY <2>3, <2>6 DEF p, r, b
<1> HIDE DEF t, Bit
<1>9. \A k \in 0 .. N : (Bit(k) = 0 /\ \A j \in 0 .. k - 1 : Bit(j) = 1) <=> k = t
  <2>1. ASSUME NEW k \in 0 .. N, Bit(k) = 0, \A j \in 0 .. k - 1 : Bit(j) = 1 PROVE k = t
    <3>1. t <= k
      BY <1>5, <2>1
    <3>2. ASSUME t < k PROVE FALSE
      BY <1>5, <2>1, <3>2
    <3>3. QED
      BY <1>5, <3>1, <3>2
  <2>2. \A j \in 0 .. t - 1 : Bit(j) = 1
    <3> SUFFICES ASSUME NEW j \in 0 .. t - 1, Bit(j) # 1 PROVE FALSE
      OBVIOUS
    <3>1. j \in 0 .. N
      BY <1>1, <1>5
    <3>2. t <= j
      BY <1>5, <1>6, <3>1
    <3>3. QED
      BY <1>5, <3>2
  <2>3. QED
    BY <1>5, <2>1, <2>2
<1>10. \A k \in 0 .. N : a % Power2[k + 1] = Power2[k] - 1 <=> k = t
  BY <1>7, <1>8, <1>9
<1>11. QED
  BY <1>5, <1>10 DEF t, N

\* The registers are those of the entries, each of its width.
PmpTyped ==
    /\ pmpcfg \in [Entries -> Configs]
    /\ pmpaddr \in [Entries -> 0 .. Power2[PmpAddressBits] - 1]

\* What the decision takes from the constants and the registers of an entry.
LEMMA PmpNumbers ==
  ASSUME PmpTyped, NEW e \in Entries
  PROVE  /\ PmpAddressBits \in Nat /\ PMP_ENTRY_COUNT \in Nat
         /\ pmpaddr[e] \in Nat /\ pmpaddr[e] \in 0 .. Power2[PmpAddressBits] - 1
         /\ pmpcfg[e].mode \in Modes
         /\ e # 0 => pmpaddr[e - 1] \in Nat
<1>1. PmpAddressBits \in Nat /\ PMP_ENTRY_COUNT \in Nat
  BY PmpAssumption DEF PmpAssumption
<1>2. PmpAddressBits \in 0 .. PmpAddressBits + 3
  BY <1>1
<1>3. Power2[PmpAddressBits] \in Nat \ {0}
  BY <1>2, Powers
<1>4. \A d \in Entries : pmpaddr[d] \in 0 .. Power2[PmpAddressBits] - 1 /\ pmpaddr[d] \in Nat
  BY <1>3 DEF PmpTyped
<1>5. e # 0 => e - 1 \in Entries
  BY <1>1 DEF Entries
<1>6. pmpcfg[e].mode \in Modes
  BY DEF PmpTyped, Configs
<1>7. QED
  BY <1>1, <1>4, <1>5, <1>6

\* A naturally aligned power of two: 2^(t+3) bytes from a multiple of as many, for the
\* count t of the trailing ones, and the bytes that the manual's encoding gives it.
LEMMA NapotRange ==
  ASSUME PmpTyped, NEW e \in Entries
  PROVE  LET a == pmpaddr[e]
             t == trailingOnes(a)
             base == 4 * (a - (a % Power2[t + 1]))
         IN /\ base \in Nat /\ Power2[t + 3] \in Nat \ {0}
            /\ \A x \in Nat :
                 (\E k \in 0 .. PmpAddressBits :
                      /\ a % Power2[k + 1] = Power2[k] - 1
                      /\ x \div Power2[k + 3] = a \div Power2[k + 1])
                 <=> base <= x /\ x < base + Power2[t + 3]
<1> DEFINE a == pmpaddr[e]
           t == trailingOnes(a)
           p == Power2[t + 1]
           q == a \div p
           s == Power2[t + 3]
           base == 4 * (a - (a % p))
<1>1. a \in Nat /\ a \in 0 .. Power2[PmpAddressBits] - 1 /\ PmpAddressBits \in Nat
  BY PmpNumbers
<1>2. /\ t \in 0 .. PmpAddressBits
      /\ \A k \in 0 .. PmpAddressBits : a % Power2[k + 1] = Power2[k] - 1 <=> k = t
  <2> HIDE DEF a
  <2>1. QED
    BY <1>1, TrailingOnes
<1>3. p \in Nat \ {0} /\ s = 4 * p
  <2> HIDE DEF t
  <2>1. t + 1 \in 0 .. PmpAddressBits + 3 /\ t + 2 \in 1 .. PmpAddressBits + 3
        /\ t + 3 \in 1 .. PmpAddressBits + 3 /\ (t + 2) - 1 = t + 1 /\ (t + 3) - 1 = t + 2
    BY <1>1, <1>2
  <2>2. Power2[t + 3] = 2 * Power2[t + 2] /\ Power2[t + 2] = 2 * Power2[t + 1]
        /\ Power2[t + 1] \in Nat \ {0}
    BY <2>1, Powers
  <2>3. QED
    BY <2>2
<1>4. q \in Nat /\ a = p * q + (a % p) /\ a % p \in Nat
  <2> HIDE DEF a, p
  <2>1. q \in Nat /\ a % p \in 0 .. p - 1
    BY <1>1, <1>3
  <2>2. a = p * q + (a % p)
    BY <1>1, <1>3
  <2>3. QED
    BY <1>3, <2>1, <2>2
<1>5. base = s * q /\ base \in Nat /\ s \in Nat \ {0}
  <2> DEFINE r == a % p
  <2>1. base = 4 * (a - r) /\ a = p * q + r /\ r \in Nat
    BY <1>4
  <2> HIDE DEF a, p, q, s, base, r
  <2>2. base = 4 * (p * q)
    BY <1>1, <1>3, <1>4, <2>1
  <2>3. s * q = 4 * (p * q) /\ p * q \in Nat
    BY <1>3, <1>4
  <2>4. QED
    BY <1>3, <2>2, <2>3
<1> HIDE DEF a, base
<1>6. ASSUME NEW x \in Nat
      PROVE  (\E k \in 0 .. PmpAddressBits :
                /\ a % Power2[k + 1] = Power2[k] - 1
                /\ x \div Power2[k + 3] = a \div Power2[k + 1])
             <=> base <= x /\ x < base + s
  <2>1. (\E k \in 0 .. PmpAddressBits :
           /\ a % Power2[k + 1] = Power2[k] - 1
           /\ x \div Power2[k + 3] = a \div Power2[k + 1]) <=> x \div s = q
    BY <1>2
  <2> HIDE DEF s, q
  <2>2. x \div s = q <=> s * q <= x /\ x < s * q + s
    BY <1>4, <1>5, QuotientIs
  <2>3. QED
    BY <1>5, <2>1, <2>2
<1>7. QED
  BY <1>5, <1>6 DEF a, base

\* A nonempty range is one of naturals.
LEMMA RangeShape ==
  ASSUME PmpTyped, NEW e \in Entries
  PROVE  \/ entryRange(e) = NoRange
         \/ /\ entryRange(e).low \in Nat /\ entryRange(e).high \in Nat
            /\ entryRange(e).low < entryRange(e).high /\ entryRange(e) # NoRange
<1> DEFINE a == pmpaddr[e]
           low == IF e = 0 THEN 0 ELSE 4 * pmpaddr[e - 1]
           t == trailingOnes(a)
           base == 4 * (a - (a % Power2[t + 1]))
           s == Power2[t + 3]
<1>1. a \in Nat /\ low \in Nat /\ pmpcfg[e].mode \in Modes
  BY PmpNumbers
<1>2. base \in Nat /\ s \in Nat \ {0}
  BY NapotRange
<1>3. /\ pmpcfg[e].mode = "OFF" => entryRange(e) = NoRange
      /\ pmpcfg[e].mode = "TOR" =>
           entryRange(e) = IF low < 4 * a THEN [low |-> low, high |-> 4 * a] ELSE NoRange
      /\ pmpcfg[e].mode = "NA4" => entryRange(e) = [low |-> 4 * a, high |-> 4 * a + 4]
      /\ pmpcfg[e].mode = "NAPOT" => entryRange(e) = [low |-> base, high |-> base + s]
  BY DEF entryRange
<1> HIDE DEF a, low, base, s
<1>4. CASE pmpcfg[e].mode = "OFF"
  BY <1>3, <1>4
<1>5. CASE pmpcfg[e].mode = "TOR"
  BY <1>1, <1>3, <1>5 DEF NoRange
<1>6. CASE pmpcfg[e].mode = "NA4"
  BY <1>1, <1>3, <1>6 DEF NoRange
<1>7. CASE pmpcfg[e].mode = "NAPOT"
  BY <1>2, <1>3, <1>7 DEF NoRange
<1>8. QED
  BY <1>1, <1>4, <1>5, <1>6, <1>7 DEF Modes

\* The bytes of the range are those that the manual's encoding gives the entry.
LEMMA RangeMembers ==
  ASSUME PmpTyped, NEW e \in Entries, NEW x \in Nat
  PROVE  Member(e, x) <=>
           entryRange(e) # NoRange /\ entryRange(e).low <= x /\ x < entryRange(e).high
<1> DEFINE a == pmpaddr[e]
           low == IF e = 0 THEN 0 ELSE 4 * pmpaddr[e - 1]
           t == trailingOnes(a)
           base == 4 * (a - (a % Power2[t + 1]))
           s == Power2[t + 3]
           Encoded == \E k \in 0 .. PmpAddressBits :
                         /\ a % Power2[k + 1] = Power2[k] - 1
                         /\ x \div Power2[k + 3] = a \div Power2[k + 1]
<1>1. a \in Nat /\ low \in Nat /\ pmpcfg[e].mode \in Modes
  BY PmpNumbers
<1>2. base \in Nat /\ s \in Nat \ {0} /\ (Encoded <=> base <= x /\ x < base + s)
  BY NapotRange
<1>3. /\ pmpcfg[e].mode = "OFF" => entryRange(e) = NoRange
      /\ pmpcfg[e].mode = "TOR" =>
           entryRange(e) = IF low < 4 * a THEN [low |-> low, high |-> 4 * a] ELSE NoRange
      /\ pmpcfg[e].mode = "NA4" => entryRange(e) = [low |-> 4 * a, high |-> 4 * a + 4]
      /\ pmpcfg[e].mode = "NAPOT" => entryRange(e) = [low |-> base, high |-> base + s]
  BY DEF entryRange
<1>4. /\ pmpcfg[e].mode = "OFF" => ~Member(e, x)
      /\ pmpcfg[e].mode = "TOR" => (Member(e, x) <=> low <= x /\ x < 4 * a)
      /\ pmpcfg[e].mode = "NA4" => (Member(e, x) <=> x \div 4 = a)
      /\ pmpcfg[e].mode = "NAPOT" => (Member(e, x) <=> Encoded)
  BY DEF Member
<1> HIDE DEF a, low, base, s, Encoded
<1>5. CASE pmpcfg[e].mode = "OFF"
  BY <1>3, <1>4, <1>5
<1>6. CASE pmpcfg[e].mode = "TOR"
  BY <1>1, <1>3, <1>4, <1>6 DEF NoRange
<1>7. CASE pmpcfg[e].mode = "NA4"
  <2>1. x \div 4 = a <=> 4 * a <= x /\ x < 4 * a + 4
    BY <1>1
  <2>2. QED
    BY <1>1, <1>3, <1>4, <1>7, <2>1 DEF NoRange
<1>8. CASE pmpcfg[e].mode = "NAPOT"
  BY <1>2, <1>3, <1>4, <1>8 DEF NoRange
<1>9. QED
  BY <1>1, <1>5, <1>6, <1>7, <1>8 DEF Modes

\* An access and a range overlap exactly when a byte of the access is one of the entry's.
LEMMA OverlapIsSharedByte ==
  ASSUME PmpTyped, NEW e \in Entries, NEW start \in Nat, NEW size \in Nat \ {0}
  PROVE  Overlaps(entryRange(e), start, start + size)
           <=> \E x \in start .. start + size - 1 : Member(e, x)
<1> DEFINE low == entryRange(e).low
           high == entryRange(e).high
           end == start + size
<1>1. Overlaps(entryRange(e), start, end) <=> entryRange(e) # NoRange /\ end > low /\ start < high
  BY DEF Overlaps
<1>2. \A x \in Nat : Member(e, x) <=> entryRange(e) # NoRange /\ low <= x /\ x < high
  BY RangeMembers
<1>3. entryRange(e) # NoRange => low \in Nat /\ high \in Nat /\ low < high
  BY RangeShape
<1> HIDE DEF low, high
<1>4. ASSUME Overlaps(entryRange(e), start, end)
      PROVE  \E x \in start .. end - 1 : Member(e, x)
  <2> DEFINE x == IF start < low THEN low ELSE start
  <2>1. x \in start .. end - 1 /\ low <= x /\ x < high
    BY <1>1, <1>3, <1>4
  <2>2. Member(e, x)
    BY <1>1, <1>2, <1>4, <2>1
  <2> HIDE DEF x
  <2>3. QED
    BY <2>1, <2>2
<1>5. ASSUME NEW x \in start .. end - 1, Member(e, x)
      PROVE  Overlaps(entryRange(e), start, end)
  <2>1. x \in Nat /\ start <= x /\ x < end
    BY <1>5
  <2>2. QED
    BY <1>1, <1>2, <1>3, <1>5, <2>1
<1>6. QED
  BY <1>4, <1>5

\* A range covers an access exactly when every byte of the access is one of the entry's.
LEMMA CoverIsEveryByte ==
  ASSUME PmpTyped, NEW e \in Entries, entryRange(e) # NoRange,
         NEW start \in Nat, NEW size \in Nat \ {0}
  PROVE  (start < entryRange(e).low \/ start + size > entryRange(e).high)
           <=> ~(\A x \in start .. start + size - 1 : Member(e, x))
<1> DEFINE low == entryRange(e).low
           high == entryRange(e).high
<1>1. \A x \in Nat : Member(e, x) <=> low <= x /\ x < high
  BY RangeMembers
<1>2. low \in Nat /\ high \in Nat /\ low < high
  BY RangeShape
<1> HIDE DEF low, high
<1>3. ASSUME start >= low, start + size <= high
      PROVE  \A x \in start .. start + size - 1 : Member(e, x)
  BY <1>1, <1>2, <1>3
<1>4. ASSUME \A x \in start .. start + size - 1 : Member(e, x)
      PROVE  start >= low /\ start + size <= high
  <2>1. Member(e, start) /\ Member(e, start + size - 1)
    BY <1>4
  <2>2. start + size - 1 \in Nat
    OBVIOUS
  <2>3. QED
    BY <1>1, <1>2, <2>1, <2>2
<1>5. start >= low /\ start + size <= high
        <=> ~(start < low \/ start + size > high)
  BY <1>2
<1>6. QED
  BY <1>3, <1>4, <1>5 DEF low, high

\* Which mode an access is checked in, in the four contexts.
LEMMA CheckedMode ==
  ASSUME NEW c \in Contexts, NEW access \in Kinds
  PROVE  accessIsMachine(c.privilege, c.mstatus, access)
           = (c.machine \/ (access = "fetch" /\ c.privilege = 3))
BY DEF Contexts, Kinds, accessIsMachine

\* The permission test is the manual's.
LEMMA GrantsWhatIsNeeded ==
  ASSUME NEW cfg, NEW access \in Kinds
  PROVE  permissionGranted(cfg, access) <=> Needs[access] \subseteq cfg.permissions
BY DEF Kinds, Needs, permissionGranted

\* For one access in one context, the decision is the manual's.
LEMMA Decision ==
  ASSUME PmpTyped, NEW start \in Nat, NEW size \in Nat \ {0}, NEW c \in Contexts,
         NEW access \in Kinds
  PROVE  LET bytes_ == start .. start + size - 1
             hits   == {e \in Entries : \E x \in bytes_ : Member(e, x)}
             first  == CHOOSE e \in hits : \A f \in hits : e <= f
             Allowed(machine) ==
                 IF hits = {} THEN machine
                 ELSE /\ \A x \in bytes_ : Member(first, x)
                      /\ (machine /\ ~pmpcfg[first].lock)
                         \/ Needs[access] \subseteq pmpcfg[first].permissions
         IN physicalMemoryAccessDenied(c.privilege, c.mstatus, start, size, access) =
                ~Allowed(c.machine \/ (access = "fetch" /\ c.privilege = 3))
<1> DEFINE bytes_ == start .. start + size - 1
           hits == {e \in Entries : \E x \in bytes_ : Member(e, x)}
           first == CHOOSE e \in hits : \A f \in hits : e <= f
           machine == c.machine \/ (access = "fetch" /\ c.privilege = 3)
           checked == accessIsMachine(c.privilege, c.mstatus, access)
           overlapping == {e \in Entries : Overlaps(entryRange(e), start, start + size)}
           found == CHOOSE e \in overlapping : \A f \in overlapping : e <= f
<1>1. checked = machine
  BY CheckedMode
<1>2. overlapping = hits
  BY OverlapIsSharedByte
<1>3. ASSUME hits # {}
      PROVE  first \in hits
  <2>1. hits \in SUBSET Nat
    BY DEF Entries
  <2> HIDE DEF hits
  <2>2. QED
    BY <1>3, <2>1, LeastNatural
<1>4. physicalMemoryAccessDenied(c.privilege, c.mstatus, start, size, access) =
        IF overlapping = {} THEN ~checked
        ELSE \/ start < entryRange(found).low \/ start + size > entryRange(found).high
             \/ ~(checked /\ ~pmpcfg[found].lock) /\ ~permissionGranted(pmpcfg[found], access)
  BY DEF physicalMemoryAccessDenied
<1>5. found = first
  BY <1>2
<1>6. ASSUME hits # {}
      PROVE  (start < entryRange(first).low \/ start + size > entryRange(first).high)
               <=> ~(\A x \in bytes_ : Member(first, x))
  <2>1. first \in Entries /\ Overlaps(entryRange(first), start, start + size)
    <3> HIDE DEF first
    <3>1. first \in hits /\ first \in overlapping
      BY <1>2, <1>3, <1>6
    <3>2. QED
      BY <3>1
  <2>2. entryRange(first) # NoRange
    BY <2>1 DEF Overlaps
  <2> HIDE DEF first
  <2>3. QED
    BY <2>1, <2>2, CoverIsEveryByte
<1> HIDE DEF machine, checked, hits, overlapping, found, first
<1>7. CASE hits = {}
  <2>1. physicalMemoryAccessDenied(c.privilege, c.mstatus, start, size, access) = ~machine
    BY <1>1, <1>2, <1>4, <1>7
  <2>2. QED
    BY <1>7, <2>1 DEF machine, hits, first
<1>8. CASE hits # {}
  <2> DEFINE covered == \A x \in bytes_ : Member(first, x)
             exempt == machine /\ ~pmpcfg[first].lock
             granted == Needs[access] \subseteq pmpcfg[first].permissions
  <2>1. physicalMemoryAccessDenied(c.privilege, c.mstatus, start, size, access)
          = (\/ start < entryRange(first).low \/ start + size > entryRange(first).high
             \/ ~exempt /\ ~granted)
    BY <1>1, <1>2, <1>4, <1>5, <1>8, GrantsWhatIsNeeded
  <2>2. (start < entryRange(first).low \/ start + size > entryRange(first).high) <=> ~covered
    BY <1>6, <1>8
  <2> HIDE DEF covered, exempt, granted
  <2>3. physicalMemoryAccessDenied(c.privilege, c.mstatus, start, size, access)
          = ~(covered /\ (exempt \/ granted))
    BY <2>1, <2>2
  <2>4. QED
    BY <1>8, <2>3 DEF covered, exempt, granted, machine, hits, first
<1>9. QED
  BY <1>7, <1>8

-----------------------------------------------------------------------------
\* The registers of the PMP and their locks.

\* What is written to an entry's configuration is legalized into a configuration.
LEMMA LegalByte ==
  ASSUME NEW b \in Configs
  PROVE  legalizePmpCfgByte(b) \in Configs
<1>1. b.permissions \ {"W"} \in SUBSET {"R", "W", "X"}
  BY DEF Configs
<1>2. [b EXCEPT !.permissions = @ \ {"W"}] \in Configs
  BY <1>1 DEF Configs
<1>3. QED
  BY <1>2 DEF legalizePmpCfgByte

\* What is written to an address register is cut to its width.
LEMMA LegalAddr ==
  ASSUME NEW value \in PmpAddresses
  PROVE  legalizePmpAddr(value) \in 0 .. Power2[PmpAddressBits] - 1
<1> DEFINE p == Power2[PmpAddressBits]
<1>1. PmpAddressBits \in 0 .. PmpAddressBits + 3 /\ value \in Nat
  BY PmpAssumption DEF PmpAssumption
<1>2. p \in Nat \ {0}
  BY <1>1, Powers
<1> HIDE DEF p
<1>3. value % p \in 0 .. p - 1
  BY <1>1, <1>2
<1>4. QED
  BY <1>3 DEF p, legalizePmpAddr

\* The writes keep the width of the registers.
LEMMA PmpShape == PmpTyped /\ [PmpNext]_pmpVars => PmpTyped'
<1> SUFFICES ASSUME PmpTyped, [PmpNext]_pmpVars PROVE PmpTyped'
  OBVIOUS
<1>1. CASE WriteCfg
  <2>1. UNCHANGED pmpaddr
    BY <1>1 DEF WriteCfg
  <2>2. PICK register \in {e \div ENTRIES_PER_CFG : e \in Entries} :
          LET es == {e \in Entries : e \div ENTRIES_PER_CFG = register} IN
          \E incoming \in [es -> CfgBytes] : pmpcfg' = legalizePmpCfg(es, incoming)
    BY <1>1 DEF WriteCfg
  <2> DEFINE es == {e \in Entries : e \div ENTRIES_PER_CFG = register}
  <2>3. PICK incoming \in [es -> CfgBytes] : pmpcfg' = legalizePmpCfg(es, incoming)
    BY <2>2
  <2> HIDE DEF es
  <2>4. \A e \in es : legalizePmpCfgByte(incoming[e]) \in Configs
    BY LegalByte, PmpAssumption DEF PmpAssumption
  <2>5. \A e \in Entries : pmpcfg[e] \in Configs
    BY DEF PmpTyped
  <2>6. pmpcfg' \in [Entries -> Configs]
    BY <2>3, <2>4, <2>5 DEF legalizePmpCfg
  <2>7. QED
    BY <2>1, <2>6 DEF PmpTyped
<1>2. CASE WriteAddr
  <2>1. UNCHANGED pmpcfg
    BY <1>2 DEF WriteAddr
  <2>2. PICK e \in Entries, value \in PmpAddresses :
          pmpaddr' = IF pmpAddressWriteIgnored(e) THEN pmpaddr
                     ELSE [pmpaddr EXCEPT ![e] = legalizePmpAddr(value)]
    BY <1>2 DEF WriteAddr
  <2>3. legalizePmpAddr(value) \in 0 .. Power2[PmpAddressBits] - 1
    BY LegalAddr
  <2>4. QED
    BY <2>1, <2>2, <2>3 DEF PmpTyped
<1>3. CASE UNCHANGED pmpVars
  BY <1>3 DEF PmpTyped, pmpVars
<1>4. QED
  BY <1>1, <1>2, <1>3 DEF PmpNext

\* The registers keep their width.
THEOREM PmpTypes == PmpSpec => []PmpTyped
<1>1. PmpInit => PmpTyped
  <2> SUFFICES ASSUME PmpInit PROVE PmpTyped
    OBVIOUS
  <2>1. PmpAddressBits \in 0 .. PmpAddressBits + 3
    BY PmpAssumption DEF PmpAssumption
  <2>2. 0 \in 0 .. Power2[PmpAddressBits] - 1
    BY <2>1, Powers
  <2>3. [permissions |-> {}, mode |-> "OFF", lock |-> FALSE] \in Configs
    BY DEF Configs, Modes
  <2>4. QED
    BY <2>2, <2>3 DEF PmpInit, PmpTyped
<1>2. QED
  BY <1>1, PmpShape, PTL DEF PmpSpec

\* With registers of their width the decision is the manual's.
LEMMA TypedDecides == PmpTyped => DeniesExactly
<1> SUFFICES ASSUME PmpTyped PROVE DeniesExactly
  OBVIOUS
<1>1. \A start \in Starts, size \in AccessSizes : start \in Nat /\ size \in Nat \ {0}
  BY PmpAssumption DEF PmpAssumption, AccessSizes
<1>2. QED
  BY <1>1, Decision, Zenon DEF DeniesExactly

\* The decision on an access is the manual's, for any number of entries of any width and
\* any history of writes to them.
THEOREM DecisionExact == PmpSpec => []DeniesExactly
BY PmpTypes, TypedDecides, PTL

\* A write of a configuration register passes over a locked entry.
LEMMA CfgKeepsLocked ==
    ASSUME PmpTyped, WriteCfg, NEW e \in Entries, pmpcfg[e].lock
    PROVE  pmpcfg'[e] = pmpcfg[e] /\ UNCHANGED pmpaddr
<1>1. UNCHANGED pmpaddr
  BY DEF WriteCfg
<1>2. PICK es, incoming : pmpcfg' = legalizePmpCfg(es, incoming)
  BY DEF WriteCfg
<1>3. QED
  BY <1>1, <1>2 DEF legalizePmpCfg

\* A write of an address register passes over a locked entry, and over the one below it
\* if the locked entry takes its lower bound from there.
LEMMA AddrKeepsLocked ==
    ASSUME PmpTyped, WriteAddr, NEW e \in Entries, pmpcfg[e].lock
    PROVE  /\ UNCHANGED pmpcfg
           /\ pmpaddr'[e] = pmpaddr[e]
           /\ e # 0 /\ pmpcfg[e].mode = "TOR" => pmpaddr'[e - 1] = pmpaddr[e - 1]
<1>1. UNCHANGED pmpcfg
  BY DEF WriteAddr
<1>2. PICK d \in Entries, value \in PmpAddresses :
        pmpaddr' = IF pmpAddressWriteIgnored(d) THEN pmpaddr
                   ELSE [pmpaddr EXCEPT ![d] = legalizePmpAddr(value)]
  BY DEF WriteAddr
<1>3. CASE pmpAddressWriteIgnored(d)
  BY <1>1, <1>2, <1>3
<1>4. CASE ~pmpAddressWriteIgnored(d)
  <2>1. pmpaddr' = [pmpaddr EXCEPT ![d] = legalizePmpAddr(value)]
    BY <1>2, <1>4
  <2>2. d # e
    BY <1>4 DEF pmpAddressWriteIgnored
  <2>3. e # 0 /\ pmpcfg[e].mode = "TOR" => d # e - 1
    BY <1>4 DEF pmpAddressWriteIgnored, Entries
  <2>4. e # 0 => e - 1 \in Entries
    BY PmpAssumption DEF PmpAssumption, Entries
  <2>5. QED
    BY <1>1, <2>1, <2>2, <2>3, <2>4 DEF PmpTyped
<1>5. QED
  BY <1>3, <1>4

\* The range of an entry depends on its configuration and its address and, for a top of
\* range, on the address below.
LEMMA RangeDepends ==
    ASSUME NEW e \in Entries, pmpcfg'[e] = pmpcfg[e], pmpaddr'[e] = pmpaddr[e],
           e # 0 /\ pmpcfg[e].mode = "TOR" => pmpaddr'[e - 1] = pmpaddr[e - 1]
    PROVE  entryRange(e)' = entryRange(e)
<1>1. CASE pmpcfg[e].mode = "TOR" \/ pmpcfg[e].mode = "OFF"
  BY <1>1 DEF entryRange
<1>2. QED
  BY <1>1 DEF entryRange

\* Once an entry is locked, what it covers and permits never changes, for any number of
\* entries, any grouping of them into registers and whatever is written.
THEOREM LockHolds == PmpSpec => LockedForGood
<1>1. PmpTyped /\ [PmpNext]_pmpVars =>
        [\A e \in DOMAIN pmpcfg : pmpcfg[e].lock =>
            pmpcfg'[e] = pmpcfg[e] /\ entryRange(e)' = entryRange(e)]_pmpVars
  <2> SUFFICES ASSUME PmpTyped, PmpNext, NEW e \in DOMAIN pmpcfg, pmpcfg[e].lock
               PROVE  pmpcfg'[e] = pmpcfg[e] /\ entryRange(e)' = entryRange(e)
    OBVIOUS
  <2>1. e \in Entries
    BY DEF PmpTyped
  <2>2. CASE WriteCfg
    BY <2>1, <2>2, CfgKeepsLocked, RangeDepends
  <2>3. CASE WriteAddr
    BY <2>1, <2>3, AddrKeepsLocked, RangeDepends
  <2>4. QED
    BY <2>2, <2>3 DEF PmpNext
<1>2. QED
  BY <1>1, PmpTypes, PTL DEF PmpSpec, LockedForGood

-----------------------------------------------------------------------------
\* The layout of the host buffer.

\* What a layout is made of.
LEMMA LayoutShape ==
  ASSUME NEW s \in Layouts
  PROVE  /\ Len(s) \in Nat /\ DOMAIN s = 1 .. Len(s)
         /\ \A i \in DOMAIN s :
              s[i].hostByteLength \in Nat /\ s[i].guestByteLength \in Nat
         /\ Windows(s) \subseteq DOMAIN s
         /\ \A i \in Windows(s) :
              /\ s[i].guestAddress \in Nat
              /\ s[i].guestByteLength \in Nat \ {0} /\ s[i].hostByteLength \in Nat
         /\ \A i \in DOMAIN s : s[i].id = "ram" => s[i].guestByteLength <= s[i].hostByteLength
<1>1. s \in Seq(RegionSpecs) /\ (\A i \in Windows(s) : s[i].guestByteLength > 0)
      /\ \A i \in DOMAIN s : s[i].id = "ram" => s[i].guestByteLength <= s[i].hostByteLength
  BY MemoryAssumption DEF MemoryAssumption
<1>2. Len(s) \in Nat /\ DOMAIN s = 1 .. Len(s) /\ \A i \in DOMAIN s : s[i] \in RegionSpecs
  BY <1>1
<1>3. \A r \in RegionSpecs : /\ r.hostByteLength \in Nat /\ r.guestByteLength \in Nat
                             /\ r.guestAddress # HostOnly => r.guestAddress \in Nat
  BY DEF RegionSpecs
<1>4. Windows(s) \subseteq DOMAIN s /\ \A i \in Windows(s) : s[i].guestAddress # HostOnly
  BY DEF Windows
<1>5. \A i \in Windows(s) : s[i].guestByteLength # 0
  BY <1>1, <1>2, <1>3, <1>4
<1>6. QED
  BY <1>1, <1>2, <1>3, <1>4, <1>5

\* alignUp goes up to a multiple.
LEMMA AlignUp ==
  ASSUME NEW v \in Nat
  PROVE  LET u == alignUp(v, REGION_HOST_ALIGN)
         IN u \in Nat /\ v <= u /\ u % REGION_HOST_ALIGN = 0
<1> DEFINE p == REGION_HOST_ALIGN
           a == v + p - 1
           q == a \div p
<1>1. p \in Nat \ {0} /\ a \in Nat
  BY MemoryAssumption DEF MemoryAssumption
<1>2. q \in Nat /\ a = p * q + (a % p) /\ a % p \in 0 .. p - 1
  <2> HIDE DEF p, a
  <2>1. QED
    BY <1>1, Division
<1>3. alignUp(v, p) = q * p
  BY DEF alignUp
<1> HIDE DEF q, p
<1>4. v <= q * p /\ q * p \in Nat
  <2>1. q * p = p * q /\ q * p \in Nat
    BY <1>1, <1>2
  <2>2. QED
    BY <1>1, <1>2, <2>1
<1>5. (q * p) % p = 0
  <2> DEFINE b == q * p
  <2>1. b \in Nat /\ b = p * (b \div p) + (b % p) /\ b % p \in 0 .. p - 1 /\ b \div p \in Nat
    <3>1. b \in Nat
      BY <1>4
    <3> HIDE DEF b
    <3>2. QED
      BY <1>1, <3>1, Division
  <2> DEFINE d == b \div p
             r == b % p
  <2>2. d \in Nat /\ r \in 0 .. p - 1 /\ q * p = p * d + r
    BY <2>1
  <2> HIDE DEF d, r, b
  <2>3. p * (q - d) = r
    BY <1>1, <1>2, <2>2
  <2>4. CASE q = d
    <3>1. r = 0
      BY <1>1, <1>2, <2>2, <2>3, <2>4
    <3>2. QED
      BY <3>1 DEF r, b
  <2>5. CASE q > d
    <3>1. p * (q - d) >= p
      BY <1>1, <1>2, <2>2, <2>5
    <3>2. QED
      BY <1>1, <2>2, <2>3, <3>1
  <2>6. CASE q < d
    <3>1. p * (q - d) <= - p
      BY <1>1, <1>2, <2>2, <2>6
    <3>2. QED
      BY <1>1, <2>2, <2>3, <3>1
  <2>7. QED
    BY <1>2, <2>2, <2>4, <2>5, <2>6
<1>6. QED
  BY <1>3, <1>4, <1>5 DEF p

\* The packing: after region i the buffer is as long as its slab's end.
LEMMA Packed ==
  ASSUME NEW s \in Layouts
  PROVE  /\ packedByteLength(s) \in [0 .. Len(s) -> Nat]
         /\ packedByteLength(s)[0] = 0
         /\ \A i \in 1 .. Len(s) :
              packedByteLength(s)[i] =
                  alignUp(packedByteLength(s)[i - 1], REGION_HOST_ALIGN) + s[i].hostByteLength
<1> DEFINE N == Len(s)
           step == [i \in 1 .. N |->
                      [v \in Nat |-> alignUp(v, REGION_HOST_ALIGN) + s[i].hostByteLength]]
<1>1. N \in Nat /\ \A i \in 1 .. N : s[i].hostByteLength \in Nat
  BY LayoutShape
<1>2. \A i \in 1 .. N : \A v \in Nat :
        /\ step[i][v] = alignUp(v, REGION_HOST_ALIGN) + s[i].hostByteLength
        /\ step[i][v] \in Nat
  <2> SUFFICES ASSUME NEW i \in 1 .. N, NEW v \in Nat
               PROVE  /\ step[i][v] = alignUp(v, REGION_HOST_ALIGN) + s[i].hostByteLength
                      /\ step[i][v] \in Nat
    OBVIOUS
  <2>1. step[i][v] = alignUp(v, REGION_HOST_ALIGN) + s[i].hostByteLength
    OBVIOUS
  <2>2. alignUp(v, REGION_HOST_ALIGN) \in Nat
    BY AlignUp
  <2> HIDE DEF step
  <2>3. QED
    BY <1>1, <2>1, <2>2
<1> HIDE DEF N, step
<1>3. PICK f : Solves(f, N, Nat, 0, step)
  <2>1. 0 \in Nat /\ \A i \in 1 .. N : \A v \in Nat : step[i][v] \in Nat
    BY <1>2
  <2>2. QED
    BY <1>1, <2>1, Recursion, Zenon
<1>4. f \in [0 .. N -> Nat] /\ f[0] = 0 /\ \A i \in 1 .. N : f[i] = step[i][f[i - 1]]
  BY <1>3 DEF Solves
<1>5. \A i \in 1 .. N : i - 1 \in 0 .. N /\ f[i - 1] \in Nat
  BY <1>1, <1>4
<1>6. \A i \in 1 .. N : f[i] = alignUp(f[i - 1], REGION_HOST_ALIGN) + s[i].hostByteLength
  BY <1>2, <1>4, <1>5
<1>7. f = [i \in 0 .. N |-> IF i = 0 THEN 0
                           ELSE alignUp(f[i - 1], REGION_HOST_ALIGN) + s[i].hostByteLength]
  <2>1. \A i \in 0 .. N : i = 0 \/ (i \in 1 .. N /\ i # 0)
    OBVIOUS
  <2>2. \A i \in 0 .. N : f[i] = IF i = 0 THEN 0
                        ELSE alignUp(f[i - 1], REGION_HOST_ALIGN) + s[i].hostByteLength
    BY <1>4, <1>6, <2>1
  <2>3. QED
    BY <1>4, <2>2
<1> DEFINE next == packedByteLength(s)
<1>8. next = [i \in 0 .. N |-> IF i = 0 THEN 0
                           ELSE alignUp(next[i - 1], REGION_HOST_ALIGN) + s[i].hostByteLength]
  BY <1>7 DEF packedByteLength, N
<1> HIDE DEF next
<1>9. next[0] = 0 /\ \A i \in 1 .. N :
        next[i] = alignUp(next[i - 1], REGION_HOST_ALIGN) + s[i].hostByteLength
  <2>1. 0 \in 0 .. N /\ \A i \in 1 .. N : i \in 0 .. N /\ i # 0
    BY <1>1
  <2>2. QED
    BY <1>8, <2>1
<1> DEFINE S == {i \in 0 .. N : next[i] \in Nat}
<1>10. 0 \in S
  BY <1>1, <1>9
<1>11. \A n \in 0 .. N - 1 : n \in S => n + 1 \in S
  <2> SUFFICES ASSUME NEW n \in 0 .. N - 1, n \in S PROVE n + 1 \in S
    OBVIOUS
  <2>1. n + 1 \in 1 .. N /\ (n + 1) - 1 = n /\ next[n] \in Nat
    BY <1>1
  <2>2. next[n + 1] = alignUp(next[n], REGION_HOST_ALIGN) + s[n + 1].hostByteLength
    BY <1>9, <2>1
  <2>3. alignUp(next[n], REGION_HOST_ALIGN) \in Nat
    BY <2>1, AlignUp
  <2>4. QED
    BY <1>1, <2>1, <2>2, <2>3
<1> HIDE DEF S
<1>12. 0 .. N \subseteq S
  BY <1>1, <1>10, <1>11, InductionTo
<1>13. next \in [0 .. N -> Nat]
  <2>1. \A i \in 0 .. N : next[i] \in Nat
    BY <1>12 DEF S
  <2>2. QED
    BY <1>8, <2>1
<1>14. QED
  BY <1>9, <1>13 DEF next, N

\* A slab starts at a multiple of the alignment, behind the slabs before it, and ends
\* within the buffer.
LEMMA SlabsApart ==
  ASSUME specs \in Layouts
  PROVE  /\ \A i \in DOMAIN specs :
              /\ hostIndex(i) \in Nat /\ hostIndex(i) % REGION_HOST_ALIGN = 0
              /\ hostIndex(i) + specs[i].hostByteLength <= packedByteLength(specs)[Len(specs)]
         /\ \A i, j \in DOMAIN specs :
              i < j => hostIndex(i) + specs[i].hostByteLength <= hostIndex(j)
         /\ packedByteLength(specs)[Len(specs)] \in Nat
<1> DEFINE N == Len(specs)
           next == packedByteLength(specs)
           host(i) == specs[i].hostByteLength
<1>1. N \in Nat /\ DOMAIN specs = 1 .. N /\ \A i \in 1 .. N : host(i) \in Nat
  BY LayoutShape
<1>2. next \in [0 .. N -> Nat]
  BY Packed
<1>3. \A i \in 1 .. N : i - 1 \in 0 .. N /\ next[i - 1] \in Nat /\ next[i] \in Nat
  BY <1>1, <1>2
<1>4. \A i \in 1 .. N : next[i] = hostIndex(i) + host(i)
  BY Packed DEF hostIndex
<1>5. \A i \in 1 .. N : /\ hostIndex(i) \in Nat /\ next[i - 1] <= hostIndex(i)
                        /\ hostIndex(i) % REGION_HOST_ALIGN = 0
  BY <1>3, AlignUp DEF hostIndex
<1> HIDE DEF N, next, host
<1>6. \A i \in 1 .. N : next[i - 1] <= next[i]
  BY <1>1, <1>3, <1>4, <1>5
<1>7. \A j \in 0 .. N : \A i \in 0 .. j : next[i] <= next[j]
  <2> DEFINE S == {j \in 0 .. N : \A i \in 0 .. j : next[i] <= next[j]}
  <2>1. 0 \in S
    BY <1>1, <1>2
  <2>2. \A n \in 0 .. N - 1 : n \in S => n + 1 \in S
    <3> SUFFICES ASSUME NEW n \in 0 .. N - 1, n \in S PROVE n + 1 \in S
      OBVIOUS
    <3>1. n + 1 \in 1 .. N /\ (n + 1) - 1 = n /\ n + 1 \in 0 .. N
      BY <1>1
    <3>2. next[n] <= next[n + 1] /\ next[n] \in Nat /\ next[n + 1] \in Nat
      BY <1>3, <1>6, <3>1
    <3>3. ASSUME NEW i \in 0 .. n + 1 PROVE next[i] <= next[n + 1]
      <4>1. CASE i = n + 1
        BY <3>2, <4>1
      <4>2. CASE i \in 0 .. n
        <5>1. next[i] <= next[n] /\ i \in 0 .. N
          BY <1>1, <4>2
        <5>2. next[i] \in Nat
          BY <1>2, <5>1
        <5>3. QED
          BY <3>2, <5>1, <5>2
      <4>3. QED
        BY <4>1, <4>2
    <3>4. QED
      BY <3>1, <3>3
  <2> HIDE DEF S
  <2>3. 0 .. N \subseteq S
    BY <1>1, <2>1, <2>2, InductionTo
  <2>4. QED
    BY <2>3 DEF S
<1>8. \A i \in 1 .. N : hostIndex(i) + host(i) <= next[N]
  <2> SUFFICES ASSUME NEW i \in 1 .. N PROVE hostIndex(i) + host(i) <= next[N]
    OBVIOUS
  <2>1. N \in 0 .. N /\ i \in 0 .. N
    BY <1>1
  <2>2. next[i] <= next[N]
    BY <1>7, <2>1
  <2>3. QED
    BY <1>4, <2>2
<1>9. \A i, j \in 1 .. N : i < j => hostIndex(i) + host(i) <= hostIndex(j)
  <2> SUFFICES ASSUME NEW i \in 1 .. N, NEW j \in 1 .. N, i < j
               PROVE  hostIndex(i) + host(i) <= hostIndex(j)
    OBVIOUS
  <2>1. j - 1 \in 0 .. N /\ i \in 0 .. j - 1
    BY <1>1
  <2>2. next[i] <= next[j - 1]
    BY <1>7, <2>1
  <2>3. next[i] = hostIndex(i) + host(i) /\ next[j - 1] <= hostIndex(j)
    BY <1>4, <1>5
  <2>4. hostIndex(i) \in Nat /\ host(i) \in Nat /\ hostIndex(j) \in Nat /\ next[j - 1] \in Nat
    BY <1>1, <1>3, <1>5
  <2>5. QED
    BY <2>2, <2>3, <2>4
<1>10. next[N] \in Nat
  BY <1>1, <1>2
<1>11. QED
  BY <1>1, <1>5, <1>8, <1>9, <1>10 DEF N, next, host

\* Two ranges overlap as the program decides it exactly when they share an address.
LEMMA OverlapShares ==
  ASSUME NEW a \in Nat, NEW m \in Nat, NEW b \in Nat, NEW n \in Nat
  PROVE  rangesOverlap(a, m, b, n) <=> (a .. a + m - 1) \cap (b .. b + n - 1) # {}
<1>1. ASSUME rangesOverlap(a, m, b, n) PROVE (a .. a + m - 1) \cap (b .. b + n - 1) # {}
  <2>1. m > 0 /\ n > 0 /\ a < b + n /\ b < a + m
    BY <1>1 DEF rangesOverlap
  <2>2. CASE a < b
    <3>1. b \in a .. a + m - 1 /\ b \in b .. b + n - 1
      BY <2>1, <2>2
    <3>2. QED
      BY <3>1
  <2>3. CASE ~(a < b)
    <3>1. a \in a .. a + m - 1 /\ a \in b .. b + n - 1
      BY <2>1, <2>3
    <3>2. QED
      BY <3>1
  <2>4. QED
    BY <2>2, <2>3
<1>2. ASSUME NEW x \in (a .. a + m - 1) \cap (b .. b + n - 1) PROVE rangesOverlap(a, m, b, n)
  <2>1. x \in Int /\ a <= x /\ x <= a + m - 1 /\ b <= x /\ x <= b + n - 1
    OBVIOUS
  <2>2. QED
    BY <2>1 DEF rangesOverlap
<1>3. QED
  BY <1>1, <1>2

\* createMemory throws exactly when two windows share an address.
LEMMA ThrowsOnOverlap ==
  ASSUME specs \in Layouts
  PROVE  Throws(specs) <=> \E i, j \in Windows(specs) : i # j /\ Window(i) \cap Window(j) # {}
<1> DEFINE W == Windows(specs)
           Share(i, j) == Window(i) \cap Window(j) # {}
           Found(i, j) == rangesOverlap(specs[i].guestAddress, specs[i].guestByteLength,
                                        specs[j].guestAddress, specs[j].guestByteLength)
<1>1. \A i, j \in W : Found(i, j) <=> Share(i, j)
  <2> SUFFICES ASSUME NEW i \in W, NEW j \in W PROVE Found(i, j) <=> Share(i, j)
    OBVIOUS
  <2>1. /\ specs[i].guestAddress \in Nat /\ specs[i].guestByteLength \in Nat
        /\ specs[j].guestAddress \in Nat /\ specs[j].guestByteLength \in Nat
    BY LayoutShape
  <2>2. QED
    BY <2>1, OverlapShares DEF Window
<1>2. Throws(specs) <=> \E p \in W \X W : p[1] < p[2] /\ Found(p[1], p[2])
  BY DEF Throws, findOverlappingPair
<1>3. \A i \in W : i \in Int
  BY LayoutShape
<1>4. \A i, j \in W : Share(i, j) => Share(j, i)
  OBVIOUS
<1> HIDE DEF W, Share, Found
<1>5. ASSUME NEW p \in W \X W, p[1] < p[2], Found(p[1], p[2])
      PROVE  \E i, j \in W : i # j /\ Share(i, j)
  <2>1. p[1] \in W /\ p[2] \in W /\ p[1] # p[2] /\ Share(p[1], p[2])
    BY <1>1, <1>3, <1>5
  <2>2. QED
    BY <2>1
<1>6. ASSUME NEW i \in W, NEW j \in W, i # j, Share(i, j)
      PROVE  \E p \in W \X W : p[1] < p[2] /\ Found(p[1], p[2])
  <2>1. CASE i < j
    <3>1. <<i, j>> \in W \X W /\ Found(<<i, j>>[1], <<i, j>>[2]) /\ <<i, j>>[1] < <<i, j>>[2]
      BY <1>1, <1>6, <2>1
    <3>2. QED
      BY <3>1
  <2>2. CASE j < i
    <3>1. <<j, i>> \in W \X W /\ Found(<<j, i>>[1], <<j, i>>[2]) /\ <<j, i>>[1] < <<j, i>>[2]
      BY <1>1, <1>4, <1>6, <2>2
    <3>2. QED
      BY <3>1
  <2>3. QED
    BY <1>3, <1>6, <2>1, <2>2
<1>7. QED
  BY <1>2, <1>5, <1>6 DEF W, Share

-----------------------------------------------------------------------------
\* The sort and the bisection of the memory map.

\* The order of the sort is strict and total.
LEMMA SortOrder ==
  ASSUME specs \in Layouts
  PROVE  /\ \A i \in Windows(specs) : ~SortsBefore(i, i)
         /\ \A i, j, k \in Windows(specs) :
              SortsBefore(i, j) /\ SortsBefore(j, k) => SortsBefore(i, k)
         /\ \A i, j \in Windows(specs) : i = j \/ SortsBefore(i, j) \/ SortsBefore(j, i)
<1>1. \A i \in Windows(specs) : i \in Int /\ specs[i].guestAddress \in Nat
  BY LayoutShape
<1>2. QED
  BY <1>1 DEF SortsBefore

\* The sorted windows: each of them once, in the order of the sort.
LEMMA Sorted ==
  ASSUME specs \in Layouts
  PROVE  LET items == regionsByBaseGuestAddress
             n == Cardinality(Windows(specs))
         IN /\ n \in Nat /\ Len(items) = n
            /\ items \in [1 .. n -> Windows(specs)]
            /\ \A i \in Windows(specs) : \E k \in 1 .. n : items[k] = i
            /\ \A k, l \in 1 .. n : k < l => SortsBefore(items[k], items[l])
<1> DEFINE W == Windows(specs)
           n == Cardinality(W)
           Before(i) == {j \in W : SortsBefore(j, i)}
           rank(i) == Cardinality(Before(i))
           items == regionsByBaseGuestAddress
           r == [i \in W |-> rank(i)]
<1>1. IsFiniteSet(W)
  <2>1. Len(specs) \in Int /\ W \subseteq 1 .. Len(specs)
    BY LayoutShape
  <2>2. IsFiniteSet(1 .. Len(specs))
    BY <2>1, FS_Interval
  <2> HIDE DEF W
  <2>3. QED
    BY <2>1, <2>2, FS_Subset
<1>2. n \in Nat
  <2> HIDE DEF W
  <2>1. QED
    BY <1>1, FS_CardinalityType
<1>3. /\ \A i \in W : ~SortsBefore(i, i)
      /\ \A i, j, k \in W : SortsBefore(i, j) /\ SortsBefore(j, k) => SortsBefore(i, k)
      /\ \A i, j \in W : i = j \/ SortsBefore(i, j) \/ SortsBefore(j, i)
  BY SortOrder
<1>4. items = [k \in 1 .. n |-> CHOOSE i \in W : rank(i) = k - 1]
  BY DEF regionsByBaseGuestAddress
<1> HIDE DEF W, items
<1>5. \A i \in W : IsFiniteSet(Before(i)) /\ rank(i) \in Nat
  <2> SUFFICES ASSUME NEW i \in W PROVE IsFiniteSet(Before(i)) /\ rank(i) \in Nat
    OBVIOUS
  <2>1. Before(i) \in SUBSET W
    OBVIOUS
  <2> HIDE DEF Before
  <2>2. IsFiniteSet(Before(i))
    BY <1>1, <2>1, FS_Subset
  <2>3. QED
    BY <2>2, FS_CardinalityType
<1>6. \A i \in W : rank(i) < n
  <2> SUFFICES ASSUME NEW i \in W PROVE rank(i) < n
    OBVIOUS
  <2>1. Before(i) \in SUBSET W /\ Before(i) # W
    BY <1>3
  <2>2. rank(i) \in Nat
    BY <1>5
  <2> HIDE DEF Before
  <2>3. rank(i) <= n /\ (n = rank(i) => W = Before(i))
    BY <1>1, <2>1, FS_Subset
  <2>4. QED
    BY <1>2, <2>1, <2>2, <2>3
<1>7. \A i, j \in W : SortsBefore(i, j) => rank(i) < rank(j)
  <2> SUFFICES ASSUME NEW i \in W, NEW j \in W, SortsBefore(i, j) PROVE rank(i) < rank(j)
    OBVIOUS
  <2>1. Before(i) \in SUBSET Before(j) /\ i \in Before(j) /\ i \notin Before(i)
    BY <1>3
  <2>2. IsFiniteSet(Before(j)) /\ rank(i) \in Nat /\ rank(j) \in Nat
    BY <1>5
  <2> HIDE DEF Before
  <2>3. rank(i) <= rank(j) /\ (rank(j) = rank(i) => Before(j) = Before(i))
    BY <2>1, <2>2, FS_Subset
  <2>4. QED
    BY <2>1, <2>2, <2>3
<1>8. /\ r \in [W -> 0 .. n - 1]
      /\ \A i, j \in W : SortsBefore(i, j) => r[i] < r[j]
      /\ \A i \in W : r[i] = rank(i)
  <2>1. \A i \in W : r[i] = rank(i)
    OBVIOUS
  <2>2. \A i \in W : rank(i) \in 0 .. n - 1
    BY <1>2, <1>5, <1>6
  <2>3. r \in [W -> 0 .. n - 1]
    BY <2>2
  <2> HIDE DEF r, rank
  <2>4. QED
    BY <1>7, <2>1, <2>3
<1> HIDE DEF r
<1>9. \A k \in 1 .. n : \E i \in W : r[i] = k - 1
  <2> DEFINE T == 0 .. n - 1
  <2>1. r \in [W -> T]
    BY <1>8
  <2>2. \A i, j \in W : r[i] = r[j] => i = j
    <3>1. \A i \in W : r[i] \in Int
      BY <1>8
    <3>2. QED
      BY <1>3, <1>8, <3>1
  <2>3. r \in Injection(W, T)
    <3> HIDE DEF T
    <3>1. QED
      BY <2>1, <2>2 DEF Injection, IsInjective
  <2>4. IsFiniteSet(T) /\ Cardinality(T) = n
    <3>1. 0 \in Int /\ n - 1 \in Int
      BY <1>2
    <3>2. IsFiniteSet(T) /\ Cardinality(T) = IF 0 > n - 1 THEN 0 ELSE (n - 1) - 0 + 1
      BY <3>1, FS_Interval
    <3>3. QED
      BY <1>2, <3>2
  <2>5. r \in Surjection(W, T)
    <3> HIDE DEF T
    <3>1. QED
      BY <2>3, <2>4, FS_Injection
  <2>6. \A t \in T : \E i \in W : r[i] = t
    <3> HIDE DEF T
    <3>1. QED
      BY <2>5 DEF Surjection
  <2> SUFFICES ASSUME NEW k \in 1 .. n PROVE \E i \in W : r[i] = k - 1
    OBVIOUS
  <2>7. k - 1 \in T
    BY <1>2
  <2>8. QED
    BY <2>6, <2>7
<1>10. \A k \in 1 .. n : items[k] \in W /\ r[items[k]] = k - 1
  <2> SUFFICES ASSUME NEW k \in 1 .. n PROVE items[k] \in W /\ r[items[k]] = k - 1
    OBVIOUS
  <2>1. items[k] = CHOOSE i \in W : rank(i) = k - 1
    BY <1>4
  <2>2. \E i \in W : rank(i) = k - 1
    BY <1>8, <1>9
  <2>3. items[k] \in W /\ rank(items[k]) = k - 1
    BY <2>1, <2>2
  <2>4. QED
    BY <1>8, <2>3
<1>11. items \in [1 .. n -> W]
  BY <1>4, <1>10
<1>12. Len(items) = n
  <2>1. items \in Seq(W)
    BY <1>2, <1>11
  <2>2. QED
    BY <1>2, <1>11, <2>1
<1> HIDE DEF n, rank
<1>13. ASSUME NEW i \in W PROVE \E k \in 1 .. n : items[k] = i
  <2> DEFINE k == r[i] + 1
  <2>1. k \in 1 .. n /\ k - 1 = r[i]
    BY <1>2, <1>8
  <2> HIDE DEF k
  <2>2. items[k] \in W /\ r[items[k]] = r[i] /\ r[i] \in Int
    BY <1>2, <1>8, <1>10, <2>1
  <2>3. ~SortsBefore(items[k], i) /\ ~SortsBefore(i, items[k])
    BY <1>8, <2>2
  <2>4. items[k] = i
    BY <1>3, <2>2, <2>3
  <2>5. QED
    BY <2>1, <2>4
<1>14. ASSUME NEW k \in 1 .. n, NEW l \in 1 .. n, k < l
       PROVE  SortsBefore(items[k], items[l])
  <2>1. /\ items[k] \in W /\ items[l] \in W
        /\ r[items[k]] = k - 1 /\ r[items[l]] = l - 1
    BY <1>10
  <2>2. items[k] # items[l] /\ ~(r[items[l]] < r[items[k]])
    BY <1>2, <1>14, <2>1
  <2>3. ~SortsBefore(items[l], items[k])
    BY <1>8, <2>1, <2>2
  <2>4. QED
    BY <1>3, <2>1, <2>2, <2>3
<1>15. QED
  BY <1>2, <1>11, <1>12, <1>13, <1>14 DEF W, items, n

\* The bisection finds the boundary: where the first c items are at or below the address
\* and the others above it, the last at or below is at index c - 1.
LEMMA Bisection ==
  ASSUME NEW items, NEW address, Len(items) \in Nat, NEW c \in 0 .. Len(items),
         \A k \in 1 .. Len(items) : specs[items[k]].guestAddress <= address <=> k <= c
  PROVE  findLastIndex(items, address) = c - 1
<1> DEFINE n == Len(items)
           D == (0 .. n) \X (0 .. n)
           Below(k) == specs[items[k]].guestAddress <= address
           Boundary(lo, hi) == IF lo >= hi \/ c < lo THEN lo - 1
                               ELSE IF c > hi THEN hi - 1 ELSE c - 1
           f == [p \in D |-> Boundary(p[1], p[2])]
           search[p \in D] ==
             LET mid == (p[1] + p[2]) \div 2 IN
             IF p[1] >= p[2] THEN p[1] - 1
             ELSE IF specs[items[mid + 1]].guestAddress <= address THEN search[<<mid + 1, p[2]>>]
             ELSE search[<<p[1], mid>>]
<1>1. n \in Nat /\ c \in 0 .. n /\ \A k \in 1 .. n : Below(k) <=> k <= c
  OBVIOUS
<1>2. findLastIndex(items, address) = search[<<0, n>>]
  BY DEF findLastIndex
<1>3. \A lo, hi \in 0 .. n : f[<<lo, hi>>] = Boundary(lo, hi)
  OBVIOUS
<1>4. \A lo, hi \in 0 .. n : lo < hi =>
        LET mid == (lo + hi) \div 2 IN
        /\ mid \in lo .. hi - 1 /\ mid \in 0 .. n /\ mid + 1 \in 1 .. n
        /\ mid + 1 \in 0 .. n
  BY <1>1
<1>5. \A lo, hi \in 0 .. n : \A mid \in lo .. hi - 1 :
        Boundary(lo, hi) = IF mid + 1 <= c THEN Boundary(mid + 1, hi) ELSE Boundary(lo, mid)
  BY <1>1
<1> HIDE DEF n, Below, Boundary
<1>6. f = [p \in D |->
             LET mid == (p[1] + p[2]) \div 2 IN
             IF p[1] >= p[2] THEN p[1] - 1
             ELSE IF specs[items[mid + 1]].guestAddress <= address THEN f[<<mid + 1, p[2]>>]
             ELSE f[<<p[1], mid>>]]
  <2> SUFFICES ASSUME NEW p \in D
               PROVE  Boundary(p[1], p[2]) =
                        LET mid == (p[1] + p[2]) \div 2 IN
                        IF p[1] >= p[2] THEN p[1] - 1
                        ELSE IF Below(mid + 1) THEN f[<<mid + 1, p[2]>>]
                        ELSE f[<<p[1], mid>>]
    BY DEF Below
  <2>1. PICK lo \in 0 .. n, hi \in 0 .. n : p = <<lo, hi>>
    OBVIOUS
  <2>2. CASE lo >= hi
    BY <2>1, <2>2 DEF Boundary
  <2>3. CASE lo < hi
    <3> DEFINE mid == (lo + hi) \div 2
    <3>1. /\ mid \in lo .. hi - 1 /\ mid \in 0 .. n /\ mid + 1 \in 1 .. n
          /\ mid + 1 \in 0 .. n
      BY <1>4, <2>3
    <3>2. p[1] = lo /\ p[2] = hi /\ ~(p[1] >= p[2]) /\ (p[1] + p[2]) \div 2 = mid
      BY <2>1, <2>3
    <3> HIDE DEF mid, f
    <3>3. f[<<mid + 1, hi>>] = Boundary(mid + 1, hi) /\ f[<<lo, mid>>] = Boundary(lo, mid)
      BY <1>3, <3>1
    <3>4. Boundary(lo, hi) = IF Below(mid + 1) THEN Boundary(mid + 1, hi) ELSE Boundary(lo, mid)
      BY <1>1, <1>5, <3>1
    <3>5. QED
      BY <3>2, <3>3, <3>4
  <2>4. QED
    BY <2>2, <2>3
<1> HIDE DEF f
<1>7. search = [p \in D |->
             LET mid == (p[1] + p[2]) \div 2 IN
             IF p[1] >= p[2] THEN p[1] - 1
             ELSE IF specs[items[mid + 1]].guestAddress <= address THEN search[<<mid + 1, p[2]>>]
             ELSE search[<<p[1], mid>>]]
  BY <1>6
<1> HIDE DEF search
<1>8. \A lo, hi \in 0 .. n :
        /\ lo >= hi => search[<<lo, hi>>] = lo - 1
        /\ lo < hi => LET mid == (lo + hi) \div 2 IN
                      search[<<lo, hi>>] = IF Below(mid + 1) THEN search[<<mid + 1, hi>>]
                                           ELSE search[<<lo, mid>>]
  <2> SUFFICES ASSUME NEW lo \in 0 .. n, NEW hi \in 0 .. n
               PROVE  /\ lo >= hi => search[<<lo, hi>>] = lo - 1
                      /\ lo < hi => LET mid == (lo + hi) \div 2 IN
                           search[<<lo, hi>>] = IF Below(mid + 1) THEN search[<<mid + 1, hi>>]
                                                ELSE search[<<lo, mid>>]
    OBVIOUS
  <2> DEFINE p == <<lo, hi>>
  <2>1. p \in D /\ p[1] = lo /\ p[2] = hi
    OBVIOUS
  <2> HIDE DEF p, D
  <2>2. search[p] =
             LET mid == (p[1] + p[2]) \div 2 IN
             IF p[1] >= p[2] THEN p[1] - 1
             ELSE IF specs[items[mid + 1]].guestAddress <= address THEN search[<<mid + 1, p[2]>>]
             ELSE search[<<p[1], mid>>]
    BY <1>7, <2>1
  <2>3. search[p] = IF lo >= hi THEN lo - 1
                    ELSE LET mid == (lo + hi) \div 2 IN
                         IF Below(mid + 1) THEN search[<<mid + 1, hi>>] ELSE search[<<lo, mid>>]
    BY <2>1, <2>2 DEF Below
  <2>4. ~(lo >= hi /\ lo < hi)
    BY <1>1
  <2>5. QED
    BY <2>3, <2>4 DEF p
<1> HIDE DEF D
<1> DEFINE S == {m \in 0 .. n : \A lo, hi \in 0 .. n :
                                  hi - lo <= m => search[<<lo, hi>>] = Boundary(lo, hi)}
<1>9. 0 \in S
  <2> SUFFICES ASSUME NEW lo \in 0 .. n, NEW hi \in 0 .. n, hi - lo <= 0
               PROVE  search[<<lo, hi>>] = Boundary(lo, hi)
    BY <1>1
  <2>1. lo >= hi
    BY <1>1
  <2>2. QED
    BY <1>8, <2>1 DEF Boundary
<1>10. \A m \in 0 .. n - 1 : m \in S => m + 1 \in S
  <2> SUFFICES ASSUME NEW m \in 0 .. n - 1, m \in S PROVE m + 1 \in S
    OBVIOUS
  <2> SUFFICES ASSUME NEW lo \in 0 .. n, NEW hi \in 0 .. n, hi - lo <= m + 1
               PROVE  search[<<lo, hi>>] = Boundary(lo, hi)
    <3>1. m + 1 \in 0 .. n
      BY <1>1
    <3> HIDE DEF Boundary
    <3>2. QED
      BY <3>1
  <2>1. CASE lo >= hi
    BY <1>8, <2>1 DEF Boundary
  <2>2. CASE lo < hi
    <3> DEFINE mid == (lo + hi) \div 2
    <3>1. /\ mid \in lo .. hi - 1 /\ mid \in 0 .. n /\ mid + 1 \in 1 .. n
          /\ mid + 1 \in 0 .. n
      BY <1>4, <2>2
    <3> HIDE DEF mid
    <3>2. hi - (mid + 1) <= m /\ mid - lo <= m
      BY <1>1, <3>1
    <3>3. /\ search[<<mid + 1, hi>>] = Boundary(mid + 1, hi)
          /\ search[<<lo, mid>>] = Boundary(lo, mid)
      BY <3>1, <3>2
    <3>4. Boundary(lo, hi) = IF Below(mid + 1) THEN Boundary(mid + 1, hi) ELSE Boundary(lo, mid)
      BY <1>1, <1>5, <3>1
    <3>5. search[<<lo, hi>>] = IF Below(mid + 1) THEN search[<<mid + 1, hi>>]
                               ELSE search[<<lo, mid>>]
      BY <1>8, <2>2 DEF mid
    <3>6. QED
      BY <3>3, <3>4, <3>5
  <2>3. QED
    BY <1>1, <2>1, <2>2
<1> HIDE DEF S
<1>11. 0 .. n \subseteq S
  BY <1>1, <1>9, <1>10, InductionTo
<1>12. search[<<0, n>>] = Boundary(0, n)
  <2>1. n \in S
    BY <1>1, <1>11
  <2>2. 0 \in 0 .. n /\ n \in 0 .. n /\ n - 0 <= n
    BY <1>1
  <2>3. QED
    BY <2>1, <2>2 DEF S
<1>13. Boundary(0, n) = c - 1
  BY <1>1 DEF Boundary
<1>14. QED
  BY <1>2, <1>12, <1>13

\* The sorted windows fall into those at or below an address and, after them, those above.
LEMMA Partitioned ==
  ASSUME specs \in Layouts, NEW a \in Nat
  PROVE  \E c \in 0 .. Cardinality(Windows(specs)) :
           \A k \in 1 .. Cardinality(Windows(specs)) :
             specs[regionsByBaseGuestAddress[k]].guestAddress <= a <=> k <= c
<1> DEFINE n == Cardinality(Windows(specs))
           items == regionsByBaseGuestAddress
           base(k) == specs[items[k]].guestAddress
           S == {k \in 1 .. n : base(k) > a}
<1>1. n \in Nat /\ items \in [1 .. n -> Windows(specs)]
      /\ \A k, l \in 1 .. n : k < l => SortsBefore(items[k], items[l])
  BY Sorted
<1>2. \A k \in 1 .. n : base(k) \in Nat
  <2>1. \A i \in Windows(specs) : specs[i].guestAddress \in Nat
    BY LayoutShape
  <2> HIDE DEF n, items
  <2>2. QED
    BY <1>1, <2>1
<1>3. \A k, l \in 1 .. n : k < l => base(k) <= base(l)
  <2> SUFFICES ASSUME NEW k \in 1 .. n, NEW l \in 1 .. n, k < l PROVE base(k) <= base(l)
    OBVIOUS
  <2>1. SortsBefore(items[k], items[l])
    BY <1>1
  <2>2. base(k) \in Nat /\ base(l) \in Nat
    BY <1>2
  <2>3. base(k) < base(l) \/ base(k) = base(l)
    BY <2>1 DEF SortsBefore
  <2> HIDE DEF base
  <2>4. QED
    BY <2>2, <2>3
<1> HIDE DEF n, base
<1>4. CASE S = {}
  <2>1. n \in 0 .. n /\ \A k \in 1 .. n : base(k) <= a /\ k <= n
    BY <1>1, <1>2, <1>4
  <2>2. QED
    BY <2>1 DEF n, base
<1>5. CASE S # {}
  <2>1. S \in SUBSET Nat
    BY <1>1
  <2> HIDE DEF S
  <2>2. PICK m \in S : \A k \in S : m <= k
    BY <1>5, <2>1, LeastNatural
  <2>3. m \in 1 .. n /\ base(m) > a
    BY DEF S
  <2>4. m - 1 \in 0 .. n
    BY <1>1, <2>3
  <2>5. ASSUME NEW k \in 1 .. n PROVE base(k) <= a <=> k <= m - 1
    <3>1. CASE k < m
      <4>1. k \notin S
        BY <1>1, <2>2, <2>3, <3>1
      <4>2. ~(base(k) > a) /\ base(k) \in Nat
        BY <1>2, <4>1 DEF S
      <4>3. QED
        BY <1>1, <2>3, <3>1, <4>2
    <3>2. CASE ~(k < m)
      <4>1. base(m) <= base(k)
        BY <1>1, <1>2, <1>3, <2>3, <3>2
      <4>2. base(m) \in Nat /\ base(k) \in Nat
        BY <1>2, <2>3
      <4>3. QED
        BY <1>1, <2>3, <3>2, <4>1, <4>2
    <3>3. QED
      BY <3>1, <3>2
  <2>6. QED
    BY <2>4, <2>5 DEF n, base
<1>6. QED
  BY <1>4, <1>5

\* An address resolves to the window that has it, and to none if no window has it.
LEMMA Resolves ==
  ASSUME specs \in Layouts, ~Throws(specs), NEW a \in Nat
  PROVE  /\ \A i \in Windows(specs) : a \in Window(i) =>
              resolveGuestAddressToRegionAndOffset(a) =
                  [region |-> i, offset |-> a - specs[i].guestAddress]
         /\ (\A i \in Windows(specs) : a \notin Window(i)) =>
              resolveGuestAddressToRegionAndOffset(a) = Unmapped
<1> DEFINE W == Windows(specs)
           n == Cardinality(W)
           items == regionsByBaseGuestAddress
           index == findLastIndex(items, a)
           hit == items[index + 1]
           base(i) == specs[i].guestAddress
           size(i) == specs[i].guestByteLength
           at == resolveGuestAddressToRegionAndOffset(a)
<1>1. /\ n \in Nat /\ Len(items) = n /\ items \in [1 .. n -> W]
      /\ \A i \in W : \E k \in 1 .. n : items[k] = i
      /\ \A k, l \in 1 .. n : k < l => SortsBefore(items[k], items[l])
  BY Sorted
<1>2. \A i \in W : base(i) \in Nat /\ size(i) \in Nat \ {0}
  BY LayoutShape
<1>3. \A i \in W : a \in Window(i) <=> base(i) <= a /\ a < base(i) + size(i)
  <2> SUFFICES ASSUME NEW i \in W
               PROVE  a \in Window(i) <=> base(i) <= a /\ a < base(i) + size(i)
    OBVIOUS
  <2>1. base(i) \in Nat /\ size(i) \in Nat
    BY <1>2
  <2>2. Window(i) = base(i) .. base(i) + size(i) - 1
    BY DEF Window
  <2> HIDE DEF base, size
  <2>3. QED
    BY <2>1, <2>2
<1>4. at = IF index < 0 \/ a >= base(hit) + size(hit) THEN Unmapped
           ELSE [region |-> hit, offset |-> a - base(hit)]
  BY DEF resolveGuestAddressToRegionAndOffset
<1>5. PICK c \in 0 .. n : \A k \in 1 .. n : specs[items[k]].guestAddress <= a <=> k <= c
  BY Partitioned
<1>6. index = c - 1
  <2> HIDE DEF items, W
  <2>1. Len(items) \in Nat /\ c \in 0 .. Len(items)
        /\ \A k \in 1 .. Len(items) : specs[items[k]].guestAddress <= a <=> k <= c
    BY <1>1, <1>5
  <2>2. QED
    BY <2>1, Bisection
<1>7. \A k \in 1 .. n : base(items[k]) <= a <=> k <= c
  BY <1>5
<1>8. \A i, j \in W : i # j => ~(a \in Window(i) /\ a \in Window(j))
  BY ThrowsOnOverlap
<1>9. \A i, j \in W : i # j => base(i) # base(j)
  <2> SUFFICES ASSUME NEW i \in W, NEW j \in W, i # j, base(i) = base(j) PROVE FALSE
    OBVIOUS
  <2>1. base(i) \in Window(i) /\ base(j) \in Window(j)
    <3>1. /\ base(i) \in Nat /\ size(i) \in Nat \ {0}
          /\ base(j) \in Nat /\ size(j) \in Nat \ {0}
      BY <1>2
    <3>2. Window(i) = base(i) .. base(i) + size(i) - 1
          /\ Window(j) = base(j) .. base(j) + size(j) - 1
      BY DEF Window
    <3> HIDE DEF base, size
    <3>3. QED
      BY <3>1, <3>2
  <2>2. Window(i) \cap Window(j) # {}
    BY <2>1
  <2>3. QED
    BY <2>2, ThrowsOnOverlap
<1>10. \A k, l \in 1 .. n : k < l => base(items[k]) < base(items[l])
  <2> SUFFICES ASSUME NEW k \in 1 .. n, NEW l \in 1 .. n, k < l
               PROVE  base(items[k]) < base(items[l])
    OBVIOUS
  <2>1. base(items[k]) < base(items[l]) \/ (base(items[k]) = base(items[l]) /\ items[k] < items[l])
    BY <1>1 DEF SortsBefore
  <2>2. items[k] \in W /\ items[l] \in W
    BY <1>1
  <2>3. items[k] \in Int /\ items[l] \in Int
    BY <2>2, LayoutShape
  <2>4. QED
    BY <1>9, <2>1, <2>2, <2>3
<1> HIDE DEF W, n, items, index, base, size, at
<1>11. ASSUME NEW i \in W, a \in Window(i)
       PROVE  at = [region |-> i, offset |-> a - base(i)]
  <2>1. base(i) <= a /\ a < base(i) + size(i)
    BY <1>3, <1>11
  <2>2. PICK k \in 1 .. n : items[k] = i
    BY <1>1
  <2>3. k <= c
    BY <1>7, <2>1, <2>2
  <2>4. c \in 1 .. n /\ items[c] \in W /\ base(items[c]) <= a
    BY <1>1, <1>7, <2>3
  <2>5. k = c
    <3>1. SUFFICES ASSUME k < c PROVE FALSE
      BY <1>1, <2>3
    <3>2. base(i) < base(items[c])
      BY <1>10, <2>2, <2>4, <3>1
    <3>3. base(items[c]) \in Window(i) /\ base(items[c]) \in Window(items[c])
      <4> DEFINE j == items[c]
      <4>1. j \in W
        BY <2>4
      <4>2. Window(i) = base(i) .. base(i) + size(i) - 1
            /\ Window(j) = base(j) .. base(j) + size(j) - 1
        BY DEF Window, base, size
      <4>3. /\ base(i) \in Nat /\ size(i) \in Nat
            /\ base(j) \in Nat /\ size(j) \in Nat \ {0}
        BY <1>2, <4>1
      <4>4. base(i) < base(j) /\ base(j) <= a /\ a < base(i) + size(i)
        BY <2>1, <2>4, <3>2
      <4> HIDE DEF j
      <4>5. QED
        BY <4>2, <4>3, <4>4 DEF j
    <3>4. items[c] # i
      BY <1>2, <2>4, <3>2
    <3>5. Window(i) \cap Window(items[c]) # {}
      BY <3>3
    <3>6. QED
      BY <2>4, <3>4, <3>5, ThrowsOnOverlap DEF W
  <2>6. index + 1 = c /\ ~(index < 0)
    BY <1>1, <1>6, <2>4
  <2>7. hit = i
    BY <2>2, <2>5, <2>6
  <2>8. ~(a >= base(i) + size(i))
    BY <1>2, <2>1
  <2> HIDE DEF hit
  <2>9. QED
    BY <1>4, <2>6, <2>7, <2>8
<1>12. ASSUME \A i \in W : a \notin Window(i)
       PROVE  at = Unmapped
  <2>1. CASE c = 0
    <3>1. index < 0
      BY <1>6, <2>1
    <3>2. QED
      BY <1>4, <3>1
  <2>2. CASE c # 0
    <3>1. c \in 1 .. n /\ index + 1 = c
      BY <1>1, <1>6, <2>2
    <3>2. hit \in W /\ base(hit) <= a
      BY <1>1, <1>7, <3>1
    <3> HIDE DEF hit
    <3>3. ~(a < base(hit) + size(hit))
      BY <1>3, <1>12, <3>2
    <3>4. base(hit) \in Nat /\ size(hit) \in Nat
      BY <1>2, <3>2
    <3>5. a >= base(hit) + size(hit)
      BY <3>3, <3>4
    <3>6. QED
      BY <1>4, <3>5
  <2>3. QED
    BY <2>1, <2>2
<1>13. QED
  BY <1>11, <1>12 DEF W, at, base

-----------------------------------------------------------------------------
\* The memory map as a machine.

\* An access is mapped exactly when one window has all of its bytes.
LEMMA MappedIsOneWindow ==
  ASSUME specs \in Layouts, ~Throws(specs), NEW a \in Nat, NEW n \in Nat \ {0}
  PROVE  guestAccessIsMapped(a, n) <=> \E i \in Windows(specs) : a .. a + n - 1 \subseteq Window(i)
<1> DEFINE W == Windows(specs)
           at == resolveGuestAddressToRegionAndOffset(a)
           base(i) == specs[i].guestAddress
           size(i) == specs[i].guestByteLength
<1>1. guestAccessIsMapped(a, n) <=> at # Unmapped /\ at.offset + n <= size(at.region)
  BY DEF guestAccessIsMapped
<1>2. \A i \in W : base(i) \in Nat /\ size(i) \in Nat /\ i # 0
                   /\ Window(i) = base(i) .. base(i) + size(i) - 1
  BY LayoutShape DEF Window
<1>3. /\ \A i \in W : a \in Window(i) => at = [region |-> i, offset |-> a - base(i)]
      /\ (\A i \in W : a \notin Window(i)) => at = Unmapped
  BY Resolves
<1>4. \A i, j \in W : a \in Window(i) /\ a \in Window(j) => i = j
  BY ThrowsOnOverlap
<1>5. a \in a .. a + n - 1
  OBVIOUS
<1> HIDE DEF W, at, base, size
<1>6. CASE \E i \in W : a \in Window(i)
  <2>1. PICK i \in W : a \in Window(i)
    BY <1>6
  <2>2. at = [region |-> i, offset |-> a - base(i)] /\ at # Unmapped
    BY <1>2, <1>3, <2>1 DEF Unmapped
  <2>3. guestAccessIsMapped(a, n) <=> a - base(i) + n <= size(i)
    BY <1>1, <2>2
  <2>4. a .. a + n - 1 \subseteq Window(i) <=> a - base(i) + n <= size(i)
    <3>1. Window(i) = base(i) .. base(i) + size(i) - 1 /\ base(i) \in Nat /\ size(i) \in Nat
      BY <1>2
    <3>2. base(i) <= a
      BY <2>1, <3>1
    <3>3. ASSUME a - base(i) + n <= size(i) PROVE a .. a + n - 1 \subseteq Window(i)
      BY <3>1, <3>2, <3>3
    <3>4. ASSUME a .. a + n - 1 \subseteq Window(i) PROVE a - base(i) + n <= size(i)
      <4>1. a + n - 1 \in a .. a + n - 1
        OBVIOUS
      <4>2. a + n - 1 \in base(i) .. base(i) + size(i) - 1
        BY <3>1, <3>4, <4>1
      <4>3. QED
        BY <3>1, <4>2
    <3>5. QED
      BY <3>3, <3>4
  <2>5. \A j \in W : a .. a + n - 1 \subseteq Window(j) => j = i
    BY <1>4, <1>5, <2>1
  <2>6. QED
    BY <2>1, <2>3, <2>4, <2>5 DEF W
<1>7. CASE ~(\E i \in W : a \in Window(i))
  <2>1. ~guestAccessIsMapped(a, n)
    BY <1>1, <1>3, <1>7
  <2>2. \A i \in W : ~(a .. a + n - 1 \subseteq Window(i))
    BY <1>5, <1>7
  <2>3. QED
    BY <2>1, <2>2 DEF W
<1>8. QED
  BY <1>6, <1>7

\* The layout is one of the given ones, and the buffer is as long as its packing.
MemoryHolds ==
    /\ specs \in Layouts
    /\ ~Throws(specs) => bytes = [i \in 1 .. packedByteLength(specs)[Len(specs)] |-> bytes[i]]

\* The buffer has the length of the packing.
LEMMA BufferLength ==
  ASSUME MemoryHolds, ~Throws(specs)
  PROVE  /\ packedByteLength(specs)[Len(specs)] \in Nat
         /\ DOMAIN bytes = 1 .. packedByteLength(specs)[Len(specs)]
         /\ Len(bytes) = packedByteLength(specs)[Len(specs)]
<1> DEFINE p == packedByteLength(specs)[Len(specs)]
<1>1. p \in Nat
  BY SlabsApart DEF MemoryHolds
<1>2. bytes = [i \in 1 .. p |-> bytes[i]]
  BY DEF MemoryHolds
<1> HIDE DEF p
<1>3. DOMAIN bytes = 1 .. p
  BY <1>2
<1>4. Len(bytes) = p
  <2> DEFINE V == {bytes[i] : i \in 1 .. p}
  <2>1. bytes \in [1 .. p -> V]
    BY <1>2
  <2> HIDE DEF V
  <2>2. bytes \in Seq(V)
    BY <1>1, <2>1
  <2>3. QED
    BY <1>1, <1>3, <2>2, LenProperties
<1>5. QED
  BY <1>1, <1>3, <1>4 DEF p

\* With the layout and the buffer as they should be, the map is what it should be.
LEMMA MapIsExact == MemoryHolds => ResolvesExactly
<1> SUFFICES ASSUME MemoryHolds PROVE ResolvesExactly
  OBVIOUS
<1>1. specs \in Layouts /\ \A a \in GuestAddresses : a \in Nat
  BY MemoryAssumption DEF MemoryHolds, MemoryAssumption
<1>2. Throws(specs) <=> \E i, j \in Windows(specs) : i # j /\ Window(i) \cap Window(j) # {}
  BY <1>1, ThrowsOnOverlap
<1>3. ASSUME ~Throws(specs)
      PROVE  /\ \A i, j \in DOMAIN specs : i # j => Slab(i) \cap Slab(j) = {}
             /\ \A i \in DOMAIN specs : hostIndex(i) % REGION_HOST_ALIGN = 0
                                        /\ \A h \in Slab(i) : h + 1 \in DOMAIN bytes
  <2> DEFINE host(i) == specs[i].hostByteLength
             p == packedByteLength(specs)[Len(specs)]
  <2>1. p \in Nat /\ DOMAIN bytes = 1 .. p
    BY <1>3, BufferLength
  <2>2. /\ \A i \in DOMAIN specs :
             /\ hostIndex(i) \in Nat /\ hostIndex(i) % REGION_HOST_ALIGN = 0
             /\ hostIndex(i) + host(i) <= p
        /\ \A i, j \in DOMAIN specs : i < j => hostIndex(i) + host(i) <= hostIndex(j)
    BY <1>1, SlabsApart
  <2>3. \A i \in DOMAIN specs : i \in Int /\ host(i) \in Nat
    BY <1>1, LayoutShape
  <2>4. \A i \in DOMAIN specs : Slab(i) = hostIndex(i) .. hostIndex(i) + host(i) - 1
    BY DEF Slab
  <2> HIDE DEF host, p
  <2>5. ASSUME NEW i \in DOMAIN specs, NEW j \in DOMAIN specs, i < j
        PROVE  Slab(i) \cap Slab(j) = {}
    <3>1. /\ hostIndex(i) \in Nat /\ hostIndex(j) \in Nat /\ host(i) \in Nat /\ host(j) \in Nat
          /\ hostIndex(i) + host(i) <= hostIndex(j)
      BY <2>2, <2>3, <2>5
    <3>2. QED
      BY <2>4, <3>1
  <2>6. ASSUME NEW i \in DOMAIN specs, NEW h \in Slab(i) PROVE h + 1 \in DOMAIN bytes
    <3>1. hostIndex(i) \in Nat /\ host(i) \in Nat /\ hostIndex(i) + host(i) <= p
      BY <2>2, <2>3
    <3>2. QED
      BY <2>1, <2>4, <2>6, <3>1
  <2>7. \A i, j \in DOMAIN specs : i # j => i < j \/ j < i
    BY <2>3
  <2>8. \A i, j \in DOMAIN specs : i # j => Slab(i) \cap Slab(j) = {}
    BY <2>5, <2>7
  <2>9. QED
    BY <2>2, <2>6, <2>8
<1>4. ASSUME ~Throws(specs), NEW a \in GuestAddresses
      PROVE  /\ resolveGuestAddressToRegionAndOffset(a) =
                   IF \E i \in Windows(specs) : a \in Window(i)
                   THEN LET i == CHOOSE i \in Windows(specs) : a \in Window(i)
                        IN [region |-> i, offset |-> a - specs[i].guestAddress]
                   ELSE Unmapped
             /\ \A n \in {1, 2, 4, 8} : guestAccessIsMapped(a, n) <=>
                   \E i \in Windows(specs) : a .. a + n - 1 \subseteq Window(i)
  <2>1. a \in Nat
    BY <1>1
  <2>2. \A n \in {1, 2, 4, 8} : guestAccessIsMapped(a, n) <=>
          \E i \in Windows(specs) : a .. a + n - 1 \subseteq Window(i)
    <3> SUFFICES ASSUME NEW n \in {1, 2, 4, 8}
                 PROVE  guestAccessIsMapped(a, n) <=>
                          \E i \in Windows(specs) : a .. a + n - 1 \subseteq Window(i)
      OBVIOUS
    <3>1. n \in Nat \ {0}
      OBVIOUS
    <3>2. QED
      BY <1>1, <1>4, <2>1, <3>1, MappedIsOneWindow
  <2>3. /\ \A i \in Windows(specs) : a \in Window(i) =>
             resolveGuestAddressToRegionAndOffset(a) =
                 [region |-> i, offset |-> a - specs[i].guestAddress]
        /\ (\A i \in Windows(specs) : a \notin Window(i)) =>
             resolveGuestAddressToRegionAndOffset(a) = Unmapped
    BY <1>1, <1>4, <2>1, Resolves
  <2>4. CASE \E i \in Windows(specs) : a \in Window(i)
    <3> DEFINE i == CHOOSE i \in Windows(specs) : a \in Window(i)
    <3>1. i \in Windows(specs) /\ a \in Window(i)
      BY <2>4
    <3>2. resolveGuestAddressToRegionAndOffset(a) =
            [region |-> i, offset |-> a - specs[i].guestAddress]
      <4> HIDE DEF i
      <4>1. QED
        BY <2>3, <3>1
    <3>3. QED
      BY <2>2, <2>4, <3>2
  <2>5. CASE ~(\E i \in Windows(specs) : a \in Window(i))
    BY <2>2, <2>3, <2>5
  <2>6. QED
    BY <2>4, <2>5
<1>5. QED
  BY <1>2, <1>3, <1>4 DEF ResolvesExactly

\* A store keeps the layout and the length of the buffer.
LEMMA MemoryShape == MemoryHolds /\ [MemoryNext]_memoryVars => MemoryHolds'
<1> SUFFICES ASSUME MemoryHolds, [MemoryNext]_memoryVars PROVE MemoryHolds'
  OBVIOUS
<1>1. CASE UNCHANGED memoryVars
  BY <1>1 DEF MemoryHolds, memoryVars
<1>2. CASE MemoryNext
  <2>1. PICK a \in GuestAddresses, source \in StoreSources, n \in {1, 2, 4} :
          storeBytes(a, source, n)
    BY <1>2 DEF MemoryNext
  <2>2. specs' = specs /\ ~Throws(specs)
    BY <1>2, <2>1 DEF MemoryNext, storeBytes
  <2> DEFINE p == packedByteLength(specs)[Len(specs)]
  <2>3. bytes = [i \in 1 .. p |-> bytes[i]]
    BY <2>2 DEF MemoryHolds
  <2>4. bytes' = [i \in 1 .. p |-> bytes'[i]]
    <3> HIDE DEF p
    <3>1. DOMAIN bytes = 1 .. p
      BY <2>3
    <3>2. CASE bytes' = bytes
      BY <2>3, <3>2
    <3>3. CASE bytes' # bytes
      <4>1. PICK at, targets :
              bytes' = [i \in DOMAIN bytes |->
                          IF i - 1 \in Range(targets)
                          THEN source[AntiFunction(targets)[i - 1]] ELSE bytes[i]]
        BY <2>1, <3>3 DEF storeBytes
      <4>2. QED
        BY <3>1, <4>1
    <3>4. QED
      BY <3>2, <3>3
  <2>5. QED
    BY <2>2, <2>4 DEF MemoryHolds
<1>3. QED
  BY <1>1, <1>2

\* The layout and the buffer stay as they should be.
THEOREM BufferStays == MemorySpec => []MemoryHolds
<1>1. MemoryInit => MemoryHolds
  <2> SUFFICES ASSUME MemoryInit PROVE MemoryHolds
    OBVIOUS
  <2>1. PICK s \in Layouts : specs = s /\ bytes = IF Throws(s) THEN <<>>
                   ELSE [i \in 1 .. packedByteLength(s)[Len(s)] |-> 0]
    BY DEF MemoryInit
  <2> DEFINE p == packedByteLength(s)[Len(s)]
  <2>2. ~Throws(specs) => bytes = [i \in 1 .. p |-> 0]
    BY <2>1
  <2> HIDE DEF p
  <2>3. ~Throws(specs) => bytes = [i \in 1 .. p |-> bytes[i]]
    BY <2>2
  <2>4. QED
    BY <2>1, <2>3 DEF MemoryHolds, p
<1>2. QED
  BY <1>1, MemoryShape, PTL DEF MemorySpec

\* Every guest address is found in the window that has it and nowhere else, and the slabs do
\* not overlap, for any layout whose windows are not empty.
THEOREM MapExact == MemorySpec => []ResolvesExactly
BY BufferStays, MapIsExact, PTL

\* createMemory has returned a map, and it resolves what it should: as formulas of a state,
\* so that the one follows from the other after a step too.
MapMade == specs \in Layouts /\ ~Throws(specs)
ResolvesRight ==
    \A a \in Nat : \A i \in Windows(specs) : a \in Window(i) =>
        resolveGuestAddressToRegionAndOffset(a) =
            [region |-> i, offset |-> a - specs[i].guestAddress]

\* Resolves, for every address at once.
LEMMA MadeResolves == MapMade => ResolvesRight
BY Resolves DEF MapMade, ResolvesRight

\* Resolves, after a step.
LEMMA MadeResolvesNext == MapMade' => ResolvesRight'
BY MadeResolves, PTL

\* The host byte of an offset into RAM that is in its window.
LEMMA RamHostByte ==
  ASSUME specs \in Layouts, NEW ram \in Windows(specs), specs[ram].id = "ram", NEW o \in Nat
  PROVE  /\ hostIndex(ram) \in Nat
         /\ o < specs[ram].guestByteLength =>
              /\ denseGuestToHostIndex(ram, o) = hostIndex(ram) + o
              /\ denseGuestToHostIndex(ram, o) # HostOnly
              /\ hostIndex(ram) + o < packedByteLength(specs)[Len(specs)]
         /\ ~(o < specs[ram].guestByteLength) => denseGuestToHostIndex(ram, o) = HostOnly
<1> DEFINE g == specs[ram].guestByteLength
           h == specs[ram].hostByteLength
           b == hostIndex(ram)
           p == packedByteLength(specs)[Len(specs)]
<1>1. g \in Nat /\ h \in Nat /\ g <= h /\ ram \in DOMAIN specs
  BY LayoutShape
<1>2. b \in Nat /\ b + h <= p /\ p \in Nat
  BY <1>1, SlabsApart
<1>3. denseGuestToHostIndex(ram, o) = IF o >= g \/ o >= h THEN HostOnly ELSE b + o
  BY DEF denseGuestToHostIndex
<1> HIDE DEF g, h, b, p
<1>4. CASE o < g
  <2>1. ~(o >= g \/ o >= h) /\ b + o < p /\ b + o \in Nat
    BY <1>1, <1>2, <1>4
  <2>2. QED
    BY <1>2, <1>3, <1>4, <2>1 DEF g, b, p, HostOnly
<1>5. CASE ~(o < g)
  <2>1. o >= g
    BY <1>1, <1>5
  <2>2. QED
    BY <1>2, <1>3, <1>5, <2>1 DEF g, b
<1>6. QED
  BY <1>4, <1>5

\* The smaller of two.
LEMMA SmallerOf ==
  ASSUME NEW x \in Int, NEW y \in Int
  PROVE  Min({x, y}) = IF x <= y THEN x ELSE y
<1>1. \E m \in {x, y} : \A z \in {x, y} : m <= z
  OBVIOUS
<1>2. Min({x, y}) \in {x, y} /\ \A z \in {x, y} : Min({x, y}) <= z
  BY <1>1 DEF Min
<1>3. QED
  BY <1>2

\* Where a store to RAM puts its bytes: the k-th at the k-th host byte from the address on,
\* as far as the window goes.
LEMMA StoreTargets ==
  ASSUME specs \in Layouts, NEW ram \in Windows(specs), specs[ram].id = "ram",
         NEW o \in Nat, o < specs[ram].guestByteLength, NEW n \in Nat \ {0}, NEW h \in Nat
  PROVE  LET targets == [k \in 1 .. n |-> denseGuestToHostIndex(ram, o + k - 1)]
             first == hostIndex(ram) + o
             written == first .. first + Min({n, specs[ram].guestByteLength - o}) - 1
         IN /\ h \in Range(targets) <=> h \in written
            /\ h \in written => AntiFunction(targets)[h] = h - first + 1
<1> DEFINE g == specs[ram].guestByteLength
           first == hostIndex(ram) + o
           targets == [k \in 1 .. n |-> denseGuestToHostIndex(ram, o + k - 1)]
           count == IF n <= g - o THEN n ELSE g - o
           written == first .. first + Min({n, g - o}) - 1
<1>1. g \in Nat
  BY LayoutShape
<1>2. first \in Nat /\ \A k \in 1 .. n :
        targets[k] = IF o + k - 1 < g THEN first + (k - 1) ELSE HostOnly
  <2>1. hostIndex(ram) \in Nat
    BY RamHostByte
  <2>2. ASSUME NEW k \in 1 .. n
        PROVE  targets[k] = IF o + k - 1 < g THEN first + (k - 1) ELSE HostOnly
    <3>1. o + k - 1 \in Nat
      OBVIOUS
    <3>2. targets[k] = denseGuestToHostIndex(ram, o + k - 1)
      OBVIOUS
    <3>3. denseGuestToHostIndex(ram, o + k - 1) =
            IF o + k - 1 < g THEN hostIndex(ram) + (o + k - 1) ELSE HostOnly
      BY <3>1, RamHostByte
    <3>4. hostIndex(ram) + (o + k - 1) = first + (k - 1)
      BY <2>1
    <3>5. QED
      BY <3>2, <3>3, <3>4
  <2>3. QED
    BY <2>1, <2>2
<1>3. DOMAIN targets = 1 .. n
  OBVIOUS
<1>4. written = first .. first + count - 1
  <2> HIDE DEF g
  <2>1. n \in Int /\ g - o \in Int
    BY <1>1
  <2>2. QED
    BY <2>1, SmallerOf
<1>5. h \in Range(targets) <=> \E k \in 1 .. n : targets[k] = h
  BY <1>3 DEF Range
<1>6. h \in Range(targets) =>
        AntiFunction(targets)[h] = CHOOSE k \in 1 .. n : h \in Range(targets) => targets[k] = h
  BY <1>3 DEF AntiFunction, Inverse
<1> HIDE DEF g, first, targets, written
<1>7. ASSUME NEW k \in 1 .. n, targets[k] = h PROVE h \in written /\ k = h - first + 1
  <2>1. o + k - 1 < g /\ h = first + (k - 1)
    BY <1>2, <1>7 DEF HostOnly
  <2>2. QED
    BY <1>1, <1>2, <1>4, <2>1
<1>8. ASSUME h \in written
      PROVE  h - first + 1 \in 1 .. n /\ targets[h - first + 1] = h
  <2> DEFINE k == h - first + 1
  <2>1. k \in 1 .. n /\ o + k - 1 < g /\ first + (k - 1) = h
    BY <1>1, <1>2, <1>4, <1>8
  <2> HIDE DEF k
  <2>2. QED
    BY <1>2, <2>1 DEF k
<1>9. h \in Range(targets) <=> h \in written
  BY <1>5, <1>7, <1>8
<1>10. ASSUME h \in written PROVE AntiFunction(targets)[h] = h - first + 1
  <2> DEFINE k == AntiFunction(targets)[h]
  <2>1. k \in 1 .. n /\ targets[k] = h
    BY <1>5, <1>6, <1>9, <1>10
  <2> HIDE DEF k
  <2>2. QED
    BY <1>7, <2>1 DEF k
<1>11. QED
  BY <1>9, <1>10 DEF targets, first, written, g

\* After a store to RAM its bytes are there, and a load returns them.
LEMMA RamLoadsBack ==
  ASSUME specs \in Layouts, ~Throws(specs), specs' = specs, NEW a \in Nat, NEW source,
         NEW n \in Nat \ {0}, NEW i \in Windows(specs), a \in Window(i), specs[i].id = "ram",
         \A k \in 1 .. n : a + k - 1 \in Window(i) =>
           bytes'[hostIndex(i) + (a - specs[i].guestAddress + k - 1) + 1] = source[k]
  PROVE  loadBytes(a, n)' = [k \in 1 .. n |-> IF a + k - 1 \in Window(i) THEN source[k] ELSE 0]
<1> DEFINE base == specs[i].guestAddress
           g == specs[i].guestByteLength
           o == a - base
           Source(k) == denseGuestToHostIndex(i, o + k - 1)
<1>1. base \in Nat /\ g \in Nat /\ i # 0 /\ Window(i) = base .. base + g - 1
  BY LayoutShape DEF Window
<1>2. o \in Nat
  <2> HIDE DEF base, g
  <2>1. QED
    BY <1>1
<1>3. resolveGuestAddressToRegionAndOffset(a)' = [region |-> i, offset |-> o]
  <2>1. MapMade'
    BY DEF MapMade
  <2>2. ResolvesRight'
    BY <2>1, MadeResolvesNext
  <2>3. i \in Windows(specs') /\ a \in Window(i)' /\ specs'[i].guestAddress = base
    BY DEF Window
  <2>4. \A b \in Nat : \A j \in Windows(specs') : b \in Window(j)' =>
          resolveGuestAddressToRegionAndOffset(b)' =
              [region |-> j, offset |-> b - specs'[j].guestAddress]
    BY <2>2 DEF ResolvesRight
  <2>5. QED
    BY <2>3, <2>4
<1>4. \A j : \A d : denseGuestToHostIndex(j, d)' = denseGuestToHostIndex(j, d)
  BY DEF denseGuestToHostIndex, hostIndex
<1>5. RAM(i)'
  BY <1>1 DEF RAM
<1>6. loadBytes(a, n)' = [k \in 1 .. n |-> IF Source(k) = HostOnly THEN 0 ELSE bytes'[Source(k) + 1]]
  BY <1>3, <1>4, <1>5 DEF loadBytes
<1>7. ASSUME NEW k \in 1 .. n
      PROVE  (IF Source(k) = HostOnly THEN 0 ELSE bytes'[Source(k) + 1])
               = IF a + k - 1 \in Window(i) THEN source[k] ELSE 0
  <2>1. o + k - 1 \in Nat /\ (a + k - 1 \in Window(i) <=> o + k - 1 < g)
    <3> HIDE DEF base, g
    <3>1. QED
      BY <1>1, <1>2
  <2>2. /\ o + k - 1 < g => Source(k) = hostIndex(i) + (o + k - 1) /\ Source(k) # HostOnly
        /\ ~(o + k - 1 < g) => Source(k) = HostOnly
    BY <2>1, RamHostByte
  <2> HIDE DEF Source
  <2>3. QED
    BY <2>1, <2>2
<1>8. QED
  BY <1>6, <1>7

\* What a store to RAM writes, and what a load of the same bytes then returns.
LEMMA RamStoreEffect ==
  ASSUME MemoryHolds, ~Throws(specs), NEW a \in Nat, NEW source, NEW n \in Nat \ {0},
         storeBytes(a, source, n),
         NEW i \in Windows(specs), a \in Window(i), specs[i].id = "ram"
  PROVE  Stored(resolveGuestAddressToRegionAndOffset(a), a, source, n)
<1> DEFINE base == specs[i].guestAddress
           g == specs[i].guestByteLength
           o == a - base
           first == hostIndex(i) + o
           written == first .. first + Min({n, g - o}) - 1
           targets == [k \in 1 .. n |-> denseGuestToHostIndex(i, o + k - 1)]
           p == packedByteLength(specs)[Len(specs)]
<1>1. specs \in Layouts /\ specs' = specs
  BY DEF storeBytes, MemoryHolds
<1>2. base \in Nat /\ g \in Nat /\ i # 0 /\ Window(i) = base .. base + g - 1
  BY <1>1, LayoutShape DEF Window
<1>3. o \in Nat /\ o < g
  <2> HIDE DEF base, g
  <2>1. QED
    BY <1>2
<1>4. resolveGuestAddressToRegionAndOffset(a) = [region |-> i, offset |-> o]
  BY <1>1, Resolves
<1>5. RAM(i)
  BY <1>2 DEF RAM
<1>6. p \in Nat /\ DOMAIN bytes = 1 .. p /\ Len(bytes) = p
  BY BufferLength
<1>7. /\ bytes' = [j \in DOMAIN bytes |-> IF j - 1 \in Range(targets)
                                         THEN source[AntiFunction(targets)[j - 1]] ELSE bytes[j]]
      /\ reached' = [region |-> i, offset |-> o]
  BY <1>4, <1>5 DEF storeBytes
<1>8. \A h \in Nat : /\ h \in Range(targets) <=> h \in written
                     /\ h \in written => AntiFunction(targets)[h] = h - first + 1
  <2> HIDE DEF base
  <2>1. QED
    BY <1>1, <1>3, StoreTargets
<1>9. first \in Nat /\ \A d \in Nat : o + d < g => first + d < p
  <2>1. hostIndex(i) \in Nat /\ \A e \in Nat : e < g => hostIndex(i) + e < p
    BY <1>1, RamHostByte
  <2> HIDE DEF base, g, o, p
  <2>2. first \in Nat
    BY <1>3, <2>1
  <2>3. ASSUME NEW d \in Nat, o + d < g PROVE first + d < p
    <3>1. o + d \in Nat /\ first + d = hostIndex(i) + (o + d)
      BY <1>3, <2>1
    <3>2. QED
      BY <2>1, <2>3, <3>1
  <2>4. QED
    BY <2>2, <2>3
<1>10. written = first .. first + (IF n <= g - o THEN n ELSE g - o) - 1
  <2> HIDE DEF g, o
  <2>1. n \in Int /\ g - o \in Int
    BY <1>2, <1>3
  <2>2. QED
    BY <2>1, SmallerOf
<1>11. \A k : hostIndex(i) + (a - base + k - 1) = hostIndex(i) + (o + k - 1)
  OBVIOUS
<1>12. hostIndex(i) \in Nat /\ o = a - base
  BY <1>1, RamHostByte
<1>13. ASSUME NEW h \in 0 .. p - 1
       PROVE  bytes'[h + 1] = IF h \in written THEN source[h - first + 1] ELSE bytes[h + 1]
  <2> HIDE DEF written, targets, first, p
  <2>1. h \in Nat /\ h + 1 \in 1 .. p /\ (h + 1) - 1 = h
    BY <1>6
  <2>2. bytes'[h + 1] = IF h \in Range(targets) THEN source[AntiFunction(targets)[h]]
                        ELSE bytes[h + 1]
    BY <1>6, <1>7, <2>1
  <2>3. QED
    BY <1>8, <2>1, <2>2
<1>14. ASSUME NEW k \in 1 .. n, a + k - 1 \in Window(i)
       PROVE  bytes'[hostIndex(i) + (a - base + k - 1) + 1] = source[k]
  <2> DEFINE h == first + (k - 1)
  <2>1. h = hostIndex(i) + (a - base + k - 1)
    <3> HIDE DEF base, o
    <3>1. QED
      BY <1>2, <1>3, <1>12
  <2> HIDE DEF base, g, o, p
  <2>2. k - 1 \in Nat /\ o + (k - 1) < g
    BY <1>2, <1>3, <1>12, <1>14
  <2> HIDE DEF first
  <2>3. h \in 0 .. p - 1
    BY <1>6, <1>9, <2>2
  <2>4. k - 1 < (IF n <= g - o THEN n ELSE g - o)
    BY <1>2, <1>3, <2>2
  <2>5. h \in written /\ h - first + 1 = k
    <3> DEFINE count == IF n <= g - o THEN n ELSE g - o
    <3>1. count \in Int /\ k - 1 < count /\ written = first .. first + count - 1
      BY <1>2, <1>3, <1>10, <2>4
    <3> HIDE DEF count, written
    <3>2. QED
      BY <1>9, <2>2, <3>1
  <2> HIDE DEF h, written
  <2>6. bytes'[h + 1] = source[k]
    BY <1>13, <2>3, <2>5
  <2>7. QED
    BY <2>1, <2>6
<1>15. loadBytes(a, n)' = [k \in 1 .. n |-> IF a + k - 1 \in Window(i) THEN source[k] ELSE 0]
  BY <1>1, <1>14, RamLoadsBack
<1> HIDE DEF o, p
<1>16. \A h \in 0 .. Len(bytes) - 1 :
         bytes'[h + 1] = IF h \in written THEN source[h - first + 1] ELSE bytes[h + 1]
  BY <1>6, <1>13
<1>17. QED
  <2> SUFFICES ASSUME NEW at, at = [region |-> i, offset |-> o]
               PROVE  Stored(at, a, source, n)
    BY <1>4
  <2>1. at.region = i /\ at.offset = o /\ reached' = at
    BY <1>7
  <2>2. hostIndex(at.region) + at.offset = first
    BY <2>1
  <2>3. (IF RAM(at.region)
         THEN first .. first + Min({n, specs[at.region].guestByteLength - at.offset}) - 1
         ELSE {}) = written
    BY <1>5, <2>1
  <2>4. loadBytes(a, n)' = [k \in 1 .. n |-> IF a + k - 1 \in Window(at.region)
                                            THEN source[k] ELSE 0]
    BY <1>15, <2>1
  <2> HIDE DEF first, written
  <2>5. QED
    BY <1>16, <2>1, <2>2, <2>3, <2>4, Zenon DEF Stored

\* A store that goes to a device or nowhere leaves the buffer to it.
LEMMA OtherStoreEffect ==
  ASSUME NEW a, NEW source, NEW n, storeBytes(a, source, n),
         ~RAM(resolveGuestAddressToRegionAndOffset(a).region)
  PROVE  Stored(resolveGuestAddressToRegionAndOffset(a), a, source, n)
BY DEF storeBytes, Stored

\* Every store, the first or one over another, changes the RAM bytes that the arguments of its
\* own call address, all of them and nothing else, and a load returns them, for any layout
\* whose windows are not empty (storeBytes, loadBytes).
THEOREM StoreExact == MemorySpec => StoreIsExact
<1> DEFINE Made(a, source, n) == stored' = Call(stored.number + 1, a, source, n)
<1>1. ASSUME MemoryHolds, MemoryNext
      PROVE  \E a \in GuestAddresses, source \in StoreSources, n \in {1, 2, 4} :
               /\ Made(a, source, n)
               /\ Stored(resolveGuestAddressToRegionAndOffset(a), a, source, n)
  <2>1. ~Throws(specs) /\ specs \in Layouts
    BY <1>1 DEF MemoryNext, MemoryHolds
  <2>2. PICK a \in GuestAddresses, source \in StoreSources, n \in {1, 2, 4} :
          storeBytes(a, source, n) /\ Made(a, source, n)
    BY <1>1 DEF MemoryNext
  <2> HIDE DEF Made
  <2>3. a \in Nat /\ n \in Nat \ {0}
    BY MemoryAssumption DEF MemoryAssumption
  <2> DEFINE at == resolveGuestAddressToRegionAndOffset(a)
  <2>4. CASE RAM(at.region)
    <3>1. at # Unmapped /\ specs[at.region].id = "ram"
      BY <2>4 DEF RAM, Unmapped
    <3>2. PICK i \in Windows(specs) : a \in Window(i)
      BY <2>1, <2>3, <3>1, Resolves
    <3>3. at = [region |-> i, offset |-> a - specs[i].guestAddress]
      BY <2>1, <2>3, <3>2, Resolves
    <3>4. specs[i].id = "ram"
      BY <3>1, <3>3
    <3>5. Stored(resolveGuestAddressToRegionAndOffset(a), a, source, n)
      BY <1>1, <2>1, <2>2, <2>3, <3>2, <3>4, RamStoreEffect
    <3>6. QED
      BY <2>2, <3>5
  <2>5. CASE ~RAM(at.region)
    BY <2>2, <2>5, OtherStoreEffect
  <2>6. QED
    BY <2>4, <2>5
<1>2. MemoryHolds /\ [MemoryNext]_memoryVars =>
        [\E a \in GuestAddresses, source \in StoreSources, n \in {1, 2, 4} :
           /\ stored' = Call(stored.number + 1, a, source, n)
           /\ Stored(resolveGuestAddressToRegionAndOffset(a), a, source, n)]_memoryVars
  BY <1>1
<1>3. QED
  BY <1>2, BufferStays, PTL DEF MemorySpec, StoreIsExact
=============================================================================
