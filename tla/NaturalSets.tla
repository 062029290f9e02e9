---------------------------- MODULE NaturalSets ----------------------------
(***************************************************************************)
(* What the proofs need of numbers: induction over the natural numbers     *)
(* stated with sets (a set of numbers in the place of the operator of      *)
(* module NaturalsInduction), and the arithmetic of indices that wrap.     *)
(***************************************************************************)
EXTENDS Integers, FiniteSetTheorems, TLAPS

\* A set of natural numbers that is not empty has a least member: among the
\* intervals 0 .. k there is none that is properly inside another for ever.
THEOREM LeastNatural ==
  ASSUME NEW S \in SUBSET Nat, S # {}
  PROVE  \E m \in S : \A k \in S : m <= k
<1> DEFINE T == {0 .. k : k \in S}
           R == StrictSubsetOrdering(Nat)
           F == FiniteSubsetsOf(Nat)
<1>1. IsWellFoundedOn(R, F)
  BY FS_StrictSubsetOrderingWellFounded
<1>2. T \subseteq F /\ T # {}
  <2>1. \A k \in S : 0 .. k \subseteq Nat /\ IsFiniteSet(0 .. k)
    BY FS_Interval
  <2> QED
    BY <2>1 DEF FiniteSubsetsOf
<1>3. \E x \in T : \A y \in T : << y, x >> \notin R
  <2> HIDE DEF T, R, F
  <2> QED
    BY <1>1, <1>2, WFMin
<1>4. PICK m \in S : \A k \in S : << 0 .. k, 0 .. m >> \notin R
  BY <1>3
<1>5. ASSUME NEW k \in S, ~(m <= k)
      PROVE  FALSE
  <2>1. 0 .. k \subseteq 0 .. m /\ m \in 0 .. m /\ m \notin 0 .. k
    BY <1>5
  <2>2. 0 .. k \in SUBSET Nat /\ 0 .. m \in SUBSET Nat
    OBVIOUS
  <2>3. << 0 .. k, 0 .. m >> \in R
    BY <2>1, <2>2 DEF StrictSubsetOrdering
  <2> QED
    BY <2>3, <1>4
<1> QED
  BY <1>5

\* A set with 0 and the successor of each of its members has every number.
THEOREM NatSetInduction ==
  ASSUME NEW S, 0 \in S, \A n \in Nat : n \in S => n + 1 \in S
  PROVE  Nat \subseteq S
<1> SUFFICES ASSUME Nat \ S # {} PROVE FALSE
  OBVIOUS
<1>1. PICK m \in Nat \ S : \A k \in Nat \ S : m <= k
  BY LeastNatural
<1>2. m - 1 \in Nat /\ m - 1 \in S /\ (m - 1) + 1 = m
  BY <1>1
<1> QED
  BY <1>1, <1>2

-----------------------------------------------------------------------------
(* Remainders *)

\* Quotient and remainder.
LEMMA DivMod ==
  ASSUME NEW a \in Int, NEW n \in Nat \ {0}
  PROVE  a % n \in 0 .. n - 1 /\ a \div n \in Int /\ a = n * (a \div n) + (a % n)
  BY SMT

\* Different multiples of a number are apart by at least that number.
LEMMA Apart ==
  ASSUME NEW n \in Nat \ {0}, NEW j \in Int, NEW k \in Int, j < k
  PROVE  n * j + n <= n * k /\ n * j \in Int /\ n * k \in Int
  BY SMT

\* There is only one remainder.
LEMMA Unique ==
  ASSUME NEW n \in Nat \ {0}, NEW k \in Int, NEW r \in 0 .. n - 1
  PROVE  (n * k + r) % n = r
<1>1. PICK a \in Int : a = n * k + r
  BY SMT
<1>2. PICK j \in Int : j = a \div n /\ a = n * j + (a % n)
  BY DivMod
<1>3. n * j \in Int /\ n * k \in Int /\ a % n \in 0 .. n - 1
  BY DivMod, SMT
<1>4. ~(j < k)
  BY <1>1, <1>2, <1>3, Apart
<1>5. ~(k < j)
  BY <1>1, <1>2, <1>3, Apart
<1> QED
  BY <1>1, <1>2, <1>3, <1>4, <1>5

\* A multiple more or less does not change the remainder.
LEMMA Shift ==
  ASSUME NEW n \in Nat \ {0}, NEW k \in Int, NEW a \in Int
  PROVE  (n * k + a) % n = a % n
<1>1. PICK j \in Int : a = n * j + (a % n)
  BY DivMod, Zenon
<1>2. PICK r \in 0 .. n - 1 : r = a % n
  BY DivMod
<1>3. n * (k + j) = n * k + n * j /\ n * k \in Int /\ n * j \in Int
  BY SMT
<1>4. (n * (k + j) + r) % n = r
  BY Unique
<1>5. n * k + a = n * (k + j) + r
  BY <1>1, <1>2, <1>3
<1> QED
  BY <1>2, <1>4, <1>5

\* A sum may be reduced as early as one likes, as the indices of the rings are.
LEMMA ModSum ==
  ASSUME NEW n \in Nat \ {0}, NEW a \in Int, NEW b \in Int
  PROVE  ((a % n) + b) % n = (a + b) % n
<1>1. PICK k \in Int : a = n * k + (a % n)
  BY DivMod, Zenon
<1>2. PICK r \in Int : r = a % n
  BY DivMod
<1>3. PICK e \in Int : e = r + b
  BY SMT
<1>4. (n * k + e) % n = e % n
  BY Shift, Zenon
<1>5. n * k \in Int
  BY SMT
<1>6. n * k + e = a + b
  BY <1>1, <1>2, <1>3, <1>5
<1> QED
  BY <1>2, <1>3, <1>4, <1>6

\* So may a difference.
LEMMA ModMinus ==
  ASSUME NEW n \in Nat \ {0}, NEW a \in Int, NEW b \in Int
  PROVE  (a - (b % n)) % n = (a - b) % n
<1>1. PICK k \in Int : b = n * k + (b % n)
  BY DivMod, Zenon
<1>2. PICK r \in Int : r = b % n
  BY DivMod
<1>3. PICK e \in Int : e = a - b
  BY SMT
<1>4. (n * k + e) % n = e % n
  BY Shift, Zenon
<1>5. n * k \in Int
  BY SMT
<1>6. n * k + e = a - r
  BY <1>1, <1>2, <1>3, <1>5
<1> QED
  BY <1>2, <1>3, <1>4, <1>6

\* Numbers less than n apart have different remainders.
LEMMA ModApart ==
  ASSUME NEW n \in Nat \ {0}, NEW a \in Int, NEW d \in 1 .. n - 1
  PROVE  (a - d) % n # a % n
<1> SUFFICES ASSUME (a - d) % n = a % n PROVE FALSE
  OBVIOUS
<1>1. PICK k \in Int : a = n * k + (a % n)
  BY DivMod, Zenon
<1>2. PICK b \in Int : b = a - d
  BY SMT
<1>3. PICK j \in Int : b = n * j + (b % n)
  BY DivMod, Zenon
<1>4. PICK r \in 0 .. n - 1 : r = a % n
  BY DivMod
<1>5. a = n * k + r /\ a - d = n * j + r /\ n * k \in Int /\ n * j \in Int
  BY <1>1, <1>2, <1>3, <1>4, SMT
<1>6. ~(j < k)
  BY <1>5, Apart
<1>7. ~(k < j)
  BY <1>5, Apart
<1> QED
  BY <1>5, <1>6, <1>7

\* Reduced by a multiple of n first, a sum has the same remainder: a ring whose size divides
\* the range of its indices does not notice that they wrap.
LEMMA ModOf ==
  ASSUME NEW n \in Nat \ {0}, NEW N \in Nat \ {0}, N % n = 0, NEW x \in Int, NEW y \in Int
  PROVE  ((x % N) + y) % n = (x + y) % n
<1>1. PICK k \in Int : x = N * k + (x % N)
  BY DivMod, Zenon
<1>2. PICK r \in Int : r = x % N
  BY DivMod
<1>3. PICK c \in Int : N = n * c
  BY DivMod, SMT
<1>4. PICK j \in Int : j = c * k
  BY SMT
<1>5. N * k = n * j
  BY <1>3, <1>4, SMT
<1>6. PICK e \in Int : e = r + y
  BY SMT
<1>7. (n * j + e) % n = e % n
  BY Shift, Zenon
<1>8. n * j \in Int
  BY SMT
<1>9. n * j + e = x + y
  BY <1>1, <1>2, <1>5, <1>6, <1>8
<1> QED
  BY <1>2, <1>6, <1>7, <1>9

\* A number in range is its own remainder.
LEMMA ModSmall ==
  ASSUME NEW n \in Nat \ {0}, NEW a \in 0 .. n - 1
  PROVE  a % n = a
  BY SMT

=============================================================================
