---------------------------- MODULE SwI2CProofs ----------------------------
(***************************************************************************)
(* What the operators of SwI2C compute, for every number of bits, every    *)
(* byte and every register address, and what a function of sw_i2c.c does   *)
(* to the lines and to the chip.                                           *)
(***************************************************************************)
EXTENDS SwI2C, FiniteSetTheorems, SequenceTheorems, WellFoundedInduction, TLAPS

(***************************************************************************)
(* Powers of two.  The prover knows nothing of them but what the sets of   *)
(* subsets of an interval tell.                                            *)
(***************************************************************************)
LEMMA PowerOf ==
  ASSUME NEW n \in Nat
  PROVE  IsFiniteSet(SUBSET (1..n)) /\ Cardinality(SUBSET (1..n)) = 2^n
<1>1. IsFiniteSet(1..n) /\ Cardinality(1..n) = n
  BY FS_Interval
<1> QED
  BY <1>1, FS_SUBSET

LEMMA PowerType ==
  ASSUME NEW n \in Nat
  PROVE  2^n \in Nat
BY PowerOf, FS_CardinalityType

(* Half of the subsets of 1..(n + 1) contain n + 1. *)
LEMMA PowerStep ==
  ASSUME NEW n \in Nat
  PROVE  2^(n + 1) = 2 * 2^n
<1> DEFINE A == SUBSET (1..n)
           B == {x \cup {n + 1} : x \in A}
           f == [x \in A |-> x \cup {n + 1}]
<1>1. SUBSET (1..(n + 1)) = A \cup B
  <2>1. ASSUME NEW x \in SUBSET (1..(n + 1))
        PROVE  x \in A \cup B
    <3>1. CASE n + 1 \in x
      <4>1. x \ {n + 1} \in A /\ x = (x \ {n + 1}) \cup {n + 1}
        BY <3>1
      <4> QED
        BY <4>1
    <3>2. CASE n + 1 \notin x
      <4>1. ASSUME NEW y \in x PROVE y \in 1..n
        BY <3>2
      <4> QED
        BY <4>1
    <3> QED
      BY <3>1, <3>2
  <2>2. ASSUME NEW x \in A \cup B
        PROVE  x \in SUBSET (1..(n + 1))
    OBVIOUS
  <2> QED
    BY <2>1, <2>2
<1>2. A \cap B = {}
  OBVIOUS
<1>3. ExistsBijection(A, B)
  <2>1. f \in [A -> B] /\ \A y \in B : \E x \in A : f[x] = y
    OBVIOUS
  <2>2. ASSUME NEW x \in A, NEW y \in A, f[x] = f[y]
        PROVE  x = y
    <3>1. x \cup {n + 1} = y \cup {n + 1} /\ n + 1 \notin x /\ n + 1 \notin y
      BY <2>2
    <3> QED
      BY <3>1
  <2>3. f \in Bijection(A, B)
    BY <2>1, <2>2 DEF Bijection, Injection, Surjection, IsInjective
  <2> QED
    BY <2>3 DEF ExistsBijection
<1>4. IsFiniteSet(A) /\ Cardinality(A) = 2^n
  BY PowerOf
<1>5. IsFiniteSet(B) /\ Cardinality(B) = 2^n
  BY <1>3, <1>4, FS_Bijection
<1>6. Cardinality(A \cup B) = 2^n + 2^n - Cardinality({})
  <2> HIDE DEF A, B
  <2> QED
    BY <1>2, <1>4, <1>5, FS_Union
<1>7. Cardinality(SUBSET (1..(n + 1))) = 2^(n + 1)
  BY PowerOf
<1>8. Cardinality({}) = 0 /\ 2^n \in Nat
  BY FS_EmptySet, PowerType
<1> HIDE DEF A, B
<1>9. Cardinality(A \cup B) = 2 * 2^n
  BY <1>6, <1>8
<1> QED
  BY <1>1, <1>7, <1>9

LEMMA PowerZero == 2^0 = 1 /\ 2^1 = 2
<1>1. 2^0 = 1
  OBVIOUS
<1> QED
  BY <1>1, PowerStep

LEMMA LeastOf ==
  ASSUME NEW S \in SUBSET Nat, S # {}
  PROVE  \E m \in S : \A x \in S : m <= x
<1>1. PICK m \in S : \A x \in S : ~(<<x, m>> \in OpToRel(<, Nat))
  BY NatLessThanWellFounded, WFMin, Zenon
<1>2. \A x \in S : ~(x < m)
  BY <1>1 DEF OpToRel
<1> QED
  BY <1>2

LEMMA PowerSum ==
  ASSUME NEW m \in Nat, NEW n \in Nat
  PROVE  2^(m + n) = 2^m * 2^n
<1> DEFINE S == {k \in Nat : 2^(m + k) # 2^m * 2^k}
<1>1. ASSUME S # {} PROVE FALSE
  <2>1. PICK k \in S : \A x \in S : k <= x
    BY <1>1, LeastOf
  <2>2. ASSUME k = 0 PROVE FALSE
    <3>1. 2^m \in Nat /\ 2^0 = 1 /\ m + 0 = m
      BY PowerType, PowerZero
    <3>2. 2^(m + 0) = 2^m * 2^0
      BY <3>1
    <3> QED
      BY <3>2, <2>2, <2>1
  <2>3. k - 1 \in Nat /\ k - 1 \notin S
    BY <2>1, <2>2
  <2>4. 2^(m + (k - 1)) = 2^m * 2^(k - 1)
    BY <2>3
  <2>5. 2^k = 2 * 2^(k - 1) /\ 2^(m + k) = 2 * 2^(m + (k - 1))
    BY <2>3, PowerStep
  <2>6. 2 * (2^m * 2^(k - 1)) = 2^m * (2 * 2^(k - 1))
    BY <2>3, PowerType
  <2> QED
    BY <2>1, <2>4, <2>5, <2>6
<1> QED
  BY <1>1

LEMMA PowerPositive ==
  ASSUME NEW n \in Nat
  PROVE  2^n \in Nat \ {0}
<1>1. SUBSET (1..n) # {}
  OBVIOUS
<1>2. Cardinality(SUBSET (1..n)) # 0
  BY <1>1, PowerOf, FS_EmptySet, Zenon
<1> QED
  BY <1>2, PowerOf, PowerType

-----------------------------------------------------------------------------
(***************************************************************************)
(* Bytes, their bits and register addresses.                               *)
(***************************************************************************)

(* The first n bits of a byte. *)
Prefix(b, n) == b \div 2^(Bits - n)

LEMMA Quotient ==
  ASSUME NEW q \in Int, NEW m \in Nat \ {0}, NEW r \in 0..(m - 1)
  PROVE  (q * m + r) \div m = q /\ (q * m + r) % m = r
OBVIOUS

LEMMA Division ==
  ASSUME NEW x \in Int, NEW m \in Nat \ {0}
  PROVE  /\ x \div m \in Int /\ x % m \in 0..(m - 1)
         /\ x = (x \div m) * m + (x % m)
OBVIOUS

LEMMA Bytes ==
  /\ 2^Bits \in Nat /\ 2^Bits >= 4 /\ Ones \in Byte
  /\ DevAddr \in Byte /\ DevAddr + 1 \in Byte
  /\ Byte \subseteq Nat /\ 0 \in Byte /\ 1 \in Byte
<1>1. Bits - 2 \in Nat /\ 2^(Bits - 2) \in Nat \ {0}
  BY BitsAssumption, PowerPositive
<1>2. 2^((Bits - 2) + 1) = 2 * 2^(Bits - 2)
  BY <1>1, PowerStep
<1>3. 2^((Bits - 1) + 1) = 2 * 2^(Bits - 1)
  BY BitsAssumption, PowerStep
<1>4. (Bits - 2) + 1 = Bits - 1 /\ (Bits - 1) + 1 = Bits
  BY BitsAssumption
<1>5. 2^Bits = 4 * 2^(Bits - 2)
  BY <1>1, <1>2, <1>3, <1>4
<1> QED
  BY <1>1, <1>5, DevAddrAssumption DEF Byte, Ones

(* One bit more. *)
LEMMA PrefixStep ==
  ASSUME NEW b \in Nat, NEW i \in 1..Bits
  PROVE  /\ Prefix(b, i) = 2 * Prefix(b, i - 1) + Bit(b, i)
         /\ Bit(b, i) \in {0, 1} /\ Prefix(b, i) \in Nat /\ Prefix(b, i - 1) \in Nat
<1> DEFINE P == 2^(Bits - i)
           q == b \div P
           r == b % P
<1>1. i \in Nat /\ Bits \in Nat /\ Bits - i \in Nat /\ Bits - (i - 1) = (Bits - i) + 1
  BY BitsAssumption
<1>2. P \in Nat \ {0} /\ 2^(Bits - (i - 1)) = 2 * P
  BY <1>1, PowerPositive, PowerStep
<1> HIDE DEF P
<1>3. q \in Int /\ r \in 0..(P - 1) /\ b = q * P + r
  <2>1. b \in Int
    OBVIOUS
  <2> QED
    BY <1>2, <2>1, Division, Zenon
<1> HIDE DEF q, r
<1>4. q \in Nat
  <2>1. ASSUME q < 0 PROVE FALSE
    <3>1. q * P <= 0 - P
      BY <2>1, <1>2, <1>3
    <3> QED
      BY <3>1, <1>2, <1>3
  <2> QED
    BY <2>1, <1>3
<1>5. PICK h \in Nat, t \in {0, 1} : q = 2 * h + t
  <2>1. q = 2 * (q \div 2) + (q % 2) /\ q \div 2 \in Nat /\ q % 2 \in {0, 1}
    BY <1>4
  <2> QED
    BY <2>1
<1>6. t * P + r \in 0..(2 * P - 1) /\ b = h * (2 * P) + (t * P + r)
  <2>1. (2 * h + t) * P = h * (2 * P) + t * P
    BY <1>2, <1>5
  <2>2. t * P \in {0, P}
    BY <1>2, <1>5
  <2> QED
    BY <1>2, <1>3, <1>5, <2>1, <2>2
<1>7. b \div (2 * P) = h
  BY <1>2, <1>5, <1>6, Quotient
<1>8. Prefix(b, i) = q /\ Prefix(b, i - 1) = h /\ Bit(b, i) = t
  <2>1. Prefix(b, i) = q /\ Bit(b, i) = q % 2
    BY DEF Prefix, Bit, q, P
  <2>2. Prefix(b, i - 1) = h
    BY <1>2, <1>7 DEF Prefix
  <2>3. q % 2 = t
    BY <1>4, <1>5
  <2> QED
    BY <2>1, <2>2, <2>3
<1> QED
  BY <1>4, <1>5, <1>8

(* No bits, and all of them; n bits are less than 2^n. *)
LEMMA PrefixEnds ==
  ASSUME NEW b \in Byte
  PROVE  /\ Prefix(b, 0) = 0 /\ Prefix(b, Bits) = b
         /\ \A n \in 0..Bits : Prefix(b, n) \in Byte /\ Prefix(b, n) < 2^n
<1>1. b \in Nat /\ b < 2^Bits /\ 2^Bits \in Nat \ {0}
  BY Bytes DEF Byte
<1>2. Prefix(b, 0) = 0
  <2>1. b = 0 * 2^Bits + b /\ b \in 0..(2^Bits - 1)
    BY <1>1
  <2>2. b \div 2^Bits = 0
    BY <2>1, <1>1, Quotient
  <2> QED
    BY <2>2, BitsAssumption DEF Prefix
<1>3. Prefix(b, Bits) = b
  <2>1. Bits - Bits = 0 /\ b = b * 1 + 0 /\ b \in Int
    BY BitsAssumption, <1>1
  <2>2. b \div 1 = b
    BY <2>1, Quotient
  <2> QED
    BY <2>1, <2>2, PowerZero DEF Prefix
<1>4. ASSUME NEW n \in 0..Bits
      PROVE  Prefix(b, n) \in Byte /\ Prefix(b, n) < 2^n
  <2> DEFINE P == 2^(Bits - n)
             q == b \div P
             r == b % P
  <2>1. Bits - n \in Nat /\ n \in Nat /\ (Bits - n) + n = Bits
    BY BitsAssumption
  <2>2. P \in Nat \ {0} /\ 2^n \in Nat \ {0} /\ 2^Bits = P * 2^n
    <3>1. 2^((Bits - n) + n) = P * 2^n
      BY <2>1, PowerSum
    <3> QED
      BY <2>1, <3>1, PowerPositive
  <2> HIDE DEF P
  <2>3. q \in Int /\ r \in 0..(P - 1) /\ b = q * P + r
    <3>1. b \in Int
      BY <1>1
    <3> QED
      BY <2>2, <3>1, Division, Zenon
  <2> HIDE DEF q, r
  <2>4. q >= 0
    <3>1. ASSUME q < 0 PROVE FALSE
      <4>1. q * P <= 0 - P
        BY <3>1, <2>2, <2>3
      <4> QED
        BY <4>1, <1>1, <2>2, <2>3
    <3> QED
      BY <3>1, <2>3
  <2>5. q < 2^n
    <3>1. ASSUME q >= 2^n PROVE FALSE
      <4>1. q * P >= P * 2^n
        BY <3>1, <2>2, <2>3
      <4> QED
        BY <4>1, <1>1, <2>2, <2>3
    <3> QED
      BY <3>1, <2>2, <2>3
  <2>6. q <= b
    <3>1. q * P >= q
      BY <2>2, <2>3, <2>4
    <3> QED
      BY <3>1, <1>1, <2>2, <2>3
  <2>7. Prefix(b, n) = q
    BY DEF Prefix, q, P
  <2> QED
    BY <1>1, <2>3, <2>4, <2>5, <2>6, <2>7 DEF Byte
<1> QED
  BY <1>2, <1>3, <1>4

(* A line nobody pulls gives ones. *)
LEMMA OnesBit ==
  ASSUME NEW i \in 1..Bits
  PROVE  Bit(Ones, i) = 1
<1> DEFINE P == 2^(Bits - i)
           R == 2^(i - 1)
<1>1. Bits - i \in Nat /\ i - 1 \in Nat /\ (i - 1) + 1 = i /\ (Bits - i) + i = Bits /\ i \in Nat
  BY BitsAssumption
<1>2. P \in Nat \ {0} /\ R \in Nat \ {0} /\ 2^((i - 1) + 1) = 2 * R /\ 2^((Bits - i) + i) = P * 2^i
  BY <1>1, PowerPositive, PowerStep, PowerSum
<1>3. 2^Bits = P * (2 * R)
  BY <1>1, <1>2
<1> HIDE DEF P, R
<1>4. Ones = (2 * R - 1) * P + (P - 1)
  <2>1. (2 * R - 1) * P = P * (2 * R) - P
    BY <1>2
  <2> QED
    BY <1>2, <1>3, <2>1 DEF Ones
<1>5. Ones \div P = 2 * R - 1
  <2>1. 2 * R - 1 \in Int /\ P - 1 \in 0..(P - 1)
    BY <1>2
  <2> QED
    BY <1>2, <1>4, <2>1, Quotient, Zenon
<1>6. (2 * R - 1) % 2 = 1
  BY <1>2
<1> QED
  BY <1>5, <1>6 DEF Bit, P

LEMMA SquareOfBytes == 2^(2 * Bits) = 2^Bits * 2^Bits /\ 2^(2 * Bits) \in Nat /\ 2^(2 * Bits) >= 4
<1>1. 2 * Bits = Bits + Bits /\ Bits \in Nat
  BY BitsAssumption
<1>2. 2^(Bits + Bits) = 2^Bits * 2^Bits
  BY <1>1, PowerSum
<1>3. 2^Bits * 2^Bits >= 2^Bits
  BY Bytes
<1> QED
  BY <1>1, <1>2, <1>3, Bytes

(* A register address is two bytes. *)
LEMMA TwoBytes ==
  ASSUME NEW a \in Address
  PROVE  /\ a \div 2^Bits \in Byte /\ a % 2^Bits \in Byte
         /\ (a \div 2^Bits) * 2^Bits + (a % 2^Bits) = a
<1> DEFINE M == 2^Bits
           q == a \div M
           r == a % M
<1>1. M \in Nat \ {0} /\ a \in Nat /\ a < M * M
  BY Bytes, SquareOfBytes DEF Address
<1> HIDE DEF M
<1>2. q \in Int /\ r \in 0..(M - 1) /\ a = q * M + r
  BY <1>1, Division
<1> HIDE DEF q, r
<1>3. q >= 0
  <2>1. ASSUME q < 0 PROVE FALSE
    <3>1. q * M <= 0 - M
      BY <2>1, <1>1, <1>2
    <3> QED
      BY <3>1, <1>1, <1>2
  <2> QED
    BY <2>1, <1>2
<1>4. q < M
  <2>1. ASSUME q >= M PROVE FALSE
    <3>1. q * M >= M * M
      BY <2>1, <1>1, <1>2
    <3> QED
      BY <3>1, <1>1, <1>2
  <2> QED
    BY <2>1, <1>1, <1>2
<1>5. q \in Byte /\ r \in Byte /\ q * M + r = a
  BY <1>1, <1>2, <1>3, <1>4 DEF Byte, M
<1> QED
  BY <1>5, Zenon DEF q, r, M

LEMMA FromTwoBytes ==
  ASSUME NEW h \in Byte, NEW l \in Byte
  PROVE  h * 2^Bits + l \in Address /\ h * 2^Bits \in Address
<1> DEFINE M == 2^Bits
<1>1. M \in Nat \ {0} /\ h \in 0..(M - 1) /\ l \in 0..(M - 1) /\ Address = 0..(M * M - 1)
  BY Bytes, SquareOfBytes DEF Address, Byte
<1> HIDE DEF M
<1>2. h * M <= (M - 1) * M /\ (M - 1) * M = M * M - M /\ h * M \in Nat
  BY <1>1
<1>3. h * M + l \in Address /\ h * M \in Address
  BY <1>1, <1>2
<1> QED
  BY <1>3 DEF M

LEMMA NextRegister ==
  ASSUME NEW a \in Address
  PROVE  /\ Following(a) \in Address /\ Following(a) # a
         /\ a + 1 \in Address => Following(a) = a + 1
<1> DEFINE N == 2^(2 * Bits)
<1>1. N \in Nat /\ N >= 4 /\ a \in 0..(N - 1) /\ Address = 0..(N - 1)
  BY SquareOfBytes DEF Address
<1> HIDE DEF N
<1>2. CASE a + 1 < N
  <2>1. a + 1 = 0 * N + (a + 1) /\ a + 1 \in 0..(N - 1)
    BY <1>1, <1>2
  <2>2. (a + 1) % N = a + 1
    BY <1>1, <2>1, Quotient
  <2> QED
    BY <1>1, <2>1, <2>2 DEF Following, N
<1>3. CASE a + 1 = N
  <2>1. a + 1 = 1 * N + 0
    BY <1>1, <1>3
  <2>2. (a + 1) % N = 0
    BY <1>1, <2>1, Quotient
  <2> QED
    BY <1>1, <1>3, <2>2 DEF Following, N
<1> QED
  BY <1>1, <1>2, <1>3

-----------------------------------------------------------------------------
(***************************************************************************)
(* The sequences of line operations.                                       *)
(***************************************************************************)

(* f is n pieces of length L, one after the other; it is s and then t. *)
Pieces(f, s, n, L) ==
  /\ Len(f) = L * n
  /\ \A i \in 1..n : \A o \in 1..L : f[L * (i - 1) + o] = s[i][o]

Joins(f, s, m, t, n) ==
  /\ Len(f) = m + n
  /\ \A k \in 1..m : f[k] = s[k]
  /\ \A k \in 1..n : f[m + k] = t[k]

LEMMA Flatten ==
  ASSUME NEW X, NEW n \in Nat \ {0}, NEW L \in Nat, L \in {2, 5, 6}, NEW s \in [1..n -> Seq(X)],
         \A i \in 1..n : Len(s[i]) = L
  PROVE  FlattenSeq(s) \in Seq(X) /\ Pieces(FlattenSeq(s), s, n, L)
<1> DEFINE Layers(g) == g = [i \in 1..Len(s) |-> IF i = 1 THEN s[i] ELSE g[i - 1] \o s[i]]
           El(k) == s[((k - 1) \div L) + 1][((k - 1) % L) + 1]
           H == [i \in 1..n |-> [k \in 1..(L * i) |-> El(k)]]
<1>1. Len(s) = n /\ s \in Seq(Seq(X))
  OBVIOUS
<1>2. \A i \in 1..n, o \in 1..L : El(L * (i - 1) + o) = s[i][o]
  <2> SUFFICES ASSUME NEW i \in 1..n, NEW o \in 1..L
               PROVE  El(L * (i - 1) + o) = s[i][o]
    OBVIOUS
  <2>1. i - 1 \in Int /\ o - 1 \in 0..(L - 1) /\ L \in Nat \ {0}
    OBVIOUS
  <2>2. ((i - 1) * L + (o - 1)) \div L = i - 1 /\ ((i - 1) * L + (o - 1)) % L = o - 1
    BY <2>1, Quotient, Zenon
  <2>3. (L * (i - 1) + o) - 1 = (i - 1) * L + (o - 1)
    BY L \in {2, 5, 6}
  <2>4. ((L * (i - 1) + o) - 1) \div L = i - 1 /\ ((L * (i - 1) + o) - 1) % L = o - 1
    BY <2>2, <2>3, Zenon
  <2>5. (i - 1) + 1 = i /\ (o - 1) + 1 = o
    OBVIOUS
  <2> QED
    BY <2>4, <2>5, Zenon
<1>3. \A k \in 1..(L * n) : \E i \in 1..n, o \in 1..L : k = L * (i - 1) + o
  <2> SUFFICES ASSUME NEW k \in 1..(L * n)
               PROVE  \E i \in 1..n, o \in 1..L : k = L * (i - 1) + o
    OBVIOUS
  <2> DEFINE j == ((k - 1) \div L) + 1
             m == ((k - 1) % L) + 1
  <2>1. k - 1 \in Int /\ L \in Nat \ {0}
    OBVIOUS
  <2>2. /\ (k - 1) \div L \in Int /\ (k - 1) % L \in 0..(L - 1)
        /\ k - 1 = ((k - 1) \div L) * L + ((k - 1) % L)
    BY <2>1, Division, Zenon
  <2>3. j - 1 = (k - 1) \div L /\ m - 1 = (k - 1) % L
    BY <2>2
  <2>4. j \in Int /\ m \in 1..L /\ k - 1 = (j - 1) * L + (m - 1)
    BY <2>2, <2>3
  <2> HIDE DEF j, m
  <2>5. k = L * (j - 1) + m /\ j \in 1..n
    BY <2>4, L \in {2, 5, 6}
  <2> QED
    BY <2>4, <2>5
<1>4. \A i \in 1..n : L * i \in Nat /\ L * i <= L * n /\ L * i = L * (i - 1) + L
  BY L \in {2, 5, 6}
<1> HIDE DEF El
<1>5. \A k \in 1..(L * n) : El(k) \in X
  <2> SUFFICES ASSUME NEW k \in 1..(L * n)
               PROVE  El(k) \in X
    OBVIOUS
  <2>1. PICK i \in 1..n, o \in 1..L : k = L * (i - 1) + o
    BY <1>3
  <2>2. s[i] \in Seq(X) /\ Len(s[i]) = L
    OBVIOUS
  <2>3. s[i][o] \in X
    BY <2>2
  <2> QED
    BY <1>2, <2>1, <2>3
<1>6. ASSUME NEW i \in 1..n
      PROVE  H[i] \in Seq(X) /\ Len(H[i]) = L * i /\ \A k \in 1..(L * i) : H[i][k] = El(k)
  BY <1>4, <1>5
<1>7. ASSUME NEW i \in 1..n
      PROVE  H[i] = IF i = 1 THEN s[i] ELSE H[i - 1] \o s[i]
  <2>1. s[i] \in Seq(X) /\ Len(s[i]) = L
    OBVIOUS
  <2>2. CASE i = 1
    <3>1. \A o \in 1..L : El(o) = s[1][o]
      <4>1. \A o \in 1..L : L * (1 - 1) + o = o
        BY L \in {2, 5, 6}
      <4> QED
        BY <1>2, <4>1
    <3>2. Len(H[1]) = L /\ H[1] \in Seq(X)
      <4>1. 1 \in 1..n /\ L * 1 = L
        BY L \in {2, 5, 6}
      <4> QED
        BY <1>6, <4>1
    <3>3. \A o \in 1..L : H[1][o] = s[1][o]
      BY <3>1, <1>6, L \in {2, 5, 6}
    <3> HIDE DEF H
    <3>4. H[1] = s[1]
      BY <3>2, <3>3, <2>1, <2>2
    <3> QED
      BY <3>4, <2>2
  <2>3. CASE i # 1
    <3>1. i - 1 \in 1..n /\ i \in Nat
      BY <2>3
    <3>2. /\ H[i - 1] \in Seq(X) /\ Len(H[i - 1]) = L * (i - 1)
          /\ \A k \in 1..(L * (i - 1)) : H[i - 1][k] = El(k)
      BY <3>1, <1>6
    <3>3. /\ H[i] \in Seq(X) /\ Len(H[i]) = L * i
          /\ \A k \in 1..(L * i) : H[i][k] = El(k)
      BY <1>6
    <3> HIDE DEF H
    <3> DEFINE a == L * (i - 1)
               h == H[i - 1]
               t == s[i]
    <3>0. a \in Nat /\ L * i = a + L /\ h \in Seq(X) /\ Len(h) = a /\ t \in Seq(X) /\ Len(t) = L
      BY <1>4, <3>1, <3>2, <2>1
    <3>8. /\ \A k \in 1..a : h[k] = El(k)
          /\ \A o \in 1..L : El(a + o) = t[o]
      BY <3>2, <1>2
    <3> HIDE DEF a, h, t
    <3>4. /\ h \o t \in Seq(X) /\ Len(h \o t) = a + L
          /\ \A k \in 1..(a + L) : (h \o t)[k] = IF k <= a THEN h[k] ELSE t[k - a]
      BY <3>0, ConcatProperties
    <3>5. ASSUME NEW k \in 1..(a + L)
          PROVE  (h \o t)[k] = El(k)
      <4>2. CASE k <= a
        BY <4>2, <3>0, <3>4, <3>8
      <4>3. CASE k > a
        <5>1. k - a \in 1..L /\ k = a + (k - a)
          BY <4>3, <3>0
        <5>2. El(k) = t[k - a]
          BY <5>1, <3>8
        <5> QED
          BY <4>3, <3>0, <3>4, <5>2
      <4> QED
        BY <3>0, <4>2, <4>3
    <3>6. H[i] = h \o t
      <4> DEFINE u == H[i]
                 v == h \o t
      <4>1. u \in Seq(X) /\ v \in Seq(X) /\ Len(u) = a + L /\ Len(v) = a + L
        BY <3>0, <3>3, <3>4
      <4>2. \A k \in 1..(a + L) : u[k] = v[k]
        BY <3>0, <3>3, <3>5
      <4> HIDE DEF u, v
      <4>3. u = v
        BY <4>1, <4>2, SeqEqual
      <4> QED
        BY <4>3 DEF u, v
    <3>7. H[i] = H[i - 1] \o s[i]
      BY <3>6 DEF h, t
    <3> QED
      BY <3>7, <2>3
  <2> QED
    BY <2>2, <2>3
<1>8. Layers(H)
  BY <1>1, <1>7
<1> DEFINE g == CHOOSE x : Layers(x)
<1>9. Layers(g)
  BY <1>8
<1>10. FlattenSeq(s) = g[n]
  BY <1>1 DEF FlattenSeq
<1>11. \A i \in 1..n : g[i] = IF i = 1 THEN s[i] ELSE g[i - 1] \o s[i]
  <2> HIDE DEF g
  <2> QED
    BY <1>1, <1>9
<1> HIDE DEF g, H
<1>12. \A i \in 1..n : g[i] = H[i]
  <2> DEFINE S == {i \in 1..n : g[i] # H[i]}
  <2>1. ASSUME S # {} PROVE FALSE
    <3>1. PICK i \in S : \A x \in S : i <= x
      <4>1. S \in SUBSET Nat
        OBVIOUS
      <4> QED
        BY <4>1, <2>1, LeastOf
    <3>2. CASE i = 1
      BY <3>1, <3>2, <1>7, <1>11
    <3>3. CASE i # 1
      <4>1. i - 1 \in 1..n /\ i - 1 \notin S
        BY <3>1, <3>3
      <4>2. g[i - 1] = H[i - 1]
        BY <4>1
      <4>3. g[i] = g[i - 1] \o s[i] /\ H[i] = H[i - 1] \o s[i]
        BY <3>1, <3>3, <1>7, <1>11
      <4> QED
        BY <4>2, <4>3, <3>1
    <3> QED
      BY <3>2, <3>3
  <2> QED
    BY <2>1
<1>13. FlattenSeq(s) = H[n]
  BY <1>10, <1>12
<1>14. H[n] \in Seq(X) /\ Len(H[n]) = L * n /\ \A k \in 1..(L * n) : H[n][k] = El(k)
  BY <1>6
<1>15. \A i \in 1..n, o \in 1..L : L * (i - 1) + o \in 1..(L * n)
  BY L \in {2, 5, 6}
<1>16. \A i \in 1..n : \A o \in 1..L : FlattenSeq(s)[L * (i - 1) + o] = s[i][o]
  BY <1>2, <1>13, <1>14, <1>15
<1> QED
  BY <1>13, <1>14, <1>16 DEF Pieces

LEMMA Joined ==
  ASSUME NEW X, NEW m \in Nat, NEW n \in Nat, NEW s \in Seq(X), NEW t \in Seq(X),
         Len(s) = m, Len(t) = n
  PROVE  s \o t \in Seq(X) /\ Joins(s \o t, s, m, t, n)
<1>1. /\ s \o t \in Seq(X) /\ Len(s \o t) = Len(s) + Len(t)
      /\ \A k \in 1..(Len(s) + Len(t)) : (s \o t)[k] = IF k <= Len(s) THEN s[k] ELSE t[k - Len(s)]
  BY ConcatProperties
<1>2. \A k \in 1..(m + n) : (s \o t)[k] = IF k <= m THEN s[k] ELSE t[k - m]
  BY <1>1, Zenon
<1>3. s \o t \in Seq(X) /\ Len(s \o t) = m + n
  BY <1>1
<1> DEFINE u == s \o t
<1> HIDE DEF u
<1>4. \A k \in 1..(m + n) : u[k] = IF k <= m THEN s[k] ELSE t[k - m]
  BY <1>2 DEF u
<1>5. \A k \in 1..m : u[k] = s[k]
  BY <1>4
<1>6. ASSUME NEW k \in 1..n PROVE u[m + k] = t[k]
  <2>1. m + k \in 1..(m + n) /\ ~(m + k <= m) /\ (m + k) - m = k
    OBVIOUS
  <2> QED
    BY <2>1, <1>4
<1> QED
  BY <1>3, <1>5, <1>6 DEF u, Joins

OpSet == {Clk(0), Clk(1), Sda(0), Sda(1), Delay, Sample, Keep}

LEMMA PulseIs ==
  /\ Pulse \in Seq(OpSet) /\ Len(Pulse) = 5
  /\ Pulse[1] = Delay /\ Pulse[2] = Clk(1) /\ Pulse[3] = Delay
  /\ Pulse[4] = Clk(0) /\ Pulse[5] = Delay
<1>1. {Delay, Clk(1), Clk(0)} \subseteq OpSet
  BY DEF OpSet
<1>2. Pulse = <<Delay, Clk(1), Delay, Clk(0), Delay>>
  BY DEF Pulse
<1> QED
  BY <1>1, <1>2

(* An operation, and a sequence of them; a sequence, and an operation. *)
LEMMA Prepended ==
  ASSUME NEW X, NEW x \in X, NEW n \in Nat, NEW t \in Seq(X), Len(t) = n
  PROVE  <<x>> \o t \in Seq(X) /\ Joins(<<x>> \o t, <<x>>, 1, t, n)
<1> DEFINE s == <<x>>
<1>1. s \in Seq(X) /\ Len(s) = 1 /\ 1 \in Nat
  OBVIOUS
<1> HIDE DEF s
<1>2. s \o t \in Seq(X) /\ Joins(s \o t, s, 1, t, n)
  BY <1>1, Joined
<1> QED
  BY <1>2 DEF s

LEMMA Appended ==
  ASSUME NEW X, NEW x \in X, NEW m \in Nat, NEW t \in Seq(X), Len(t) = m
  PROVE  t \o <<x>> \in Seq(X) /\ Joins(t \o <<x>>, t, m, <<x>>, 1)
<1> DEFINE s == <<x>>
<1>1. s \in Seq(X) /\ Len(s) = 1 /\ 1 \in Nat
  OBVIOUS
<1> HIDE DEF s
<1>2. t \o s \in Seq(X) /\ Joins(t \o s, t, m, s, 1)
  BY <1>1, Joined
<1> QED
  BY <1>2 DEF s

(* An operation on SDA, and a pulse. *)
IsSdaPulse(s, v) ==
  /\ s \in Seq(OpSet) /\ Len(s) = 6 /\ s[1] = Sda(v) /\ s[2] = Delay /\ s[3] = Clk(1)
  /\ s[4] = Delay /\ s[5] = Clk(0) /\ s[6] = Delay

LEMMA SdaPulse ==
  ASSUME NEW v \in {0, 1}
  PROVE  IsSdaPulse(<<Sda(v)>> \o Pulse, v)
<1> DEFINE x == Sda(v)
           t == Pulse
           s == <<x>> \o t
<1>1. x \in OpSet
  BY DEF OpSet
<1>2. /\ t \in Seq(OpSet) /\ Len(t) = 5 /\ t[1] = Delay /\ t[2] = Clk(1) /\ t[3] = Delay
      /\ t[4] = Clk(0) /\ t[5] = Delay /\ 5 \in Nat
  BY PulseIs
<1> HIDE DEF x, t
<1>3. s \in Seq(OpSet) /\ Joins(s, <<x>>, 1, t, 5)
  BY <1>1, <1>2, Prepended
<1> HIDE DEF s
<1>4. Len(s) = 1 + 5 /\ s[1] = <<x>>[1] /\ \A k \in 1..5 : s[1 + k] = t[k]
  BY <1>3 DEF Joins
<1>5. s[1 + 1] = Delay /\ s[1 + 2] = Clk(1) /\ s[1 + 3] = Delay /\ s[1 + 4] = Clk(0) /\ s[1 + 5] = Delay
  BY <1>2, <1>4
<1>6. s[2] = Delay /\ s[3] = Clk(1) /\ s[4] = Delay /\ s[5] = Clk(0) /\ s[6] = Delay /\ Len(s) = 6
  BY <1>4, <1>5
<1>7. s[1] = x
  BY <1>4
<1>8. IsSdaPulse(s, v)
  BY <1>3, <1>6, <1>7 DEF IsSdaPulse, x
<1> QED
  BY <1>8 DEF s, x, t

(* Six operations a bit, and SDA is let go at the end. *)
LEMMA SendOpsAre ==
  ASSUME NEW b \in Nat
  PROVE  /\ SendOps(b) \in Seq(OpSet) /\ Len(SendOps(b)) = 6 * Bits + 1
         /\ \A i \in 1..Bits :
              /\ SendOps(b)[6 * (i - 1) + 1] = Sda(Bit(b, i))
              /\ SendOps(b)[6 * (i - 1) + 2] = Delay
              /\ SendOps(b)[6 * (i - 1) + 3] = Clk(1)
              /\ SendOps(b)[6 * (i - 1) + 4] = Delay
              /\ SendOps(b)[6 * (i - 1) + 5] = Clk(0)
              /\ SendOps(b)[6 * (i - 1) + 6] = Delay
         /\ SendOps(b)[6 * Bits + 1] = Sda(1)
<1> DEFINE s == [i \in 1..Bits |-> <<Sda(Bit(b, i))>> \o Pulse]
           f == FlattenSeq(s)
           m == 6 * Bits
           x == Sda(1)
           r == f \o <<x>>
<1>1. Bits \in Nat \ {0} /\ m \in Nat /\ x \in OpSet /\ 6 \in Nat /\ 6 \in {2, 5, 6}
  BY BitsAssumption DEF OpSet
<1>2. ASSUME NEW i \in 1..Bits
      PROVE  IsSdaPulse(s[i], Bit(b, i))
  BY PrefixStep, SdaPulse
<1>3. SendOps(b) = r
  BY DEF SendOps
<1>4. DOMAIN s = 1..Bits /\ s = [i \in 1..Bits |-> s[i]]
  OBVIOUS
<1> HIDE DEF s
<1>5. s \in [1..Bits -> Seq(OpSet)] /\ \A i \in 1..Bits : Len(s[i]) = 6
  BY <1>2, <1>4 DEF IsSdaPulse
<1>6. f \in Seq(OpSet) /\ Pieces(f, s, Bits, 6)
  BY <1>1, <1>5, Flatten
<1> HIDE DEF f
<1>7. Len(f) = m
  BY <1>6 DEF Pieces
<1> HIDE DEF m, x
<1>8. r \in Seq(OpSet) /\ Joins(r, f, m, <<x>>, 1)
  BY <1>1, <1>6, <1>7, Appended
<1> HIDE DEF r
<1>9. Len(r) = m + 1 /\ r[m + 1] = x /\ \A k \in 1..m : r[k] = f[k]
  <2>1. <<x>>[1] = x
    OBVIOUS
  <2> QED
    BY <1>8, <2>1 DEF Joins
<1>10. ASSUME NEW i \in 1..Bits
       PROVE  \A o \in 1..6 : r[6 * (i - 1) + o] = s[i][o]
  <2>1. \A o \in 1..6 : f[6 * (i - 1) + o] = s[i][o]
    BY <1>6 DEF Pieces
  <2>2. \A o \in 1..6 : 6 * (i - 1) + o \in 1..m
    BY <1>1 DEF m
  <2> QED
    BY <2>1, <2>2, <1>9
<1>11. ASSUME NEW i \in 1..Bits
       PROVE  /\ r[6 * (i - 1) + 1] = Sda(Bit(b, i)) /\ r[6 * (i - 1) + 2] = Delay
              /\ r[6 * (i - 1) + 3] = Clk(1) /\ r[6 * (i - 1) + 4] = Delay
              /\ r[6 * (i - 1) + 5] = Clk(0) /\ r[6 * (i - 1) + 6] = Delay
  <2>1. /\ r[6 * (i - 1) + 1] = s[i][1] /\ r[6 * (i - 1) + 2] = s[i][2]
        /\ r[6 * (i - 1) + 3] = s[i][3] /\ r[6 * (i - 1) + 4] = s[i][4]
        /\ r[6 * (i - 1) + 5] = s[i][5] /\ r[6 * (i - 1) + 6] = s[i][6]
    BY <1>10
  <2> QED
    BY <1>2, <2>1 DEF IsSdaPulse
<1> QED
  BY <1>3, <1>8, <1>9, <1>11 DEF m, x
(* The acknowledge of a byte, and the byte is stored. *)
IsTail(t, ack) ==
  /\ t \in Seq(OpSet) /\ Len(t) = 7 + ack
  /\ t[1] = Sda(1 - ack) /\ t[2] = Delay /\ t[3] = Clk(1)
  /\ t[4] = Delay /\ t[5] = Clk(0) /\ t[6] = Delay
  /\ ack = 1 => t[7] = Sda(1)
  /\ t[7 + ack] = Keep

LEMMA AckOpsAre ==
  ASSUME NEW ack \in {0, 1}
  PROVE  /\ (IF ack = 1 THEN AckOps ELSE NackOps) \in Seq(OpSet)
         /\ IsTail((IF ack = 1 THEN AckOps ELSE NackOps) \o <<Keep>>, ack)
<1> DEFINE z == Sda(0)
           x == Sda(1)
           k == Keep
           u == <<z>> \o Pulse
           w == <<x>> \o Pulse
           a == u \o <<x>>
           t == a \o <<k>>
           v == w \o <<k>>
<1>1. x \in OpSet /\ k \in OpSet /\ 6 \in Nat /\ 7 \in Nat
  BY DEF OpSet
<1>2. IsSdaPulse(u, 0) /\ IsSdaPulse(w, 1)
  BY SdaPulse
<1>3. AckOps = a /\ NackOps = w
  BY DEF AckOps, NackOps
<1>4. <<x>>[1] = x /\ <<k>>[1] = k
  OBVIOUS
<1> HIDE DEF z, x, k, u, w
<1>5. a \in Seq(OpSet) /\ Joins(a, u, 6, <<x>>, 1)
  BY <1>1, <1>2, Appended DEF IsSdaPulse
<1>6. v \in Seq(OpSet) /\ Joins(v, w, 6, <<k>>, 1)
  BY <1>1, <1>2, Appended DEF IsSdaPulse
<1> HIDE DEF a, v
<1>7. Len(a) = 7 /\ (\A i \in 1..6 : a[i] = u[i]) /\ a[6 + 1] = x
  BY <1>4, <1>5 DEF Joins
<1>8. t \in Seq(OpSet) /\ Joins(t, a, 7, <<k>>, 1)
  BY <1>1, <1>5, <1>7, Appended
<1> HIDE DEF t
<1>9. Len(t) = 8 /\ (\A i \in 1..7 : t[i] = a[i]) /\ t[7 + 1] = k
  BY <1>4, <1>8 DEF Joins
<1>10. Len(v) = 7 /\ (\A i \in 1..6 : v[i] = w[i]) /\ v[6 + 1] = k
  BY <1>4, <1>6 DEF Joins
<1>11. IsTail(t, 1)
  <2>1. t[1] = u[1] /\ t[2] = u[2] /\ t[3] = u[3] /\ t[4] = u[4] /\ t[5] = u[5] /\ t[6] = u[6] /\ t[7] = x
    BY <1>7, <1>9
  <2>2. 7 + 1 = 8 /\ 1 - 1 = 0
    OBVIOUS
  <2> QED
    BY <1>2, <1>8, <1>9, <2>1, <2>2 DEF IsTail, IsSdaPulse, x, k
<1>12. IsTail(v, 0)
  <2>1. v[1] = w[1] /\ v[2] = w[2] /\ v[3] = w[3] /\ v[4] = w[4] /\ v[5] = w[5] /\ v[6] = w[6] /\ v[7] = k
    BY <1>10
  <2>2. 7 + 0 = 7 /\ 1 - 0 = 1
    OBVIOUS
  <2> QED
    BY <1>2, <1>6, <1>10, <2>1, <2>2 DEF IsTail, IsSdaPulse, k
<1>13. CASE ack = 1
  BY <1>3, <1>5, <1>11, <1>13 DEF t, k
<1>14. CASE ack = 0
  <2>1. w \in Seq(OpSet)
    BY <1>2 DEF IsSdaPulse
  <2> QED
    BY <1>3, <1>12, <1>14, <2>1 DEF v, k
<1> QED
  BY <1>13, <1>14

(* Five operations a bit, then the acknowledge, and the byte is stored. *)
LEMMA ReceiveOpsAre ==
  ASSUME NEW ack \in {0, 1}
  PROVE  /\ ReceiveOps(ack) \in Seq(OpSet) /\ Len(ReceiveOps(ack)) = 5 * Bits + (7 + ack)
         /\ \A i \in 1..Bits :
              /\ ReceiveOps(ack)[5 * (i - 1) + 1] = Clk(1)
              /\ ReceiveOps(ack)[5 * (i - 1) + 2] = Delay
              /\ ReceiveOps(ack)[5 * (i - 1) + 3] = Sample
              /\ ReceiveOps(ack)[5 * (i - 1) + 4] = Clk(0)
              /\ ReceiveOps(ack)[5 * (i - 1) + 5] = Delay
         /\ ReceiveOps(ack)[5 * Bits + 1] = Sda(1 - ack)
         /\ ReceiveOps(ack)[5 * Bits + 2] = Delay
         /\ ReceiveOps(ack)[5 * Bits + 3] = Clk(1)
         /\ ReceiveOps(ack)[5 * Bits + 4] = Delay
         /\ ReceiveOps(ack)[5 * Bits + 5] = Clk(0)
         /\ ReceiveOps(ack)[5 * Bits + 6] = Delay
         /\ ack = 1 => ReceiveOps(ack)[5 * Bits + 7] = Sda(1)
         /\ ReceiveOps(ack)[5 * Bits + (7 + ack)] = Keep
<1> DEFINE p == <<Clk(1), Delay, Sample, Clk(0), Delay>>
           s == [i \in 1..Bits |-> p]
           f == FlattenSeq(s)
           A == IF ack = 1 THEN AckOps ELSE NackOps
           K == <<Keep>>
           t == A \o K
           m == 5 * Bits
           c == 7 + ack
           r == f \o t
<1>1. Bits \in Nat \ {0} /\ m \in Nat /\ c \in Nat /\ 5 \in Nat /\ 5 \in {2, 5, 6}
  BY BitsAssumption
<1>2. /\ p \in Seq(OpSet) /\ Len(p) = 5 /\ p[1] = Clk(1) /\ p[2] = Delay
      /\ p[3] = Sample /\ p[4] = Clk(0) /\ p[5] = Delay
  <2>1. {Clk(1), Delay, Sample, Clk(0)} \subseteq OpSet
    BY DEF OpSet
  <2> QED
    BY <2>1
<1>3. K \in Seq(OpSet) /\ A \in Seq(OpSet) /\ IsTail(t, ack)
  BY AckOpsAre DEF OpSet
<1>4. ReceiveOps(ack) = (f \o A) \o K
  BY DEF ReceiveOps
<1> HIDE DEF p
<1>5. s \in [1..Bits -> Seq(OpSet)] /\ \A i \in 1..Bits : s[i] = p /\ Len(s[i]) = 5
  BY <1>2
<1> HIDE DEF s
<1>6. f \in Seq(OpSet) /\ Pieces(f, s, Bits, 5)
  BY <1>1, <1>5, Flatten
<1> HIDE DEF f, A, K
<1>7. ReceiveOps(ack) = r
  BY <1>3, <1>4, <1>6, ConcatAssociative
<1>8. Len(f) = m /\ Len(t) = c /\ t \in Seq(OpSet)
  BY <1>3, <1>6 DEF Pieces, IsTail
<1> HIDE DEF t, m, c
<1>9. r \in Seq(OpSet) /\ Joins(r, f, m, t, c)
  BY <1>1, <1>6, <1>8, Joined
<1> HIDE DEF r
<1>10. Len(r) = m + c /\ (\A k \in 1..m : r[k] = f[k]) /\ (\A k \in 1..c : r[m + k] = t[k])
  BY <1>9 DEF Joins
<1>11. ASSUME NEW i \in 1..Bits
       PROVE  \A o \in 1..5 : r[5 * (i - 1) + o] = p[o]
  <2>1. \A o \in 1..5 : f[5 * (i - 1) + o] = s[i][o]
    BY <1>6 DEF Pieces
  <2>2. \A o \in 1..5 : 5 * (i - 1) + o \in 1..m
    BY <1>1 DEF m
  <2> QED
    BY <2>1, <2>2, <1>5, <1>10
<1>12. ASSUME NEW i \in 1..Bits
       PROVE  /\ r[5 * (i - 1) + 1] = Clk(1) /\ r[5 * (i - 1) + 2] = Delay
              /\ r[5 * (i - 1) + 3] = Sample /\ r[5 * (i - 1) + 4] = Clk(0)
              /\ r[5 * (i - 1) + 5] = Delay
  BY <1>2, <1>11
<1>13. /\ r[m + 1] = t[1] /\ r[m + 2] = t[2] /\ r[m + 3] = t[3] /\ r[m + 4] = t[4]
       /\ r[m + 5] = t[5] /\ r[m + 6] = t[6] /\ r[m + 7] = t[7] /\ r[m + c] = t[c]
  <2>1. c \in 7..8
    BY DEF c
  <2> QED
    BY <1>10, <2>1
<1>14. /\ r[m + 1] = Sda(1 - ack) /\ r[m + 2] = Delay /\ r[m + 3] = Clk(1) /\ r[m + 4] = Delay
       /\ r[m + 5] = Clk(0) /\ r[m + 6] = Delay /\ (ack = 1 => r[m + 7] = Sda(1))
       /\ r[m + c] = Keep
  BY <1>3, <1>13 DEF IsTail, c
<1> QED
  BY <1>7, <1>9, <1>10, <1>12, <1>14 DEF m, c

-----------------------------------------------------------------------------
(***************************************************************************)
(* The chip.  Whatever the lines do, its side of the protocol stays in     *)
(* shape: it takes as many bits as a byte has, and points to a register.   *)
(***************************************************************************)
Phases == {"idle", "ignore", "address", "high", "low", "store", "fetch", "read"}
Taking == {"address", "high", "low", "store"}

BusTypes ==
  /\ scl \in {0, 1} /\ sdaM \in {0, 1} /\ sdaC \in {0, 1}
  /\ step \in Nat \ {0} /\ try \in 0..Tries
  /\ nack \in BOOLEAN /\ deaf \in BOOLEAN
  /\ byte \in Byte /\ data \in Seq(Byte) /\ moved \in Seq(Byte)
  /\ regs \in [Address -> Byte]

ChipType ==
  chip \in [phase : Phases, n : 0..(Bits + 1), shift : Byte, ptr : Address,
            want : {0, 1}, more : BOOLEAN]

(* Not addressed, it counts nothing and lets the line go. *)
Still == chip.n = 0 /\ chip.shift = 0 /\ chip.want = 1 /\ ~chip.more

ChipInv ==
  /\ ChipType
  /\ scl = 0 => chip.n <= Bits
  /\ chip.phase \in {"idle", "ignore"} => Still
  /\ chip.phase \in Taking /\ chip.n <= Bits => chip.shift < 2^chip.n
  /\ chip.phase = "fetch" => chip.n >= Bits
  /\ chip.phase = "low" => \E h \in Byte : chip.ptr = h * 2^Bits
  /\ chip.more => chip.phase = "read" /\ chip.n = Bits + 1

LEMMA BitsAre == Bits \in Nat /\ Bits >= 2
BY BitsAssumption

(* What EXCEPT makes of the chip. *)
LEMMA ChipRiseFields ==
  ASSUME ChipType, NEW x, ChipRise(x), chip.phase \notin {"idle", "ignore"}
  PROVE  /\ chip'.phase = chip.phase /\ chip'.n = chip.n + 1 /\ chip'.ptr = chip.ptr
         /\ chip'.want = chip.want
         /\ chip'.shift = IF chip.phase = "read" \/ chip.n = Bits THEN chip.shift
                          ELSE 2 * chip.shift + x
         /\ chip'.more = (chip.phase = "read" /\ chip.n = Bits /\ x = 0)
         /\ chip' = [phase |-> chip'.phase, n |-> chip'.n, shift |-> chip'.shift,
                     ptr |-> chip'.ptr, want |-> chip'.want, more |-> chip'.more]
         /\ regs' = regs
BY DEF ChipType, ChipRise

LEMMA RetireFields ==
  ASSUME NEW phase, Retire(phase)
  PROVE  /\ chip'.phase = phase /\ chip'.ptr = chip.ptr /\ chip'.n = 0 /\ chip'.shift = 0
         /\ chip'.want = 1 /\ chip'.more = FALSE
         /\ chip' = [phase |-> phase, n |-> 0, shift |-> 0, ptr |-> chip.ptr, want |-> 1, more |-> FALSE]
BY DEF Retire, Quiet

LEMMA TakeFields ==
  ASSUME ChipType, NEW next, NEW ptr, Take(next, ptr)
  PROVE  /\ chip'.phase = next /\ chip'.ptr = ptr /\ chip'.n = chip.n
         /\ chip'.shift = chip.shift /\ chip'.want = 0 /\ chip'.more = chip.more
         /\ chip' = [phase |-> next, n |-> chip.n, shift |-> chip.shift, ptr |-> ptr,
                     want |-> 0, more |-> chip.more]
BY DEF Take, ChipType

LEMMA FetchFields ==
  ASSUME Fetch
  PROVE  /\ chip'.phase = "read" /\ chip'.n = 0 /\ chip'.shift = regs[chip.ptr]
         /\ chip'.want = Bit(regs[chip.ptr], 1) /\ chip'.ptr = Following(chip.ptr)
         /\ chip'.more = FALSE /\ regs' = regs
         /\ chip' = [phase |-> "read", n |-> 0, shift |-> regs[chip.ptr],
                     ptr |-> Following(chip.ptr), want |-> Bit(regs[chip.ptr], 1), more |-> FALSE]
BY DEF Fetch, Quiet

LEMMA RiseKept ==
  ASSUME BusTypes, ChipInv, scl = 0, scl' = 1, NEW x \in {0, 1}, ChipRise(x)
  PROVE  ChipInv' /\ regs' = regs
<1>1. CASE chip.phase \in {"idle", "ignore"}
  BY <1>1 DEF ChipRise, ChipInv, ChipType, Still
<1>2. CASE chip.phase \notin {"idle", "ignore"}
  <2>1. /\ chip.n \in 0..Bits /\ chip.shift \in Byte /\ chip.ptr \in Address
        /\ chip.phase \in Phases /\ chip.want \in {0, 1}
    BY BitsAre DEF ChipInv, ChipType
  <2>2. /\ chip'.phase = chip.phase /\ chip'.n = chip.n + 1 /\ chip'.ptr = chip.ptr
        /\ chip'.want = chip.want
        /\ chip'.shift = IF chip.phase = "read" \/ chip.n = Bits THEN chip.shift
                         ELSE 2 * chip.shift + x
        /\ chip'.more = (chip.phase = "read" /\ chip.n = Bits /\ x = 0)
        /\ chip' = [phase |-> chip'.phase, n |-> chip'.n, shift |-> chip'.shift,
                    ptr |-> chip'.ptr, want |-> chip'.want, more |-> chip'.more]
        /\ regs' = regs
    BY <1>2, ChipRiseFields DEF ChipInv
  <2>3. chip'.n \in 0..(Bits + 1) /\ chip'.more \in BOOLEAN
    BY <2>1, <2>2, BitsAre
  <2>4. /\ chip'.shift \in Byte
        /\ chip.phase \in Taking /\ chip'.n <= Bits => chip'.shift < 2^chip'.n
    <3>1. CASE chip.phase = "read" \/ chip.n = Bits
      <4>1. chip.n = Bits => ~(chip'.n <= Bits)
        BY <2>2, BitsAre
      <4> QED
        BY <3>1, <4>1, <2>1, <2>2 DEF Taking
    <3>2. CASE chip.phase \in Taking /\ chip.n < Bits
      <4>1. chip.n \in Nat /\ Bits - (chip.n + 1) \in Nat /\ chip.n + 1 \in Nat
            /\ (Bits - (chip.n + 1)) + (chip.n + 1) = Bits
        BY <3>2, <2>1, BitsAre
      <4>2. /\ 2^(chip.n + 1) = 2 * 2^chip.n /\ 2^chip.n \in Nat
            /\ 2^(chip.n + 1) \in Nat \ {0} /\ 2^(Bits - (chip.n + 1)) \in Nat \ {0}
            /\ 2^((Bits - (chip.n + 1)) + (chip.n + 1)) = 2^(Bits - (chip.n + 1)) * 2^(chip.n + 1)
        BY <4>1, PowerStep, PowerType, PowerPositive, PowerSum
      <4>3. chip.shift < 2^chip.n /\ chip.shift \in Nat
        BY <3>2, <2>1, BitsAre, Bytes DEF ChipInv
      <4>4. chip'.shift = 2 * chip.shift + x /\ chip'.n = chip.n + 1
        BY <3>2, <2>1, <2>2, BitsAre DEF Taking
      <4> DEFINE P == 2^(chip.n + 1)
                 Q == 2^(Bits - (chip.n + 1))
      <4>5. P \in Nat /\ Q \in Nat \ {0} /\ 2^Bits = Q * P
        BY <4>1, <4>2
      <4>6. chip'.shift \in Nat /\ chip'.shift < P
        BY <4>2, <4>3, <4>4
      <4> HIDE DEF P, Q
      <4>7. P <= Q * P
        BY <4>5
      <4>8. chip'.shift \in Byte
        BY <4>5, <4>6, <4>7, Bytes DEF Byte
      <4> QED
        BY <4>4, <4>6, <4>8 DEF P
    <3>3. CASE chip.phase = "fetch" /\ chip.n < Bits
      BY <3>3, <2>1, BitsAre DEF ChipInv
    <3> QED
      BY <3>1, <3>2, <3>3, <1>2, <2>1, BitsAre DEF Phases, Taking
  <2>5. ChipType'
    BY <2>1, <2>2, <2>3, <2>4 DEF ChipType
  <2>6. chip'.more => chip'.phase = "read" /\ chip'.n = Bits + 1
    BY <2>2
  <2>7. chip'.phase = "fetch" => chip'.n >= Bits
    BY <2>1, <2>2, BitsAre DEF ChipInv
  <2>8. chip'.phase = "low" => \E h \in Byte : chip'.ptr = h * 2^Bits
    BY <2>2 DEF ChipInv
  <2> QED
    BY <1>2, <2>2, <2>4, <2>5, <2>6, <2>7, <2>8 DEF ChipInv
<1> QED
  BY <1>1, <1>2

LEMMA RetireKept ==
  ASSUME ChipInv, NEW phase \in {"idle", "ignore", "address"}, Retire(phase)
  PROVE  ChipInv'
<1>1. /\ chip'.phase = phase /\ chip'.ptr = chip.ptr /\ chip'.n = 0 /\ chip'.shift = 0
      /\ chip'.want = 1 /\ chip'.more = FALSE
      /\ chip' = [phase |-> phase, n |-> 0, shift |-> 0, ptr |-> chip.ptr, want |-> 1, more |-> FALSE]
  BY RetireFields
<1>2. chip.ptr \in Address
  BY DEF ChipInv, ChipType
<1>3. ChipType'
  BY <1>1, <1>2, Bytes, BitsAre DEF ChipType, Phases
<1>4. 0 < 2^0
  BY PowerZero
<1> QED
  BY <1>1, <1>3, <1>4, BitsAre DEF ChipInv, Still

LEMMA TakeKept ==
  ASSUME ChipInv, chip.phase \in Taking, chip.n = Bits, NEW ptr \in Address,
         NEW next \in {"high", "low", "store", "fetch"}, Take(next, ptr),
         next = "low" => \E h \in Byte : ptr = h * 2^Bits
  PROVE  ChipInv'
<1>1. /\ chip'.phase = next /\ chip'.ptr = ptr /\ chip'.n = chip.n
      /\ chip'.shift = chip.shift /\ chip'.want = 0 /\ chip'.more = chip.more
      /\ chip' = [phase |-> next, n |-> chip.n, shift |-> chip.shift, ptr |-> ptr,
                  want |-> 0, more |-> chip.more]
  BY TakeFields DEF ChipInv
<1>2. chip.n \in 0..(Bits + 1) /\ chip.shift \in Byte /\ chip.more \in BOOLEAN
  BY DEF ChipInv, ChipType
<1>3. ChipType'
  BY <1>1, <1>2 DEF ChipType, Phases
<1>4. ~chip.more /\ chip.shift < 2^chip.n
  BY BitsAre DEF ChipInv, Taking
<1> QED
  BY <1>1, <1>3, <1>4, BitsAre DEF ChipInv, Taking

LEMMA FetchKept ==
  ASSUME BusTypes, ChipInv, Fetch
  PROVE  ChipInv' /\ regs' = regs
<1>1. /\ chip'.phase = "read" /\ chip'.n = 0 /\ chip'.shift = regs[chip.ptr]
      /\ chip'.want = Bit(regs[chip.ptr], 1) /\ chip'.ptr = Following(chip.ptr)
      /\ chip'.more = FALSE /\ regs' = regs
      /\ chip' = [phase |-> "read", n |-> 0, shift |-> regs[chip.ptr],
                  ptr |-> Following(chip.ptr), want |-> Bit(regs[chip.ptr], 1), more |-> FALSE]
  BY FetchFields
<1>2. chip.ptr \in Address /\ regs[chip.ptr] \in Byte
  BY DEF ChipInv, ChipType, BusTypes
<1>3. Following(chip.ptr) \in Address
  BY <1>2, NextRegister
<1>4. Bit(regs[chip.ptr], 1) \in {0, 1}
  <2>1. regs[chip.ptr] \in Nat /\ 1 \in 1..Bits
    BY <1>2, Bytes, BitsAre
  <2> QED
    BY <2>1, PrefixStep
<1>5. ChipType'
  BY <1>1, <1>2, <1>3, <1>4, BitsAre DEF ChipType, Phases
<1> QED
  BY <1>1, <1>5, BitsAre DEF ChipInv, Taking

LEMMA ByteKept ==
  ASSUME BusTypes, ChipInv, chip.phase \in Taking, chip.n = Bits, ByteComplete
  PROVE  ChipInv' /\ regs' \in [Address -> Byte]
<1>1. /\ chip.shift \in Byte /\ chip.ptr \in Address /\ regs \in [Address -> Byte]
  BY DEF ChipInv, ChipType, BusTypes
<1>2. regs' \in [Address -> Byte]
  BY <1>1 DEF ByteComplete
<1>3. CASE chip.phase = "address"
  <2>1. Take("high", chip.ptr) \/ Take("fetch", chip.ptr) \/ Retire("ignore")
    BY <1>3 DEF ByteComplete
  <2>2. ASSUME NEW next \in {"high", "fetch"}, Take(next, chip.ptr)
        PROVE  ChipInv'
    BY <1>1, <2>2, TakeKept
  <2>3. ASSUME NEW phase \in {"ignore"}, Retire(phase)
        PROVE  ChipInv'
    BY <2>3, RetireKept
  <2> QED
    BY <1>2, <2>1, <2>2, <2>3
<1>4. CASE chip.phase = "high"
  <2>1. Take("low", chip.shift * 2^Bits)
    BY <1>4 DEF ByteComplete
  <2>2. chip.shift * 2^Bits \in Address
    BY <1>1, Bytes, FromTwoBytes
  <2>3. ASSUME NEW next \in {"low"}, NEW ptr \in Address, ptr = chip.shift * 2^Bits, Take(next, ptr)
        PROVE  ChipInv'
    <3>1. \E h \in Byte : ptr = h * 2^Bits
      BY <1>1, <2>3
    <3> QED
      BY <2>3, <3>1, TakeKept
  <2> QED
    BY <1>2, <2>1, <2>2, <2>3
<1>5. CASE chip.phase = "low"
  <2>1. Take("store", chip.ptr + chip.shift)
    BY <1>5 DEF ByteComplete
  <2>2. PICK h \in Byte : chip.ptr = h * 2^Bits
    BY <1>5 DEF ChipInv
  <2>3. chip.ptr + chip.shift \in Address
    <3>1. h * 2^Bits + chip.shift \in Address
      BY <1>1, FromTwoBytes
    <3> QED
      BY <2>2, <3>1
  <2>4. ASSUME NEW next \in {"store"}, NEW ptr \in Address, Take(next, ptr)
        PROVE  ChipInv'
    BY <2>4, TakeKept
  <2> QED
    BY <1>2, <2>1, <2>3, <2>4
<1>6. CASE chip.phase = "store"
  <2>1. Take("store", Following(chip.ptr))
    BY <1>6 DEF ByteComplete
  <2>2. Following(chip.ptr) \in Address
    BY <1>1, NextRegister
  <2>3. ASSUME NEW next \in {"store"}, NEW ptr \in Address, Take(next, ptr)
        PROVE  ChipInv'
    BY <2>3, TakeKept
  <2> QED
    BY <1>2, <2>1, <2>2, <2>3
<1> QED
  BY <1>2, <1>3, <1>4, <1>5, <1>6 DEF Taking

LEMMA FallKept ==
  ASSUME BusTypes, ChipInv, scl = 1, scl' = 0, ChipFall
  PROVE  ChipInv' /\ regs' \in [Address -> Byte]
<1>1. regs \in [Address -> Byte] /\ chip.n \in 0..(Bits + 1) /\ chip.shift \in Byte
  BY DEF BusTypes, ChipInv, ChipType
<1>2. CASE chip.phase \in {"address", "high", "low", "store"} /\ chip.n = Bits
  <2>1. ByteComplete
    BY <1>1, <1>2, BitsAre DEF ChipFall
  <2> QED
    BY <1>2, <2>1, ByteKept DEF Taking
<1>3. CASE chip.n > Bits /\ (chip.phase = "fetch" \/ chip.more)
  <2>1. Fetch
    BY <1>1, <1>3, BitsAre DEF ChipFall
  <2> QED
    BY <1>1, <2>1, FetchKept
<1>4. CASE /\ ~(chip.phase \in {"address", "high", "low", "store"} /\ chip.n = Bits)
           /\ ~(chip.n > Bits /\ (chip.phase = "fetch" \/ chip.more))
  <2>1. /\ \/ chip.n > Bits /\ chip.phase = "read" /\ Retire("ignore")
           \/ /\ chip.n > Bits /\ chip.phase # "read"
              /\ chip' = [chip EXCEPT !.n = 0, !.shift = 0, !.want = 1]
           \/ /\ chip.n \in 1..Bits /\ chip.phase = "read"
              /\ chip' = [chip EXCEPT !.want = IF chip.n = Bits THEN 1 ELSE Bit(chip.shift, chip.n + 1)]
           \/ (chip.n = 0 \/ (chip.n <= Bits /\ chip.phase # "read")) /\ UNCHANGED chip
        /\ UNCHANGED regs
    BY <1>4 DEF ChipFall
  <2>2. CASE chip.n > Bits /\ chip.phase = "read" /\ Retire("ignore")
    BY <1>1, <2>1, <2>2, RetireKept
  <2>3. CASE /\ chip.n > Bits /\ chip.phase # "read"
             /\ chip' = [chip EXCEPT !.n = 0, !.shift = 0, !.want = 1]
    <3>1. chip.phase \in Taking
      BY <1>1, <1>4, <2>3, BitsAre DEF ChipInv, ChipType, Phases, Taking, Still
    <3>2. /\ chip'.phase = chip.phase /\ chip'.n = 0 /\ chip'.shift = 0 /\ chip'.ptr = chip.ptr
          /\ chip'.want = 1 /\ chip'.more = chip.more
          /\ ChipType'
      <4>1. 0 \in Byte /\ 0 \in 0..(Bits + 1)
        BY Bytes, BitsAre
      <4> QED
        BY <2>3, <4>1 DEF ChipInv, ChipType
    <3>3. 0 < 2^0
      BY PowerZero
    <3> QED
      BY <1>1, <2>1, <3>1, <3>2, <3>3, BitsAre DEF ChipInv, Taking
  <2>4. CASE /\ chip.n \in 1..Bits /\ chip.phase = "read"
             /\ chip' = [chip EXCEPT !.want = IF chip.n = Bits THEN 1 ELSE Bit(chip.shift, chip.n + 1)]
    <3> DEFINE w == IF chip.n = Bits THEN 1 ELSE Bit(chip.shift, chip.n + 1)
    <3>1. w \in {0, 1}
      <4>1. CASE chip.n # Bits
        <5>1. chip.shift \in Nat /\ chip.n + 1 \in 1..Bits
          BY <1>1, <2>4, <4>1, Bytes, BitsAre
        <5> QED
          BY <4>1, <5>1, PrefixStep
      <4> QED
        BY <4>1
    <3> HIDE DEF w
    <3>2. chip' = [chip EXCEPT !.want = w]
      BY <2>4 DEF w
    <3>3. /\ chip'.phase = chip.phase /\ chip'.n = chip.n /\ chip'.shift = chip.shift
          /\ chip'.ptr = chip.ptr /\ chip'.more = chip.more
          /\ ChipType'
      BY <3>1, <3>2 DEF ChipInv, ChipType
    <3> QED
      BY <1>1, <2>1, <2>4, <3>3, BitsAre DEF ChipInv, Taking
  <2>5. CASE (chip.n = 0 \/ (chip.n <= Bits /\ chip.phase # "read")) /\ UNCHANGED chip
    <3>1. chip.n <= Bits
      BY <1>1, <2>5, BitsAre
    <3> QED
      BY <1>1, <2>1, <2>5, <3>1 DEF ChipInv, ChipType, Still
  <2> QED
    BY <2>1, <2>2, <2>3, <2>4, <2>5
<1> QED
  BY <1>2, <1>3, <1>4

LEMMA RememberTypes ==
  ASSUME BusTypes, ChipInv, ChipInv', Remember
  PROVE  deaf' \in BOOLEAN /\ moved' \in Seq(Byte)
<1>1. chip.shift \in Byte /\ chip'.shift \in Byte /\ moved \in Seq(Byte) /\ deaf \in BOOLEAN
  BY DEF ChipInv, ChipType, BusTypes
<1>2. /\ <<>> \in Seq(Byte) /\ Append(moved, chip.shift) \in Seq(Byte)
      /\ Append(moved, chip'.shift) \in Seq(Byte)
  BY <1>1
<1>3. moved' \in {<<>>, moved, Append(moved, chip.shift), Append(moved, chip'.shift)}
  BY DEF Remember
<1>4. deaf' \in BOOLEAN
  BY <1>1 DEF Remember
<1> QED
  BY <1>1, <1>2, <1>3, <1>4

(* The chip keeps its shape whatever it sees. *)
LEMMA SeesKept ==
  ASSUME BusTypes, ChipInv, scl' \in {0, 1}, sdaM' \in {0, 1}, ChipSees
  PROVE  ChipInv' /\ regs' \in [Address -> Byte] /\ deaf' \in BOOLEAN /\ moved' \in Seq(Byte)
<1>1. scl \in {0, 1} /\ regs \in [Address -> Byte]
  BY DEF BusTypes
<1>2. ChipInv' /\ regs' \in [Address -> Byte]
  <2>1. CASE scl = 0 /\ scl' = 1
    <3>1. ChipRise(Line(sdaM', sdaC)) /\ Line(sdaM', sdaC) \in {0, 1}
      BY <2>1 DEF ChipSees, Line
    <3> QED
      BY <2>1, <3>1, <1>1, RiseKept
  <2>2. CASE scl = 1 /\ scl' = 0
    BY <2>2, FallKept DEF ChipSees
  <2>3. CASE scl = scl'
    <3>1. \/ Retire("address") /\ UNCHANGED regs
          \/ Retire("idle") /\ UNCHANGED regs
          \/ UNCHANGED <<chip, regs>>
      BY <2>3, <1>1 DEF ChipSees
    <3>2. CASE UNCHANGED <<chip, regs>>
      BY <2>3, <3>2, <1>1 DEF ChipInv, ChipType, Still
    <3> QED
      BY <3>1, <3>2, <1>1, RetireKept
  <2> QED
    BY <2>1, <2>2, <2>3, <1>1
<1>3. Remember
  BY DEF ChipSees
<1> QED
  BY <1>2, <1>3, RememberTypes

-----------------------------------------------------------------------------
(***************************************************************************)
(* The chip in a bus call: what it makes of each edge, by the state it is  *)
(* in.                                                                     *)
(***************************************************************************)
Seen == BusTypes /\ ChipInv /\ call # None /\ call' = call /\ ChipSees

(* The chip has neither stored nor fetched nor turned away. *)
Frozen == regs' = regs /\ deaf' = deaf /\ moved' = moved

Rising  == scl = 0 /\ scl' = 1
Falling == scl = 1 /\ scl' = 0

LEMMA SeenTypes ==
  ASSUME Seen
  PROVE  /\ Remember /\ deaf \in BOOLEAN /\ moved \in Seq(Byte) /\ ChipType
         /\ scl \in {0, 1} /\ sdaM \in {0, 1} /\ sdaC \in {0, 1}
         /\ chip.phase \in Phases /\ chip.n \in 0..(Bits + 1) /\ chip.shift \in Byte
         /\ chip.ptr \in Address /\ chip.want \in {0, 1} /\ chip.more \in BOOLEAN
         /\ regs \in [Address -> Byte]
BY DEF Seen, ChipSees, BusTypes, ChipInv, ChipType

(* No entry in the history, unless the chip turns away, stores or fetches. *)
LEMMA NoEntry ==
  ASSUME Seen,
         ~(chip.phase = "address" /\ chip'.phase = "ignore"),
         ~(chip.phase = "store" /\ chip'.ptr # chip.ptr),
         ~(chip'.phase = "read" /\ chip'.n = 0 /\ chip.n > 0)
  PROVE  deaf' = deaf /\ moved' = moved
<1>1. Remember /\ call' # None /\ deaf \in BOOLEAN
  BY SeenTypes DEF Seen
<1>2. moved' = moved
  BY <1>1 DEF Remember
<1>3. deaf' = deaf
  BY <1>1 DEF Remember
<1> QED
  BY <1>2, <1>3

LEMMA Silent ==
  ASSUME Seen, scl' = scl, scl = 0 \/ Line(sdaM', sdaC) = SDA
  PROVE  chip' = chip /\ Frozen
<1>1. scl \in {0, 1} /\ SDA \in {0, 1}
  BY SeenTypes DEF SDA, Line
<1>2. chip' = chip /\ regs' = regs
  <2>1. CASE scl = 0
    BY <2>1 DEF Seen, ChipSees
  <2>2. CASE Line(sdaM', sdaC) = SDA
    <3>1. ~(SDA > Line(sdaM', sdaC)) /\ ~(SDA < Line(sdaM', sdaC))
      BY <2>2, <1>1
    <3> QED
      BY <3>1, <1>1 DEF Seen, ChipSees
  <2> QED
    BY <2>1, <2>2
<1>3. ~(chip.phase = "address" /\ chip'.phase = "ignore")
  BY <1>2
<1>4. ~(chip'.n = 0 /\ chip.n > 0)
  BY <1>2, SeenTypes
<1>5. deaf' = deaf /\ moved' = moved
  BY <1>2, <1>3, <1>4, NoEntry
<1> QED
  BY <1>2, <1>5 DEF Frozen

LEMMA RiseTaking ==
  ASSUME Seen, Rising, chip.phase \in Taking, chip.n < Bits
  PROVE  /\ chip'.phase = chip.phase /\ chip'.n = chip.n + 1 /\ chip'.ptr = chip.ptr
         /\ chip'.shift = 2 * chip.shift + Line(sdaM', sdaC)
         /\ chip'.want = chip.want /\ ~chip'.more /\ Frozen
<1>1. ChipRise(Line(sdaM', sdaC)) /\ ChipType
  BY SeenTypes DEF Seen, ChipSees, Rising
<1>2. chip.n # Bits /\ chip.phase \notin {"idle", "ignore", "read"}
  BY SeenTypes, BitsAre DEF Taking
<1>3. /\ chip'.phase = chip.phase /\ chip'.n = chip.n + 1 /\ chip'.ptr = chip.ptr
      /\ chip'.shift = 2 * chip.shift + Line(sdaM', sdaC)
      /\ chip'.want = chip.want /\ ~chip'.more /\ regs' = regs
  BY <1>1, <1>2, ChipRiseFields
<1>4. deaf' = deaf /\ moved' = moved
  BY <1>2, <1>3, NoEntry
<1> QED
  BY <1>3, <1>4 DEF Frozen

(* The ninth pulse of a byte the chip takes, and any pulse of one it gives. *)
LEMMA RiseOther ==
  ASSUME Seen, Rising,
         chip.phase = "read" \/ (chip.phase \notin {"idle", "ignore"} /\ chip.n = Bits)
  PROVE  /\ chip'.phase = chip.phase /\ chip'.n = chip.n + 1 /\ chip'.ptr = chip.ptr
         /\ chip'.shift = chip.shift /\ chip'.want = chip.want
         /\ chip'.more = (chip.phase = "read" /\ chip.n = Bits /\ Line(sdaM', sdaC) = 0)
         /\ Frozen
<1>1. ChipRise(Line(sdaM', sdaC)) /\ ChipType
  BY SeenTypes DEF Seen, ChipSees, Rising
<1>2. chip.phase \notin {"idle", "ignore"}
  OBVIOUS
<1>3. /\ chip'.phase = chip.phase /\ chip'.n = chip.n + 1 /\ chip'.ptr = chip.ptr
      /\ chip'.shift = chip.shift /\ chip'.want = chip.want
      /\ chip'.more = (chip.phase = "read" /\ chip.n = Bits /\ Line(sdaM', sdaC) = 0)
      /\ regs' = regs
  BY <1>1, <1>2, ChipRiseFields
<1>4. chip'.n # 0
  BY <1>3, SeenTypes, BitsAre
<1>5. deaf' = deaf /\ moved' = moved
  BY <1>2, <1>3, <1>4, NoEntry
<1> QED
  BY <1>3, <1>5 DEF Frozen

(* An edge of the clock means nothing to a chip that is not addressed. *)
LEMMA EdgeIgnored ==
  ASSUME Seen, Rising \/ Falling, chip.phase \in {"idle", "ignore"}
  PROVE  chip' = chip /\ Frozen
<1>1. chip.n = 0 /\ ~chip.more
  BY DEF Seen, ChipInv, Still
<1>2. chip' = chip /\ regs' = regs
  <2>1. CASE Rising
    BY <2>1 DEF Seen, ChipSees, Rising, ChipRise
  <2>2. CASE Falling
    <3>1. ChipFall
      BY <2>2 DEF Seen, ChipSees, Falling
    <3>2. ~(chip.n > Bits) /\ ~(chip.n \in 1..Bits)
      BY <1>1, BitsAre
    <3> QED
      BY <1>1, <3>1, <3>2 DEF ChipFall
  <2> QED
    BY <2>1, <2>2
<1>3. ~(chip.n > 0)
  BY <1>1
<1>4. deaf' = deaf /\ moved' = moved
  BY <1>2, <1>3, NoEntry
<1> QED
  BY <1>2, <1>4 DEF Frozen

LEMMA FallBit ==
  ASSUME Seen, Falling, chip.phase \in Taking, chip.n < Bits
  PROVE  chip' = chip /\ Frozen
<1>1. chip.n \in Nat /\ ~(chip.n > Bits) /\ chip.n # Bits /\ chip.n <= Bits
  BY SeenTypes, BitsAre
<1>2. ChipFall /\ chip.phase \notin {"read", "fetch"}
  BY DEF Seen, ChipSees, Falling, Taking
<1>3. chip' = chip /\ regs' = regs
  BY <1>1, <1>2 DEF ChipFall
<1>4. ~(chip.phase = "address" /\ chip'.phase = "ignore") /\ ~(chip'.phase = "read")
  BY <1>2, <1>3
<1>5. deaf' = deaf /\ moved' = moved
  BY <1>3, <1>4, NoEntry
<1> QED
  BY <1>3, <1>5 DEF Frozen

(* It lets the line go after its acknowledge. *)
LEMMA FallAcked ==
  ASSUME Seen, Falling, chip.phase \in Taking, chip.n = Bits + 1
  PROVE  /\ chip'.phase = chip.phase /\ chip'.n = 0 /\ chip'.shift = 0
         /\ chip'.ptr = chip.ptr /\ chip'.want = 1 /\ ~chip'.more /\ Frozen
<1>1. chip.n > Bits /\ chip.n # Bits /\ ~(chip.n \in 1..Bits) /\ ~(chip.n <= Bits) /\ chip.n # 0
  BY BitsAre
<1>2. ChipFall /\ chip.phase \notin {"read", "fetch"} /\ ~chip.more
  BY DEF Seen, ChipSees, ChipInv, Falling, Taking
<1>3. chip' = [chip EXCEPT !.n = 0, !.shift = 0, !.want = 1] /\ regs' = regs
  BY <1>1, <1>2 DEF ChipFall
<1>4. /\ chip'.phase = chip.phase /\ chip'.n = 0 /\ chip'.shift = 0
      /\ chip'.ptr = chip.ptr /\ chip'.want = 1 /\ chip'.more = chip.more
  BY <1>3, SeenTypes DEF ChipType
<1>5. deaf' = deaf /\ moved' = moved
  BY <1>2, <1>4, NoEntry
<1> QED
  BY <1>2, <1>3, <1>4, <1>5 DEF Frozen

(* The next bit of a byte it gives. *)
LEMMA FallReading ==
  ASSUME Seen, Falling, chip.phase = "read", chip.n \in 1..Bits
  PROVE  /\ chip'.phase = "read" /\ chip'.n = chip.n /\ chip'.shift = chip.shift
         /\ chip'.ptr = chip.ptr /\ ~chip'.more
         /\ chip'.want = IF chip.n = Bits THEN 1 ELSE Bit(chip.shift, chip.n + 1)
         /\ Frozen
<1>1. ~(chip.n > Bits) /\ chip.n # 0 /\ chip.n # Bits + 1
  BY BitsAre
<1>2. ChipFall /\ ~chip.more
  BY <1>1 DEF Seen, ChipSees, ChipInv, Falling
<1> DEFINE w == IF chip.n = Bits THEN 1 ELSE Bit(chip.shift, chip.n + 1)
<1>3. chip' = [chip EXCEPT !.want = w] /\ regs' = regs
  BY <1>1, <1>2 DEF ChipFall
<1> HIDE DEF w
<1>4. /\ chip'.phase = chip.phase /\ chip'.n = chip.n /\ chip'.shift = chip.shift
      /\ chip'.ptr = chip.ptr /\ chip'.want = w /\ chip'.more = chip.more
  BY <1>3, SeenTypes DEF ChipType
<1>5. deaf' = deaf /\ moved' = moved
  BY <1>1, <1>4, NoEntry
<1> QED
  BY <1>2, <1>3, <1>4, <1>5 DEF Frozen, w

(* The master does not acknowledge: no more bytes. *)
LEMMA FallUnacked ==
  ASSUME Seen, Falling, chip.phase = "read", chip.n = Bits + 1, ~chip.more
  PROVE  chip'.phase = "ignore" /\ chip'.ptr = chip.ptr /\ Still' /\ Frozen
<1>1. chip.n > Bits /\ ~(chip.n \in 1..Bits) /\ chip.n # 0
  BY BitsAre
<1>2. ChipFall
  BY DEF Seen, ChipSees, Falling
<1> DEFINE p == "ignore"
<1>3. Retire(p) /\ regs' = regs
  BY <1>1, <1>2 DEF ChipFall
<1> HIDE DEF p
<1>4. /\ chip'.phase = p /\ chip'.ptr = chip.ptr /\ chip'.n = 0 /\ chip'.shift = 0
      /\ chip'.want = 1 /\ chip'.more = FALSE
  BY <1>3, RetireFields
<1>5. deaf' = deaf /\ moved' = moved
  BY <1>4, NoEntry DEF p
<1> QED
  BY <1>3, <1>4, <1>5 DEF Frozen, Still, p

(* It gives the next register. *)
LEMMA FallFetch ==
  ASSUME Seen, Falling, chip.n = Bits + 1, chip.phase = "fetch" \/ chip.more
  PROVE  /\ chip'.phase = "read" /\ chip'.n = 0 /\ chip'.shift = regs[chip.ptr]
         /\ chip'.want = Bit(regs[chip.ptr], 1) /\ chip'.ptr = Following(chip.ptr)
         /\ ~chip'.more
         /\ regs' = regs /\ deaf' = deaf /\ moved' = Append(moved, regs[chip.ptr])
<1>1. chip.n > Bits /\ chip.n > 0
  BY BitsAre
<1>2. ChipFall /\ chip.phase \in {"fetch", "read"}
  BY DEF Seen, ChipSees, ChipInv, Falling
<1>3. Fetch
  BY <1>1, <1>2 DEF ChipFall
<1>4. /\ chip'.phase = "read" /\ chip'.n = 0 /\ chip'.shift = regs[chip.ptr]
      /\ chip'.want = Bit(regs[chip.ptr], 1) /\ chip'.ptr = Following(chip.ptr)
      /\ chip'.more = FALSE /\ regs' = regs
  BY <1>3, FetchFields
<1>5. Remember /\ call' # None /\ deaf \in BOOLEAN
  BY SeenTypes DEF Seen
<1>6. moved' = Append(moved, chip'.shift)
  BY <1>1, <1>2, <1>4, <1>5 DEF Remember
<1>7. deaf' = deaf
  BY <1>2, <1>5 DEF Remember
<1> QED
  BY <1>4, <1>6, <1>7

(* A byte has arrived, and the chip pulls the line: it is addressed, its   *)
(* register address grows, or a register gets its value.                   *)
Acks(phase, ptr) ==
  /\ chip'.phase = phase /\ chip'.ptr = ptr /\ chip'.n = Bits
  /\ chip'.shift = chip.shift /\ chip'.want = 0 /\ ~chip'.more

LEMMA FallByte ==
  ASSUME Seen, Falling, chip.phase \in Taking, chip.n = Bits
  PROVE  ByteComplete /\ Remember /\ ~chip.more
<1>1. ChipFall
  BY DEF Seen, ChipSees, Falling
<1>2. ByteComplete
  BY <1>1, BitsAre DEF ChipFall, Taking
<1> QED
  BY <1>2, SeenTypes DEF Seen, ChipInv, Taking

LEMMA TakenAcks ==
  ASSUME Seen, chip.n = Bits, ~chip.more, NEW next, NEW ptr, Take(next, ptr)
  PROVE  Acks(next, ptr)
<1>1. /\ chip'.phase = next /\ chip'.ptr = ptr /\ chip'.n = chip.n
      /\ chip'.shift = chip.shift /\ chip'.want = 0 /\ chip'.more = chip.more
  BY SeenTypes, TakeFields
<1> QED
  BY <1>1 DEF Acks

LEMMA FallAddress ==
  ASSUME Seen, Falling, chip.phase = "address", chip.n = Bits,
         chip.shift \in {DevAddr, DevAddr + 1}
  PROVE  \/ Acks(IF chip.shift = DevAddr THEN "high" ELSE "fetch", chip.ptr) /\ Frozen
         \/ /\ chip'.phase = "ignore" /\ chip'.ptr = chip.ptr /\ Still'
            /\ regs' = regs /\ moved' = moved /\ deaf'
<1>1. ByteComplete /\ Remember /\ call' # None /\ ~chip.more
  BY FallByte DEF Seen, Taking
<1> DEFINE q == IF chip.shift = DevAddr THEN "high" ELSE "fetch"
           ig == "ignore"
<1>2. DevAddr # DevAddr + 1
  BY DevAddrAssumption
<1>3. Take(q, chip.ptr) \/ Retire(ig)
  BY <1>1, <1>2 DEF ByteComplete
<1>4. regs' = regs
  BY <1>1 DEF ByteComplete
<1>5. q \in {"high", "fetch"}
  OBVIOUS
<1>6. CASE Take(q, chip.ptr)
  <2> HIDE DEF q
  <2>1. Acks(q, chip.ptr)
    BY <1>1, <1>6, TakenAcks
  <2>2. deaf' = deaf /\ moved' = moved
    <3>1. chip'.phase \in {"high", "fetch"}
      BY <2>1, <1>5 DEF Acks
    <3> QED
      BY <3>1, NoEntry
  <2> QED
    BY <2>1, <2>2, <1>4 DEF Frozen, q
<1>7. CASE Retire(ig)
  <2> HIDE DEF ig
  <2>1. /\ chip'.phase = ig /\ chip'.ptr = chip.ptr /\ chip'.n = 0 /\ chip'.shift = 0
        /\ chip'.want = 1 /\ chip'.more = FALSE
    BY <1>7, RetireFields
  <2>2. chip'.phase = "ignore"
    BY <2>1 DEF ig
  <2>3. deaf' /\ moved' = moved
    BY <1>1, <2>2 DEF Remember
  <2> QED
    BY <1>4, <2>1, <2>2, <2>3 DEF Still
<1> QED
  BY <1>3, <1>6, <1>7

LEMMA FallHigh ==
  ASSUME Seen, Falling, chip.phase = "high", chip.n = Bits
  PROVE  Acks("low", chip.shift * 2^Bits) /\ Frozen
<1>1. ByteComplete /\ ~chip.more
  BY FallByte DEF Taking
<1> DEFINE q == "low"
           a == chip.shift * 2^Bits
<1>2. Take(q, a) /\ regs' = regs
  BY <1>1 DEF ByteComplete
<1> HIDE DEF q, a
<1>3. Acks(q, a)
  BY <1>1, <1>2, TakenAcks
<1>4. chip'.phase = "low"
  BY <1>3 DEF Acks, q
<1>5. deaf' = deaf /\ moved' = moved
  BY <1>4, NoEntry
<1> QED
  BY <1>2, <1>3, <1>5 DEF Frozen, q, a

LEMMA FallLow ==
  ASSUME Seen, Falling, chip.phase = "low", chip.n = Bits
  PROVE  Acks("store", chip.ptr + chip.shift) /\ Frozen
<1>1. ByteComplete /\ ~chip.more
  BY FallByte DEF Taking
<1> DEFINE q == "store"
           a == chip.ptr + chip.shift
<1>2. Take(q, a) /\ regs' = regs
  BY <1>1 DEF ByteComplete
<1> HIDE DEF q, a
<1>3. Acks(q, a)
  BY <1>1, <1>2, TakenAcks
<1>4. chip'.phase = "store"
  BY <1>3 DEF Acks, q
<1>5. deaf' = deaf /\ moved' = moved
  BY <1>4, NoEntry
<1> QED
  BY <1>2, <1>3, <1>5 DEF Frozen, q, a

LEMMA FallStore ==
  ASSUME Seen, Falling, chip.phase = "store", chip.n = Bits
  PROVE  /\ Acks("store", Following(chip.ptr))
         /\ regs' = [regs EXCEPT ![chip.ptr] = chip.shift]
         /\ deaf' = deaf /\ moved' = Append(moved, chip.shift)
<1>1. ByteComplete /\ Remember /\ call' # None /\ ~chip.more /\ deaf \in BOOLEAN
  BY FallByte, SeenTypes DEF Seen, Taking
<1> DEFINE q == "store"
           a == Following(chip.ptr)
<1>2. Take(q, a) /\ regs' = [regs EXCEPT ![chip.ptr] = chip.shift]
  BY <1>1 DEF ByteComplete
<1>3. a # chip.ptr
  BY SeenTypes, NextRegister
<1> HIDE DEF q, a
<1>4. Acks(q, a)
  BY <1>1, <1>2, TakenAcks
<1>5. chip'.ptr # chip.ptr
  BY <1>3, <1>4 DEF Acks
<1>6. moved' = Append(moved, chip.shift)
  BY <1>1, <1>5 DEF Remember
<1>7. deaf' = deaf
  BY <1>1 DEF Remember
<1> QED
  BY <1>2, <1>4, <1>6, <1>7 DEF q, a

(* START and STOP. *)
LEMMA Starting ==
  ASSUME Seen, scl = 1, scl' = 1, SDA = 1, Line(sdaM', sdaC) = 0
  PROVE  chip'.phase = "address" /\ chip'.ptr = chip.ptr /\ Still' /\ Frozen
<1> DEFINE p == "address"
<1>1. Retire(p) /\ regs' = regs
  BY DEF Seen, ChipSees
<1> HIDE DEF p
<1>2. /\ chip'.phase = p /\ chip'.ptr = chip.ptr /\ chip'.n = 0 /\ chip'.shift = 0
      /\ chip'.want = 1 /\ chip'.more = FALSE
  BY <1>1, RetireFields
<1>3. deaf' = deaf /\ moved' = moved
  BY <1>2, NoEntry DEF p
<1> QED
  BY <1>1, <1>2, <1>3 DEF Still, Frozen, p

LEMMA Stopping ==
  ASSUME Seen, scl = 1, scl' = 1, SDA = 0, Line(sdaM', sdaC) = 1
  PROVE  chip'.phase = "idle" /\ chip'.ptr = chip.ptr /\ Still' /\ Frozen
<1> DEFINE p == "idle"
<1>1. Retire(p) /\ regs' = regs
  BY DEF Seen, ChipSees
<1> HIDE DEF p
<1>2. /\ chip'.phase = p /\ chip'.ptr = chip.ptr /\ chip'.n = 0 /\ chip'.shift = 0
      /\ chip'.want = 1 /\ chip'.more = FALSE
  BY <1>1, RetireFields
<1>3. deaf' = deaf /\ moved' = moved
  BY <1>2, NoEntry DEF p
<1> QED
  BY <1>1, <1>2, <1>3 DEF Still, Frozen, p

-----------------------------------------------------------------------------
(***************************************************************************)
(* The master, one operation at a time.                                    *)
(***************************************************************************)
Acts == SetLine \/ Wait \/ LookForAck \/ SampleBit \/ KeepByte \/ CheckAck

InCall == BusTypes /\ ChipInv /\ call # None /\ todo # <<>>

Kept == try' = try /\ nack' = nack /\ byte' = byte /\ data' = data /\ call' = call

Calm == scl' = scl /\ sdaM' = sdaM /\ sdaC' = sdaC /\ chip' = chip /\ Frozen /\ call' = call

LEMMA OpsAre ==
  /\ Ops(Start) = StartOps /\ Ops(Stop) = StopOps /\ Ops(WaitAck) = WaitAckOps
  /\ Ops(<<"check">>) = <<Check>> /\ Ops(<<"pins">>) = PinOps
  /\ Ops(<<"reset">>) = <<<<"reset">>>>
  /\ \A b : Ops(Send(b)) = SendOps(b)
  /\ \A ack : Ops(Receive(ack)) = ReceiveOps(ack)
<1>1. Start[1] = "start" /\ Stop[1] = "stop" /\ WaitAck[1] = "wait_ack"
  BY DEF Start, Stop, WaitAck
<1>2. \A b : Send(b)[1] = "send" /\ Send(b)[2] = b /\ Receive(b)[1] = "receive" /\ Receive(b)[2] = b
  BY DEF Send, Receive
<1>3. <<"check">>[1] = "check" /\ <<"pins">>[1] = "pins" /\ <<"reset">>[1] = "reset"
  OBVIOUS
<1>4. Ops(Start) = StartOps /\ Ops(Stop) = StopOps /\ Ops(WaitAck) = WaitAckOps
  BY <1>1 DEF Ops
<1>5. /\ Ops(<<"check">>) = <<Check>> /\ Ops(<<"pins">>) = PinOps
      /\ Ops(<<"reset">>) = <<<<"reset">>>>
  BY <1>3 DEF Ops
<1>6. \A b : Ops(Send(b)) = SendOps(b)
  BY <1>2 DEF Ops
<1>7. \A ack : Ops(Receive(ack)) = ReceiveOps(ack)
  BY <1>2 DEF Ops
<1> QED
  BY <1>4, <1>5, <1>6, <1>7

LEMMA Operations ==
  /\ \A v : Clk(v)[1] = "clk" /\ Clk(v)[2] = v /\ Sda(v)[1] = "sda" /\ Sda(v)[2] = v
  /\ Delay[1] = "delay" /\ Look[1] = "look" /\ Sample[1] = "sample" /\ Keep[1] = "keep"
  /\ Check[1] = "check"
BY DEF Clk, Sda, Delay, Look, Sample, Keep, Check

LEMMA StepClk ==
  ASSUME InCall, Acts, Op[1] = "clk"
  PROVE  /\ Seen /\ scl' = Op[2] /\ sdaM' = sdaM /\ sdaC' = sdaC /\ Kept /\ Advance
<1>1. SetLine
  BY DEF Acts, Wait, LookForAck, SampleBit, KeepByte, CheckAck, At
<1> QED
  BY <1>1 DEF SetLine, At, InCall, Seen, Kept

LEMMA StepSda ==
  ASSUME InCall, Acts, Op[1] = "sda"
  PROVE  /\ Seen /\ scl' = scl /\ sdaM' = Op[2] /\ sdaC' = sdaC /\ Kept /\ Advance
<1>1. SetLine
  BY DEF Acts, Wait, LookForAck, SampleBit, KeepByte, CheckAck, At
<1> QED
  BY <1>1 DEF SetLine, At, InCall, Seen, Kept

LEMMA StepDelay ==
  ASSUME InCall, Acts, Op[1] = "delay"
  PROVE  sdaC = chip.want /\ Calm /\ Kept /\ Advance
<1>1. Wait
  BY DEF Acts, SetLine, LookForAck, SampleBit, KeepByte, CheckAck, At
<1> QED
  BY <1>1 DEF Wait, Calm, Kept, Frozen, wires, history

LEMMA StepLook ==
  ASSUME InCall, Acts, Op[1] = "look"
  PROVE  /\ Calm /\ byte' = byte /\ data' = data
         /\ \/ SDA = 0 /\ try' = 0 /\ nack' = FALSE /\ Advance
            \/ SDA # 0 /\ try' = 0 /\ nack' = TRUE /\ Advance
            \/ SDA # 0 /\ try' = try + 1 /\ try' <= Tries /\ nack' = nack /\ todo' = todo /\ step' = step
<1>1. LookForAck
  BY DEF Acts, SetLine, Wait, SampleBit, KeepByte, CheckAck, At
<1> QED
  BY <1>1 DEF LookForAck, Calm, Frozen, wires, history

LEMMA StepSample ==
  ASSUME InCall, Acts, Op[1] = "sample"
  PROVE  /\ Calm /\ try' = try /\ nack' = nack /\ data' = data
         /\ byte' = (2 * byte + SDA) % 2^Bits /\ Advance
<1>1. SampleBit
  BY DEF Acts, SetLine, Wait, LookForAck, KeepByte, CheckAck, At
<1> QED
  BY <1>1 DEF SampleBit, Calm, Frozen, wires, history

LEMMA StepKeep ==
  ASSUME InCall, Acts, Op[1] = "keep"
  PROVE  /\ Calm /\ try' = try /\ nack' = nack /\ data' = Append(data, byte)
         /\ byte' = 0 /\ Advance
<1>1. KeepByte
  BY DEF Acts, SetLine, Wait, LookForAck, SampleBit, CheckAck, At
<1> QED
  BY <1>1 DEF KeepByte, Calm, Frozen, wires, history

LEMMA StepCheck ==
  ASSUME InCall, Acts, Op[1] = "check"
  PROVE  Calm /\ Kept /\ step' = 1 /\ todo' = IF nack THEN <<Stop>> ELSE Tail(todo)
<1>1. CheckAck
  BY DEF Acts, SetLine, Wait, LookForAck, SampleBit, KeepByte, At
<1> QED
  BY <1>1 DEF CheckAck, Calm, Kept, Frozen, wires, history

LEMMA Advancing ==
  ASSUME Advance, step \in Nat, NEW n \in Nat, Len(Ops(Current)) = n
  PROVE  /\ step < n => step' = step + 1 /\ todo' = todo
         /\ ~(step < n) => step' = 1 /\ todo' = Tail(todo)
BY DEF Advance

-----------------------------------------------------------------------------
(***************************************************************************)
(* The functions.  Each has an invariant that says, for every operation,   *)
(* what the lines and the chip are at, and a lemma: a step of the master   *)
(* keeps it, or ends the function in the state the next one begins in.     *)
(***************************************************************************)
Level(c) == IF c THEN 1 ELSE 0

Free    == scl = 1 /\ sdaM = 1 /\ sdaC = 1 /\ chip.phase = "idle" /\ Still
Ignores == chip.phase = "ignore" /\ Still /\ sdaC = 1

Hears(p, n, s, a) ==
  /\ ~deaf /\ chip.phase = p /\ chip.n = n /\ chip.shift = s /\ chip.ptr = a
  /\ chip.want = 1 /\ ~chip.more /\ sdaC = 1

StartInv(a) ==
  /\ step \in 1..7 /\ ~deaf /\ chip.ptr = a /\ sdaC = 1 /\ Still
  /\ step < 5 => scl = 1 /\ sdaM = 1 /\ chip.phase = "idle"
  /\ step > 4 => scl = Level(step < 7) /\ sdaM = 0 /\ chip.phase = "address"

LEMMA LineLevels == \A a, b \in {0, 1} : Line(a, b) \in {0, 1} /\ Line(a, 1) = a /\ Line(1, a) = a /\ Line(0, b) = 0
BY DEF Line

LEMMA StartStep ==
  ASSUME InCall, Acts, Current = Start, NEW a, StartInv(a)
  PROVE  /\ Frozen /\ Kept
         /\ \/ todo' = todo /\ StartInv(a)'
            \/ todo' = Tail(todo) /\ step' = 1 /\ scl' = 0 /\ Hears("address", 0, 0, a)'
<1>1. Op = StartOps[step] /\ Ops(Current) = StartOps /\ Len(StartOps) = 7
  BY OpsAre DEF Op, StartOps
<1>2. step \in 1..7 /\ step \in Nat /\ ~deaf /\ chip.ptr = a /\ sdaC = 1 /\ Still
  BY DEF StartInv
<1>3. Advance => /\ step < 7 => step' = step + 1 /\ todo' = todo
                 /\ ~(step < 7) => step' = 1 /\ todo' = Tail(todo)
  BY <1>1, <1>2 DEF Advance
<1>4. CASE step = 1
  <2>1. Op[1] = "clk" /\ Op[2] = 1 /\ scl = 1 /\ sdaM = 1 /\ chip.phase = "idle"
    BY <1>1, <1>4, Operations DEF StartOps, StartInv
  <2>2. Seen /\ scl' = 1 /\ sdaM' = sdaM /\ sdaC' = sdaC /\ Kept /\ Advance
    BY <2>1, StepClk
  <2>3. chip' = chip /\ Frozen
    BY <2>1, <2>2, Silent DEF SDA
  <2> QED
    BY <1>2, <1>3, <1>4, <2>1, <2>2, <2>3 DEF StartInv, Still, Frozen
<1>5. CASE step = 2
  <2>1. Op[1] = "sda" /\ Op[2] = 1 /\ scl = 1 /\ sdaM = 1 /\ chip.phase = "idle"
    BY <1>1, <1>5, Operations DEF StartOps, StartInv
  <2>2. Seen /\ scl' = scl /\ sdaM' = 1 /\ sdaC' = sdaC /\ Kept /\ Advance
    BY <2>1, StepSda
  <2>3. chip' = chip /\ Frozen
    BY <2>1, <2>2, Silent DEF SDA
  <2> QED
    BY <1>2, <1>3, <1>5, <2>1, <2>2, <2>3 DEF StartInv, Still, Frozen
<1>6. CASE step \in {3, 5, 7}
  <2>1. Op[1] = "delay"
    BY <1>1, <1>6, Operations DEF StartOps
  <2>2. Calm /\ Kept /\ Advance
    BY <2>1, StepDelay
  <2>3. CASE step = 7
    BY <1>2, <1>3, <2>2, <2>3 DEF StartInv, Calm, Frozen, Hears, Still, Level
  <2>4. CASE step # 7
    BY <1>2, <1>3, <1>6, <2>2, <2>4 DEF StartInv, Calm, Frozen, Still, Level
  <2> QED
    BY <2>2, <2>3, <2>4 DEF Calm
<1>7. CASE step = 4
  <2>1. Op[1] = "sda" /\ Op[2] = 0 /\ scl = 1 /\ sdaM = 1
    BY <1>1, <1>7, Operations DEF StartOps, StartInv
  <2>2. Seen /\ scl' = scl /\ sdaM' = 0 /\ sdaC' = sdaC /\ Kept /\ Advance
    BY <2>1, StepSda
  <2>3. chip'.phase = "address" /\ chip'.ptr = chip.ptr /\ Still' /\ Frozen
    BY <1>2, <2>1, <2>2, Starting DEF SDA, Line
  <2> QED
    BY <1>2, <1>3, <1>7, <2>1, <2>2, <2>3 DEF StartInv, Frozen, Level
<1>8. CASE step = 6
  <2>1. Op[1] = "clk" /\ Op[2] = 0 /\ scl = 1 /\ sdaM = 0 /\ chip.phase = "address"
    BY <1>1, <1>8, Operations DEF StartOps, StartInv, Level
  <2>2. Seen /\ scl' = 0 /\ sdaM' = sdaM /\ sdaC' = sdaC /\ Kept /\ Advance
    BY <2>1, StepClk
  <2>3. chip' = chip /\ Frozen
    BY <1>2, <2>1, <2>2, FallBit, BitsAre DEF Falling, Taking, Still
  <2> QED
    BY <1>2, <1>3, <1>8, <2>1, <2>2, <2>3 DEF StartInv, Still, Frozen, Level
<1> QED
  BY <1>2, <1>4, <1>5, <1>6, <1>7, <1>8

(* Before STOP the chip listens to nobody, or waits for the first bit of   *)
(* a byte.                                                                 *)
StopInv(a) ==
  /\ step \in 1..6 /\ scl = Level(step > 3) /\ sdaC = 1 /\ chip.ptr = a
  /\ step \in 2..5 => sdaM = 0
  /\ step = 6 => sdaM = 1
  /\ IF step = 6 THEN chip.phase = "idle" /\ Still
     ELSE /\ chip.phase \in {"ignore", "store"} /\ chip.want = 1
          /\ step <= 3 => chip.n = 0

LEMMA StopStep ==
  ASSUME InCall, Acts, Current = Stop, NEW a, StopInv(a)
  PROVE  /\ Frozen /\ Kept
         /\ \/ todo' = todo /\ StopInv(a)'
            \/ todo' = Tail(todo) /\ step' = 1 /\ Free' /\ chip'.ptr = a
<1>1. Op = StopOps[step] /\ Ops(Current) = StopOps /\ Len(StopOps) = 6
  BY OpsAre DEF Op, StopOps
<1>2. step \in 1..6 /\ step \in Nat /\ sdaC = 1 /\ chip.ptr = a
  BY DEF StopInv
<1>3. Advance => /\ step < 6 => step' = step + 1 /\ todo' = todo
                 /\ ~(step < 6) => step' = 1 /\ todo' = Tail(todo)
  BY <1>1, <1>2 DEF Advance
<1>4. CASE step = 1
  <2>1. Op[1] = "sda" /\ Op[2] = 0 /\ scl = 0
    BY <1>1, <1>4, Operations DEF StopOps, StopInv, Level
  <2>2. Seen /\ scl' = scl /\ sdaM' = 0 /\ sdaC' = sdaC /\ Kept /\ Advance
    BY <2>1, StepSda
  <2>3. chip' = chip /\ Frozen
    BY <2>1, <2>2, Silent
  <2> QED
    BY <1>2, <1>3, <1>4, <2>1, <2>2, <2>3 DEF StopInv, Frozen, Level
<1>5. CASE step \in {2, 4, 6}
  <2>1. Op[1] = "delay"
    BY <1>1, <1>5, Operations DEF StopOps
  <2>2. Calm /\ Kept /\ Advance
    BY <2>1, StepDelay
  <2>3. CASE step = 6
    BY <1>2, <1>3, <2>2, <2>3 DEF StopInv, Calm, Free, Still, Level
  <2>4. CASE step # 6
    BY <1>2, <1>3, <1>5, <2>2, <2>4 DEF StopInv, Calm, Level
  <2> QED
    BY <2>2, <2>3, <2>4 DEF Calm
<1>6. CASE step = 3
  <2>1. /\ Op[1] = "clk" /\ Op[2] = 1 /\ scl = 0 /\ sdaM = 0 /\ chip.want = 1
        /\ chip.phase \in {"ignore", "store"} /\ chip.n = 0
    BY <1>1, <1>6, Operations DEF StopOps, StopInv, Level
  <2>2. Seen /\ scl' = 1 /\ sdaM' = sdaM /\ sdaC' = sdaC /\ Kept /\ Advance
    BY <2>1, StepClk
  <2>3. chip'.phase = chip.phase /\ chip'.ptr = chip.ptr /\ chip'.want = chip.want /\ Frozen
    <3>1. CASE chip.phase = "ignore"
      BY <2>1, <2>2, <3>1, EdgeIgnored DEF Rising
    <3>2. CASE chip.phase = "store"
      BY <2>1, <2>2, <3>2, RiseTaking, BitsAre DEF Rising, Taking
    <3> QED
      BY <2>1, <3>1, <3>2
  <2> QED
    BY <1>2, <1>3, <1>6, <2>1, <2>2, <2>3 DEF StopInv, Frozen, Level
<1>7. CASE step = 5
  <2>1. Op[1] = "sda" /\ Op[2] = 1 /\ scl = 1 /\ sdaM = 0
    BY <1>1, <1>7, Operations DEF StopOps, StopInv, Level
  <2>2. Seen /\ scl' = scl /\ sdaM' = 1 /\ sdaC' = sdaC /\ Kept /\ Advance
    BY <2>1, StepSda
  <2>3. chip'.phase = "idle" /\ chip'.ptr = chip.ptr /\ Still' /\ Frozen
    BY <1>2, <2>1, <2>2, Stopping DEF SDA, Line
  <2> QED
    BY <1>2, <1>3, <1>7, <2>1, <2>2, <2>3 DEF StopInv, Frozen, Level
<1> QED
  BY <1>2, <1>4, <1>5, <1>6, <1>7

(* The chip pulls the line for a byte, or it has turned away. *)
Answers(q, n, b, c) ==
  IF deaf THEN Ignores
  ELSE /\ chip.phase = q /\ chip.n = n /\ chip.shift = b /\ chip.ptr = c
       /\ chip.want = 0 /\ ~chip.more

(* What the chip is in after a byte b, by what it was in before. *)
Leads(b, p, a, q, c) ==
  \/ p = "address" /\ b = DevAddr /\ q = "high" /\ c = a
  \/ p = "address" /\ b = DevAddr + 1 /\ q = "fetch" /\ c = a
  \/ p = "high" /\ q = "low" /\ c = b * 2^Bits
  \/ p = "low" /\ q = "store" /\ c = a + b
  \/ p = "store" /\ q = "store" /\ c = Following(a)

(* Operation o of bit i. *)
SendBit(b, p, a, q, c, i, o) ==
  /\ step = 6 * (i - 1) + o /\ scl = Level(o \in 4..5)
  /\ o > 1 => sdaM = Bit(b, i)
  /\ o < 4 => Hears(p, i - 1, Prefix(b, i - 1), a)
  /\ o \in 4..5 \/ (o = 6 /\ i < Bits) => Hears(p, i, Prefix(b, i), a)
  /\ o = 6 /\ i = Bits => Answers(q, Bits, b, c)

SendInv(b, p, a, q, c) ==
  \/ \E i \in 1..Bits, o \in 1..6 : SendBit(b, p, a, q, c, i, o)
  \/ step = 6 * Bits + 1 /\ scl = 0 /\ Answers(q, Bits, b, c) /\ sdaC = chip.want

(* The last bit of a byte makes history. *)
Arrives(b, p, a) ==
  \/ p # "store" /\ Frozen
  \/ p = "address" /\ deaf' /\ regs' = regs /\ moved' = moved
  \/ /\ p = "store" /\ regs' = [regs EXCEPT ![a] = b]
     /\ deaf' = deaf /\ moved' = Append(moved, b)

LEMMA LastBit ==
  ASSUME Seen, Falling, NEW b \in Byte, NEW p \in Taking, NEW a, NEW q, NEW c,
         Leads(b, p, a, q, c), Hears(p, Bits, b, a), sdaC' = sdaC
  PROVE  Arrives(b, p, a) /\ Answers(q, Bits, b, c)'
<1>1. /\ chip.phase = p /\ chip.n = Bits /\ chip.shift = b /\ chip.ptr = a /\ ~deaf /\ sdaC = 1
      /\ deaf \in BOOLEAN
  BY SeenTypes DEF Hears
<1>2. CASE p = "address"
  <2>1. DevAddr # DevAddr + 1
    BY DevAddrAssumption
  <2>2. b \in {DevAddr, DevAddr + 1} /\ c = a /\ q = IF b = DevAddr THEN "high" ELSE "fetch"
    BY <1>2, <2>1 DEF Leads
  <2>3. \/ Acks(IF chip.shift = DevAddr THEN "high" ELSE "fetch", chip.ptr) /\ Frozen
        \/ /\ chip'.phase = "ignore" /\ chip'.ptr = chip.ptr /\ Still'
           /\ regs' = regs /\ moved' = moved /\ deaf'
    BY <1>1, <1>2, <2>2, FallAddress
  <2>4. CASE Acks(IF chip.shift = DevAddr THEN "high" ELSE "fetch", chip.ptr) /\ Frozen
    BY <1>1, <1>2, <2>2, <2>4 DEF Acks, Frozen, Arrives, Answers
  <2>5. CASE /\ chip'.phase = "ignore" /\ chip'.ptr = chip.ptr /\ Still'
             /\ regs' = regs /\ moved' = moved /\ deaf'
    BY <1>1, <1>2, <2>5 DEF Arrives, Answers, Ignores
  <2> QED
    BY <2>3, <2>4, <2>5
<1>3. CASE p = "high"
  <2>1. Acks("low", chip.shift * 2^Bits) /\ Frozen
    BY <1>1, <1>3, FallHigh
  <2>2. q = "low" /\ c = b * 2^Bits
    BY <1>3 DEF Leads
  <2> QED
    BY <1>1, <1>3, <2>1, <2>2 DEF Acks, Frozen, Arrives, Answers
<1>4. CASE p = "low"
  <2>1. Acks("store", chip.ptr + chip.shift) /\ Frozen
    BY <1>1, <1>4, FallLow
  <2>2. q = "store" /\ c = a + b
    BY <1>4 DEF Leads
  <2> QED
    BY <1>1, <1>4, <2>1, <2>2 DEF Acks, Frozen, Arrives, Answers
<1>5. CASE p = "store"
  <2>1. /\ Acks("store", Following(chip.ptr))
        /\ regs' = [regs EXCEPT ![chip.ptr] = chip.shift]
        /\ deaf' = deaf /\ moved' = Append(moved, chip.shift)
    BY <1>1, <1>5, FallStore
  <2>2. q = "store" /\ c = Following(a)
    BY <1>5 DEF Leads
  <2> QED
    BY <1>1, <1>5, <2>1, <2>2 DEF Acks, Arrives, Answers
<1> QED
  BY <1>2, <1>3, <1>4, <1>5 DEF Taking

LEMMA SendStep ==
  ASSUME InCall, Acts, NEW b \in Byte, NEW p \in Taking, NEW a, NEW q, NEW c,
         Current = Send(b), Leads(b, p, a, q, c), SendInv(b, p, a, q, c)
  PROVE  /\ Kept
         /\ IF step = 6 * Bits - 1 THEN Arrives(b, p, a) ELSE Frozen
         /\ \/ todo' = todo /\ step' = step + 1 /\ SendInv(b, p, a, q, c)'
            \/ /\ todo' = Tail(todo) /\ step = 6 * Bits + 1 /\ step' = 1 /\ scl' = 0 /\ sdaM' = 1
               /\ Answers(q, Bits, b, c)' /\ sdaC' = chip'.want
<1>1. Op = SendOps(b)[step] /\ Len(Ops(Current)) = 6 * Bits + 1 /\ b \in Nat
  BY OpsAre, SendOpsAre, Bytes DEF Op
<1>2. 6 * Bits + 1 \in Nat /\ step \in Nat /\ Bits \in Nat /\ Bits >= 2
  BY BitsAre DEF InCall, BusTypes
<1>3. Advance => /\ step < 6 * Bits + 1 => step' = step + 1 /\ todo' = todo
                 /\ ~(step < 6 * Bits + 1) => step' = 1 /\ todo' = Tail(todo)
  BY <1>1, <1>2 DEF Advance
<1>4. CASE step = 6 * Bits + 1 /\ scl = 0 /\ Answers(q, Bits, b, c) /\ sdaC = chip.want
  <2>1. Op[1] = "sda" /\ Op[2] = 1
    BY <1>1, <1>4, SendOpsAre, Operations
  <2>2. Seen /\ scl' = scl /\ sdaM' = 1 /\ sdaC' = sdaC /\ Kept /\ Advance
    BY <2>1, StepSda
  <2>3. chip' = chip /\ Frozen
    BY <1>4, <2>2, Silent
  <2>4. Answers(q, Bits, b, c)'
    BY <1>4, <2>2, <2>3 DEF Answers, Ignores, Still, Frozen
  <2> QED
    BY <1>2, <1>3, <1>4, <2>2, <2>3, <2>4
<1>5. ASSUME NEW i \in 1..Bits, NEW o \in 1..6, SendBit(b, p, a, q, c, i, o)
      PROVE  /\ Kept
             /\ IF step = 6 * Bits - 1 THEN Arrives(b, p, a) ELSE Frozen
             /\ todo' = todo /\ step' = step + 1 /\ SendInv(b, p, a, q, c)'
  <2>1. step = 6 * (i - 1) + o /\ scl = Level(o \in 4..5) /\ i \in Nat
    BY <1>5 DEF SendBit
  <2>2. Advance => step' = 6 * (i - 1) + (o + 1) /\ step' = step + 1 /\ todo' = todo
    BY <1>2, <1>3, <2>1
  <2>3. (step = 6 * Bits - 1) <=> (i = Bits /\ o = 5)
    BY <1>2, <2>1
  <2>4. /\ Prefix(b, i) = 2 * Prefix(b, i - 1) + Bit(b, i) /\ Bit(b, i) \in {0, 1}
        /\ Prefix(b, Bits) = b
    BY <1>1, PrefixStep, PrefixEnds
  <2>5. CASE o = 1
    <3>1. Op[1] = "sda" /\ Op[2] = Bit(b, i) /\ scl = 0 /\ Hears(p, i - 1, Prefix(b, i - 1), a)
      BY <1>1, <1>5, <2>1, <2>5, SendOpsAre, Operations DEF SendBit, Level
    <3>2. Seen /\ scl' = scl /\ sdaM' = Bit(b, i) /\ sdaC' = sdaC /\ Kept /\ Advance
      BY <3>1, StepSda
    <3>3. chip' = chip /\ Frozen
      BY <3>1, <3>2, Silent
    <3>4. SendBit(b, p, a, q, c, i, 2)'
      BY <2>2, <2>5, <3>1, <3>2, <3>3 DEF SendBit, Hears, Frozen, Level
    <3> QED
      BY <2>2, <2>3, <2>5, <3>2, <3>3, <3>4 DEF SendInv
  <2>6. CASE o = 2
    <3>1. Op[1] = "delay"
      BY <1>1, <2>1, <2>6, SendOpsAre, Operations
    <3>2. Calm /\ Kept /\ Advance
      BY <3>1, StepDelay
    <3>3. SendBit(b, p, a, q, c, i, 3)'
      BY <1>5, <2>2, <2>6, <3>2 DEF SendBit, Calm, Hears, Frozen, Level
    <3> QED
      BY <2>2, <2>3, <2>6, <3>2, <3>3 DEF SendInv, Calm
  <2>7. CASE o = 3
    <3>1. /\ Op[1] = "clk" /\ Op[2] = 1 /\ scl = 0 /\ sdaM = Bit(b, i)
          /\ Hears(p, i - 1, Prefix(b, i - 1), a)
      BY <1>1, <1>5, <2>1, <2>7, SendOpsAre, Operations DEF SendBit, Level
    <3>2. Seen /\ scl' = 1 /\ sdaM' = sdaM /\ sdaC' = sdaC /\ Kept /\ Advance
      BY <3>1, StepClk
    <3>3. /\ chip.phase \in Taking /\ chip.n < Bits /\ sdaC = 1 /\ chip.n = i - 1
          /\ Line(sdaM', sdaC) = Bit(b, i)
      BY <1>2, <2>4, <3>1, <3>2, LineLevels DEF Hears
    <3>4. /\ chip'.phase = chip.phase /\ chip'.n = chip.n + 1 /\ chip'.ptr = chip.ptr
          /\ chip'.shift = 2 * chip.shift + Line(sdaM', sdaC)
          /\ chip'.want = chip.want /\ ~chip'.more /\ Frozen
      BY <3>1, <3>2, <3>3, RiseTaking DEF Rising
    <3>5. chip'.n = i /\ chip'.shift = Prefix(b, i)
      BY <2>4, <3>1, <3>3, <3>4 DEF Hears
    <3>6. SendBit(b, p, a, q, c, i, 4)'
      BY <2>2, <2>7, <3>1, <3>2, <3>4, <3>5 DEF SendBit, Hears, Frozen, Level
    <3> QED
      BY <2>2, <2>3, <2>7, <3>2, <3>4, <3>6 DEF SendInv
  <2>8. CASE o = 4
    <3>1. Op[1] = "delay"
      BY <1>1, <2>1, <2>8, SendOpsAre, Operations
    <3>2. Calm /\ Kept /\ Advance
      BY <3>1, StepDelay
    <3>3. SendBit(b, p, a, q, c, i, 5)'
      BY <1>5, <2>2, <2>8, <3>2 DEF SendBit, Calm, Hears, Frozen, Level
    <3> QED
      BY <2>2, <2>3, <2>8, <3>2, <3>3 DEF SendInv, Calm
  <2>9. CASE o = 5
    <3>1. /\ Op[1] = "clk" /\ Op[2] = 0 /\ scl = 1 /\ sdaM = Bit(b, i)
          /\ Hears(p, i, Prefix(b, i), a)
      BY <1>1, <1>5, <2>1, <2>9, SendOpsAre, Operations DEF SendBit, Level
    <3>2. Seen /\ scl' = 0 /\ sdaM' = sdaM /\ sdaC' = sdaC /\ Kept /\ Advance
      BY <3>1, StepClk
    <3>3. Falling
      BY <3>1, <3>2 DEF Falling
    <3>4. CASE i < Bits
      <4>1. chip.phase \in Taking /\ chip.n < Bits
        BY <3>1, <3>4 DEF Hears
      <4>2. chip' = chip /\ Frozen
        BY <3>2, <3>3, <4>1, FallBit
      <4>3. SendBit(b, p, a, q, c, i, 6)'
        BY <1>2, <2>2, <2>9, <3>1, <3>2, <3>4, <4>2 DEF SendBit, Hears, Frozen, Level
      <4> QED
        BY <1>2, <2>2, <2>3, <2>9, <3>2, <3>4, <4>2, <4>3 DEF SendInv
    <3>5. CASE i = Bits
      <4>1. Hears(p, Bits, b, a)
        BY <2>4, <3>1, <3>5
      <4>2. Arrives(b, p, a) /\ Answers(q, Bits, b, c)'
        BY <3>2, <3>3, <4>1, LastBit
      <4>3. SendBit(b, p, a, q, c, i, 6)'
        BY <1>2, <2>2, <2>9, <3>1, <3>2, <3>5, <4>2 DEF SendBit, Level
      <4> QED
        BY <2>2, <2>3, <2>9, <3>2, <3>5, <4>2, <4>3 DEF SendInv
    <3> QED
      BY <1>2, <3>4, <3>5
  <2>10. CASE o = 6
    <3>1. Op[1] = "delay" /\ scl = 0
      BY <1>1, <2>1, <2>10, SendOpsAre, Operations DEF Level
    <3>2. sdaC = chip.want /\ Calm /\ Kept /\ Advance
      BY <3>1, StepDelay
    <3>3. CASE i < Bits
      <4>1. i + 1 \in 1..Bits /\ step' = 6 * ((i + 1) - 1) + 1 /\ (i + 1) - 1 = i
        BY <1>2, <2>2, <2>10, <3>2, <3>3
      <4>2. Hears(p, i, Prefix(b, i), a)
        BY <1>5, <2>10, <3>3 DEF SendBit
      <4>3. SendBit(b, p, a, q, c, i + 1, 1)'
        BY <3>1, <3>2, <4>1, <4>2 DEF SendBit, Calm, Hears, Frozen, Level
      <4>4. SendInv(b, p, a, q, c)'
        BY <4>1, <4>3 DEF SendInv
      <4> QED
        BY <2>2, <2>3, <2>10, <3>2, <4>4 DEF Calm
    <3>4. CASE i = Bits
      <4>1. step' = 6 * Bits + 1
        BY <1>2, <2>2, <2>10, <3>2, <3>4
      <4>2. Answers(q, Bits, b, c)
        BY <1>5, <2>10, <3>4 DEF SendBit
      <4>3. Answers(q, Bits, b, c)' /\ scl' = 0 /\ sdaC' = chip'.want
        BY <3>1, <3>2, <4>2 DEF Answers, Ignores, Still, Calm, Frozen
      <4> QED
        BY <2>2, <2>3, <2>10, <3>2, <4>1, <4>3 DEF SendInv, Calm
    <3> QED
      BY <1>2, <3>3, <3>4
  <2> QED
    BY <2>5, <2>6, <2>7, <2>8, <2>9, <2>10
<1> QED
  BY <1>4, <1>5 DEF SendInv

(* The chip has fetched register a, and its first bit is on the way. *)
Given(a) ==
  /\ chip.phase = "read" /\ chip.n = 0 /\ Len(moved) > 0 /\ chip.shift = moved[Len(moved)]
  /\ chip.ptr = Following(a) /\ chip.want = Bit(chip.shift, 1) /\ ~chip.more

Waited(q, c) ==
  IF deaf THEN Ignores
  ELSE IF q = "fetch" THEN Given(c)
  ELSE /\ chip.phase = q /\ chip.n = 0 /\ chip.shift = 0 /\ chip.ptr = c
       /\ chip.want = 1 /\ ~chip.more

WaitInv(q, b, c) ==
  /\ step \in 1..7 /\ scl = Level(step \in 4..6)
  /\ step > 1 => sdaM = 1
  /\ step > 5 => nack = deaf
  /\ step < 4 => Answers(q, Bits, b, c) /\ sdaC = chip.want
  /\ step \in 4..6 => Answers(q, Bits + 1, b, c) /\ sdaC = chip.want
  /\ step = 7 => Waited(q, c)

Fetches(a) == regs' = regs /\ deaf' = deaf /\ moved' = Append(moved, regs[a])

LEMMA Fetched ==
  ASSUME Seen, Falling, chip.n = Bits + 1, chip.phase = "fetch" \/ chip.more, NEW a, chip.ptr = a
  PROVE  Fetches(a) /\ Given(a)'
<1>1. /\ chip'.phase = "read" /\ chip'.n = 0 /\ chip'.shift = regs[chip.ptr]
      /\ chip'.want = Bit(regs[chip.ptr], 1) /\ chip'.ptr = Following(chip.ptr)
      /\ ~chip'.more
      /\ regs' = regs /\ deaf' = deaf /\ moved' = Append(moved, regs[chip.ptr])
  BY FallFetch
<1>2. moved \in Seq(Byte) /\ regs[chip.ptr] \in Byte
  BY SeenTypes
<1>3. /\ Len(Append(moved, regs[chip.ptr])) = Len(moved) + 1 /\ Len(moved) \in Nat
      /\ Append(moved, regs[chip.ptr])[Len(moved) + 1] = regs[chip.ptr]
  BY <1>2
<1>4. Len(moved') > 0 /\ moved'[Len(moved')] = regs[chip.ptr]
  BY <1>1, <1>3
<1> QED
  BY <1>1, <1>4 DEF Fetches, Given

LEMMA WaitStep ==
  ASSUME InCall, Acts, NEW q \in {"high", "low", "store", "fetch"}, NEW b, NEW c,
         Current = WaitAck, WaitInv(q, b, c)
  PROVE  /\ byte' = byte /\ data' = data /\ call' = call /\ try' \in 0..Tries /\ nack' \in BOOLEAN
         /\ IF step = 6 /\ q = "fetch" /\ ~deaf THEN Fetches(c) ELSE Frozen
         /\ \/ todo' = todo /\ step' \in {step, step + 1} /\ WaitInv(q, b, c)'
            \/ /\ todo' = Tail(todo) /\ step = 7 /\ step' = 1 /\ scl' = 0 /\ sdaM' = 1
               /\ nack' = deaf' /\ Waited(q, c)' /\ sdaC' = chip'.want
<1>1. Op = WaitAckOps[step] /\ Ops(Current) = WaitAckOps /\ Len(WaitAckOps) = 7
  BY OpsAre DEF Op, WaitAckOps
<1>2. /\ step \in 1..7 /\ step \in Nat /\ Bits \in Nat /\ deaf \in BOOLEAN /\ nack \in BOOLEAN
      /\ try \in 0..Tries /\ Tries \in Nat /\ sdaC \in {0, 1}
  BY BitsAre, TriesAssumption DEF WaitInv, InCall, BusTypes
<1>3. Advance => /\ step < 7 => step' = step + 1 /\ todo' = todo
                 /\ ~(step < 7) => step' = 1 /\ todo' = Tail(todo)
  BY <1>1, <1>2 DEF Advance
<1>4. CASE step = 1
  <2>1. Op[1] = "sda" /\ Op[2] = 1 /\ scl = 0 /\ Answers(q, Bits, b, c) /\ sdaC = chip.want
    BY <1>1, <1>4, Operations DEF WaitAckOps, WaitInv, Level
  <2>2. Seen /\ scl' = scl /\ sdaM' = 1 /\ sdaC' = sdaC /\ Kept /\ Advance
    BY <2>1, StepSda
  <2>3. chip' = chip /\ Frozen
    BY <2>1, <2>2, Silent
  <2>4. Answers(q, Bits, b, c)' /\ sdaC' = chip'.want
    BY <2>1, <2>2, <2>3 DEF Answers, Ignores, Still, Frozen
  <2> QED
    BY <1>2, <1>3, <1>4, <2>1, <2>2, <2>3, <2>4 DEF WaitInv, Level, Kept
<1>5. CASE step \in {2, 4, 7}
  <2>1. Op[1] = "delay"
    BY <1>1, <1>5, Operations DEF WaitAckOps
  <2>2. sdaC = chip.want /\ Calm /\ Kept /\ Advance
    BY <2>1, StepDelay
  <2>3. CASE step = 2
    <3>1. Answers(q, Bits, b, c)'
      BY <2>2, <2>3 DEF WaitInv, Answers, Ignores, Still, Calm, Frozen
    <3> QED
      BY <1>2, <1>3, <2>2, <2>3, <3>1 DEF WaitInv, Level, Kept, Calm
  <2>4. CASE step = 4
    <3>1. Answers(q, Bits + 1, b, c)'
      BY <2>2, <2>4 DEF WaitInv, Answers, Ignores, Still, Calm, Frozen
    <3> QED
      BY <1>2, <1>3, <2>2, <2>4, <3>1 DEF WaitInv, Level, Kept, Calm
  <2>5. CASE step = 7
    <3>1. Waited(q, c)'
      BY <2>2, <2>5 DEF WaitInv, Waited, Given, Ignores, Still, Calm, Frozen
    <3>2. nack = deaf /\ sdaM = 1 /\ scl = 0
      BY <2>5 DEF WaitInv, Level
    <3> QED
      BY <1>2, <1>3, <2>2, <2>5, <3>1, <3>2 DEF Kept, Calm, Frozen
  <2> QED
    BY <1>5, <2>3, <2>4, <2>5
<1>6. CASE step = 3
  <2>1. /\ Op[1] = "clk" /\ Op[2] = 1 /\ scl = 0 /\ Answers(q, Bits, b, c) /\ sdaC = chip.want
        /\ sdaM = 1
    BY <1>1, <1>6, Operations DEF WaitAckOps, WaitInv, Level
  <2>2. Seen /\ scl' = 1 /\ sdaM' = sdaM /\ sdaC' = sdaC /\ Kept /\ Advance
    BY <2>1, StepClk
  <2>3. Frozen /\ Answers(q, Bits + 1, b, c)' /\ sdaC' = chip'.want
    <3>1. CASE deaf
      <4>1. chip' = chip /\ Frozen
        BY <2>1, <2>2, <3>1, EdgeIgnored DEF Rising, Answers, Ignores
      <4> QED
        BY <2>1, <2>2, <3>1, <4>1 DEF Answers, Ignores, Still, Frozen
    <3>2. CASE ~deaf
      <4>1. chip.phase \notin {"idle", "ignore", "read"} /\ chip.n = Bits
        BY <2>1, <3>2 DEF Answers
      <4>2. /\ chip'.phase = chip.phase /\ chip'.n = chip.n + 1 /\ chip'.ptr = chip.ptr
            /\ chip'.shift = chip.shift /\ chip'.want = chip.want
            /\ ~chip'.more /\ Frozen
        BY <2>1, <2>2, <4>1, RiseOther DEF Rising
      <4> QED
        BY <2>1, <2>2, <3>2, <4>2 DEF Answers, Frozen
    <3> QED
      BY <3>1, <3>2
  <2> QED
    BY <1>2, <1>3, <1>6, <2>1, <2>2, <2>3 DEF WaitInv, Level, Kept
<1>7. CASE step = 5
  <2>1. /\ Op[1] = "look" /\ Answers(q, Bits + 1, b, c) /\ sdaC = chip.want /\ sdaM = 1
    BY <1>1, <1>7, Operations DEF WaitAckOps, WaitInv
  <2>2. /\ Calm /\ byte' = byte /\ data' = data
        /\ \/ SDA = 0 /\ try' = 0 /\ nack' = FALSE /\ Advance
           \/ SDA # 0 /\ try' = 0 /\ nack' = TRUE /\ Advance
           \/ SDA # 0 /\ try' = try + 1 /\ try' <= Tries /\ nack' = nack /\ todo' = todo /\ step' = step
    BY <2>1, StepLook
  <2>3. SDA = sdaC /\ (SDA # 0 <=> deaf)
    BY <1>2, <2>1, LineLevels DEF SDA, Answers, Ignores, Still
  <2>4. Answers(q, Bits + 1, b, c)' /\ sdaC' = chip'.want
    BY <2>1, <2>2 DEF Answers, Ignores, Still, Calm, Frozen
  <2>5. scl' = scl /\ sdaM' = 1 /\ Frozen /\ call' = call /\ scl = 1
    BY <1>7, <2>1, <2>2 DEF Calm, WaitInv, Level
  <2>6. ASSUME Advance, try' = 0, nack' = deaf
        PROVE  /\ try' \in 0..Tries /\ nack' \in BOOLEAN /\ step' = step + 1 /\ todo' = todo
               /\ WaitInv(q, b, c)'
    <3>1. step' = 6 /\ todo' = todo /\ step' = step + 1 /\ try' \in 0..Tries
      BY <1>2, <1>3, <1>7, <2>6
    <3>2. nack' = deaf' /\ nack' \in BOOLEAN
      BY <1>2, <2>5, <2>6 DEF Frozen
    <3> QED
      BY <2>4, <2>5, <3>1, <3>2 DEF WaitInv, Level
  <2>7. CASE SDA # 0 /\ try' = try + 1 /\ try' <= Tries /\ nack' = nack /\ todo' = todo /\ step' = step
    BY <1>2, <1>7, <2>2, <2>4, <2>5, <2>7 DEF WaitInv, Level
  <2>8. CASE SDA = 0 /\ try' = 0 /\ nack' = FALSE /\ Advance
    <3>1. nack' = deaf
      BY <1>2, <2>3, <2>8
    <3> QED
      BY <1>7, <2>2, <2>5, <2>6, <2>8, <3>1
  <2>9. CASE SDA # 0 /\ try' = 0 /\ nack' = TRUE /\ Advance
    <3>1. nack' = deaf
      BY <1>2, <2>3, <2>9
    <3> QED
      BY <1>7, <2>2, <2>5, <2>6, <2>9, <3>1
  <2> QED
    BY <2>2, <2>7, <2>8, <2>9
<1>8. CASE step = 6
  <2>1. /\ Op[1] = "clk" /\ Op[2] = 0 /\ scl = 1 /\ Answers(q, Bits + 1, b, c)
        /\ sdaC = chip.want /\ sdaM = 1 /\ nack = deaf
    BY <1>1, <1>8, Operations DEF WaitAckOps, WaitInv, Level
  <2>2. Seen /\ scl' = 0 /\ sdaM' = sdaM /\ sdaC' = sdaC /\ Kept /\ Advance
    BY <2>1, StepClk
  <2>3. Falling
    BY <2>1, <2>2 DEF Falling
  <2>4. /\ IF q = "fetch" /\ ~deaf THEN Fetches(c) ELSE Frozen
        /\ deaf' = deaf /\ Waited(q, c)'
    <3>1. CASE deaf
      <4>1. chip' = chip /\ Frozen
        BY <2>1, <2>2, <2>3, <3>1, EdgeIgnored DEF Answers, Ignores
      <4> QED
        BY <2>1, <2>2, <3>1, <4>1 DEF Answers, Ignores, Still, Frozen, Waited
    <3>2. CASE ~deaf /\ q = "fetch"
      <4>1. chip.n = Bits + 1 /\ chip.phase = "fetch" /\ chip.ptr = c
        BY <2>1, <3>2 DEF Answers
      <4>2. Fetches(c) /\ Given(c)'
        BY <2>2, <2>3, <4>1, Fetched
      <4> QED
        BY <3>2, <4>2 DEF Waited, Fetches
    <3>3. CASE ~deaf /\ q # "fetch"
      <4>1. chip.n = Bits + 1 /\ chip.phase = q /\ chip.ptr = c /\ q \in Taking
        BY <2>1, <3>3 DEF Answers, Taking
      <4>2. /\ chip'.phase = chip.phase /\ chip'.n = 0 /\ chip'.shift = 0
            /\ chip'.ptr = chip.ptr /\ chip'.want = 1 /\ ~chip'.more /\ Frozen
        BY <2>2, <2>3, <4>1, FallAcked
      <4> QED
        BY <3>3, <4>1, <4>2 DEF Waited, Frozen
    <3> QED
      BY <3>1, <3>2, <3>3
  <2> QED
    BY <1>2, <1>3, <1>8, <2>1, <2>2, <2>4 DEF WaitInv, Level, Kept
<1> QED
  BY <1>2, <1>4, <1>5, <1>6, <1>7, <1>8

(* The chip gives the byte v; register a is the next one. *)
Gives(n, v, a, w) ==
  /\ chip.phase = "read" /\ chip.n = n /\ chip.shift = v /\ chip.ptr = a
  /\ chip.want = w /\ ~chip.more

(* Operation o of bit i; a chip that ignores the master gives ones. *)
ReceiveBit(v, a, i, o) ==
  /\ step = 5 * (i - 1) + o /\ scl = Level(o \in 2..4) /\ sdaM = 1
  /\ byte = Prefix(v, IF o < 4 THEN i - 1 ELSE i)
  /\ o < 5 => sdaC = chip.want
  /\ IF deaf THEN Ignores
     ELSE /\ o = 1 => Gives(i - 1, v, a, Bit(v, i))
          /\ o \in 2..4 => Gives(i, v, a, Bit(v, i))
          /\ o = 5 => Gives(i, v, a, IF i = Bits THEN 1 ELSE Bit(v, i + 1))

(* Operation o of the acknowledge. *)
ReceiveAck(ack, v, a, o) ==
  /\ step = 5 * Bits + o /\ scl = Level(o \in 4..5) /\ byte = v
  /\ sdaM = IF o \in 2..(6 + ack) THEN 1 - ack ELSE 1
  /\ o # 6 => sdaC = chip.want
  /\ IF deaf THEN Ignores
     ELSE /\ o < 4 => Gives(Bits, v, a, 1)
          /\ o \in 4..5 => /\ chip.phase = "read" /\ chip.n = Bits + 1 /\ chip.shift = v
                           /\ chip.ptr = a /\ chip.want = 1 /\ chip.more = (ack = 1)
          /\ o > 5 => IF ack = 1 THEN Given(a) ELSE Ignores

ReceiveInv(ack, v, a) ==
  \/ \E i \in 1..Bits, o \in 1..5 : ReceiveBit(v, a, i, o)
  \/ \E o \in 1..(7 + ack) : ReceiveAck(ack, v, a, o)

Received(ack, a) == IF deaf \/ ack = 0 THEN Ignores ELSE Given(a)

LEMMA Sampled ==
  ASSUME NEW v \in Byte, NEW i \in 1..Bits
  PROVE  (2 * Prefix(v, i - 1) + Bit(v, i)) % 2^Bits = Prefix(v, i)
<1>1. v \in Nat /\ i \in 0..Bits
  BY Bytes, BitsAre
<1>2. Prefix(v, i) = 2 * Prefix(v, i - 1) + Bit(v, i)
  BY <1>1, PrefixStep
<1>3. Prefix(v, i) \in Byte
  BY <1>1, PrefixEnds
<1> DEFINE M == 2^Bits
           x == Prefix(v, i)
<1>4. M \in Nat \ {0} /\ x \in 0..(M - 1)
  BY <1>3, Bytes DEF Byte
<1> HIDE DEF M, x
<1>5. x = 0 * M + x
  BY <1>4
<1>6. x % M = x
  BY <1>4, <1>5, Quotient
<1> QED
  BY <1>2, <1>6 DEF x, M

LEMMA ReceiveBitStep ==
  ASSUME InCall, Acts, NEW ack \in {0, 1}, NEW v \in Byte, NEW a, deaf => v = Ones,
         Current = Receive(ack), NEW i \in 1..Bits, NEW o \in 1..5, ReceiveBit(v, a, i, o)
  PROVE  /\ try' = try /\ nack' = nack /\ call' = call /\ data' = data /\ Frozen
         /\ todo' = todo /\ step' = step + 1 /\ ReceiveInv(ack, v, a)'
<1>1. Op = ReceiveOps(ack)[step] /\ Len(Ops(Current)) = 5 * Bits + (7 + ack)
  BY OpsAre, ReceiveOpsAre DEF Op
<1>2. /\ step \in Nat /\ Bits \in Nat /\ Bits >= 2 /\ deaf \in BOOLEAN /\ sdaC \in {0, 1}
      /\ i \in Nat
  BY BitsAre DEF InCall, BusTypes
<1>3. /\ step = 5 * (i - 1) + o /\ scl = Level(o \in 2..4) /\ sdaM = 1
      /\ byte = Prefix(v, IF o < 4 THEN i - 1 ELSE i) /\ (o < 5 => sdaC = chip.want)
  BY DEF ReceiveBit
<1>4. Advance => step' = 5 * (i - 1) + (o + 1) /\ step' = step + 1 /\ todo' = todo
  <2>1. step < 5 * Bits + (7 + ack)
    BY <1>2, <1>3
  <2> QED
    BY <1>1, <1>2, <1>3, <2>1 DEF Advance
<1>5. /\ Bit(v, i) \in {0, 1} /\ Prefix(v, Bits) = v /\ Prefix(v, 0) = 0
  BY PrefixStep, PrefixEnds, Bytes
<1>6. CASE o = 1
  <2>1. Op[1] = "clk" /\ Op[2] = 1 /\ scl = 0
    <3>1. Op = Clk(1)
      BY <1>1, <1>3, <1>6, ReceiveOpsAre
    <3>2. scl = 0
      BY <1>3, <1>6 DEF Level
    <3> QED
      BY <3>1, <3>2, Operations
  <2>2. Seen /\ scl' = 1 /\ sdaM' = sdaM /\ sdaC' = sdaC /\ Kept /\ Advance
    BY <2>1, StepClk
  <2>3. Rising
    BY <2>1, <2>2 DEF Rising
  <2>4. /\ Frozen /\ chip'.want = chip.want
        /\ IF deaf THEN Ignores' ELSE Gives(i, v, a, Bit(v, i))'
    <3>1. CASE deaf
      <4>1. Ignores
        BY <3>1 DEF ReceiveBit
      <4>2. chip' = chip /\ Frozen
        BY <2>2, <2>3, <4>1, EdgeIgnored DEF Ignores
      <4> QED
        BY <2>2, <3>1, <4>1, <4>2 DEF Ignores, Still
    <3>2. CASE ~deaf
      <4>1. Gives(i - 1, v, a, Bit(v, i))
        BY <1>6, <3>2 DEF ReceiveBit
      <4>2. chip.phase = "read" /\ chip.n = i - 1 /\ chip.n # Bits
        BY <1>2, <4>1 DEF Gives
      <4>3. /\ chip'.phase = chip.phase /\ chip'.n = chip.n + 1 /\ chip'.ptr = chip.ptr
            /\ chip'.shift = chip.shift /\ chip'.want = chip.want
            /\ ~chip'.more /\ Frozen
        BY <2>2, <2>3, <4>2, RiseOther
      <4>4. chip'.n = i
        BY <1>2, <4>2, <4>3
      <4> QED
        BY <3>2, <4>1, <4>3, <4>4 DEF Gives
    <3> QED
      BY <3>1, <3>2
  <2>5. ReceiveBit(v, a, i, 2)'
    BY <1>3, <1>4, <1>6, <2>2, <2>4 DEF ReceiveBit, Frozen, Kept, Level
  <2> QED
    BY <1>4, <2>2, <2>4, <2>5 DEF ReceiveInv, Kept
<1>7. CASE o = 2
  <2>1. Op[1] = "delay"
    BY <1>1, <1>3, <1>7, ReceiveOpsAre, Operations
  <2>2. sdaC = chip.want /\ Calm /\ Kept /\ Advance
    BY <2>1, StepDelay
  <2>3. ReceiveBit(v, a, i, 3)'
    BY <1>4, <1>7, <2>2 DEF ReceiveBit, Calm, Frozen, Kept, Level, Ignores, Still, Gives
  <2> QED
    BY <1>4, <2>2, <2>3 DEF ReceiveInv, Kept, Calm
<1>8. CASE o = 3
  <2>1. Op[1] = "sample"
    BY <1>1, <1>3, <1>8, ReceiveOpsAre, Operations
  <2>2. /\ Calm /\ try' = try /\ nack' = nack /\ data' = data
        /\ byte' = (2 * byte + SDA) % 2^Bits /\ Advance
    BY <2>1, StepSample
  <2>3. SDA = Bit(v, i)
    <3>1. SDA = sdaC /\ sdaC = chip.want
      BY <1>2, <1>3, <1>8, LineLevels DEF SDA
    <3>2. CASE deaf
      <4>1. sdaC = 1 /\ Bit(Ones, i) = 1
        BY <3>2, OnesBit DEF ReceiveBit, Ignores
      <4> QED
        BY <3>1, <3>2, <4>1
    <3>3. CASE ~deaf
      BY <1>8, <3>1, <3>3 DEF ReceiveBit, Gives
    <3> QED
      BY <3>2, <3>3
  <2>4. byte' = Prefix(v, i)
    BY <1>3, <1>8, <2>2, <2>3, Sampled
  <2>5. ReceiveBit(v, a, i, 4)'
    BY <1>4, <1>8, <2>2, <2>4 DEF ReceiveBit, Calm, Frozen, Level, Ignores, Still, Gives
  <2> QED
    BY <1>4, <2>2, <2>5 DEF ReceiveInv, Calm
<1>9. CASE o = 4
  <2>1. Op[1] = "clk" /\ Op[2] = 0 /\ scl = 1
    <3>1. Op = Clk(0)
      BY <1>1, <1>3, <1>9, ReceiveOpsAre
    <3>2. scl = 1
      BY <1>3, <1>9 DEF Level
    <3> QED
      BY <3>1, <3>2, Operations
  <2>2. Seen /\ scl' = 0 /\ sdaM' = sdaM /\ sdaC' = sdaC /\ Kept /\ Advance
    BY <2>1, StepClk
  <2>3. Falling
    BY <2>1, <2>2 DEF Falling
  <2>4. /\ Frozen
        /\ IF deaf THEN Ignores' ELSE Gives(i, v, a, IF i = Bits THEN 1 ELSE Bit(v, i + 1))'
    <3>1. CASE deaf
      <4>1. Ignores
        BY <3>1 DEF ReceiveBit
      <4>2. chip' = chip /\ Frozen
        BY <2>2, <2>3, <4>1, EdgeIgnored DEF Ignores
      <4> QED
        BY <2>2, <3>1, <4>1, <4>2 DEF Ignores, Still
    <3>2. CASE ~deaf
      <4>1. Gives(i, v, a, Bit(v, i))
        BY <1>9, <3>2 DEF ReceiveBit
      <4>2. chip.phase = "read" /\ chip.n = i /\ chip.n \in 1..Bits
        BY <1>2, <4>1 DEF Gives
      <4>3. /\ chip'.phase = "read" /\ chip'.n = chip.n /\ chip'.shift = chip.shift
            /\ chip'.ptr = chip.ptr /\ ~chip'.more
            /\ chip'.want = IF chip.n = Bits THEN 1 ELSE Bit(chip.shift, chip.n + 1)
            /\ Frozen
        BY <2>2, <2>3, <4>2, FallReading
      <4> QED
        BY <3>2, <4>1, <4>3 DEF Gives
    <3> QED
      BY <3>1, <3>2
  <2>5. ReceiveBit(v, a, i, 5)'
    BY <1>3, <1>4, <1>9, <2>2, <2>4 DEF ReceiveBit, Frozen, Kept, Level
  <2> QED
    BY <1>4, <2>2, <2>4, <2>5 DEF ReceiveInv, Kept
<1>10. CASE o = 5
  <2>1. Op[1] = "delay" /\ scl = 0
    <3>1. Op = Delay
      BY <1>1, <1>3, <1>10, ReceiveOpsAre
    <3>2. scl = 0
      BY <1>3, <1>10 DEF Level
    <3> QED
      BY <3>1, <3>2, Operations
  <2>2. sdaC = chip.want /\ Calm /\ Kept /\ Advance
    BY <2>1, StepDelay
  <2>3. CASE i < Bits
    <3>1. i + 1 \in 1..Bits /\ step' = 5 * ((i + 1) - 1) + 1 /\ (i + 1) - 1 = i /\ i # Bits
      BY <1>2, <1>4, <1>10, <2>2, <2>3
    <3>2. IF deaf THEN Ignores ELSE Gives(i, v, a, Bit(v, i + 1))
      BY <1>10, <3>1 DEF ReceiveBit
    <3>3. ReceiveBit(v, a, i + 1, 1)'
      BY <1>3, <1>10, <2>1, <2>2, <3>1, <3>2 DEF ReceiveBit, Calm, Frozen, Kept, Level, Ignores, Still, Gives
    <3>4. ReceiveInv(ack, v, a)'
      BY <3>1, <3>3 DEF ReceiveInv
    <3> QED
      BY <1>4, <2>2, <3>4 DEF Kept, Calm
  <2>4. CASE i = Bits
    <3>1. step' = 5 * Bits + 1 /\ 1 \in 1..(7 + ack)
      BY <1>2, <1>4, <1>10, <2>2, <2>4
    <3>2. (IF deaf THEN Ignores ELSE Gives(Bits, v, a, 1)) /\ byte = v
      BY <1>3, <1>5, <1>10, <2>4 DEF ReceiveBit
    <3>3. ReceiveAck(ack, v, a, 1)'
      BY <1>3, <2>1, <2>2, <3>1, <3>2 DEF ReceiveAck, Calm, Frozen, Kept, Level, Ignores, Still, Gives
    <3>4. ReceiveInv(ack, v, a)'
      BY <3>1, <3>3 DEF ReceiveInv
    <3> QED
      BY <1>4, <2>2, <3>4 DEF Kept, Calm
  <2> QED
    BY <1>2, <2>3, <2>4
<1> QED
  BY <1>6, <1>7, <1>8, <1>9, <1>10

LEMMA ReceiveAckStep ==
  ASSUME InCall, Acts, NEW ack \in {0, 1}, NEW v \in Byte, NEW a,
         Current = Receive(ack), NEW o \in 1..(7 + ack), ReceiveAck(ack, v, a, o)
  PROVE  /\ try' = try /\ nack' = nack /\ call' = call
         /\ IF o = 5 /\ ack = 1 /\ ~deaf THEN Fetches(a) ELSE Frozen
         /\ \/ todo' = todo /\ step' = step + 1 /\ data' = data /\ ReceiveInv(ack, v, a)'
            \/ /\ todo' = Tail(todo) /\ o = 7 + ack /\ step' = 1 /\ scl' = 0 /\ sdaM' = 1
               /\ data' = Append(data, v) /\ byte' = 0 /\ sdaC' = chip'.want
               /\ Received(ack, a)'
<1> DEFINE N == 5 * Bits
<1>1. Op = ReceiveOps(ack)[step] /\ Len(Ops(Current)) = N + (7 + ack)
  BY OpsAre, ReceiveOpsAre DEF Op
<1>2. /\ step \in Nat /\ Bits \in Nat /\ Bits >= 2 /\ deaf \in BOOLEAN /\ sdaC \in {0, 1}
      /\ N \in Nat
  BY BitsAre DEF InCall, BusTypes
<1>3. /\ step = N + o /\ scl = Level(o \in 4..5) /\ byte = v
      /\ sdaM = IF o \in 2..(6 + ack) THEN 1 - ack ELSE 1
      /\ o # 6 => sdaC = chip.want
  BY DEF ReceiveAck
<1>4. Advance => /\ o < 7 + ack => step' = N + (o + 1) /\ step' = step + 1 /\ todo' = todo
                 /\ o = 7 + ack => step' = 1 /\ todo' = Tail(todo)
  <2> HIDE DEF N
  <2> QED
    BY <1>1, <1>2, <1>3 DEF Advance
<1>5. /\ ReceiveOps(ack)[N + 1] = Sda(1 - ack) /\ ReceiveOps(ack)[N + 2] = Delay
      /\ ReceiveOps(ack)[N + 3] = Clk(1) /\ ReceiveOps(ack)[N + 4] = Delay
      /\ ReceiveOps(ack)[N + 5] = Clk(0) /\ ReceiveOps(ack)[N + 6] = Delay
      /\ (ack = 1 => ReceiveOps(ack)[N + 7] = Sda(1)) /\ ReceiveOps(ack)[N + (7 + ack)] = Keep
  BY ReceiveOpsAre
<1>6. ASSUME NEW k \in 1..(7 + ack), ReceiveAck(ack, v, a, k)'
      PROVE  ReceiveInv(ack, v, a)'
  BY <1>6 DEF ReceiveInv
<1> HIDE DEF N
<1>7. CASE o = 1
  <2>1. Op[1] = "sda" /\ Op[2] = 1 - ack /\ scl = 0
    BY <1>1, <1>3, <1>5, <1>7, Operations DEF Level
  <2>2. Seen /\ scl' = scl /\ sdaM' = 1 - ack /\ sdaC' = sdaC /\ Kept /\ Advance
    BY <2>1, StepSda
  <2>3. chip' = chip /\ Frozen
    BY <2>1, <2>2, Silent
  <2>4. ReceiveAck(ack, v, a, 2)'
    BY <1>3, <1>4, <1>7, <2>1, <2>2, <2>3 DEF ReceiveAck, Frozen, Kept, Level, Ignores, Still, Gives, N
  <2> QED
    BY <1>4, <1>6, <1>7, <2>2, <2>3, <2>4 DEF Kept
<1>8. CASE o = 2
  <2>1. Op[1] = "delay"
    BY <1>1, <1>3, <1>5, <1>8, Operations
  <2>2. sdaC = chip.want /\ Calm /\ Kept /\ Advance
    BY <2>1, StepDelay
  <2>3. ReceiveAck(ack, v, a, 3)'
    BY <1>3, <1>4, <1>8, <2>2 DEF ReceiveAck, Calm, Frozen, Kept, Level, Ignores, Still, Gives, N
  <2> QED
    BY <1>4, <1>6, <1>8, <2>2, <2>3 DEF Kept, Calm
<1>9. CASE o = 3
  <2>1. Op[1] = "clk" /\ Op[2] = 1 /\ scl = 0 /\ sdaM = 1 - ack /\ sdaC = chip.want
    BY <1>1, <1>3, <1>5, <1>9, Operations DEF Level
  <2>2. Seen /\ scl' = 1 /\ sdaM' = sdaM /\ sdaC' = sdaC /\ Kept /\ Advance
    BY <2>1, StepClk
  <2>3. Rising
    BY <2>1, <2>2 DEF Rising
  <2>4. /\ Frozen /\ chip'.want = chip.want
        /\ IF deaf THEN Ignores'
           ELSE /\ chip'.phase = "read" /\ chip'.n = Bits + 1 /\ chip'.shift = v
                /\ chip'.ptr = a /\ chip'.want = 1 /\ chip'.more = (ack = 1)
    <3>1. CASE deaf
      <4>1. Ignores
        BY <3>1 DEF ReceiveAck
      <4>2. chip' = chip /\ Frozen
        BY <2>2, <2>3, <4>1, EdgeIgnored DEF Ignores
      <4> QED
        BY <2>2, <3>1, <4>1, <4>2 DEF Ignores, Still
    <3>2. CASE ~deaf
      <4>1. Gives(Bits, v, a, 1)
        BY <1>9, <3>2 DEF ReceiveAck
      <4>2. chip.phase = "read" /\ chip.n = Bits /\ sdaC = 1
        BY <2>1, <4>1 DEF Gives
      <4>3. /\ chip'.phase = chip.phase /\ chip'.n = chip.n + 1 /\ chip'.ptr = chip.ptr
            /\ chip'.shift = chip.shift /\ chip'.want = chip.want
            /\ chip'.more = (chip.phase = "read" /\ chip.n = Bits /\ Line(sdaM', sdaC) = 0)
            /\ Frozen
        BY <2>2, <2>3, <4>2, RiseOther
      <4>4. (Line(sdaM', sdaC) = 0) = (ack = 1)
        BY <2>1, <2>2, <4>2 DEF Line
      <4>5. chip'.more = (ack = 1)
        BY <4>2, <4>3, <4>4
      <4> QED
        BY <3>2, <4>1, <4>3, <4>5 DEF Gives
    <3> QED
      BY <3>1, <3>2
  <2>5. ReceiveAck(ack, v, a, 4)'
    BY <1>3, <1>4, <1>9, <2>1, <2>2, <2>4 DEF ReceiveAck, Frozen, Kept, Level, N
  <2> QED
    BY <1>4, <1>6, <1>9, <2>2, <2>4, <2>5 DEF Kept
<1>10. CASE o = 4
  <2>1. Op[1] = "delay"
    BY <1>1, <1>3, <1>5, <1>10, Operations
  <2>2. sdaC = chip.want /\ Calm /\ Kept /\ Advance
    BY <2>1, StepDelay
  <2>3. ReceiveAck(ack, v, a, 5)'
    BY <1>3, <1>4, <1>10, <2>2 DEF ReceiveAck, Calm, Frozen, Kept, Level, Ignores, Still, N
  <2> QED
    BY <1>4, <1>6, <1>10, <2>2, <2>3 DEF Kept, Calm
<1>11. CASE o = 5
  <2>1. Op[1] = "clk" /\ Op[2] = 0 /\ scl = 1 /\ sdaC = chip.want
    BY <1>1, <1>3, <1>5, <1>11, Operations DEF Level
  <2>2. Seen /\ scl' = 0 /\ sdaM' = sdaM /\ sdaC' = sdaC /\ Kept /\ Advance
    BY <2>1, StepClk
  <2>3. Falling
    BY <2>1, <2>2 DEF Falling
  <2>4. /\ IF ack = 1 /\ ~deaf THEN Fetches(a) ELSE Frozen
        /\ IF deaf THEN Ignores' ELSE IF ack = 1 THEN Given(a)' ELSE Ignores'
    <3>1. CASE deaf
      <4>1. Ignores
        BY <3>1 DEF ReceiveAck
      <4>2. chip' = chip /\ Frozen
        BY <2>2, <2>3, <4>1, EdgeIgnored DEF Ignores
      <4> QED
        BY <2>2, <3>1, <4>1, <4>2 DEF Ignores, Still
    <3>2. CASE ~deaf
      <4>1. /\ chip.phase = "read" /\ chip.n = Bits + 1 /\ chip.shift = v /\ chip.ptr = a
            /\ chip.want = 1 /\ chip.more = (ack = 1)
        BY <1>11, <3>2 DEF ReceiveAck
      <4>2. CASE ack = 1
        <5>1. Fetches(a) /\ Given(a)'
          BY <2>2, <2>3, <4>1, <4>2, Fetched
        <5> QED
          BY <3>2, <4>2, <5>1
      <4>3. CASE ack = 0
        <5>0. chip.more = FALSE
          <6>1. (ack = 1) = FALSE
            BY <4>3
          <6> QED
            BY <4>1, <6>1
        <5>1. ~chip.more
          BY <5>0
        <5>2. chip'.phase = "ignore" /\ Still' /\ Frozen
          BY <2>2, <2>3, <4>1, <5>1, FallUnacked
        <5>3. Ignores'
          BY <2>1, <2>2, <4>1, <5>2 DEF Ignores
        <5> QED
          BY <3>2, <4>3, <5>2, <5>3
      <4> QED
        BY <4>2, <4>3
    <3> QED
      BY <3>1, <3>2
  <2>5. deaf' = deaf
    BY <2>4 DEF Fetches, Frozen
  <2>6. ReceiveAck(ack, v, a, 6)'
    BY <1>3, <1>4, <1>11, <2>2, <2>4, <2>5 DEF ReceiveAck, Kept, Level, N
  <2> QED
    BY <1>4, <1>6, <1>11, <2>2, <2>4, <2>6 DEF Kept
<1>12. CASE o = 6
  <2>1. Op[1] = "delay"
    BY <1>1, <1>3, <1>5, <1>12, Operations
  <2>2. sdaC = chip.want /\ Calm /\ Kept /\ Advance
    BY <2>1, StepDelay
  <2>3. ReceiveAck(ack, v, a, 7)'
    BY <1>3, <1>4, <1>12, <2>2 DEF ReceiveAck, Calm, Frozen, Kept, Level, Ignores, Still, Given, N
  <2> QED
    BY <1>4, <1>6, <1>12, <2>2, <2>3 DEF Kept, Calm
<1>13. CASE o = 7 /\ ack = 1
  <2>1. Op[1] = "sda" /\ Op[2] = 1 /\ scl = 0 /\ sdaC = chip.want
    BY <1>1, <1>3, <1>5, <1>13, Operations DEF Level
  <2>2. Seen /\ scl' = scl /\ sdaM' = 1 /\ sdaC' = sdaC /\ Kept /\ Advance
    BY <2>1, StepSda
  <2>3. chip' = chip /\ Frozen
    BY <2>1, <2>2, Silent
  <2>4. ReceiveAck(ack, v, a, 8)'
    BY <1>3, <1>4, <1>13, <2>1, <2>2, <2>3 DEF ReceiveAck, Frozen, Kept, Level, Ignores, Still, Given, N
  <2>5. 8 \in 1..(7 + ack)
    BY <1>13
  <2> QED
    BY <1>4, <1>6, <1>13, <2>2, <2>3, <2>4, <2>5 DEF Kept
<1>14. CASE o = 7 + ack
  <2>1. Op[1] = "keep" /\ scl = 0 /\ sdaC = chip.want /\ sdaM = 1
    BY <1>1, <1>3, <1>5, <1>14, Operations DEF Level
  <2>2. /\ Calm /\ try' = try /\ nack' = nack /\ data' = Append(data, byte)
        /\ byte' = 0 /\ Advance
    BY <2>1, StepKeep
  <2>3. Received(ack, a)
    BY <1>14 DEF ReceiveAck, Received
  <2>4. Received(ack, a)'
    BY <2>2, <2>3 DEF Received, Calm, Frozen, Ignores, Still, Given
  <2> QED
    BY <1>3, <1>4, <1>14, <2>1, <2>2, <2>4 DEF Calm
<1> QED
  BY <1>7, <1>8, <1>9, <1>10, <1>11, <1>12, <1>13, <1>14

LEMMA ReceiveStep ==
  ASSUME InCall, Acts, NEW ack \in {0, 1}, NEW v \in Byte, NEW a, deaf => v = Ones,
         Current = Receive(ack), ReceiveInv(ack, v, a)
  PROVE  /\ try' = try /\ nack' = nack /\ call' = call
         /\ IF step = 5 * Bits + 5 /\ ack = 1 /\ ~deaf THEN Fetches(a) ELSE Frozen
         /\ \/ todo' = todo /\ step' = step + 1 /\ data' = data /\ ReceiveInv(ack, v, a)'
            \/ /\ todo' = Tail(todo) /\ step = 5 * Bits + 7 + ack /\ step' = 1
               /\ scl' = 0 /\ sdaM' = 1
               /\ data' = Append(data, v) /\ byte' = 0 /\ sdaC' = chip'.want
               /\ Received(ack, a)'
<1>1. Bits \in Nat /\ Bits >= 2
  BY BitsAre
<1>2. ASSUME NEW i \in 1..Bits, NEW o \in 1..5, ReceiveBit(v, a, i, o)
      PROVE  /\ try' = try /\ nack' = nack /\ call' = call /\ data' = data /\ Frozen
             /\ todo' = todo /\ step' = step + 1 /\ ReceiveInv(ack, v, a)'
             /\ step # 5 * Bits + 5
  <2>1. step # 5 * Bits + 5
    BY <1>1, <1>2 DEF ReceiveBit
  <2> QED
    BY <1>2, <2>1, ReceiveBitStep
<1>3. ASSUME NEW o \in 1..(7 + ack), ReceiveAck(ack, v, a, o)
      PROVE  /\ try' = try /\ nack' = nack /\ call' = call
             /\ IF o = 5 /\ ack = 1 /\ ~deaf THEN Fetches(a) ELSE Frozen
             /\ \/ todo' = todo /\ step' = step + 1 /\ data' = data /\ ReceiveInv(ack, v, a)'
                \/ /\ todo' = Tail(todo) /\ o = 7 + ack /\ step' = 1 /\ scl' = 0 /\ sdaM' = 1
                   /\ data' = Append(data, v) /\ byte' = 0 /\ sdaC' = chip'.want
                   /\ Received(ack, a)'
             /\ step = 5 * Bits + o
  <2>1. step = 5 * Bits + o
    BY <1>3 DEF ReceiveAck
  <2> QED
    BY <1>3, <2>1, ReceiveAckStep
<1>4. CASE \E i \in 1..Bits, o \in 1..5 : ReceiveBit(v, a, i, o)
  BY <1>2, <1>4
<1>5. CASE \E o \in 1..(7 + ack) : ReceiveAck(ack, v, a, o)
  <2>1. PICK o \in 1..(7 + ack) : ReceiveAck(ack, v, a, o)
    BY <1>5
  <2>2. (step = 5 * Bits + 5 <=> o = 5) /\ (o = 7 + ack => step = 5 * Bits + 7 + ack)
    BY <1>1, <1>3, <2>1
  <2> QED
    BY <1>3, <2>1, <2>2
<1> QED
  BY <1>4, <1>5 DEF ReceiveInv
============================================================================
