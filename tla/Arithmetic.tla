------------------------------ MODULE Arithmetic ------------------------------
(***************************************************************************)
(* Facts about quotients and remainders for the proofs: the ranges a port  *)
(* goes through, and messages of a fixed length in a stream of bytes.      *)
(***************************************************************************)
EXTENDS Integers, TLAPS

\* Division has one quotient and one remainder.
LEMMA QuotientUnique ==
    ASSUME NEW B \in Nat \ {0}, NEW q \in Int, NEW r \in 0 .. B - 1
    PROVE  (B * q + r) % B = r /\ (B * q + r) \div B = q
<1> DEFINE n == B * q + r
           d == n \div B
           m == n % B
<1>1. n \in Int /\ d \in Int /\ m \in 0 .. B - 1 /\ n = B * d + m
  OBVIOUS
<1>2. B * (q - d) = m - r
  BY <1>1
<1>3. CASE q - d >= 1
  <2>1. B * (q - d) >= B
    BY <1>1, <1>3
  <2> QED
    BY <2>1, <1>1, <1>2
<1>4. CASE q - d <= -1
  <2>1. B * (q - d) <= -B
    BY <1>1, <1>4
  <2> QED
    BY <2>1, <1>1, <1>2
<1>5. CASE q - d = 0
  BY <1>1, <1>2, <1>5
<1> QED
  BY <1>1, <1>3, <1>4, <1>5

\* Cutting a number to one range and then to a smaller one cuts it to the smaller.
LEMMA RemainderOfRemainder ==
    ASSUME NEW n \in Int, NEW A \in Nat \ {0}, NEW B \in Nat \ {0}, A % B = 0
    PROVE  (n % A) % B = n % B
<1> DEFINE k == A \div B
           q == n \div A
           r == n % A
           s == r \div B
           t == r % B
<1>1. k \in Int /\ A = B * k
  OBVIOUS
<1>2. q \in Int /\ r \in Int /\ n = A * q + r
  OBVIOUS
<1>3. s \in Int /\ t \in 0 .. B - 1 /\ r = B * s + t
  BY <1>2
<1>4. n = B * (k * q + s) + t
  <2>1. A * q = B * (k * q)
    BY <1>1, <1>2
  <2>2. B * (k * q + s) = B * (k * q) + B * s
    BY <1>1, <1>2, <1>3
  <2> QED
    BY <2>1, <2>2, <1>2, <1>3
<1>5. k * q + s \in Int
  BY <1>1, <1>2, <1>3
<1> QED
  BY <1>3, <1>4, <1>5, QuotientUnique

\* The largest number of a range is cut to the largest of a smaller one.
LEMMA LastRemainder ==
    ASSUME NEW A \in Nat \ {0}, NEW B \in Nat \ {0}, A % B = 0
    PROVE  (A - 1) % B = B - 1
<1> DEFINE k == A \div B
<1>1. k \in Int /\ A = B * k
  OBVIOUS
<1>2. A - 1 = B * (k - 1) + (B - 1)
  BY <1>1
<1>3. k - 1 \in Int /\ B - 1 \in 0 .. B - 1
  BY <1>1
<1>4. (B * (k - 1) + (B - 1)) % B = B - 1
  BY <1>3, QuotientUnique
<1> QED
  BY <1>2, <1>4

\* The bytes of the first N messages of length L are the first L * N bytes.
LEMMA WithinMessages ==
    ASSUME NEW L \in Nat \ {0}, NEW N \in Nat, NEW k \in 1..N, NEW i \in 1..L
    PROVE  (k - 1) * L + i \in 1 .. L * N
<1>1. L * (N - k) >= 0
  BY SMT
<1>2. (k - 1) * L + i + L * (N - k) + (L - i) = L * N
  BY SMT
<1>3. (k - 1) * L >= 0 /\ (k - 1) * L \in Int /\ L * N \in Int
  BY SMT
<1> QED
  BY <1>1, <1>2, <1>3

\* More whole messages than there are do not fit before the end of an unfinished one.
LEMMA MessagesFit ==
    ASSUME NEW L \in Nat \ {0}, NEW N \in Nat, NEW n \in Nat, NEW u \in 0 .. L - 1,
           L * n <= L * N + u
    PROVE  n <= N
<1> SUFFICES ASSUME n >= N + 1 PROVE FALSE
  OBVIOUS
<1>1. L * (n - (N + 1)) >= 0
  BY SMT
<1>2. L * (n - (N + 1)) = L * n - L * N - L
  BY SMT
<1>3. L * n \in Int /\ L * N \in Int
  BY SMT
<1> QED
  BY <1>1, <1>2, <1>3

\* The whole messages among the first n bytes of a stream.
LEMMA WholePart ==
    ASSUME NEW n \in Nat, NEW L \in Nat \ {0}
    PROVE  n \div L \in Nat /\ L * (n \div L) \in Nat /\ L * (n \div L) <= n
<1> DEFINE q == n \div L
           r == n % L
<1>1. q \in Int /\ r \in 0 .. L - 1 /\ n = L * q + r
  OBVIOUS
<1>2. q >= 0
  <2> SUFFICES ASSUME q <= -1 PROVE FALSE
    BY <1>1
  <2>1. L * (q + 1) <= 0 /\ L * (q + 1) = L * q + L /\ L * q \in Int
    BY <1>1
  <2> QED
    BY <1>1, <2>1
<1>3. L * q \in Nat
  BY <1>1, <1>2
<1> QED
  BY <1>1, <1>2, <1>3

===============================================================================
