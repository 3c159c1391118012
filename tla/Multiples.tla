----------------------------- MODULE Multiples -----------------------------
(***************************************************************************)
(* Quotients, remainders and multiples of a number, going round a ring,    *)
(* and intervals cut into pieces, for the proofs about rings, pages,       *)
(* sectors and blocks of any size.                                         *)
(***************************************************************************)
EXTENDS Integers, WellFoundedInduction, TLAPS

\* The greatest multiple of n up to a.
Below(a, n) == a - (a % n)

LEMMA Division ==
    ASSUME NEW n \in Nat \ {0}, NEW a \in Nat
    PROVE  /\ a \div n \in Nat /\ a % n \in 0 .. n - 1
           /\ a = (a \div n) * n + (a % n)
  BY SMTT(20)

LEMMA Quotient ==
    ASSUME NEW n \in Nat \ {0}, NEW q \in Nat, NEW r \in 0 .. n - 1
    PROVE  (q * n + r) % n = r /\ (q * n + r) \div n = q
  <1>1. q * n + r \in Nat
    OBVIOUS
  <1> QED BY <1>1, SMTT(20)

LEMMA Fewer ==
    ASSUME NEW n \in Nat \ {0}, NEW q \in Int, NEW s \in Int
    PROVE  /\ q * n < s * n + n => q <= s
           /\ q <= s => q * n <= s * n
           /\ q < s => q * n + n <= s * n
  <1>1. ASSUME q <= s PROVE q * n <= s * n
    <2>1. (s - q) * n >= 0 /\ s * n = q * n + (s - q) * n
      BY <1>1
    <2> QED BY <2>1
  <1>2. ASSUME q < s PROVE q * n + n <= s * n
    <2>1. (s - q - 1) * n >= 0 /\ s * n = q * n + n + (s - q - 1) * n
      BY <1>2
    <2> QED BY <2>1
  <1>3. ASSUME q * n < s * n + n, q >= s + 1 PROVE FALSE
    <2>1. (q - (s + 1)) * n >= 0 /\ q * n = s * n + n + (q - (s + 1)) * n
      BY <1>3
    <2> QED BY <1>3, <2>1
  <1> QED BY <1>1, <1>2, <1>3

\* What a multiple is.
LEMMA MultipleIs ==
    ASSUME NEW n \in Nat \ {0}, NEW a \in Nat
    PROVE  a % n = 0 <=> \E q \in Nat : a = q * n
  <1>1. a % n = 0 => a \div n \in Nat /\ a = (a \div n) * n
    BY Division
  <1>2. ASSUME NEW q \in Nat, a = q * n PROVE a % n = 0
    <2>1. a = q * n + 0 /\ 0 \in 0 .. n - 1
      BY <1>2
    <2> QED BY <2>1, Quotient
  <1> QED BY <1>1, <1>2

LEMMA BelowIs ==
    ASSUME NEW n \in Nat \ {0}, NEW a \in Nat
    PROVE  /\ Below(a, n) \in Nat /\ Below(a, n) <= a /\ a < Below(a, n) + n
           /\ Below(a, n) = (a \div n) * n
           /\ Below(a, n) % n = 0
           /\ a % n = 0 => Below(a, n) = a
  <1>1. PICK q \in Nat, r \in 0 .. n - 1, m \in Nat :
            q = a \div n /\ r = a % n /\ m = q * n /\ a = m + r
    <2>1. (a \div n) * n \in Nat
      BY Division
    <2> QED BY <2>1, Division
  <1>2. Below(a, n) = m
    BY ONLY <1>1 DEF Below
  <1>3. m % n = 0
    BY ONLY <1>1, MultipleIs
  <1> QED BY <1>1, <1>2, <1>3 DEF Below

\* A multiple of n up to a is one up to the greatest.
LEMMA Greatest ==
    ASSUME NEW n \in Nat \ {0}, NEW a \in Nat, NEW m \in Nat, m % n = 0, m <= a
    PROVE  m <= Below(a, n)
  <1>1. PICK q \in Nat : Below(a, n) = q * n
    BY BelowIs, MultipleIs
  <1>2. PICK p \in Nat : m = p * n
    BY MultipleIs
  <1>3. a < Below(a, n) + n
    BY BelowIs
  <1>4. p * n < q * n + n
    BY <1>1, <1>2, <1>3
  <1> QED BY <1>1, <1>2, <1>4, Fewer

LEMMA SameQuotient ==
    ASSUME NEW n \in Nat \ {0}, NEW a \in Nat, NEW b \in Nat
    PROVE  a \div n = b \div n <=> Below(a, n) = Below(b, n)
  <1>1. PICK q \in Nat : q = a \div n /\ Below(a, n) = q * n
    BY Division, BelowIs
  <1>2. PICK p \in Nat : p = b \div n /\ Below(b, n) = p * n
    BY Division, BelowIs
  <1>3. q * n = p * n => q = p
    <2>1. q < p => q * n + n <= p * n
      BY Fewer
    <2>2. p < q => p * n + n <= q * n
      BY Fewer
    <2> QED BY <2>1, <2>2
  <1> QED BY <1>1, <1>2, <1>3

LEMMA MultiplesAdd ==
    ASSUME NEW n \in Nat \ {0}, NEW a \in Nat, a % n = 0, NEW b \in Nat, b % n = 0
    PROVE  (a + b) % n = 0
  <1>1. PICK p \in Nat : a = p * n
    BY MultipleIs
  <1>2. PICK q \in Nat : b = q * n
    BY MultipleIs
  <1>3. PICK s \in Nat : s = p + q /\ a + b = s * n
    BY <1>1, <1>2
  <1>4. a + b \in Nat
    OBVIOUS
  <1> QED BY ONLY <1>3, <1>4, n \in Nat \ {0}, MultipleIs

\* Multiples are n apart.
LEMMA MultiplesApart ==
    ASSUME NEW n \in Nat \ {0}, NEW a \in Nat, a % n = 0, NEW b \in Nat, b % n = 0, a <= b
    PROVE  (b - a) % n = 0 /\ (a < b => a + n <= b)
  <1>1. PICK p \in Nat : a = p * n
    BY MultipleIs
  <1>2. PICK q \in Nat : b = q * n
    BY MultipleIs
  <1>3. p <= q
    <2>1. p * n < q * n + n
      BY <1>1, <1>2
    <2> QED BY <2>1, Fewer
  <1>4. (b - a) % n = 0
    <2>1. b - a = (q - p) * n /\ q - p \in Nat /\ b - a \in Nat
      BY <1>1, <1>2, <1>3
    <2> QED BY <2>1, MultipleIs
  <1>5. a < b => p < q
    BY <1>1, <1>2, <1>3
  <1>6. p < q => p * n + n <= q * n
    BY Fewer
  <1> QED BY <1>1, <1>2, <1>4, <1>5, <1>6

LEMMA MultipleOfMultiple ==
    ASSUME NEW n \in Nat \ {0}, NEW m \in Nat \ {0}, m % n = 0, NEW a \in Nat, a % m = 0
    PROVE  a % n = 0
  <1>1. PICK q \in Nat : m = q * n
    BY MultipleIs
  <1>2. PICK p \in Nat : a = p * m
    BY MultipleIs
  <1>3. a = (p * q) * n /\ p * q \in Nat
    BY <1>1, <1>2
  <1> QED BY <1>3, MultipleIs

\* Up to the next multiple, the remainder counts along.
LEMMA SameMultiple ==
    ASSUME NEW n \in Nat \ {0}, NEW a \in Nat, NEW k \in Nat, (a % n) + k < n
    PROVE  (a + k) % n = (a % n) + k /\ Below(a + k, n) = Below(a, n)
  <1>1. PICK q \in Nat, r \in 0 .. n - 1, m \in Nat :
            q = a \div n /\ r = a % n /\ m = q * n /\ a = m + r
    <2>1. (a \div n) * n \in Nat
      BY Division
    <2> QED BY <2>1, Division
  <1>2. PICK t \in 0 .. n - 1 : t = r + k
    BY <1>1
  <1>3. (q * n + t) % n = t
    BY Quotient
  <1>4. a + k = m + t
    BY <1>1, <1>2
  <1>5. (a + k) % n = t
    BY <1>1, <1>3, <1>4
  <1>6. Below(a + k, n) = m /\ Below(a, n) = m
    BY <1>1, <1>4, <1>5 DEF Below
  <1> QED BY <1>1, <1>2, <1>5, <1>6

LEMMA RemainderIs ==
    ASSUME NEW n \in Nat \ {0}, NEW q \in Nat, NEW r \in 0 .. n - 1, NEW b, b = q * n + r
    PROVE  b % n = r
  BY Quotient

\* Less than n further on, the remainder is another one.
LEMMA Apart ==
    ASSUME NEW n \in Nat \ {0}, NEW a \in Nat, NEW k \in 1 .. n - 1
    PROVE  (a + k) % n # a % n
  <1>1. PICK q \in Nat, r \in 0 .. n - 1 : q = a \div n /\ r = a % n /\ a = q * n + r
    BY Division
  <1>2. PICK m \in Nat : m = q * n /\ a = m + r
    <2>1. q * n \in Nat
      OBVIOUS
    <2> QED BY <1>1, <2>1
  <1>3. PICK b : b = a + k
    OBVIOUS
  <1>4. PICK p \in Nat, t \in 0 .. n - 1 : b = p * n + t /\ t # r
    <2>1. CASE r + k < n
      <3>1. r + k \in 0 .. n - 1 /\ r + k # r /\ b = m + (r + k)
        BY <1>2, <1>3, <2>1
      <3> QED BY <1>2, <3>1
    <2>2. CASE r + k >= n
      <3>1. r + k - n \in 0 .. n - 1 /\ r + k - n # r /\ b = (m + n) + (r + k - n)
        BY <1>2, <1>3, <2>2
      <3>2. q + 1 \in Nat /\ (q + 1) * n = m + n
        BY <1>2
      <3>3. b = (q + 1) * n + (r + k - n)
        BY ONLY <3>1, <3>2
      <3> QED BY ONLY <3>1, <3>2, <3>3
    <2> QED BY <2>1, <2>2
  <1>5. b % n = t
    BY <1>4, RemainderIs
  <1> QED BY ONLY <1>1, <1>3, <1>4, <1>5

LEMMA OneMultipleMore ==
    ASSUME NEW n \in Nat \ {0}, NEW m \in Nat, m % n = 0, NEW a \in Nat
    PROVE  (a + m) % n = a % n
  <1>1. PICK q \in Nat, r \in 0 .. n - 1 : q = a \div n /\ r = a % n /\ a = q * n + r
    BY Division
  <1>2. PICK p \in Nat : m = p * n
    BY MultipleIs
  <1>3. PICK b : b = a + m
    OBVIOUS
  <1>4. q + p \in Nat /\ q * n + p * n = (q + p) * n
    OBVIOUS
  <1>5. b = (q + p) * n + r
    <2>1. PICK x \in Nat, y \in Nat : x = q * n /\ y = p * n
      <3>1. q * n \in Nat /\ p * n \in Nat
        OBVIOUS
      <3> QED BY ONLY <3>1
    <2> QED BY <1>1, <1>2, <1>3, <1>4, <2>1
  <1>6. b % n = r
    BY <1>4, <1>5, RemainderIs
  <1> QED BY ONLY <1>1, <1>3, <1>6
-----------------------------------------------------------------------------
\* A set of natural numbers has a least element.
LEMMA LeastIn ==
    ASSUME NEW T, T \subseteq Nat, T # {}
    PROVE  \E x \in T : \A y \in T : x <= y
<1>1. IsWellFoundedOn(OpToRel(<, Nat), Nat)
  BY NatLessThanWellFounded, Zenon
<1>2. PICK x \in T : \A y \in T : ~ <<y, x>> \in OpToRel(<, Nat)
  BY <1>1, WFMin, Zenon
<1>3. \A y \in T : ~ (y < x)
  BY <1>2 DEF OpToRel
<1> QED BY <1>3

\* Numbers that grow from 0 cut what lies below the last of them into pieces.
LEMMA Tiling ==
    ASSUME NEW n \in Nat, NEW e \in [0 .. n -> Nat], e[0] = 0,
           \A k \in 0 .. n - 1 : e[k] <= e[k + 1]
    PROVE  /\ \A j, k \in 0 .. n : j <= k => e[j] <= e[k]
           /\ \A a \in 0 .. e[n] - 1 : \E k \in 0 .. n - 1 : a \in e[k] .. e[k + 1] - 1
<1>1. ASSUME NEW j \in 0 .. n, NEW k \in 0 .. n, j <= k
      PROVE  e[j] <= e[k]
  <2> SUFFICES ASSUME e[k] < e[j] PROVE FALSE
    OBVIOUS
  <2> DEFINE T == {m \in j .. n : e[m] < e[j]}
  <2>1. k \in T /\ T \subseteq Nat
    BY <1>1
  <2>2. PICK m \in T : \A y \in T : m <= y
    BY <2>1, LeastIn
  <2>3. m # j /\ m \in j .. n /\ e[m] < e[j]
    OBVIOUS
  <2>4. m - 1 \in j .. n /\ m - 1 \notin T /\ m - 1 \in 0 .. n - 1
    BY <2>2, <2>3
  <2>5. e[m - 1] <= e[m]
    <3>1. (m - 1) + 1 = m
      BY <2>3
    <3> QED BY <2>4, <3>1
  <2> QED BY <2>3, <2>4, <2>5
<1>2. ASSUME NEW a \in 0 .. e[n] - 1
      PROVE  \E k \in 0 .. n - 1 : a \in e[k] .. e[k + 1] - 1
  <2> DEFINE T == {m \in 0 .. n : a < e[m]}
  <2>1. n \in T /\ T \subseteq Nat
    BY <1>2
  <2>2. PICK m \in T : \A y \in T : m <= y
    BY <2>1, LeastIn
  <2>3. m # 0 /\ m \in 0 .. n /\ a < e[m]
    BY <1>2
  <2>4. m - 1 \in 0 .. n - 1 /\ m - 1 \notin T /\ (m - 1) + 1 = m
    BY <2>2, <2>3
  <2>5. e[m - 1] <= a
    BY <1>2, <2>4
  <2>6. a \in e[m - 1] .. e[(m - 1) + 1] - 1
    BY <1>2, <2>3, <2>4, <2>5
  <2> QED BY <2>4, <2>6
<1> QED BY <1>1, <1>2

\* A sum does not mind that a summand was reduced already.
LEMMA RemainderAdds ==
    ASSUME NEW n \in Nat \ {0}, NEW a \in Nat, NEW k \in Nat
    PROVE  ((a % n) + k) % n = (a + k) % n
<1>1. PICK q \in Nat, r \in 0 .. n - 1, m \in Nat :
          r = a % n /\ m = q * n /\ a = m + r
  <2>1. a \div n \in Nat /\ a % n \in 0 .. n - 1 /\ a = (a \div n) * n + (a % n)
    BY Division
  <2>2. (a \div n) * n \in Nat
    BY <2>1
  <2> QED BY <2>1, <2>2
<1>2. m % n = 0
  BY <1>1, MultipleIs
<1>3. ((r + k) + m) % n = (r + k) % n
  <2>1. r + k \in Nat
    BY <1>1
  <2> QED BY <1>2, <2>1, OneMultipleMore
<1>4. (r + k) + m = a + k
  BY <1>1
<1> QED BY <1>1, <1>3, <1>4

\* The place k further on in a ring of n places.
RingAt(s, k, n) == (s + k) % n

\* Going round a ring.
LEMMA Round ==
    ASSUME NEW n \in Nat \ {0}, NEW s \in 0 .. n - 1
    PROVE  /\ \A k \in Nat : RingAt(s, k, n) \in 0 .. n - 1
           /\ RingAt(s, 0, n) = s
           /\ \A i, j \in Nat : RingAt(RingAt(s, i, n), j, n) = RingAt(s, i + j, n)
           /\ \A i, j \in 0 .. n - 1 : RingAt(s, i, n) = RingAt(s, j, n) => i = j
           /\ \A u \in 0 .. n - 1 : \E k \in 0 .. n - 1 : u = RingAt(s, k, n)
           /\ \A i \in Nat : RingAt(s, i + n, n) = RingAt(s, i, n)
<1>1. ASSUME NEW k \in Nat
      PROVE  (s + k) % n \in 0 .. n - 1
  <2>1. s + k \in Nat
    OBVIOUS
  <2> QED BY <2>1, Division
<1>2. \A r \in 0 .. n - 1 : r % n = r
  <2>1. ASSUME NEW r \in 0 .. n - 1
        PROVE  r % n = r
    <3>1. 0 * n + r = r
      OBVIOUS
    <3> QED BY <3>1, Quotient
  <2> QED BY <2>1
<1>3. ASSUME NEW i \in Nat, NEW j \in Nat
      PROVE  (((s + i) % n) + j) % n = (s + (i + j)) % n
  <2>1. s + i \in Nat /\ (s + i) + j = s + (i + j)
    OBVIOUS
  <2>2. (((s + i) % n) + j) % n = ((s + i) + j) % n
    BY <2>1, RemainderAdds
  <2> QED BY <2>1, <2>2
<1>4. ASSUME NEW i \in 0 .. n - 1, NEW j \in 0 .. n - 1, i < j
      PROVE  (s + i) % n # (s + j) % n
  <2>1. s + i \in Nat /\ j - i \in 1 .. n - 1 /\ (s + i) + (j - i) = s + j
    BY <1>4
  <2>2. ((s + i) + (j - i)) % n # (s + i) % n
    BY <2>1, Apart
  <2> QED BY <2>1, <2>2
<1>5. ASSUME NEW i \in 0 .. n - 1, NEW j \in 0 .. n - 1, (s + i) % n = (s + j) % n
      PROVE  i = j
  <2>1. ~(i < j) /\ ~(j < i)
    BY <1>4, <1>5
  <2> QED BY <2>1
<1>6. ASSUME NEW i \in Nat
      PROVE  (s + (i + n)) % n = (s + i) % n
  <2>1. n = 1 * n
    OBVIOUS
  <2>2. n % n = 0
    BY <2>1, MultipleIs
  <2>3. s + i \in Nat /\ s + (i + n) = (s + i) + n
    OBVIOUS
  <2>4. ((s + i) + n) % n = (s + i) % n
    BY <2>2, <2>3, OneMultipleMore
  <2> QED BY <2>3, <2>4
<1>7. ASSUME NEW u \in 0 .. n - 1
      PROVE  \E k \in 0 .. n - 1 : u = (s + k) % n
  <2>1. CASE s <= u
    <3>1. u - s \in 0 .. n - 1 /\ s + (u - s) = u
      BY <2>1
    <3>2. (s + (u - s)) % n = u
      BY <1>2, <3>1
    <3> QED BY <3>1, <3>2
  <2>2. CASE u < s
    <3>1. u + n - s \in 0 .. n - 1 /\ s + (u + n - s) = u + n
      BY <2>2
    <3>2. n % n = 0
      <4>1. n = 1 * n
        OBVIOUS
      <4> QED BY <4>1, MultipleIs
    <3>3. (u + n) % n = u % n
      <4>1. u \in Nat /\ n \in Nat
        OBVIOUS
      <4> QED BY <3>2, <4>1, OneMultipleMore
    <3>4. (s + (u + n - s)) % n = u
      BY <1>2, <3>1, <3>3
    <3> QED BY <3>1, <3>4
  <2> QED BY <2>1, <2>2
<1>8. (s + 0) % n = s
  BY <1>2
<1> QED BY <1>1, <1>3, <1>5, <1>6, <1>7, <1>8, Zenon DEF RingAt
=============================================================================
