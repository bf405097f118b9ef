-------------------------- MODULE ActaStreamProofs --------------------------
(***************************************************************************)
(* Proofs about the stream transforms.                                     *)
(***************************************************************************)
EXTENDS ActaStream, ActaFoldProofs

-----------------------------------------------------------------------------
(* Powers of two                                                           *)

\* The subsets of n elements are counted by 2^n, which makes it a number.
LEMMA PowerCounts ==
    ASSUME NEW n \in Nat
    PROVE  /\ IsFiniteSet(SUBSET (1..n)) /\ Cardinality(SUBSET (1..n)) = 2^n
           /\ 2^n \in Nat
<1>1. IsFiniteSet(1..n) /\ Cardinality(1..n) = n
  BY FS_Interval
<1>2. IsFiniteSet(SUBSET (1..n)) /\ Cardinality(SUBSET (1..n)) = 2^n
  BY <1>1, FS_SUBSET
<1> QED
  BY <1>2, FS_CardinalityType

\* One more element doubles the subsets: those without it and those with it.
LEMMA PowerNext ==
    ASSUME NEW n \in Nat
    PROVE  2^(n + 1) = 2 * 2^n
<1> DEFINE S == SUBSET (1..n)
           T == {t \cup {n + 1} : t \in S}
           f == [t \in S |-> t \cup {n + 1}]
<1>1. IsFiniteSet(S) /\ Cardinality(S) = 2^n /\ 2^n \in Nat
  BY PowerCounts
<1>2. S \cup T = SUBSET (1..(n + 1))
  <2>1. ASSUME NEW u \in SUBSET (1..(n + 1)), u \notin S PROVE u \in T
    <3>1. n + 1 \in u /\ u \ {n + 1} \in S
      <4>1. 1..(n + 1) = 1..n \cup {n + 1}
        OBVIOUS
      <4> QED
        BY <2>1, <4>1
    <3>2. u = (u \ {n + 1}) \cup {n + 1}
      BY <3>1
    <3> QED
      BY <3>1, <3>2
  <2>2. S \subseteq SUBSET (1..(n + 1)) /\ T \subseteq SUBSET (1..(n + 1))
    <3>1. \A t \in S : t \subseteq 1..(n + 1) /\ t \cup {n + 1} \subseteq 1..(n + 1)
      OBVIOUS
    <3> QED
      BY <3>1
  <2> QED
    BY <2>1, <2>2
<1>3. S \cap T = {}
  <2>1. n + 1 \notin 1..n
    OBVIOUS
  <2> QED
    BY <2>1
<1>4. ExistsBijection(S, T)
  <2>1. n + 1 \notin 1..n
    OBVIOUS
  <2>2. \A a, b \in S : a \cup {n + 1} = b \cup {n + 1} => a = b
    <3> SUFFICES ASSUME NEW a \in S, NEW b \in S, a \cup {n + 1} = b \cup {n + 1}
                 PROVE  a = b
      OBVIOUS
    <3>1. a = (a \cup {n + 1}) \ {n + 1} /\ b = (b \cup {n + 1}) \ {n + 1}
      BY <2>1
    <3> QED
      BY <3>1
  <2>3. f \in [S -> T] /\ \A a \in S : f[a] = a \cup {n + 1}
    <3>1. \A a \in S : a \cup {n + 1} \in T
      OBVIOUS
    <3> HIDE DEF S, T
    <3> QED
      BY <3>1
  <2>4. \A t \in T : \E a \in S : f[a] = t
    OBVIOUS
  <2> HIDE DEF f, S, T
  <2>5. f \in Bijection(S, T)
    BY <2>2, <2>3, <2>4 DEF Bijection, Injection, Surjection, IsInjective
  <2> QED
    BY <2>5 DEF ExistsBijection
<1> HIDE DEF S, T
<1>5. IsFiniteSet(T) /\ Cardinality(T) = 2^n
  BY <1>1, <1>4, FS_Bijection
<1>6. Cardinality(S \cup T) = Cardinality(S) + Cardinality(T) - Cardinality({})
  BY <1>1, <1>3, <1>5, FS_Union
<1>7. Cardinality(SUBSET (1..(n + 1))) = 2^(n + 1)
  BY PowerCounts, n + 1 \in Nat
<1>8. Cardinality(SUBSET (1..(n + 1))) = 2^n + 2^n - 0
  BY <1>1, <1>2, <1>5, <1>6, FS_EmptySet, Zenon
<1> QED
  BY <1>1, <1>7, <1>8

LEMMA PowerType ==
    ASSUME NEW n \in Nat
    PROVE  2^n \in Nat /\ 2^n >= 1 /\ 2^0 = 1 /\ 2^1 = 2
<1> DEFINE P == {k \in Nat : 2^k >= 1}
<1>1. 0 \in P
  OBVIOUS
<1>2. ASSUME NEW k \in 0..(n - 1), k \in P PROVE k + 1 \in P
  BY <1>2, PowerNext, PowerCounts, k + 1 \in Nat
<1>3. \A k \in 0..n : k \in P
  <2> HIDE DEF P
  <2> QED
    BY <1>1, <1>2, SetInduction
<1> QED
  BY <1>3, PowerCounts

LEMMA PowerSum ==
    ASSUME NEW m \in Nat, NEW n \in Nat
    PROVE  2^(m + n) = 2^m * 2^n
<1> DEFINE P == {k \in Nat : 2^(m + k) = 2^m * 2^k}
<1>0. 2^m \in Nat
  BY PowerType
<1>1. 0 \in P
  BY <1>0, m + 0 = m
<1>2. ASSUME NEW k \in 0..(n - 1), k \in P PROVE k + 1 \in P
  <2>1. 2^(k + 1) = 2 * 2^k /\ 2^((m + k) + 1) = 2 * 2^(m + k) /\ 2^k \in Nat
    BY PowerNext, PowerType, m + k \in Nat
  <2>2. m + (k + 1) = (m + k) + 1 /\ k + 1 \in Nat
    OBVIOUS
  <2>3. 2^(m + k) = 2^m * 2^k
    BY <1>2
  <2>4. \A a, b \in Nat : 2 * (a * b) = a * (2 * b)
    OBVIOUS
  <2> QED
    BY <1>0, <2>1, <2>2, <2>3, <2>4
<1>3. \A k \in 0..n : k \in P
  <2> HIDE DEF P
  <2> QED
    BY <1>1, <1>2, SetInduction
<1> QED
  BY <1>3

LEMMA PowerMonotone ==
    ASSUME NEW m \in Nat, NEW n \in Nat, m <= n
    PROVE  2^m <= 2^n
<1>1. n - m \in Nat /\ n = m + (n - m)
  OBVIOUS
<1>2. 2^n = 2^m * 2^(n - m)
  BY <1>1, PowerSum
<1>3. 2^m \in Nat /\ 2^(n - m) \in Nat /\ 2^(n - m) >= 1
  BY <1>1, PowerType
<1>4. \A a, b \in Nat : b >= 1 => a <= a * b
  OBVIOUS
<1> QED
  BY <1>2, <1>3, <1>4

-----------------------------------------------------------------------------
(* Numbers and their digits                                                *)

\* A quotient and a remainder are known by what they are parts of.
LEMMA Euclid ==
    ASSUME NEW d \in Nat \ {0}, NEW q \in Int, NEW r \in 0..(d - 1), NEW x, x = q * d + r
    PROVE  x \div d = q /\ x % d = r
<1>0. x \in Int
  OBVIOUS
<1> DEFINE p == x \div d
           s == x % d
<1>1. p \in Int /\ s \in 0..(d - 1) /\ x = p * d + s
  BY <1>0, Quotients
<1> HIDE DEF p, s
<1>2. (q - p) * d = s - r
  BY <1>1
<1>3. q - p = 0
  BY <1>1, <1>2
<1> QED
  BY <1>1, <1>2, <1>3 DEF p, s

LEMMA Remainder ==
    ASSUME NEW d \in Nat \ {0}, NEW r \in 0..(d - 1)
    PROVE  r \div d = 0 /\ r % d = r
<1> DEFINE p == r \div d
           s == r % d
<1>1. p \in Int /\ s \in 0..(d - 1) /\ r = p * d + s
  BY Quotients, r \in Int
<1> HIDE DEF p, s
<1>2. p = 0
  BY <1>1
<1> QED
  BY <1>1, <1>2 DEF p, s

\* The number that digits of w bits stand for, the lowest first.
Number(d, w, n) == SumFunction([k \in 1..n |-> d[k] * 2^(w * (k - 1))])

LEMMA NumberNext ==
    ASSUME NEW w \in Nat, NEW n \in Nat, NEW d, \A k \in 1..(n + 1) : d[k] \in Nat
    PROVE  /\ Number(d, w, n) \in Nat
           /\ Number(d, w, n + 1) = Number(d, w, n) + d[n + 1] * 2^(w * n)
<1> DEFINE f == [k \in 1..n |-> d[k] * 2^(w * (k - 1))]
           e == [k \in 1..(n + 1) |-> d[k] * 2^(w * (k - 1))]
<1>0. ASSUME NEW k \in 1..(n + 1) PROVE d[k] * 2^(w * (k - 1)) \in Nat
  <2>1. w * (k - 1) \in Nat
    OBVIOUS
  <2>2. 2^(w * (k - 1)) \in Nat /\ d[k] \in Nat
    BY <2>1, PowerType
  <2> QED
    BY <2>2
<1>1. IsFiniteSet(DOMAIN f) /\ n + 1 \notin DOMAIN f /\ DOMAIN e = DOMAIN f \cup {n + 1}
  BY FS_Interval
<1>2. \A x \in DOMAIN f : f[x] \in Nat /\ e[x] = f[x]
  BY <1>0
<1>3. e[n + 1] \in Nat /\ e[n + 1] = d[n + 1] * 2^(w * n)
  BY <1>0, (n + 1) - 1 = n
<1> HIDE DEF f, e
<1>4. SumFunction(f) \in Nat /\ SumFunction(e) = SumFunction(f) + e[n + 1]
  BY <1>1, <1>2, <1>3, SumExtend
<1> QED
  BY <1>3, <1>4 DEF f, e, Number

LEMMA NumberEmpty ==
    ASSUME NEW d, NEW w
    PROVE  Number(d, w, 0) = 0
<1> DEFINE f == [k \in 1..0 |-> d[k] * 2^(w * (k - 1))]
<1>1. DOMAIN f = {}
  OBVIOUS
<1> HIDE DEF f
<1>2. SumFunction(f) = 0
  BY <1>1, SumFunctionIsSum, SumEmpty
<1> QED
  BY <1>2 DEF f, Number

\* Only the digits matter.
LEMMA NumberAgree ==
    ASSUME NEW d, NEW e, NEW w, NEW n \in Nat, \A k \in 1..n : d[k] = e[k]
    PROVE  Number(d, w, n) = Number(e, w, n)
<1>1. [k \in 1..n |-> d[k] * 2^(w * (k - 1))] = [k \in 1..n |-> e[k] * 2^(w * (k - 1))]
  OBVIOUS
<1> QED
  BY <1>1 DEF Number

\* The digits of a base, as the numbers below it.
Digits(d, w, n) == \A k \in 1..n : d[k] \in 0..(2^w - 1)

LEMMA NextPower ==
    ASSUME NEW w \in Nat, NEW n \in Nat
    PROVE  /\ w * n \in Nat /\ w * (n + 1) \in Nat
           /\ 2^w \in Nat \ {0} /\ 2^(w * n) \in Nat \ {0} /\ 2^(w * (n + 1)) \in Nat \ {0}
           /\ 2^(w * (n + 1)) = 2^(w * n) * 2^w
<1>1. w * n \in Nat /\ w * (n + 1) = w * n + w
  OBVIOUS
<1> DEFINE m == w * n
<1>2. m \in Nat /\ w * (n + 1) = m + w
  BY <1>1
<1> HIDE DEF m
<1>3. 2^(m + w) = 2^m * 2^w /\ 2^w \in Nat \ {0} /\ 2^m \in Nat \ {0} /\ 2^(m + w) \in Nat \ {0}
  <2>1. \A x \in Nat : 2^x \in Nat \ {0}
    BY PowerType
  <2>2. 2^(m + w) = 2^m * 2^w /\ m + w \in Nat
    BY <1>2, PowerSum
  <2> QED
    BY <1>2, <2>1, <2>2
<1> QED
  BY <1>2, <1>3 DEF m

LEMMA NumberBound ==
    ASSUME NEW w \in Nat, NEW n \in Nat, NEW d, Digits(d, w, n)
    PROVE  \A k \in 0..n : Number(d, w, k) \in 0..(2^(w * k) - 1)
<1> DEFINE P == {k \in Nat : Number(d, w, k) \in 0..(2^(w * k) - 1)}
<1>1. 0 \in P
  <2>1. w * 0 = 0 /\ 2^0 = 1 /\ Number(d, w, 0) = 0
    BY NumberEmpty
  <2>2. 2^(w * 0) = 1
    BY <2>1, Zenon
  <2>3. Number(d, w, 0) \in 0..(2^(w * 0) - 1)
    BY <2>1, <2>2
  <2> QED
    BY <2>3
<1>2. ASSUME NEW k \in 0..(n - 1), k \in P PROVE k + 1 \in P
  <2>1. \A j \in 1..(k + 1) : d[j] \in Nat
    BY PowerType DEF Digits
  <2>2. Number(d, w, k + 1) = Number(d, w, k) + d[k + 1] * 2^(w * k)
    BY <2>1, NumberNext
  <2>3. d[k + 1] \in 0..(2^w - 1) /\ k + 1 \in Nat
    BY DEF Digits
  <2>4. /\ 2^w \in Nat \ {0} /\ 2^(w * k) \in Nat \ {0} /\ 2^(w * (k + 1)) \in Nat \ {0}
        /\ 2^(w * (k + 1)) = 2^(w * k) * 2^w
    BY NextPower, k \in Nat
  <2>5. Number(d, w, k) \in 0..(2^(w * k) - 1)
    BY <1>2
  <2>6. \A a, b \in Nat \ {0} : \A x \in 0..(a - 1), y \in 0..(b - 1) : x + y * a \in 0..(a * b - 1)
    <3> SUFFICES ASSUME NEW a \in Nat \ {0}, NEW b \in Nat \ {0},
                        NEW x \in 0..(a - 1), NEW y \in 0..(b - 1)
                 PROVE  x + y * a \in 0..(a * b - 1)
      OBVIOUS
    <3>1. y * a \in Nat /\ y * a <= (b - 1) * a
      OBVIOUS
    <3>2. (b - 1) * a = a * b - a /\ a * b \in Nat
      OBVIOUS
    <3> QED
      BY <3>1, <3>2
  <2>7. Number(d, w, k + 1) \in 0..(2^(w * (k + 1)) - 1)
    BY <2>2, <2>3, <2>4, <2>5, <2>6
  <2> QED
    BY <2>3, <2>7
<1>3. \A k \in 0..n : k \in P
  <2> HIDE DEF P
  <2> QED
    BY <1>1, <1>2, SetInduction
<1> QED
  BY <1>3

\* The digits from one on are a multiple of its weight.
SplitAt(d, w, n, k) == \E h \in Nat : Number(d, w, n) = Number(d, w, k) + h * 2^(w * k)

LEMMA NumberSplit ==
    ASSUME NEW w \in Nat, NEW n \in Nat, NEW d, Digits(d, w, n), NEW k \in 0..n
    PROVE  SplitAt(d, w, n, k)
<1> DEFINE P == {m \in Nat : \E h \in Nat : Number(d, w, m) = Number(d, w, k) + h * 2^(w * k)}
<1>0. 2^(w * k) \in Nat /\ Number(d, w, k) \in Nat /\ k \in Nat
  BY NextPower, NumberBound
<1>1. k \in P
  <2>1. Number(d, w, k) = Number(d, w, k) + 0 * 2^(w * k)
    BY <1>0
  <2> QED
    BY <1>0, <2>1
<1>2. ASSUME NEW m \in k..(n - 1), m \in P PROVE m + 1 \in P
  <2>1. \A j \in 1..(m + 1) : d[j] \in Nat
    BY PowerType DEF Digits
  <2>2. Number(d, w, m + 1) = Number(d, w, m) + d[m + 1] * 2^(w * m)
    BY <2>1, NumberNext
  <2>3. PICK h \in Nat : Number(d, w, m) = Number(d, w, k) + h * 2^(w * k)
    BY <1>2
  <2>4. 2^(w * m) = 2^(w * k) * 2^(w * (m - k)) /\ 2^(w * (m - k)) \in Nat
    <3>1. w * k \in Nat /\ w * (m - k) \in Nat /\ w * m = w * k + w * (m - k)
      OBVIOUS
    <3> QED
      BY <3>1, PowerSum, PowerType
  <2>5. d[m + 1] \in Nat /\ m + 1 \in Nat
    BY <2>1
  <2>6. \A a, b, c, x, y \in Nat : (x + y * a) + c * (a * b) = x + (y + c * b) * a
    OBVIOUS
  <2>7. Number(d, w, m + 1) = Number(d, w, k) + (h + d[m + 1] * 2^(w * (m - k))) * 2^(w * k)
    <3> DEFINE a == 2^(w * k)
               b == 2^(w * (m - k))
               x == Number(d, w, k)
    <3>1. a \in Nat /\ b \in Nat /\ x \in Nat
      BY <1>0, <2>4
    <3>2. Number(d, w, m + 1) = (x + h * a) + d[m + 1] * (a * b)
      BY <2>2, <2>3, <2>4
    <3> HIDE DEF a, b, x
    <3>3. Number(d, w, m + 1) = x + (h + d[m + 1] * b) * a
      BY <2>5, <2>6, <3>1, <3>2
    <3> QED
      BY <3>3 DEF a, b, x
  <2>8. h + d[m + 1] * 2^(w * (m - k)) \in Nat
    BY <2>4, <2>5
  <2> QED
    BY <2>5, <2>7, <2>8
<1>3. \A m \in k..n : m \in P
  <2> HIDE DEF P
  <2> QED
    BY <1>0, <1>1, <1>2, SetInduction
<1>4. n \in k..n
  OBVIOUS
<1>5. n \in P
  BY <1>3, <1>4
<1> QED
  BY <1>5 DEF SplitAt

\* The digits of a number, also below zero, are the ones it was put together from.
LEMMA NumberDigit ==
    ASSUME NEW w \in Nat, NEW n \in Nat, NEW d, Digits(d, w, n), NEW k \in 1..n, NEW q \in Int
    PROVE  ((Number(d, w, n) + q * 2^(w * n)) \div 2^(w * (k - 1))) % 2^w = d[k]
<1>0. w \in Nat /\ n \in Nat /\ Digits(d, w, n) /\ k \in 0..n
  OBVIOUS
<1>1. PICK h \in Nat : Number(d, w, n) = Number(d, w, k) + h * 2^(w * k)
  <2>1. SplitAt(d, w, n, k)
    BY ONLY <1>0, NumberSplit
  <2> QED
    BY ONLY <2>1, Zenon DEF SplitAt
<1>2. /\ 2^w \in Nat \ {0} /\ 2^(w * (k - 1)) \in Nat \ {0} /\ 2^(w * k) \in Nat \ {0}
      /\ 2^(w * k) = 2^(w * (k - 1)) * 2^w
  BY NextPower, (k - 1) + 1 = k, k - 1 \in Nat
<1>3. Number(d, w, k) = Number(d, w, k - 1) + d[k] * 2^(w * (k - 1))
  <2>1. \A j \in 1..((k - 1) + 1) : d[j] \in Nat
    BY PowerType DEF Digits
  <2>2. k - 1 \in Nat /\ (k - 1) + 1 = k
    OBVIOUS
  <2>3. Number(d, w, (k - 1) + 1) = Number(d, w, k - 1) + d[(k - 1) + 1] * 2^(w * (k - 1))
    BY <2>1, <2>2, NumberNext
  <2> QED
    BY <2>2, <2>3
<1>4. Number(d, w, k - 1) \in 0..(2^(w * (k - 1)) - 1) /\ d[k] \in 0..(2^w - 1)
  <2>1. k - 1 \in 0..n
    OBVIOUS
  <2>2. \A j \in 0..n : Number(d, w, j) \in 0..(2^(w * j) - 1)
    BY NumberBound
  <2> QED
    BY <2>1, <2>2 DEF Digits
<1>5. 2^(w * n) = 2^(w * k) * 2^(w * (n - k)) /\ 2^(w * (n - k)) \in Nat
  <2>1. w * k \in Nat /\ w * (n - k) \in Nat /\ w * n = w * k + w * (n - k)
    OBVIOUS
  <2> QED
    BY <2>1, PowerSum, PowerType
<1> DEFINE A == 2^(w * (k - 1))
           B == 2^w
           C == 2^(w * (n - k))
           x == Number(d, w, n) + q * 2^(w * n)
           l == Number(d, w, k - 1)
           g == h + q * C
<1>6. A \in Nat \ {0} /\ B \in Nat \ {0} /\ C \in Nat /\ l \in 0..(A - 1) /\ d[k] \in 0..(B - 1)
  BY <1>2, <1>4, <1>5
<1>7. x = (l + d[k] * A) + h * (A * B) + q * ((A * B) * C)
  BY <1>1, <1>2, <1>3, <1>5
<1>8. g \in Int
  BY <1>6
<1> HIDE DEF A, B, C, x, l
<1>9. x = (g * B + d[k]) * A + l
  <2>1. \A a, b, c, e, h0 \in Nat : \A m, q0 \in Int :
          (m + e * a) + h0 * (a * b) + q0 * ((a * b) * c) = ((h0 + q0 * c) * b + e) * a + m
    OBVIOUS
  <2> QED
    BY <1>6, <1>7, <2>1
<1> HIDE DEF g
<1>10. g * B + d[k] \in Int
  BY <1>6, <1>8
<1>11. x \div A = g * B + d[k]
  BY <1>6, <1>9, <1>10, Euclid
<1>12. (x \div A) % B = d[k]
  BY <1>6, <1>8, <1>11, Euclid
<1> QED
  BY <1>12 DEF x, A, B

\* The lowest digits of a number, also of one below zero, put together again.
LEMMA NumberOfDigits ==
    ASSUME NEW w \in Nat, NEW n \in Nat, NEW v \in Int, NEW d,
           \A k \in 1..n : d[k] = (v \div 2^(w * (k - 1))) % 2^w
    PROVE  Digits(d, w, n) /\ Number(d, w, n) = v % 2^(w * n)
<1>0. Digits(d, w, n)
  <2> SUFFICES ASSUME NEW k \in 1..n PROVE d[k] \in 0..(2^w - 1)
    BY DEF Digits
  <2>1. 2^w \in Nat \ {0} /\ 2^(w * (k - 1)) \in Nat \ {0}
    BY NextPower, k - 1 \in Nat
  <2>2. v \div 2^(w * (k - 1)) \in Int
    BY <2>1, Quotients
  <2> QED
    BY <2>1, <2>2, Quotients
<1> DEFINE P == {k \in Nat : Number(d, w, k) = v % 2^(w * k)}
<1>1. 0 \in P
  <2>1. w * 0 = 0 /\ 2^0 = 1 /\ Number(d, w, 0) = 0
    BY NumberEmpty
  <2>2. v % 1 = 0
    OBVIOUS
  <2>3. Number(d, w, 0) = v % 2^(w * 0)
    BY <2>1, <2>2
  <2> QED
    BY <2>3
<1>2. ASSUME NEW k \in 0..(n - 1), k \in P PROVE k + 1 \in P
  <2>1. \A j \in 1..(k + 1) : d[j] \in Nat
    BY <1>0, PowerType DEF Digits
  <2>2. Number(d, w, k + 1) = Number(d, w, k) + d[k + 1] * 2^(w * k)
    BY <2>1, NumberNext
  <2> DEFINE A == 2^(w * k)
             B == 2^w
             x == v \div A
             y == v % A
             z == x \div B
  <2>3. A \in Nat \ {0} /\ B \in Nat \ {0} /\ 2^(w * (k + 1)) = A * B
    BY NextPower
  <2>4. d[k + 1] = x % B
    BY (k + 1) - 1 = k, k + 1 \in 1..n
  <2>5. Number(d, w, k + 1) = y + (x % B) * A
    BY <1>2, <2>2, <2>4
  <2> HIDE DEF A, B
  <2>6. x \in Int /\ y \in 0..(A - 1) /\ v = x * A + y
    BY <2>3, Quotients
  <2> HIDE DEF x, y
  <2>7. z \in Int /\ x % B \in 0..(B - 1) /\ x = z * B + (x % B)
    BY <2>3, <2>6, Quotients
  <2> HIDE DEF z
  <2>8. v = z * (A * B) + (y + (x % B) * A)
    <3>1. \A a, b, c, e, f \in Int : (c * b + e) * a + f = c * (a * b) + (f + e * a)
      OBVIOUS
    <3> DEFINE u == x % B
    <3>2. u \in Int /\ v = (z * B + u) * A + y
      BY <2>6, <2>7
    <3> HIDE DEF u
    <3>3. v = z * (A * B) + (y + u * A)
      BY <2>3, <2>6, <2>7, <3>1, <3>2
    <3> QED
      BY <3>3 DEF u
  <2>9. y + (x % B) * A \in 0..(A * B - 1) /\ A * B \in Nat \ {0}
    <3>0. x % B \in Nat /\ x % B <= B - 1 /\ y \in Nat /\ y <= A - 1
      BY <2>3, <2>6, <2>7
    <3>1. (x % B) * A \in Nat /\ (x % B) * A <= (B - 1) * A
      BY <2>3, <3>0
    <3>2. (B - 1) * A = A * B - A /\ A * B \in Nat /\ A * B # 0
      BY <2>3
    <3> QED
      BY <2>3, <3>0, <3>1, <3>2
  <2>10. v % (A * B) = y + (x % B) * A
    BY <2>7, <2>8, <2>9, Euclid
  <2> QED
    BY <2>3, <2>5, <2>10, k + 1 \in Nat
<1>3. \A k \in 0..n : k \in P
  <2> HIDE DEF P
  <2> QED
    BY <1>1, <1>2, SetInduction
<1> QED
  BY <1>0, <1>3

-----------------------------------------------------------------------------
(* Integers as bytes                                                       *)

LEMMA Widths ==
    /\ ByteBits \in Nat \ {0} /\ WordBytes \in Nat \ {0} /\ CountBytes \in Nat \ {0}
    /\ WordBits \in Nat \ {0} /\ WordBits < 2^ByteBits
    /\ \A x \in Bytes : x \in Nat /\ x <= 2^ByteBits - 1
    /\ 2^ByteBits \in Nat
<1>1. ByteBits \in Nat \ {0} /\ WordBytes \in Nat \ {0} /\ CountBytes \in Nat \ {0}
  BY WidthAssumption
<1>2. 2^ByteBits \in Nat
  BY <1>1, PowerType
<1>3. WordBits \in Nat \ {0} /\ WordBits < 2^ByteBits
  BY <1>1, WidthAssumption DEF WordBits
<1> QED
  BY <1>1, <1>2, <1>3 DEF Bytes

\* The range of a type of integers.
LEMMA ValuesOf ==
    ASSUME NEW n \in Nat \ {0}, NEW signed \in BOOLEAN
    PROVE  /\ 2^(ByteBits * n) \in Nat /\ 2^(ByteBits * n - 1) \in Nat
           /\ 2^(ByteBits * n) = 2 * 2^(ByteBits * n - 1)
           /\ Values([width |-> n, signed |-> signed]) =
                IF signed THEN -(2^(ByteBits * n - 1)) .. 2^(ByteBits * n - 1) - 1
                ELSE 0 .. 2^(ByteBits * n) - 1
           /\ Values([width |-> n, signed |-> signed]) \subseteq Int
<1> DEFINE m == ByteBits * n - 1
<1>1. m \in Nat /\ ByteBits * n = m + 1
  BY Widths
<1> HIDE DEF m
<1>2. 2^m \in Nat /\ 2^(m + 1) = 2 * 2^m
  BY <1>1, PowerType, PowerNext
<1>3. ByteBits * n - 1 = m
  BY DEF m
<1>4. 2^(ByteBits * n) = 2^(m + 1) /\ 2^(ByteBits * n - 1) = 2^m
  BY <1>1, <1>3, Zenon
<1>5. Values([width |-> n, signed |-> signed]) =
        IF signed THEN -(2^(ByteBits * n - 1)) .. 2^(ByteBits * n - 1) - 1
        ELSE 0 .. 2^(ByteBits * n) - 1
  BY DEF Values
<1>6. Values([width |-> n, signed |-> signed]) = IF signed THEN -(2^m) .. 2^m - 1 ELSE 0 .. 2^(m + 1) - 1
  BY <1>4, <1>5, Zenon
<1> QED
  BY <1>2, <1>4, <1>5, <1>6

LEMMA BytesAreDigits ==
    ASSUME NEW bytes \in Seq(Bytes)
    PROVE  Digits(bytes, ByteBits, Len(bytes))
<1>1. \A k \in 1..Len(bytes) : bytes[k] \in Bytes
  OBVIOUS
<1> QED
  BY <1>1 DEF Digits, Bytes

LEMMA RawInteger ==
    ASSUME NEW bytes \in Seq(Bytes), NEW signed \in BOOLEAN
    PROVE  read_integer(bytes, signed) =
             IF signed /\ Number(bytes, ByteBits, Len(bytes)) >= 2^(ByteBits * Len(bytes) - 1)
             THEN Number(bytes, ByteBits, Len(bytes)) - 2^(ByteBits * Len(bytes))
             ELSE Number(bytes, ByteBits, Len(bytes))
<1>1. DOMAIN bytes = 1..Len(bytes)
  OBVIOUS
<1>2. [k \in DOMAIN bytes |-> bytes[k] * 2^(ByteBits * (k - 1))]
        = [k \in 1..Len(bytes) |-> bytes[k] * 2^(ByteBits * (k - 1))]
  BY <1>1, Zenon
<1>3. SumFunction([k \in DOMAIN bytes |-> bytes[k] * 2^(ByteBits * (k - 1))])
        = Number(bytes, ByteBits, Len(bytes))
  BY <1>2, Zenon DEF Number
<1> QED
  BY <1>3 DEF read_integer

\* Bytes read as an integer of their width: a value of the type, and the bytes that
\* stand for it.
LEMMA ReadInteger ==
    ASSUME NEW bytes \in Seq(Bytes), NEW n \in Nat \ {0}, Len(bytes) = n, NEW signed \in BOOLEAN
    PROVE  /\ read_integer(bytes, signed) \in Int
           /\ read_integer(bytes, signed) \in Values([width |-> n, signed |-> signed])
           /\ to_le_bytes(read_integer(bytes, signed), n) = bytes
<1> DEFINE v == read_integer(bytes, signed)
           N == Number(bytes, ByteBits, n)
           M == 2^(ByteBits * n)
           H == 2^(ByteBits * n - 1)
<1>0. ByteBits \in Nat \ {0} /\ Digits(bytes, ByteBits, n)
  BY Widths, BytesAreDigits
<1>1. M \in Nat /\ H \in Nat /\ M = 2 * H
  BY ValuesOf
<1>2. N \in 0..(M - 1)
  BY <1>0, NumberBound, n \in 0..n
<1>3. v = IF signed /\ N >= H THEN N - M ELSE N
  BY RawInteger
<1>4. \E q \in Int : v = N + q * M
  <2>1. N - M = N + (-1) * M /\ N = N + 0 * M
    BY <1>1, <1>2
  <2> QED
    BY <1>3, <2>1
<1>5. v \in Values([width |-> n, signed |-> signed])
  <2>1. Values([width |-> n, signed |-> signed]) = IF signed THEN -H .. H - 1 ELSE 0 .. M - 1
    BY ValuesOf
  <2> HIDE DEF v, N, M, H
  <2> QED
    BY <1>1, <1>2, <1>3, <2>1
<1>6. to_le_bytes(v, n) = bytes
  <2>1. PICK q \in Int : v = N + q * M
    BY <1>4
  <2>2. \A k \in 1..n : ((N + q * M) \div 2^(ByteBits * (k - 1))) % 2^ByteBits = bytes[k]
    BY <1>0, NumberDigit
  <2> HIDE DEF v, N, M
  <2>3. to_le_bytes(v, n) = [k \in 1..n |-> bytes[k]]
    BY <2>1, <2>2 DEF to_le_bytes
  <2> QED
    BY <2>3
<1> HIDE DEF N, M, H
<1>7. v \in Int
  BY <1>1, <1>2, <1>3
<1> QED
  BY <1>5, <1>6, <1>7

\* An integer laid down as bytes reads back as it was.
LEMMA WrittenInteger ==
    ASSUME NEW n \in Nat, NEW v \in Int
    PROVE  /\ to_le_bytes(v, n) \in Seq(Bytes) /\ Len(to_le_bytes(v, n)) = n
           /\ \A signed \in BOOLEAN :
                n # 0 /\ v \in Values([width |-> n, signed |-> signed])
                  => read_integer(to_le_bytes(v, n), signed) = v
<1> DEFINE b == to_le_bytes(v, n)
           N == Number(b, ByteBits, n)
           M == 2^(ByteBits * n)
           H == 2^(ByteBits * n - 1)
<1>0. ByteBits \in Nat \ {0}
  BY Widths
<1>1. \A k \in 1..n : b[k] = (v \div 2^(ByteBits * (k - 1))) % 2^ByteBits
  BY DEF to_le_bytes
<1>2. Digits(b, ByteBits, n) /\ N = v % M
  BY <1>0, <1>1, NumberOfDigits
<1>3. b \in Seq(Bytes) /\ Len(b) = n
  <2>1. \A k \in 1..n : b[k] \in Bytes
    BY <1>2 DEF Digits, Bytes
  <2>2. b = [k \in 1..n |-> b[k]]
    BY DEF to_le_bytes
  <2> HIDE DEF b
  <2> QED
    BY <2>1, <2>2
<1>4. ASSUME NEW signed \in BOOLEAN, n # 0, v \in Values([width |-> n, signed |-> signed])
      PROVE  read_integer(b, signed) = v
  <2> HIDE DEF b
  <2>1. n \in Nat \ {0}
    BY <1>4
  <2>2. M \in Nat /\ H \in Nat /\ M = 2 * H
    BY <2>1, ValuesOf
  <2>3. v \in IF signed THEN -H .. H - 1 ELSE 0 .. M - 1
    BY <1>4, <2>1, ValuesOf
  <2>4. read_integer(b, signed) = IF signed /\ N >= H THEN N - M ELSE N
    BY <1>3, RawInteger
  <2>5. M # 0
    BY <1>0, PowerType, ByteBits * n \in Nat
  <2> HIDE DEF N, M, H
  <2>6. CASE v >= 0
    <3>1. v = 0 * M + v /\ v \in 0..(M - 1)
      BY <2>2, <2>3, <2>6
    <3>2. N = v
      BY <1>2, <2>2, <2>5, <3>1, Euclid
    <3> QED
      BY <2>2, <2>3, <2>4, <3>2
  <2>7. CASE v < 0
    <3> DEFINE q == -1
    <3>1. q \in Int /\ v = q * M + (v + M) /\ v + M \in 0..(M - 1)
      BY <2>2, <2>3, <2>7
    <3> HIDE DEF q
    <3>2. N = v + M
      BY <1>2, <2>2, <2>5, <3>1, Euclid
    <3> QED
      BY <2>2, <2>3, <2>4, <2>7, <3>2
  <2> QED
    BY <2>6, <2>7
<1> HIDE DEF b
<1> QED
  BY <1>3, <1>4 DEF b

-----------------------------------------------------------------------------
(* Bits in bytes                                                           *)

LEMMA MinOfTwo ==
    ASSUME NEW a \in Int, NEW b \in Int
    PROVE  Min({a, b}) = IF a <= b THEN a ELSE b
<1>1. \E x \in {a, b} : \A y \in {a, b} : x <= y
  OBVIOUS
<1>2. Min({a, b}) \in {a, b} /\ \A y \in {a, b} : Min({a, b}) <= y
  BY <1>1 DEF Min
<1> QED
  BY <1>2

LEMMA Ceiling ==
    ASSUME NEW N \in Nat, NEW d \in Nat \ {0}
    PROVE  /\ CeilDiv(N, d) \in Nat /\ N \div d \in Nat /\ N % d \in 0..(d - 1)
           /\ N = (N \div d) * d + (N % d)
           /\ CeilDiv(N, d) = IF N % d = 0 THEN N \div d ELSE N \div d + 1
<1> DEFINE q == N \div d
           r == N % d
<1>1. q \in Int /\ r \in 0..(d - 1) /\ N = q * d + r
  BY Quotients
<1> HIDE DEF q, r
<1>2. q \in Nat
  <2> SUFFICES ASSUME q <= -1 PROVE FALSE
    BY <1>1
  <2>1. q * d <= (-1) * d
    BY <1>1
  <2> QED
    BY <1>1, <2>1
<1>3. CASE r = 0
  <2>1. N + d - 1 = q * d + (d - 1) /\ d - 1 \in 0..(d - 1)
    BY <1>1, <1>3
  <2>2. (N + d - 1) \div d = q
    BY <1>1, <2>1, Euclid
  <2> QED
    BY <1>1, <1>2, <1>3, <2>2 DEF CeilDiv, q, r
<1>4. CASE r # 0
  <2> DEFINE p == q + 1
  <2>1. N + d - 1 = p * d + (r - 1) /\ r - 1 \in 0..(d - 1) /\ p \in Int
    BY <1>1, <1>4
  <2> HIDE DEF p
  <2>2. (N + d - 1) \div d = p
    BY <2>1, Euclid
  <2> QED
    BY <1>1, <1>2, <1>4, <2>2 DEF CeilDiv, p, q, r
<1> QED
  BY <1>3, <1>4

LEMMA FromBitsIsNumber ==
    ASSUME NEW n \in Nat, NEW bits, DOMAIN bits = 1..n, \A b \in 1..n : bits[b] \in {0, 1}
    PROVE  /\ Digits(bits, 1, n) /\ FromBits(bits) = Number(bits, 1, n)
           /\ FromBits(bits) \in 0..(2^n - 1)
<1>1. Digits(bits, 1, n)
  BY DEF Digits
<1>2. \A b \in 1..n : 1 * (b - 1) = b - 1
  OBVIOUS
<1>3. [b \in 1..n |-> bits[b] * 2^(b - 1)] = [b \in 1..n |-> bits[b] * 2^(1 * (b - 1))]
  BY <1>2, Zenon
<1>4. FromBits(bits) = Number(bits, 1, n)
  BY <1>3, Zenon DEF FromBits, Number
<1>5. Number(bits, 1, n) \in 0..(2^(1 * n) - 1)
  BY <1>1, NumberBound, n \in 0..n
<1>6. 2^(1 * n) = 2^n
  BY 1 * n = n, Zenon
<1> QED
  BY <1>1, <1>4, <1>5, <1>6

LEMMA BitOfNumber ==
    ASSUME NEW n \in Nat, NEW bits, DOMAIN bits = 1..n, \A b \in 1..n : bits[b] \in {0, 1},
           NEW b \in 1..n
    PROVE  (FromBits(bits) \div 2^(b - 1)) % 2 = bits[b]
<1> DEFINE w == 1
           z == 0
           N == Number(bits, w, n)
<1>1. Digits(bits, w, n) /\ FromBits(bits) = N /\ N \in Int /\ w \in Nat /\ z \in Int
  BY FromBitsIsNumber
<1>2. w * (b - 1) = b - 1 /\ 2^w = 2 /\ z = 0
  OBVIOUS
<1> HIDE DEF w, z
<1>3. ((N + z * 2^(w * n)) \div 2^(w * (b - 1))) % 2^w = bits[b]
  BY <1>1, NumberDigit
<1>4. N + z * 2^(w * n) = N
  <2>1. 2^(w * n) \in Nat
    BY <1>1, NextPower
  <2> QED
    BY <1>1, <1>2, <2>1
<1> QED
  BY <1>1, <1>2, <1>3, <1>4, Zenon

LEMMA NumberOfBits ==
    ASSUME NEW n \in Nat, NEW v \in 0..(2^n - 1), NEW bits, DOMAIN bits = 1..n,
           \A b \in 1..n : bits[b] = (v \div 2^(b - 1)) % 2
    PROVE  (\A b \in 1..n : bits[b] \in {0, 1}) /\ FromBits(bits) = v
<1>0. 2^n \in Nat \ {0} /\ 1 * n = n /\ 2^1 = 2 /\ v \in Int
  BY PowerType
<1>1. \A b \in 1..n : bits[b] = (v \div 2^(1 * (b - 1))) % 2^1
  <2>1. \A b \in 1..n : 1 * (b - 1) = b - 1
    OBVIOUS
  <2> QED
    BY <1>0, <2>1, Zenon
<1>2. Digits(bits, 1, n) /\ Number(bits, 1, n) = v % 2^(1 * n)
  <2> DEFINE o == 1
  <2>1. o \in Nat /\ n \in Nat /\ v \in Int /\ \A b \in 1..n : bits[b] = (v \div 2^(o * (b - 1))) % 2^o
    BY <1>0, <1>1
  <2> HIDE DEF o
  <2>2. Digits(bits, o, n) /\ Number(bits, o, n) = v % 2^(o * n)
    BY ONLY <2>1, NumberOfDigits
  <2> QED
    BY <2>2 DEF o
<1>3. \A b \in 1..n : bits[b] \in {0, 1}
  BY <1>2 DEF Digits
<1>4. v % 2^n = v
  BY <1>0, Remainder
<1>5. 2^(1 * n) = 2^n
  BY <1>0, Zenon
<1> QED
  BY <1>2, <1>3, <1>4, <1>5, FromBitsIsNumber

\* The bits of byte k of the bytes that hold N bits.
Span(N, k) == Min({k * ByteBits, N}) - (k - 1) * ByteBits

LEMMA SpanOf ==
    ASSUME NEW N \in Nat, NEW k \in 1..CeilDiv(N, ByteBits)
    PROVE  /\ (k - 1) * ByteBits \in Nat /\ Span(N, k) \in 1..ByteBits
           /\ (k - 1) * ByteBits + Span(N, k) <= N
           /\ Min({k * ByteBits, N}) = (k - 1) * ByteBits + Span(N, k)
           /\ \/ Span(N, k) = ByteBits
              \/ k = CeilDiv(N, ByteBits) /\ N % ByteBits # 0 /\ Span(N, k) = N % ByteBits
           /\ k = CeilDiv(N, ByteBits) /\ N % ByteBits # 0 => Span(N, k) = N % ByteBits
<1> DEFINE d == ByteBits
           K == (k - 1) * d
           q == N \div d
           r == N % d
<1>0. d \in Nat \ {0}
  BY Widths
<1>1. /\ CeilDiv(N, d) \in Nat /\ q \in Nat /\ r \in 0..(d - 1) /\ N = q * d + r
      /\ CeilDiv(N, d) = IF r = 0 THEN q ELSE q + 1
  BY <1>0, Ceiling
<1> HIDE DEF d, q, r
<1>2. K \in Nat /\ k * d = K + d /\ k - 1 \in Nat
  BY <1>0, <1>1
<1>3. Min({k * d, N}) = IF K + d <= N THEN K + d ELSE N
  BY <1>0, <1>2, MinOfTwo, k * d \in Int
<1>4. CASE k <= q
  <2>1. k * d <= q * d
    BY <1>0, <1>1, <1>4
  <2>2. K + d <= N
    BY <1>0, <1>1, <1>2, <2>1
  <2>3. Min({k * d, N}) = K + d
    BY <1>3, <2>2
  <2>4. Min({k * d, N}) - K = d
    BY <1>0, <1>2, <2>3
  <2>5. ~(k = CeilDiv(N, d) /\ r # 0)
    BY <1>1, <1>4
  <2> QED
    BY <1>0, <1>2, <2>2, <2>3, <2>4, <2>5 DEF Span, d, r
<1>5. CASE ~(k <= q)
  <2>1. k = q + 1 /\ r # 0 /\ k = CeilDiv(N, d)
    BY <1>1, <1>5 DEF d
  <2>2. K = q * d
    BY <1>1, <2>1
  <2>3. N = K + r /\ ~(K + d <= N)
    BY <1>0, <1>1, <2>2
  <2>4. Min({k * d, N}) = N /\ Min({k * d, N}) - K = r
    BY <1>0, <1>1, <1>2, <1>3, <2>3
  <2> HIDE DEF K
  <2>5. Span(N, k) = r
    BY <2>4 DEF Span, d, K
  <2>6. K + r <= N /\ r \in 1..d
    BY <1>0, <1>1, <2>1, <2>3
  <2> QED
    BY <1>2, <2>1, <2>3, <2>4, <2>5, <2>6 DEF d, r, K
<1> QED
  BY <1>4, <1>5

\* Where bit i of N lies.
LEMMA ByteOfBit ==
    ASSUME NEW N \in Nat, NEW i \in 0..(N - 1)
    PROVE  /\ i \div ByteBits + 1 \in 1..CeilDiv(N, ByteBits)
           /\ (i % ByteBits) + 1 \in 1..Span(N, i \div ByteBits + 1)
           /\ i = ((i \div ByteBits + 1) - 1) * ByteBits + (i % ByteBits)
<1> DEFINE d == ByteBits
           q == N \div d
           r == N % d
           a == i \div d
           b == i % d
<1>0. d \in Nat \ {0}
  BY Widths
<1>1. /\ CeilDiv(N, d) \in Nat /\ q \in Nat /\ r \in 0..(d - 1) /\ N = q * d + r
      /\ CeilDiv(N, d) = IF r = 0 THEN q ELSE q + 1
  BY <1>0, Ceiling
<1>2. a \in Nat /\ b \in 0..(d - 1) /\ i = a * d + b
  BY <1>0, Ceiling, i \in Nat
<1> HIDE DEF d, q, r, a, b
<1>3. a <= q
  <2> SUFFICES ASSUME a >= q + 1 PROVE FALSE
    BY <1>1, <1>2
  <2>1. a * d >= (q + 1) * d
    BY <1>0, <1>1, <1>2
  <2>2. (q + 1) * d = q * d + d
    BY <1>0, <1>1
  <2> QED
    BY <1>0, <1>1, <1>2, <2>1, <2>2
<1>4. a + 1 \in 1..CeilDiv(N, d)
  BY <1>0, <1>1, <1>2, <1>3
<1>5. b + 1 \in 1..Span(N, a + 1)
  <2> DEFINE K == ((a + 1) - 1) * d
             p == Span(N, a + 1)
  <2>1. /\ K \in Nat /\ p \in 1..d
        /\ \/ p = d
           \/ a + 1 = CeilDiv(N, d) /\ r # 0 /\ p = r
    BY <1>4, SpanOf DEF d, r
  <2> HIDE DEF p
  <2>2. CASE p = d
    BY <1>0, <1>2, <2>1, <2>2 DEF p
  <2>3. CASE a + 1 = CeilDiv(N, d) /\ r # 0 /\ p = r
    <3>1. a = q
      BY <1>1, <1>2, <2>3
    <3>2. b < r
      BY <1>0, <1>1, <1>2, <3>1
    <3> QED
      BY <1>0, <1>1, <1>2, <2>1, <2>3, <3>2 DEF p
  <2> QED
    BY <2>1, <2>2, <2>3
<1>6. (a + 1) - 1 = a
  BY <1>2
<1> QED
  BY <1>2, <1>4, <1>5, <1>6 DEF a, b, d

\* What ToBytes puts into a byte.
LEMMA ByteOfBits ==
    ASSUME NEW bits \in Seq({0, 1}), NEW k \in 1..CeilDiv(Len(bits), ByteBits)
    PROVE  LET part == [b \in 1..Span(Len(bits), k) |-> bits[(k - 1) * ByteBits + b]]
           IN  /\ ToBytes(bits)[k] = FromBits(part)
               /\ \A b \in 1..Span(Len(bits), k) : part[b] \in {0, 1}
<1> DEFINE N == Len(bits)
           K == (k - 1) * ByteBits
           n == Span(N, k)
           part == [b \in 1..n |-> bits[K + b]]
<1>1. N \in Nat /\ K \in Nat /\ n \in 1..ByteBits /\ K + n <= N /\ Min({k * ByteBits, N}) = K + n
  <2>1. N \in Nat
    OBVIOUS
  <2> QED
    BY <2>1, SpanOf
<1>2. ByteBits \in Nat
  BY Widths
<1>3. ToBytes(bits)[k] = FromBits(SubSeq(bits, K + 1, Min({k * ByteBits, N})))
  BY DEF ToBytes
<1>4. Min({k * ByteBits, N}) = K + n
  BY <1>1
<1>5. ToBytes(bits)[k] = FromBits(SubSeq(bits, K + 1, K + n))
  BY <1>3, <1>4, Zenon
<1> HIDE DEF K, n, N
<1>6. SubSeq(bits, K + 1, K + n) = part
  BY <1>1, <1>2, Slice
<1>7. \A b \in 1..n : K + b \in 1..N
  BY <1>1, <1>2
<1>8. \A j \in 1..N : bits[j] \in {0, 1}
  BY DEF N
<1>9. \A b \in 1..n : part[b] \in {0, 1}
  BY <1>7, <1>8
<1> QED
  BY <1>5, <1>6, <1>9 DEF K, n, N

\* Bits laid into bytes are read back where they were, and the rest is zeros.
LEMMA BytesOfBits ==
    ASSUME NEW bits \in Seq({0, 1}), NEW N, N = Len(bits)
    PROVE  /\ N \in Nat /\ ToBytes(bits) \in Seq(Bytes)
           /\ Len(ToBytes(bits)) = CeilDiv(N, ByteBits)
           /\ \A i \in 0..(N - 1) : Bit(ToBytes(bits), i) = bits[i + 1]
           /\ N % ByteBits # 0 => Last(ToBytes(bits)) \div 2^(N % ByteBits) = 0
<1> DEFINE D == CeilDiv(N, ByteBits)
           out == ToBytes(bits)
           part(k) == [b \in 1..Span(N, k) |-> bits[(k - 1) * ByteBits + b]]
<1>0. ByteBits \in Nat \ {0} /\ N \in Nat
  BY Widths
<1>1. D \in Nat
  BY <1>0, Ceiling
<1>2. ASSUME NEW k \in 1..D
      PROVE  /\ Span(N, k) \in 1..ByteBits /\ out[k] = FromBits(part(k))
             /\ \A b \in 1..Span(N, k) : part(k)[b] \in {0, 1}
             /\ out[k] \in 0..(2^Span(N, k) - 1)
             /\ out[k] \in Bytes
  <2>1. Span(N, k) \in 1..ByteBits
    BY <1>0, SpanOf
  <2>2. out[k] = FromBits(part(k)) /\ \A b \in 1..Span(N, k) : part(k)[b] \in {0, 1}
    BY ByteOfBits
  <2>3. DOMAIN part(k) = 1..Span(N, k) /\ Span(N, k) \in Nat
    BY <2>1
  <2> HIDE DEF part, out
  <2>4. out[k] \in 0..(2^Span(N, k) - 1)
    BY <2>2, <2>3, FromBitsIsNumber
  <2>5. 2^Span(N, k) <= 2^ByteBits /\ 2^Span(N, k) \in Nat /\ 2^ByteBits \in Nat
    BY <1>0, <2>1, <2>3, PowerMonotone, PowerType
  <2>6. out[k] \in Bytes
    BY <2>4, <2>5 DEF Bytes
  <2> QED
    BY <2>1, <2>2, <2>4, <2>6
<1>3. out \in Seq(Bytes) /\ Len(out) = D
  <2>1. out = [k \in 1..D |-> out[k]]
    BY DEF ToBytes
  <2> HIDE DEF out, D, part
  <2>2. \A k \in 1..D : out[k] \in Bytes
    BY <1>2
  <2> QED
    BY <1>1, <2>1, <2>2
<1>4. ASSUME NEW i \in 0..(N - 1) PROVE Bit(out, i) = bits[i + 1]
  <2> DEFINE k == i \div ByteBits + 1
             b == (i % ByteBits) + 1
  <2>1. k \in 1..D /\ b \in 1..Span(N, k) /\ i = (k - 1) * ByteBits + (b - 1)
    <3>1. /\ k \in 1..D /\ b \in 1..Span(N, k)
          /\ i = (k - 1) * ByteBits + (i % ByteBits)
      BY <1>0, ByteOfBit
    <3>2. i % ByteBits = b - 1
      BY <1>0, Quotients, i \in Int
    <3> QED
      BY <3>1, <3>2
  <2>2. Bit(out, i) = (out[k] \div 2^(b - 1)) % 2
    <3>1. i % ByteBits = b - 1
      BY <1>0, Quotients, i \in Int
    <3> QED
      BY <3>1, Zenon DEF Bit
  <2> HIDE DEF k, b, out, D
  <2>3. (FromBits(part(k)) \div 2^(b - 1)) % 2 = part(k)[b]
    <3>0. Span(N, k) \in 1..ByteBits /\ DOMAIN part(k) = 1..Span(N, k)
      BY <1>2, <2>1
    <3>1. Span(N, k) \in Nat /\ DOMAIN part(k) = 1..Span(N, k)
      BY <1>0, <3>0
    <3>2. \A c \in 1..Span(N, k) : part(k)[c] \in {0, 1}
      BY <1>2, <2>1
    <3> DEFINE m == Span(N, k)
               f == part(k)
    <3>3. m \in Nat /\ DOMAIN f = 1..m /\ (\A c \in 1..m : f[c] \in {0, 1}) /\ b \in 1..m
      BY <2>1, <3>1, <3>2
    <3> HIDE DEF m, f
    <3>4. (FromBits(f) \div 2^(b - 1)) % 2 = f[b]
      BY ONLY <3>3, BitOfNumber
    <3> QED
      BY <3>4 DEF f
  <2>4. part(k)[b] = bits[(k - 1) * ByteBits + b]
    BY <2>1
  <2>5. (k - 1) * ByteBits + b = i + 1
    <3>1. k \in Int /\ b \in Int /\ (k - 1) * ByteBits \in Int
      BY <1>0, <1>1, <1>2, <2>1
    <3> QED
      BY <2>1, <3>1
  <2>6. out[k] = FromBits(part(k))
    BY <1>2, <2>1
  <2> HIDE DEF part
  <2> QED
    BY <2>2, <2>3, <2>4, <2>5, <2>6, Zenon
<1>5. ASSUME N % ByteBits # 0 PROVE Last(out) \div 2^(N % ByteBits) = 0
  <2>1. D \in 1..D
    <3>1. D = N \div ByteBits + 1 /\ N \div ByteBits \in Nat
      BY <1>0, <1>5, Ceiling
    <3> QED
      BY <3>1
  <2>2. Span(N, D) = N % ByteBits
    BY <1>0, <1>5, <2>1, SpanOf
  <2> HIDE DEF D, out
  <2>3. out[D] \in 0..(2^Span(N, D) - 1)
    BY <1>2, <2>1
  <2>4. out[D] \in 0..(2^(N % ByteBits) - 1)
    BY <2>2, <2>3, Zenon
  <2>5. 2^(N % ByteBits) \in Nat \ {0}
    BY <1>0, Quotients, PowerType
  <2>6. out[D] \div 2^(N % ByteBits) = 0
    BY <2>4, <2>5, Remainder
  <2> QED
    BY <1>3, <2>6 DEF Last
<1> QED
  BY <1>0, <1>3, <1>4, <1>5

LEMMA BitType ==
    ASSUME NEW data \in Seq(Bytes), NEW N \in Nat, Len(data) = CeilDiv(N, ByteBits),
           NEW i \in 0..(N - 1)
    PROVE  Bit(data, i) \in {0, 1}
<1>1. i \div ByteBits + 1 \in 1..CeilDiv(N, ByteBits)
  BY ByteOfBit
<1>2. data[i \div ByteBits + 1] \in Nat
  BY <1>1, Widths
<1>3. i % ByteBits \in Nat
  BY Widths, Quotients, i \in Int
<1>4. 2^(i % ByteBits) \in Nat \ {0}
  BY <1>3, PowerType
<1> DEFINE x == data[i \div ByteBits + 1]
           y == 2^(i % ByteBits)
<1>5. x \in Int /\ y \in Nat \ {0}
  BY <1>2, <1>4
<1>6. Bit(data, i) = (x \div y) % 2
  BY DEF Bit
<1> HIDE DEF x, y
<1>7. x \div y \in Int
  BY <1>5, Quotients
<1> QED
  BY <1>6, <1>7

\* Bytes with zeros behind the bits they hold are the ones those bits are laid into.
LEMMA BitsOfBytes ==
    ASSUME NEW data \in Seq(Bytes), NEW N \in Nat, Len(data) = CeilDiv(N, ByteBits),
           N % ByteBits # 0 => Last(data) \div 2^(N % ByteBits) = 0,
           NEW bits \in Seq({0, 1}), Len(bits) = N,
           \A i \in 0..(N - 1) : bits[i + 1] = Bit(data, i)
    PROVE  ToBytes(bits) = data
<1> DEFINE D == CeilDiv(N, ByteBits)
           out == ToBytes(bits)
<1>0. ByteBits \in Nat \ {0} /\ D \in Nat
  BY Widths, Ceiling
<1>1. out \in Seq(Bytes) /\ Len(out) = D
  BY BytesOfBits
<1>2. ASSUME NEW k \in 1..D PROVE out[k] = data[k]
  <2> DEFINE K == (k - 1) * ByteBits
             n == Span(N, k)
             part == [b \in 1..n |-> bits[K + b]]
  <2>1. /\ K \in Nat /\ n \in 1..ByteBits /\ K + n <= N
        /\ \/ n = ByteBits
           \/ k = D /\ N % ByteBits # 0 /\ n = N % ByteBits
    BY SpanOf
  <2>2. out[k] = FromBits(part)
    BY ByteOfBits
  <2>3. data[k] \in 0..(2^n - 1)
    <3>0. data[k] \in Bytes /\ data[k] \in Nat
      BY Widths
    <3>1. CASE n = ByteBits
      <4>1. data[k] \in 0..(2^ByteBits - 1)
        BY <3>0 DEF Bytes
      <4> QED
        BY <3>1, <4>1, Zenon
    <3>2. CASE k = D /\ N % ByteBits # 0 /\ n = N % ByteBits
      <4>1. Last(data) = data[k]
        BY <3>2 DEF Last
      <4>2. data[k] \div 2^n = 0
        BY <3>2, <4>1, Zenon
      <4>3. 2^n \in Nat \ {0}
        BY <2>1, PowerType, n \in Nat
      <4> DEFINE P == 2^n
                 x == data[k]
      <4>4. x \div P = 0 /\ P \in Nat \ {0} /\ x \in Int
        BY <3>0, <4>2, <4>3
      <4> HIDE DEF P, x
      <4>5. x = (x \div P) * P + (x % P) /\ x % P \in 0..(P - 1)
        BY <4>4, Quotients
      <4>6. x \in 0..(P - 1)
        BY <4>4, <4>5
      <4> QED
        BY <4>6 DEF P, x
    <3> QED
      BY <2>1, <3>1, <3>2
  <2>4. ASSUME NEW b \in 1..n PROVE part[b] = (data[k] \div 2^(b - 1)) % 2
    <3> DEFINE i == K + b - 1
    <3>1. b - 1 \in 0..(ByteBits - 1) /\ i = (k - 1) * ByteBits + (b - 1) /\ k - 1 \in Int
      BY <1>0, <2>1
    <3>2. i \div ByteBits = k - 1 /\ i % ByteBits = b - 1
      <4> DEFINE p == k - 1
                 c == b - 1
      <4>1. /\ ByteBits \in Nat \ {0} /\ p \in Int /\ c \in 0..(ByteBits - 1)
            /\ i = p * ByteBits + c
        BY <1>0, <3>1
      <4> HIDE DEF i, p, c
      <4>2. i \div ByteBits = p /\ i % ByteBits = c
        BY ONLY <4>1, Euclid
      <4> QED
        BY <4>2 DEF p, c
    <3>3. i \in 0..(N - 1) /\ i + 1 = K + b
      BY <1>0, <2>1
    <3>4. (i \div ByteBits) + 1 = k
      BY <3>2
    <3> HIDE DEF i, K, n
    <3>5. part[b] = Bit(data, i)
      BY <3>3
    <3> HIDE DEF part
    <3> QED
      BY <3>2, <3>4, <3>5, Zenon DEF Bit
  <2>5. DOMAIN part = 1..n /\ n \in Nat
    BY <2>1
  <2> HIDE DEF part, n
  <2>6. FromBits(part) = data[k]
    <3> DEFINE x == data[k]
    <3>1. /\ n \in Nat /\ x \in 0..(2^n - 1) /\ DOMAIN part = 1..n
          /\ \A b \in 1..n : part[b] = (x \div 2^(b - 1)) % 2
      BY <2>3, <2>4, <2>5
    <3> HIDE DEF x
    <3>2. FromBits(part) = x
      BY ONLY <3>1, NumberOfBits
    <3> QED
      BY <3>2 DEF x
  <2> QED
    BY <2>2, <2>6
<1> HIDE DEF D, out
<1>3. Len(data) = D
  BY DEF D
<1>4. out = data
  BY <1>0, <1>1, <1>2, <1>3
<1> QED
  BY <1>4 DEF out

-----------------------------------------------------------------------------
(* Bit packing                                                             *)

\* Which bit of which value bit i of the packed values is, and back.
LEMMA PlaceOf ==
    ASSUME NEW w \in Nat, NEW count \in Nat, NEW i \in 0..(count * w - 1)
    PROVE  /\ w # 0 /\ i \div w + 1 \in 1..count /\ i % w \in 0..(w - 1)
           /\ i = (i \div w) * w + (i % w)
<1>1. w # 0
  OBVIOUS
<1> DEFINE a == i \div w
           b == i % w
<1>2. a \in Nat /\ b \in 0..(w - 1) /\ i = a * w + b
  BY <1>1, Ceiling, i \in Nat, w \in Nat \ {0}
<1> HIDE DEF a, b
<1>3. a < count
  <2> SUFFICES ASSUME a >= count PROVE FALSE
    BY <1>2
  <2>1. a * w >= count * w
    BY <1>2
  <2> QED
    BY <1>2, <2>1
<1> QED
  BY <1>1, <1>2, <1>3 DEF a, b

LEMMA PlaceBack ==
    ASSUME NEW w \in Nat, NEW count \in Nat, NEW k \in 1..count, NEW b \in 1..w
    PROVE  /\ (k - 1) * w + b - 1 \in 0..(count * w - 1)
           /\ ((k - 1) * w + b - 1) \div w = k - 1
           /\ ((k - 1) * w + b - 1) % w = b - 1
<1> DEFINE p == k - 1
           c == b - 1
           i == (k - 1) * w + b - 1
<1>1. w \in Nat \ {0} /\ p \in Int /\ p >= 0 /\ p <= count - 1 /\ c \in 0..(w - 1) /\ i = p * w + c
  OBVIOUS
<1> HIDE DEF p, c, i
<1>2. i \div w = p /\ i % w = c
  BY ONLY <1>1, Euclid
<1>3. p * w \in Nat /\ p * w <= (count - 1) * w
  BY <1>1
<1>4. (count - 1) * w = count * w - w
  OBVIOUS
<1>5. i \in 0..(count * w - 1)
  BY <1>1, <1>3, <1>4
<1> QED
  BY <1>2, <1>5 DEF p, c, i

\* The bits of some values of w bits each.
PackedBits(w, values) ==
    [i \in 1..(Len(values) * w) |-> (values[(i - 1) \div w + 1] \div 2^((i - 1) % w)) % 2]

LEMMA PackedBitsAt ==
    ASSUME NEW w \in Nat, NEW values \in Seq(0..(2^w - 1)), NEW count, count = Len(values)
    PROVE  /\ PackedBits(w, values) \in Seq({0, 1}) /\ count * w \in Nat
           /\ Len(PackedBits(w, values)) = count * w
           /\ \A k \in 1..count : \A b \in 1..w :
                PackedBits(w, values)[(k - 1) * w + b] = (values[k] \div 2^(b - 1)) % 2
<1> DEFINE B == PackedBits(w, values)
           N == count * w
<1>0. count \in Nat /\ N \in Nat /\ \A k \in 1..count : values[k] \in Nat
  <2>1. \A k \in 1..count : values[k] \in 0..(2^w - 1)
    OBVIOUS
  <2>2. 2^w \in Nat
    BY PowerType
  <2> QED
    BY <2>1, <2>2
<1>1. ASSUME NEW k \in 1..count, NEW b \in 1..w
      PROVE  (k - 1) * w + b \in 1..N /\ B[(k - 1) * w + b] = (values[k] \div 2^(b - 1)) % 2
  <2> DEFINE j == (k - 1) * w + b - 1
  <2>0. w \in Nat /\ count \in Nat /\ k \in 1..count /\ b \in 1..w
    BY <1>0
  <2>1. j \in 0..(N - 1) /\ j \div w = k - 1 /\ j % w = b - 1
    BY ONLY <2>0, PlaceBack
  <2>2. (k - 1) * w + b = j + 1 /\ j + 1 \in 1..N /\ (j + 1) - 1 = j /\ j \div w + 1 = k
    BY <1>0, <2>1
  <2> HIDE DEF j
  <2>3. B[j + 1] = (values[((j + 1) - 1) \div w + 1] \div 2^(((j + 1) - 1) % w)) % 2
    BY <2>2 DEF PackedBits
  <2>4. B[j + 1] = (values[k] \div 2^(b - 1)) % 2
    BY <2>1, <2>2, <2>3, Zenon
  <2> HIDE DEF B, N
  <2> QED
    BY <2>2, <2>4, Zenon
<1>2. ASSUME NEW i \in 1..N PROVE B[i] \in {0, 1}
  <2> DEFINE x == values[(i - 1) \div w + 1]
             y == 2^((i - 1) % w)
  <2>1. /\ w # 0 /\ (i - 1) \div w + 1 \in 1..count /\ (i - 1) % w \in 0..(w - 1)
    BY <1>0, PlaceOf, i - 1 \in 0..(N - 1)
  <2>2. x \in Int
    BY <1>0, <2>1
  <2>3. y \in Nat \ {0}
    <3>1. (i - 1) % w \in Nat
      BY <2>1
    <3> QED
      BY <3>1, PowerType
  <2>4. B[i] = (x \div y) % 2
    BY DEF PackedBits
  <2> HIDE DEF x, y, B
  <2>5. x \div y \in Int
    BY <2>2, <2>3, Quotients
  <2> QED
    BY <2>4, <2>5
<1>3. B = [i \in 1..N |-> B[i]]
  BY DEF PackedBits
<1> HIDE DEF B, N
<1>4. B \in Seq({0, 1}) /\ Len(B) = N
  <2>1. \A i \in 1..N : B[i] \in {0, 1}
    BY <1>2
  <2>2. N \in Nat
    BY <1>0
  <2> QED
    BY ONLY <1>3, <2>1, <2>2
<1> QED
  BY <1>0, <1>1, <1>4 DEF B, N

LEMMA PackFrom ==
    ASSUME NEW w, NEW values
    PROVE  pack_from(w, values) = <<w>> \o ToBytes(PackedBits(w, values))
  BY DEF pack_from, PackedBits

\* The values that some bytes hold at w bits each.
Unpack(data, w, count) ==
    [k \in 1..count |-> FromBits([b \in 1..w |-> Bit(data, (k - 1) * w + b - 1)])]

\* What the decoder of packed bits asks of a payload.
Holds(payload, count) ==
    /\ payload # <<>> /\ Head(payload) <= WordBits
    /\ Len(Tail(payload)) = CeilDiv(count * Head(payload), ByteBits)
    /\ (count * Head(payload)) % ByteBits # 0 =>
            Last(Tail(payload)) \div 2^((count * Head(payload)) % ByteBits) = 0

LEMMA BitUnpack ==
    ASSUME NEW payload \in Seq(Bytes), NEW count \in Nat
    PROVE  bit_unpack(payload, count) =
             IF Holds(payload, count) THEN Decoded(Unpack(Tail(payload), Head(payload), count))
             ELSE Corrupt
<1>1. CASE payload = <<>>
  BY <1>1 DEF bit_unpack, Holds
<1>2. CASE payload # <<>>
  <2> DEFINE w == Head(payload)
             data == Tail(payload)
  <2>1. w \in Bytes /\ w \in Nat /\ data \in Seq(Bytes)
    BY <1>2, Widths
  <2>2. w = 0 => (data # <<>> <=> Len(data) # CeilDiv(count * w, ByteBits))
    <3>1. w = 0 => count * w = 0
      BY <2>1
    <3>2. CeilDiv(0, ByteBits) = 0
      <4>1. 0 % ByteBits = 0 /\ 0 \div ByteBits = 0
        BY Widths, Remainder, 0 \in 0..(ByteBits - 1)
      <4> QED
        BY <4>1, Widths, Ceiling
    <3>3. data # <<>> <=> Len(data) # 0
      <4> HIDE DEF data
      <4> QED
        BY <2>1
    <3> QED
      BY <3>1, <3>2, <3>3
  <2> DEFINE bad == \/ payload = <<>>
                    \/ w > WordBits
                    \/ w = 0 /\ data # <<>>
                    \/ w # 0 /\ Len(data) # CeilDiv(count * w, ByteBits)
                    \/ (count * w) % ByteBits # 0 /\ Last(data) \div 2^((count * w) % ByteBits) # 0
  <2>3. bit_unpack(payload, count) = IF bad THEN Corrupt ELSE Decoded(Unpack(data, w, count))
    BY DEF bit_unpack, Unpack
  <2>4. bad <=> ~Holds(payload, count)
    <3>1. w > WordBits <=> ~(w <= WordBits)
      BY <2>1, Widths
    <3> QED
      BY <1>2, <2>2, <3>1 DEF Holds
  <2> HIDE DEF bad
  <2> QED
    BY <2>3, <2>4
<1> QED
  BY <1>1, <1>2

\* Every value is in range of the width, and the payload is the one the writer lays
\* down for the values.
LEMMA Unpacked ==
    ASSUME NEW payload \in Seq(Bytes), NEW count \in Nat, bit_unpack(payload, count).ok,
           NEW values, values = bit_unpack(payload, count).values
    PROVE  /\ payload # <<>> /\ payload[1] \in 0..WordBits
           /\ values \in Seq(0..(2^payload[1] - 1)) /\ Len(values) = count
           /\ pack_from(payload[1], values) = payload
<1> DEFINE w == Head(payload)
           data == Tail(payload)
           N == count * w
           word(k) == [b \in 1..w |-> Bit(data, (k - 1) * w + b - 1)]
<1>1. Holds(payload, count) /\ values = Unpack(data, w, count)
  BY BitUnpack DEF Corrupt, Decoded
<1>2. /\ payload # <<>> /\ w \in Nat /\ w \in 0..WordBits /\ data \in Seq(Bytes) /\ w = payload[1]
      /\ payload = <<w>> \o data
  BY <1>1, Widths DEF Holds
<1>3. N \in Nat /\ Len(data) = CeilDiv(N, ByteBits)
  BY <1>1, <1>2 DEF Holds
<1> HIDE DEF data, w
<1>4. ASSUME NEW k \in 1..count
      PROVE  /\ DOMAIN word(k) = 1..w /\ \A b \in 1..w : word(k)[b] \in {0, 1}
             /\ values[k] = FromBits(word(k))
             /\ values[k] \in 0..(2^w - 1)
  <2>1. DOMAIN word(k) = 1..w
    OBVIOUS
  <2>2. ASSUME NEW b \in 1..w PROVE word(k)[b] \in {0, 1}
    <3>1. (k - 1) * w + b - 1 \in 0..(N - 1)
      BY <1>2, PlaceBack
    <3> DEFINE i == (k - 1) * w + b - 1
    <3>2. i \in 0..(N - 1) /\ word(k)[b] = Bit(data, i)
      BY <3>1
    <3> HIDE DEF i, N, word
    <3> QED
      BY <1>2, <1>3, <3>2, BitType
  <2>3. values[k] = FromBits(word(k))
    BY <1>1 DEF Unpack
  <2> HIDE DEF word
  <2>4. values[k] \in 0..(2^w - 1)
    BY <1>2, <2>1, <2>2, <2>3, FromBitsIsNumber
  <2> QED
    BY <2>1, <2>2, <2>3, <2>4
<1>5. values \in Seq(0..(2^w - 1)) /\ Len(values) = count
  <2>1. values = [k \in 1..count |-> values[k]]
    BY <1>1 DEF Unpack
  <2> HIDE DEF word
  <2>2. \A k \in 1..count : values[k] \in 0..(2^w - 1)
    BY <1>4
  <2> QED
    BY <2>1, <2>2
<1> DEFINE B == PackedBits(w, values)
<1>6. B \in Seq({0, 1}) /\ Len(B) = N
  <2>1. w \in Nat /\ values \in Seq(0..(2^w - 1)) /\ count = Len(values)
    BY <1>2, <1>5
  <2> QED
    BY ONLY <2>1, PackedBitsAt
<1>7. ASSUME NEW i \in 0..(N - 1) PROVE B[i + 1] = Bit(data, i)
  <2> DEFINE k == i \div w + 1
             b == (i % w) + 1
  <2>1. w # 0 /\ k \in 1..count /\ i % w \in 0..(w - 1) /\ i = (i \div w) * w + (i % w)
    BY <1>2, PlaceOf
  <2>2. b \in 1..w /\ k - 1 = i \div w /\ b - 1 = i % w /\ k - 1 \in Int
    <3>1. i \div w \in Int
      BY <1>2, <2>1, Quotients, i \in Int, w \in Nat \ {0}
    <3> DEFINE x == i \div w
               y == i % w
    <3>2. x \in Int /\ y \in 0..(w - 1) /\ k = x + 1 /\ b = y + 1
      BY <2>1, <3>1
    <3> HIDE DEF x, y, k, b
    <3>3. b \in 1..w /\ k - 1 = x /\ b - 1 = y /\ k - 1 \in Int
      BY <1>2, <3>2
    <3> QED
      BY <3>3 DEF x, y
  <2>3. i = (k - 1) * w + (b - 1)
    BY <2>1, <2>2
  <2> HIDE DEF k, b
  <2>4. (k - 1) * w + b = i + 1 /\ (k - 1) * w + b - 1 = i
    BY <1>2, <2>2, <2>3
  <2>5. B[(k - 1) * w + b] = (values[k] \div 2^(b - 1)) % 2
    BY <1>2, <1>5, <2>1, <2>2, PackedBitsAt
  <2>6. (FromBits(word(k)) \div 2^(b - 1)) % 2 = word(k)[b]
    <3>1. DOMAIN word(k) = 1..w /\ \A c \in 1..w : word(k)[c] \in {0, 1}
      BY <1>4, <2>1
    <3> HIDE DEF word
    <3> QED
      BY <1>2, <2>2, <3>1, BitOfNumber
  <2>7. values[k] = FromBits(word(k))
    BY <1>4, <2>1
  <2>8. word(k)[b] = Bit(data, (k - 1) * w + b - 1)
    BY <2>2
  <2> HIDE DEF word, B
  <2>9. word(k)[b] = Bit(data, i)
    BY <2>4, <2>8, Zenon
  <2> QED
    BY <2>4, <2>5, <2>6, <2>7, <2>9, Zenon
<1>8. N % ByteBits # 0 => Last(data) \div 2^(N % ByteBits) = 0
  BY <1>1 DEF Holds, data, w
<1> HIDE DEF N, B, word
<1>9. ToBytes(B) = data
  BY <1>2, <1>3, <1>6, <1>7, <1>8, BitsOfBytes
<1>10. pack_from(w, values) = payload
  BY <1>2, <1>9, PackFrom DEF B
<1> QED
  BY <1>2, <1>5, <1>10

\* Values laid down at a width they fit are the ones read back.
LEMMA Packed ==
    ASSUME NEW w \in 0..WordBits, NEW values \in Seq(0..(2^w - 1)), NEW count, count = Len(values)
    PROVE  /\ pack_from(w, values) \in Seq(Bytes)
           /\ Len(pack_from(w, values)) = packed_length(count, w)
           /\ bit_unpack(pack_from(w, values), count) = Decoded(values)
<1> DEFINE B == PackedBits(w, values)
           N == count * w
           data == ToBytes(B)
           payload == pack_from(w, values)
<1>0. w \in Nat /\ w \in Bytes /\ count \in Nat
  BY Widths DEF Bytes
<1>1. /\ B \in Seq({0, 1}) /\ Len(B) = N /\ N \in Nat
      /\ \A k \in 1..count : \A b \in 1..w : B[(k - 1) * w + b] = (values[k] \div 2^(b - 1)) % 2
  <2>1. w \in Nat /\ values \in Seq(0..(2^w - 1)) /\ count = Len(values)
    BY <1>0
  <2> QED
    BY ONLY <2>1, PackedBitsAt
<1> HIDE DEF B
<1>2. /\ data \in Seq(Bytes) /\ Len(data) = CeilDiv(N, ByteBits)
      /\ \A i \in 0..(N - 1) : Bit(data, i) = B[i + 1]
      /\ N % ByteBits # 0 => Last(data) \div 2^(N % ByteBits) = 0
  BY <1>1, BytesOfBits
<1>3. payload = <<w>> \o data
  BY PackFrom DEF B
<1> HIDE DEF data, payload
<1>4. /\ payload \in Seq(Bytes) /\ payload # <<>> /\ Head(payload) = w /\ Tail(payload) = data
      /\ Len(payload) = 1 + Len(data)
  BY <1>0, <1>2, <1>3
<1>5. Holds(payload, count)
  <2>1. w <= WordBits
    BY Widths
  <2> QED
    BY <1>2, <1>4, <2>1, Zenon DEF Holds
<1>6. bit_unpack(payload, count) = Decoded(Unpack(data, w, count))
  BY <1>0, <1>4, <1>5, BitUnpack
<1>7. ASSUME NEW k \in 1..count
      PROVE  FromBits([b \in 1..w |-> Bit(data, (k - 1) * w + b - 1)]) = values[k]
  <2> DEFINE word == [b \in 1..w |-> Bit(data, (k - 1) * w + b - 1)]
  <2>1. ASSUME NEW b \in 1..w PROVE word[b] = (values[k] \div 2^(b - 1)) % 2
    <3> DEFINE i == (k - 1) * w + b - 1
    <3>1. i \in 0..(N - 1) /\ i + 1 = (k - 1) * w + b
      BY <1>0, PlaceBack
    <3>2. word[b] = Bit(data, i)
      OBVIOUS
    <3> HIDE DEF i, word
    <3>3. Bit(data, i) = B[(k - 1) * w + b]
      BY <1>2, <3>1
    <3> QED
      BY <1>1, <3>2, <3>3
  <2>2. DOMAIN word = 1..w /\ values[k] \in 0..(2^w - 1)
    BY <1>0
  <2> HIDE DEF word
  <2>3. FromBits(word) = values[k]
    <3> DEFINE v == values[k]
    <3>1. /\ w \in Nat /\ v \in 0..(2^w - 1) /\ DOMAIN word = 1..w
          /\ \A b \in 1..w : word[b] = (v \div 2^(b - 1)) % 2
      BY <1>0, <2>1, <2>2
    <3> HIDE DEF v
    <3>2. FromBits(word) = v
      BY ONLY <3>1, NumberOfBits
    <3> QED
      BY <3>2 DEF v
  <2> QED
    BY <2>3 DEF word
<1>8. Unpack(data, w, count) = values
  <2>1. Unpack(data, w, count) = [k \in 1..count |-> values[k]]
    BY <1>7 DEF Unpack
  <2> QED
    BY <2>1
<1>9. Len(payload) = packed_length(count, w)
  BY <1>2, <1>4 DEF packed_length
<1> QED
  BY <1>4, <1>6, <1>8, <1>9 DEF payload

-----------------------------------------------------------------------------
(* Running sums                                                            *)

SumStep(first, d, g, k) == IF k = 1 THEN first ELSE g[k - 1] + d[k - 1]

LEMMA SumStepsExist ==
    ASSUME NEW first, NEW d, NEW n \in Nat
    PROVE  \E g : g = [k \in 1..n |-> SumStep(first, d, g, k)]
<1> DEFINE Solved == {m \in Nat : \E g : g = [k \in 1..m |-> SumStep(first, d, g, k)]}
<1>1. 0 \in Solved
  <2>1. [k \in 1..0 |-> 0] = [k \in 1..0 |-> SumStep(first, d, [j \in 1..0 |-> 0], k)]
    OBVIOUS
  <2> QED
    BY <2>1
<1>2. ASSUME NEW m \in 0..(n - 1), m \in Solved PROVE m + 1 \in Solved
  <2>1. PICK g : g = [k \in 1..m |-> SumStep(first, d, g, k)]
    BY <1>2
  <2> DEFINE h == [k \in 1..(m + 1) |-> SumStep(first, d, g, k)]
  <2>2. \A k \in 1..m : h[k] = g[k]
    BY <2>1
  <2>3. \A k \in 1..(m + 1) : SumStep(first, d, g, k) = SumStep(first, d, h, k)
    <3>1. \A k \in 1..(m + 1) : k # 1 => k - 1 \in 1..m
      OBVIOUS
    <3> HIDE DEF h
    <3> QED
      BY <2>2, <3>1 DEF SumStep
  <2>4. h = [k \in 1..(m + 1) |-> SumStep(first, d, h, k)]
    BY <2>3
  <2>5. m + 1 \in Nat
    OBVIOUS
  <2> HIDE DEF h
  <2> QED
    BY <2>4, <2>5
<1>3. \A m \in 0..n : m \in Solved
  <2> HIDE DEF Solved
  <2> QED
    BY <1>1, <1>2, SetInduction
<1>4. n \in Solved
  BY <1>3, n \in 0..n
<1> QED
  BY <1>4

LEMMA PartialSumsAt ==
    ASSUME NEW first \in Int, NEW d \in Seq(Int)
    PROVE  /\ PartialSums(first, d) \in Seq(Int) /\ Len(PartialSums(first, d)) = Len(d) + 1
           /\ PartialSums(first, d)[1] = first
           /\ \A k \in 1..Len(d) : PartialSums(first, d)[k + 1] = PartialSums(first, d)[k] + d[k]
<1> DEFINE n == Len(d) + 1
           g == CHOOSE h : h = [k \in 1..n |-> SumStep(first, d, h, k)]
<1>0. n \in Nat /\ Len(d) \in Nat /\ n = Len(d) + 1
  OBVIOUS
<1>1. g = [k \in 1..n |-> SumStep(first, d, g, k)]
  BY <1>0, SumStepsExist
<1>2. PartialSums(first, d) = g
  BY DEF PartialSums, SumStep
<1> HIDE DEF g, n
<1>3. g[1] = first /\ DOMAIN g = 1..n
  BY <1>0, <1>1, 1 \in 1..n DEF SumStep
<1>4. ASSUME NEW k \in 1..Len(d) PROVE g[k + 1] = g[k] + d[k]
  <2>1. k + 1 \in 1..n /\ k + 1 # 1 /\ (k + 1) - 1 = k
    BY <1>0
  <2>2. g[k + 1] = SumStep(first, d, g, k + 1)
    BY <1>1, <2>1
  <2> QED
    BY <2>1, <2>2 DEF SumStep
<1> DEFINE P == {k \in Nat : k = 0 \/ g[k] \in Int}
<1>5. 0 \in P
  OBVIOUS
<1>6. ASSUME NEW k \in 0..(n - 1), k \in P PROVE k + 1 \in P
  <2>1. CASE k = 0
    BY <1>3, <2>1
  <2>2. CASE k # 0
    <3>1. k \in 1..Len(d) /\ g[k] \in Int /\ d[k] \in Int /\ k + 1 \in Nat
      BY <1>0, <1>6, <2>2
    <3>2. g[k + 1] = g[k] + d[k]
      BY <1>4, <3>1
    <3> QED
      BY <3>1, <3>2
  <2> QED
    BY <2>1, <2>2
<1>7. \A k \in 0..n : k \in P
  <2> HIDE DEF P
  <2> QED
    BY <1>0, <1>5, <1>6, SetInduction
<1>8. \A k \in 1..n : g[k] \in Int
  BY <1>0, <1>7
<1>9. g = [k \in 1..n |-> g[k]]
  BY <1>1
<1>10. g \in Seq(Int) /\ Len(g) = n
  BY ONLY <1>0, <1>8, <1>9
<1> QED
  BY <1>0, <1>2, <1>3, <1>4, <1>10

\* The differences of running sums are what was summed.
LEMMA DeltasOfSums ==
    ASSUME NEW first \in Int, NEW d \in Seq(Int)
    PROVE  adjacent_deltas(PartialSums(first, d)) = d
<1> DEFINE s == PartialSums(first, d)
<1>1. s \in Seq(Int) /\ Len(s) = Len(d) + 1 /\ \A k \in 1..Len(d) : s[k + 1] = s[k] + d[k]
  BY PartialSumsAt
<1> HIDE DEF s
<1>2. Len(s) - 1 = Len(d)
  BY <1>1
<1>3. \A k \in 1..Len(d) : s[k + 1] - s[k] = d[k]
  <2> SUFFICES ASSUME NEW k \in 1..Len(d) PROVE s[k + 1] - s[k] = d[k]
    OBVIOUS
  <2>1. s[k] \in Int /\ d[k] \in Int /\ s[k + 1] = s[k] + d[k]
    BY <1>1
  <2> QED
    BY <2>1
<1>4. adjacent_deltas(s) = [k \in 1..Len(d) |-> d[k]]
  BY <1>2, <1>3 DEF adjacent_deltas
<1> QED
  BY <1>4 DEF s

-----------------------------------------------------------------------------
(* Zigzag                                                                  *)

LEMMA UnZigZag ==
    ASSUME NEW w \in 0..WordBits, NEW v \in 0..(2^w - 1)
    PROVE  unzigzag(v) \in Int /\ unzigzag(v) \in Int64 /\ zigzag(unzigzag(v)) = v
<1> DEFINE H == 2^(ByteBits * WordBytes - 1)
<1>0. WordBytes \in Nat \ {0} /\ w \in Nat /\ WordBits \in Nat
  BY Widths
<1>1. H \in Nat /\ 2^WordBits = 2 * H /\ Int64 = -H .. H - 1
  BY <1>0, ValuesOf DEF Int64, WordBits
<1>2. 2^w <= 2^WordBits /\ 2^w \in Nat
  BY <1>0, PowerMonotone, PowerType
<1>3. v \in Nat /\ v < 2 * H
  BY <1>1, <1>2
<1> HIDE DEF H
<1> QED
  BY <1>1, <1>3 DEF unzigzag, zigzag

LEMMA UnZigZagged ==
    ASSUME NEW w \in 0..WordBits, NEW packed \in Seq(0..(2^w - 1))
    PROVE  /\ UnZigZags(packed) \in Seq(Int) /\ Len(UnZigZags(packed)) = Len(packed)
           /\ \A k \in 1..Len(packed) : UnZigZags(packed)[k] \in Int64
           /\ ZigZags(UnZigZags(packed)) = packed
<1> DEFINE u == UnZigZags(packed)
           n == Len(packed)
<1>1. u = [k \in 1..n |-> unzigzag(packed[k])] /\ n \in Nat
  BY DEF UnZigZags
<1>2. ASSUME NEW k \in 1..n
      PROVE  u[k] \in Int /\ u[k] \in Int64 /\ zigzag(u[k]) = packed[k]
  <2> DEFINE v == packed[k]
  <2>1. v \in 0..(2^w - 1)
    OBVIOUS
  <2> HIDE DEF v
  <2>2. unzigzag(v) \in Int /\ unzigzag(v) \in Int64 /\ zigzag(unzigzag(v)) = v
    BY <2>1, UnZigZag
  <2>3. u[k] = unzigzag(v)
    BY <1>1 DEF v
  <2> QED
    BY <2>2, <2>3 DEF v
<1> HIDE DEF u
<1>3. u \in Seq(Int) /\ Len(u) = n
  <2>1. u = [k \in 1..n |-> u[k]]
    BY <1>1
  <2> HIDE DEF n
  <2> QED
    BY <1>1, <1>2, <2>1
<1>4. ZigZags(u) = [k \in 1..n |-> packed[k]]
  BY <1>2, <1>3 DEF ZigZags
<1> QED
  BY <1>2, <1>3, <1>4 DEF u

-----------------------------------------------------------------------------
(* The decoders of integers                                                *)

IntegerTypes == [width : Nat \ {0}, signed : BOOLEAN]

\* As many values as were asked for, each one of the column's type.
Fits(values, count, type) ==
    values \in Seq(Int) /\ Len(values) = count /\ \A k \in 1..count : values[k] \in Values(type)

LEMMA TypeOf ==
    ASSUME NEW type \in IntegerTypes
    PROVE  /\ type.width \in Nat \ {0} /\ type.signed \in BOOLEAN
           /\ Values(type) = Values([width |-> type.width, signed |-> type.signed])
           /\ Values(type) \subseteq Int
<1>1. /\ type.width \in Nat \ {0} /\ type.signed \in BOOLEAN
      /\ type = [width |-> type.width, signed |-> type.signed]
  BY DEF IntegerTypes
<1>2. Values(type) = Values([width |-> type.width, signed |-> type.signed])
  BY <1>1, Zenon
<1> QED
  BY <1>1, <1>2, ValuesOf

LEMMA Narrowed ==
    ASSUME NEW values \in Seq(Int), NEW type, narrowed(values, type).ok
    PROVE  narrowed(values, type).values = values /\ Fits(values, Len(values), type)
  BY DEF narrowed, Decoded, Corrupt, Fits

LEMMA ReadOfType ==
    ASSUME NEW bytes \in Seq(Bytes), NEW type \in IntegerTypes, Len(bytes) = type.width
    PROVE  /\ read_integer(bytes, type.signed) \in Values(type)
           /\ read_integer(bytes, type.signed) \in Int
           /\ to_le_bytes(read_integer(bytes, type.signed), type.width) = bytes
<1>1. /\ type.width \in Nat \ {0} /\ type.signed \in BOOLEAN
      /\ Values(type) = Values([width |-> type.width, signed |-> type.signed])
  BY TypeOf
<1> QED
  BY <1>1, ReadInteger

\* A payload cut into a front and a rest.
LEMMA Cut ==
    ASSUME NEW T, NEW p \in Seq(T), NEW a \in Nat, a <= Len(p)
    PROVE  /\ SubSeq(p, 1, a) \in Seq(T) /\ Len(SubSeq(p, 1, a)) = a
           /\ SubSeq(p, a + 1, Len(p)) \in Seq(T) /\ Len(SubSeq(p, a + 1, Len(p))) = Len(p) - a
           /\ SubSeq(p, 1, a) \o SubSeq(p, a + 1, Len(p)) = p
           /\ a < Len(p) => SubSeq(p, a + 1, Len(p))[1] = p[a + 1]
<1>1. SubSeq(p, 1, a) = [b \in 1..a |-> p[b]]
  <2>1. SubSeq(p, 0 + 1, 0 + a) = [b \in 1..a |-> p[0 + b]]
    BY Slice
  <2> QED
    BY <2>1
<1> DEFINE l == Len(p) - a
<1>2. l \in Nat /\ Len(p) = a + l /\ l = Len(p) - a
  OBVIOUS
<1> HIDE DEF l
<1>3. SubSeq(p, a + 1, a + l) = [b \in 1..l |-> p[a + b]]
  BY <1>2, Slice
<1>4. \A b \in 1..l : a + b \in 1..Len(p)
  BY <1>2
<1>5. \A b \in 1..a : b \in 1..Len(p)
  BY <1>2
<1> DEFINE x == [b \in 1..a |-> p[b]]
           y == [b \in 1..l |-> p[a + b]]
<1>6. x \in Seq(T) /\ Len(x) = a /\ y \in Seq(T) /\ Len(y) = l
  BY <1>2, <1>4, <1>5
<1>7. \A b \in 1..a : x[b] = p[b]
  OBVIOUS
<1>8. \A b \in 1..l : y[b] = p[a + b]
  OBVIOUS
<1> HIDE DEF x, y
<1>9. x \o y = p
  <2>1. x \o y \in Seq(T) /\ Len(x \o y) = Len(p)
    BY <1>2, <1>6
  <2>2. ASSUME NEW i \in 1..Len(p) PROVE (x \o y)[i] = p[i]
    <3>1. CASE i <= a
      BY <1>2, <1>6, <1>7, <3>1
    <3>2. CASE i > a
      <4>1. i - a \in 1..l /\ a + (i - a) = i
        BY <1>2, <3>2
      <4>2. (x \o y)[i] = y[i - a]
        <5>1. i \in 1..(Len(x) + Len(y)) /\ i > Len(x)
          BY <1>2, <1>6, <3>2
        <5>2. (x \o y)[i] = y[i - Len(x)]
          BY ONLY <1>6, <5>1
        <5> QED
          BY <1>6, <5>2
      <4> QED
        BY <1>8, <4>1, <4>2
    <3>3. i <= a \/ i > a
      BY <1>2
    <3> QED
      BY <3>1, <3>2, <3>3
  <2> DEFINE z == x \o y
  <2>3. z \in Seq(T) /\ Len(z) = Len(p) /\ p \in Seq(T) /\ \A i \in 1..Len(p) : z[i] = p[i]
    BY <2>1, <2>2
  <2> HIDE DEF z
  <2>4. z = p
    BY ONLY <2>3
  <2> QED
    BY <2>4 DEF z
<1>10. a < Len(p) => y[1] = p[a + 1]
  BY <1>2, <1>8
<1>11. SubSeq(p, 1, a) = x /\ SubSeq(p, a + 1, Len(p)) = y
  BY <1>1, <1>2, <1>3 DEF x, y
<1> QED
  BY ONLY <1>2, <1>6, <1>9, <1>10, <1>11

\* Equal parts, end to end.
LEMMA FlattenChunks ==
    ASSUME NEW T, NEW p \in Seq(T), NEW w \in Nat \ {0}, NEW count \in Nat, Len(p) = count * w
    PROVE  FlattenSeq([k \in 1..count |-> SubSeq(p, (k - 1) * w + 1, k * w)]) = p
<1> DEFINE s == [k \in 1..count |-> SubSeq(p, (k - 1) * w + 1, k * w)]
           lens == [k \in 1..count |-> w]
           P(k) == SumFunctionOnSet(lens, 1..k)
<1>1. ASSUME NEW k \in 1..count
      PROVE  /\ s[k] \in Seq(T) /\ Len(s[k]) = w
             /\ \A j \in 1..w : s[k][j] = p[(k - 1) * w + j] /\ (k - 1) * w + j \in 1..Len(p)
  <2> DEFINE K == (k - 1) * w
  <2>1. K \in Nat /\ k * w = K + w /\ K + w <= count * w
    <3>1. K \in Nat /\ k * w = K + w
      OBVIOUS
    <3>2. k * w <= count * w
      OBVIOUS
    <3> QED
      BY <3>1, <3>2
  <2>2. s[k] = SubSeq(p, K + 1, K + w)
    <3>1. s[k] = SubSeq(p, K + 1, k * w)
      BY Zenon
    <3> QED
      BY <2>1, <3>1, Zenon
  <2> HIDE DEF K, s
  <2>3. s[k] = [b \in 1..w |-> p[K + b]]
    <3> DEFINE x == s[k]
    <3>1. K \in Nat /\ w \in Nat
      BY <2>1
    <3>2. SubSeq(p, K + 1, K + w) = [b \in 1..w |-> p[K + b]]
      BY ONLY <3>1, Slice
    <3>3. x = SubSeq(p, K + 1, K + w)
      BY <2>2
    <3> HIDE DEF x
    <3>4. x = [b \in 1..w |-> p[K + b]]
      BY ONLY <3>2, <3>3, Zenon
    <3> QED
      BY <3>4 DEF x
  <2>4. \A b \in 1..w : K + b \in 1..Len(p)
    <3> DEFINE M == count * w
    <3>1. w \in Nat /\ K \in Nat /\ K + w <= M /\ Len(p) = M /\ M \in Nat
      BY <2>1
    <3> HIDE DEF M
    <3> QED
      BY ONLY <3>1
  <2>5. \A b \in 1..w : p[K + b] \in T
    BY <2>4
  <2> DEFINE x == s[k]
  <2>6. x = [b \in 1..w |-> p[K + b]] /\ w \in Nat
    BY <2>3
  <2> HIDE DEF x
  <2>7. x \in Seq(T) /\ Len(x) = w /\ \A j \in 1..w : x[j] = p[K + j]
    BY ONLY <2>5, <2>6
  <2> QED
    BY <2>4, <2>7, Zenon DEF K, x
<1>2. s \in Seq(Seq(T)) /\ Len(s) = count
  <2>1. s = [k \in 1..count |-> s[k]] /\ \A k \in 1..count : s[k] \in Seq(T)
    BY <1>1
  <2>2. count \in Nat
    OBVIOUS
  <2> HIDE DEF s
  <2> QED
    BY ONLY <2>1, <2>2
<1>3. \A i \in 1..Len(s) : lens[i] = Len(s[i])
  BY <1>1, <1>2
<1>4. \A k \in 0..count : P(k) = w * k
  <2>1. \A i \in 1..count : lens[i] \in Nat /\ lens[i] = w
    OBVIOUS
  <2> HIDE DEF lens
  <2>2. P(0) = 0 /\ \A k \in 1..count : P(k) = P(k - 1) + w
    BY <2>1, PrefixSum
  <2> DEFINE Good == {k \in Nat : P(k) = w * k}
  <2> HIDE DEF P
  <2>3. 0 \in Good
    BY <2>2
  <2>4. ASSUME NEW k \in 0..(count - 1), k \in Good PROVE k + 1 \in Good
    <3>1. P(k + 1) = P(k) + w
      BY <2>2, k + 1 \in 1..count, (k + 1) - 1 = k
    <3>2. w * (k + 1) = w * k + w /\ k + 1 \in Nat
      OBVIOUS
    <3> QED
      BY <2>4, <3>1, <3>2
  <2>5. \A k \in 0..count : k \in Good
    <3> HIDE DEF Good
    <3> QED
      BY <2>3, <2>4, SetInduction
  <2> QED
    BY <2>5
<1> HIDE DEF s, lens
<1> DEFINE f == FlattenSeq(s)
<1>5. /\ f \in Seq(T) /\ Len(f) = P(Len(s))
      /\ \A i \in 1..Len(s) : \A j \in 1..Len(s[i]) : f[P(i - 1) + j] = s[i][j]
  <2>1. s \in Seq(Seq(T)) /\ \A i \in 1..Len(s) : lens[i] = Len(s[i])
    BY <1>2, <1>3
  <2> QED
    BY ONLY <2>1, FlattenAt
<1> HIDE DEF f, P
<1>6. Len(f) = Len(p)
  <2>1. w * count = count * w
    OBVIOUS
  <2> QED
    BY <1>2, <1>4, <1>5, <2>1
<1>7. ASSUME NEW x \in 1..Len(p) PROVE f[x] = p[x]
  <2> DEFINE a == (x - 1) \div w
             b == (x - 1) % w
  <2>1. a + 1 \in 1..count /\ b \in 0..(w - 1) /\ x - 1 = a * w + b
    <3>1. x - 1 \in 0..(count * w - 1)
      OBVIOUS
    <3> QED
      BY <3>1, PlaceOf
  <2>2. a \in Int
    BY Quotients, x - 1 \in Int
  <2> HIDE DEF a, b
  <2>3. (a + 1) - 1 = a /\ a \in 0..count /\ b + 1 \in 1..w /\ a * w + (b + 1) = x /\ w * a = a * w
    BY <2>1, <2>2
  <2>4. f[P(a) + (b + 1)] = s[a + 1][b + 1] /\ P(a) = a * w
    <3>1. a + 1 \in 1..Len(s) /\ b + 1 \in 1..Len(s[a + 1])
      BY <1>1, <1>2, <2>1, <2>3
    <3>2. f[P((a + 1) - 1) + (b + 1)] = s[a + 1][b + 1]
      BY <1>5, <3>1
    <3> QED
      BY <1>4, <2>3, <3>2
  <2>5. s[a + 1][b + 1] = p[((a + 1) - 1) * w + (b + 1)]
    BY <1>1, <2>1, <2>3
  <2> QED
    BY <2>3, <2>4, <2>5
<1>8. f = p
  BY <1>5, <1>6, <1>7
<1> QED
  BY <1>8 DEF f, s

\* What the writer lays down for values at the bit width and base that these bytes
\* name.
RelaidAs(p, values, type, transform) ==
    LET word == IF transform = "delta_of_delta" THEN type.width + WordBytes ELSE type.width
        bits == p[word + 1]
        base == read_integer(SubSeq(p, 1, type.width), type.signed)
    IN  CASE transform = "raw"                -> raw_bytes(values, type)
          [] transform = "bit_packed"         -> pack_from(p[1], values)
          [] transform = "frame_of_reference" -> frame_of_reference_bytes(base, bits, values, type)
          [] transform = "delta"              -> delta_bytes(bits, values, type)
          [] transform = "delta_of_delta"     -> delta_of_delta_bytes(bits, values, type)

LEMMA RawIntegers ==
    ASSUME NEW p \in Seq(Bytes), NEW count \in Nat, NEW type \in IntegerTypes,
           NEW result, result = raw_integers(p, count, type), result.ok
    PROVE  /\ Fits(result.values, count, type)
           /\ p = RelaidAs(p, result.values, type, "raw")
<1> DEFINE w == type.width
           part(k) == SubSeq(p, (k - 1) * w + 1, k * w)
           vs == [k \in 1..count |-> read_integer(Chunks(p, w)[k], type.signed)]
<1>0. w \in Nat \ {0} /\ type.signed \in BOOLEAN
  BY TypeOf
<1>1. Len(p) = count * w /\ result = narrowed(vs, type)
  BY DEF raw_integers, Corrupt
<1>2. Len(p) \div w = count
  <2>1. (count * w) \div w = count
    BY <1>0, Multiples
  <2> QED
    BY <1>1, <2>1, Zenon
<1>3. \A k \in 1..count : Chunks(p, w)[k] = part(k)
  BY <1>2 DEF Chunks
<1>4. ASSUME NEW k \in 1..count
      PROVE  /\ part(k) \in Seq(Bytes) /\ Len(part(k)) = w
             /\ vs[k] \in Int /\ to_le_bytes(vs[k], w) = part(k)
  <2> DEFINE K == (k - 1) * w
  <2>1. K \in Nat /\ k * w = K + w /\ K + w <= count * w
    <3>1. K \in Nat /\ k * w = K + w
      BY <1>0
    <3>2. k * w <= count * w
      BY <1>0
    <3> QED
      BY <3>1, <3>2
  <2>2. part(k) = SubSeq(p, K + 1, K + w)
    BY <2>1
  <2>3. vs[k] = read_integer(part(k), type.signed)
    BY <1>3
  <2> HIDE DEF K, part, vs
  <2>4. part(k) = [b \in 1..w |-> p[K + b]]
    <3>1. w \in Nat /\ K \in Nat
      BY <1>0, <2>1
    <3> HIDE DEF w
    <3> QED
      BY ONLY <2>2, <3>1, Slice
  <2>5. \A b \in 1..w : p[K + b] \in Bytes
    <3> DEFINE M == count * w
    <3>1. w \in Nat /\ K \in Nat /\ K + w <= M /\ Len(p) = M /\ M \in Nat
      BY <1>0, <1>1, <2>1
    <3> HIDE DEF M, w
    <3>2. \A b \in 1..w : K + b \in 1..Len(p)
      BY ONLY <3>1
    <3> QED
      BY <3>2
  <2>6. part(k) \in Seq(Bytes) /\ Len(part(k)) = w
    <3> DEFINE x == part(k)
    <3>1. x = [b \in 1..w |-> p[K + b]] /\ w \in Nat
      BY <1>0, <2>4
    <3> HIDE DEF x, w
    <3>2. x \in Seq(Bytes) /\ Len(x) = w
      BY ONLY <2>5, <3>1
    <3> QED
      BY <3>2 DEF x
  <2> QED
    BY <1>0, <2>3, <2>6, ReadOfType
<1>5. vs \in Seq(Int) /\ Len(vs) = count
  <2>1. vs = [k \in 1..count |-> vs[k]] /\ count \in Nat /\ \A k \in 1..count : vs[k] \in Int
    BY <1>4
  <2> HIDE DEF vs
  <2> QED
    BY ONLY <2>1
<1>6. raw_bytes(vs, type) = FlattenSeq([k \in 1..count |-> part(k)])
  <2> HIDE DEF vs, part
  <2>1. \A k \in 1..count : to_le_bytes(vs[k], w) = part(k)
    BY <1>4
  <2>2. DOMAIN vs = 1..count
    BY <1>5
  <2>3. [k \in DOMAIN vs |-> to_le_bytes(vs[k], w)] = [k \in 1..count |-> part(k)]
    BY <2>1, <2>2, Zenon
  <2> QED
    BY <2>3 DEF raw_bytes
<1>7. raw_bytes(vs, type) = p
  BY <1>0, <1>1, <1>6, FlattenChunks
<1> HIDE DEF vs
<1>8. result.values = vs /\ Fits(vs, count, type)
  BY <1>1, <1>5, Narrowed
<1> QED
  BY <1>7, <1>8 DEF RelaidAs

LEMMA PackedIntegers ==
    ASSUME NEW p \in Seq(Bytes), NEW count \in Nat, NEW type \in IntegerTypes,
           NEW result, result = packed_integers(p, count, type), result.ok
    PROVE  /\ Fits(result.values, count, type)
           /\ p = RelaidAs(p, result.values, type, "bit_packed")
<1> DEFINE packed == bit_unpack(p, count)
           vs == packed.values
<1>1. packed.ok /\ result = narrowed(vs, type)
  BY DEF packed_integers, Corrupt
<1>2. p[1] \in 0..WordBits /\ vs \in Seq(0..(2^p[1] - 1)) /\ Len(vs) = count /\ pack_from(p[1], vs) = p
  BY <1>1, Unpacked
<1>3. vs \in Seq(Int)
  <2>1. p[1] \in Nat
    BY <1>2, Widths
  <2>2. 2^p[1] \in Nat
    BY <2>1, PowerType
  <2> HIDE DEF vs
  <2> QED
    BY <1>2, <2>2
<1> HIDE DEF packed, vs
<1>4. result.values = vs /\ Fits(vs, count, type)
  BY <1>1, <1>2, <1>3, Narrowed
<1> QED
  BY <1>2, <1>4 DEF RelaidAs

\* The integer in front of a payload and the packed numbers behind it.
FrontOf(p, n, signed, count, first, packed) ==
    /\ p \in Seq(Bytes) /\ n \in Nat \ {0} /\ n <= Len(p) /\ signed \in BOOLEAN
    /\ count \in Nat /\ bit_unpack(SubSeq(p, n + 1, Len(p)), count).ok
    /\ first = read_integer(SubSeq(p, 1, n), signed)
    /\ packed = bit_unpack(SubSeq(p, n + 1, Len(p)), count).values

LEMMA FrontAndPacked ==
    ASSUME NEW p, NEW n, NEW signed, NEW count, NEW first, NEW packed,
           FrontOf(p, n, signed, count, first, packed)
    PROVE  /\ first \in Int /\ p[n + 1] \in 0..WordBits
           /\ packed \in Seq(0..(2^p[n + 1] - 1)) /\ packed \in Seq(Int) /\ Len(packed) = count
           /\ p = to_le_bytes(first, n) \o pack_from(p[n + 1], packed)
<1> DEFINE a == SubSeq(p, 1, n)
           z == SubSeq(p, n + 1, Len(p))
<1>0. /\ p \in Seq(Bytes) /\ n \in Nat \ {0} /\ n <= Len(p) /\ signed \in BOOLEAN
      /\ count \in Nat
  BY DEF FrontOf
<1>1. /\ a \in Seq(Bytes) /\ Len(a) = n /\ z \in Seq(Bytes) /\ Len(z) = Len(p) - n /\ a \o z = p
      /\ n < Len(p) => z[1] = p[n + 1]
  BY <1>0, Cut
<1>01. first = read_integer(a, signed)
  BY Zenon DEF FrontOf
<1>02. bit_unpack(z, count).ok /\ packed = bit_unpack(z, count).values
  BY Zenon DEF FrontOf
<1> HIDE DEF a, z
<1>2. first \in Int /\ to_le_bytes(first, n) = a
  BY <1>0, <1>01, <1>1, ReadInteger
<1>3. /\ z # <<>> /\ z[1] \in 0..WordBits
      /\ packed \in Seq(0..(2^z[1] - 1)) /\ Len(packed) = count /\ pack_from(z[1], packed) = z
  BY ONLY <1>0, <1>02, <1>1, Unpacked
<1>4. z[1] = p[n + 1]
  BY <1>0, <1>1, <1>3
<1>5. packed \in Seq(Int)
  <2>1. z[1] \in Nat
    BY <1>3, Widths
  <2>2. 2^z[1] \in Nat
    BY <2>1, PowerType
  <2> QED
    BY <1>3, <2>2
<1>6. /\ p[n + 1] \in 0..WordBits /\ packed \in Seq(0..(2^p[n + 1] - 1))
      /\ pack_from(p[n + 1], packed) = z
  BY <1>3, <1>4, Zenon
<1> QED
  BY <1>1, <1>2, <1>3, <1>5, <1>6, Zenon

LEMMA FrameOfReference ==
    ASSUME NEW p \in Seq(Bytes), NEW count \in Nat, NEW type \in IntegerTypes,
           NEW result, result = frame_of_reference(p, count, type), result.ok
    PROVE  /\ Fits(result.values, count, type)
           /\ IF count = 0 THEN p = <<>>
              ELSE p = RelaidAs(p, result.values, type, "frame_of_reference")
<1> DEFINE w == type.width
           base == read_integer(SubSeq(p, 1, w), type.signed)
           offsets == bit_unpack(SubSeq(p, w + 1, Len(p)), count)
           off == offsets.values
           vs == [k \in 1..count |-> base + off[k]]
<1>0. w \in Nat \ {0} /\ type.signed \in BOOLEAN
  BY TypeOf
<1>1. CASE count = 0
  BY <1>1 DEF frame_of_reference, empty, Corrupt, Decoded, Fits
<1>2. CASE count # 0
  <2>1. ~(Len(p) < w) /\ offsets.ok /\ result = narrowed(vs, type)
    BY <1>2 DEF frame_of_reference, Corrupt
  <2>2. w <= Len(p)
    BY <1>0, <2>1
  <2>3. /\ base \in Int /\ off \in Seq(Int) /\ Len(off) = count
        /\ p = to_le_bytes(base, w) \o pack_from(p[w + 1], off)
    <3> DEFINE signed == type.signed
    <3>1. FrontOf(p, w, signed, count, base, off)
      BY <1>0, <2>1, <2>2, Zenon DEF FrontOf
    <3> HIDE DEF w, base, off, offsets, signed
    <3> QED
      BY ONLY <3>1, FrontAndPacked
  <2> HIDE DEF base, off, offsets
  <2>4. vs \in Seq(Int) /\ Len(vs) = count /\ [k \in DOMAIN vs |-> vs[k] - base] = off
    <3>1. \A k \in 1..count : off[k] \in Int /\ vs[k] = base + off[k] /\ vs[k] \in Int
      BY <2>3
    <3>2. vs = [k \in 1..count |-> vs[k]] /\ count \in Nat /\ DOMAIN vs = 1..count
      OBVIOUS
    <3> HIDE DEF vs
    <3>3. vs \in Seq(Int) /\ Len(vs) = count
      BY ONLY <3>1, <3>2
    <3>4. \A k \in 1..count : vs[k] - base = off[k]
      BY <2>3, <3>1
    <3>5. [k \in DOMAIN vs |-> vs[k] - base] = [k \in 1..count |-> off[k]]
      BY <3>2, <3>4
    <3> QED
      BY <2>3, <3>3, <3>5
  <2> HIDE DEF vs
  <2>5. result.values = vs /\ Fits(vs, count, type)
    BY <2>1, <2>4, Narrowed
  <2>6. p = frame_of_reference_bytes(base, p[w + 1], vs, type)
    BY <2>3, <2>4, Zenon DEF frame_of_reference_bytes
  <2>7. p = RelaidAs(p, vs, type, "frame_of_reference")
    BY <2>6 DEF RelaidAs, base
  <2> QED
    BY <1>2, <2>5, <2>7
<1> QED
  BY <1>1, <1>2

LEMMA Delta ==
    ASSUME NEW p \in Seq(Bytes), NEW count \in Nat, NEW type \in IntegerTypes,
           NEW result, result = delta(p, count, type), result.ok
    PROVE  /\ Fits(result.values, count, type)
           /\ \A k \in 1..(count - 1) : adjacent_deltas(result.values)[k] \in Int64
           /\ IF count = 0 THEN p = <<>> ELSE p = RelaidAs(p, result.values, type, "delta")
<1> DEFINE w == type.width
           first == read_integer(SubSeq(p, 1, w), type.signed)
           packed == bit_unpack(SubSeq(p, w + 1, Len(p)), count - 1)
           d == packed.values
           u == UnZigZags(d)
           vs == PartialSums(first, u)
<1>0. w \in Nat \ {0} /\ type.signed \in BOOLEAN
  BY TypeOf
<1>1. CASE count = 0
  BY <1>1 DEF delta, empty, Corrupt, Decoded, Fits
<1>2. CASE count = 1
  <2>1. Len(p) = w /\ result = narrowed(<<first>>, type)
    BY <1>2 DEF delta, Corrupt
  <2>2. SubSeq(p, 1, w) = p
    BY <2>1
  <2>3. first \in Int /\ to_le_bytes(first, w) = p
    BY <1>0, <2>1, <2>2, ReadOfType
  <2> HIDE DEF first
  <2>4. result.values = <<first>> /\ Fits(<<first>>, 1, type)
    BY <2>1, <2>3, Narrowed, <<first>> \in Seq(Int), Len(<<first>>) = 1
  <2>5. p = delta_bytes(p[w + 1], <<first>>, type)
    <3>1. delta_bytes(p[w + 1], <<first>>, type) = p \o <<>>
      BY <2>3 DEF delta_bytes
    <3> QED
      BY <3>1
  <2> QED
    BY <1>2, <2>4, <2>5 DEF RelaidAs
<1>3. CASE count # 0 /\ count # 1
  <2>1. ~(Len(p) < w) /\ packed.ok /\ result = narrowed(vs, type)
    BY <1>3 DEF delta, Corrupt
  <2>2. w <= Len(p) /\ count - 1 \in Nat
    BY <1>0, <1>3, <2>1
  <2>3. /\ first \in Int /\ p[w + 1] \in 0..WordBits /\ d \in Seq(0..(2^p[w + 1] - 1))
        /\ Len(d) = count - 1 /\ p = to_le_bytes(first, w) \o pack_from(p[w + 1], d)
    <3> DEFINE signed == type.signed
               m == count - 1
    <3>1. FrontOf(p, w, signed, m, first, d)
      BY <1>0, <2>1, <2>2, Zenon DEF FrontOf
    <3> HIDE DEF w, first, d, packed, signed, m
    <3>2. /\ first \in Int /\ p[w + 1] \in 0..WordBits /\ d \in Seq(0..(2^p[w + 1] - 1))
          /\ Len(d) = m /\ p = to_le_bytes(first, w) \o pack_from(p[w + 1], d)
      BY ONLY <3>1, FrontAndPacked
    <3> QED
      BY <3>2 DEF m
  <2> HIDE DEF first, d, packed
  <2>4. /\ u \in Seq(Int) /\ Len(u) = Len(d) /\ ZigZags(u) = d
        /\ \A k \in 1..Len(d) : u[k] \in Int64
    BY <2>3, UnZigZagged
  <2> HIDE DEF u
  <2>5. /\ vs \in Seq(Int) /\ Len(vs) = Len(u) + 1 /\ vs[1] = first /\ adjacent_deltas(vs) = u
    BY <2>3, <2>4, PartialSumsAt, DeltasOfSums
  <2> HIDE DEF vs
  <2>6. Len(vs) = count /\ Len(vs) # 1
    BY <1>3, <2>3, <2>4, <2>5
  <2>7. result.values = vs /\ Fits(vs, count, type)
    BY <2>1, <2>5, <2>6, Narrowed
  <2>8. p = delta_bytes(p[w + 1], vs, type)
    BY <2>3, <2>4, <2>5, <2>6 DEF delta_bytes
  <2> QED
    BY <1>3, <2>3, <2>4, <2>5, <2>7, <2>8 DEF RelaidAs
<1> QED
  BY <1>1, <1>2, <1>3

\* The rest of a payload cut once more.
LEMMA CutAgain ==
    ASSUME NEW T, NEW p \in Seq(T), NEW a \in Nat, NEW b \in Nat, a + b <= Len(p),
           NEW q, q = SubSeq(p, a + 1, Len(p))
    PROVE  /\ SubSeq(q, 1, b) = SubSeq(p, a + 1, a + b)
           /\ SubSeq(q, b + 1, Len(q)) = SubSeq(p, (a + b) + 1, Len(p))
           /\ a + b < Len(p) => q[b + 1] = p[(a + b) + 1]
<1> DEFINE l == Len(p) - a
           m == Len(p) - (a + b)
<1>1. l \in Nat /\ m \in Nat /\ Len(p) = a + l /\ Len(p) = (a + b) + m /\ l = b + m
  OBVIOUS
<1> HIDE DEF l, m
<1>2. SubSeq(p, a + 1, a + l) = [i \in 1..l |-> p[a + i]]
  BY <1>1, Slice
<1>3. q = [i \in 1..l |-> p[a + i]]
  BY <1>1, <1>2, Zenon
<1>4. Len(q) = l
  BY <1>1, <1>3
<1>5. \A i \in 1..l : q[i] = p[a + i]
  BY <1>3
<1>6. SubSeq(q, 0 + 1, 0 + b) = [i \in 1..b |-> q[0 + i]]
  BY Slice
<1>7. SubSeq(q, 1, b) = [i \in 1..b |-> q[i]]
  BY <1>6
<1>8. SubSeq(p, a + 1, a + b) = [i \in 1..b |-> p[a + i]]
  BY Slice
<1>9. \A i \in 1..b : i \in 1..l
  BY <1>1
<1>10. SubSeq(q, 1, b) = SubSeq(p, a + 1, a + b)
  BY <1>5, <1>7, <1>8, <1>9
<1>11. SubSeq(q, b + 1, b + m) = [i \in 1..m |-> q[b + i]]
  BY <1>1, Slice
<1> DEFINE c == a + b
<1>12. c \in Nat
  OBVIOUS
<1>13. SubSeq(p, c + 1, c + m) = [i \in 1..m |-> p[c + i]]
  <2> HIDE DEF c
  <2> QED
    BY <1>1, <1>12, Slice
<1>14. \A i \in 1..m : b + i \in 1..l /\ a + (b + i) = c + i
  BY <1>1
<1> HIDE DEF c
<1>15. \A i \in 1..m : q[b + i] = p[c + i]
  BY <1>5, <1>14
<1>16. SubSeq(q, b + 1, b + m) = SubSeq(p, c + 1, c + m)
  BY <1>11, <1>13, <1>15
<1>17. b + m = Len(q) /\ c + m = Len(p)
  BY <1>1, <1>4 DEF c
<1>18. SubSeq(q, b + 1, Len(q)) = SubSeq(p, c + 1, Len(p))
  BY <1>16, <1>17, Zenon
<1>19. c < Len(p) => q[b + 1] = p[c + 1]
  <2>1. c < Len(p) => 1 \in 1..m
    BY <1>1, <1>12, <1>17
  <2> QED
    BY <1>15, <2>1
<1> QED
  BY <1>10, <1>18, <1>19 DEF c

\* The parts of a delta-of-delta payload.
Parts(p, count, type, at, packed, step, deltas) ==
    /\ p \in Seq(Bytes) /\ count \in Nat
    /\ at = (type.width + 1) + WordBytes
    /\ packed = bit_unpack(SubSeq(p, at, Len(p)), count - 2)
    /\ step = read_integer(SubSeq(p, type.width + 1, at - 1), TRUE)
    /\ deltas = PartialSums(step, UnZigZags(packed.values))

\* What is asked of them, check by check.
LEMMA DeltaOfDeltaChecks ==
    ASSUME NEW p, NEW count, NEW type, NEW at, NEW packed, NEW step, NEW deltas,
           Parts(p, count, type, at, packed, step, deltas),
           delta_of_delta(p, count, type).ok
    PROVE  /\ ~(count < 2) /\ ~(Len(p) < at - 1) /\ packed.ok /\ ToSet(deltas) \subseteq Int64
           /\ delta_of_delta(p, count, type) =
                narrowed(PartialSums(read_integer(SubSeq(p, 1, type.width), type.signed), deltas),
                         type)
<1>0. ~Corrupt.ok
  BY DEF Corrupt
<1>1. ~(count < 2)
  <2> SUFFICES ASSUME count < 2 PROVE delta_of_delta(p, count, type) = Corrupt
    BY <1>0
  <2> QED
    BY DEF delta_of_delta, Parts
<1>2. ~(Len(p) < at - 1)
  <2> SUFFICES ASSUME Len(p) < at - 1 PROVE delta_of_delta(p, count, type) = Corrupt
    BY <1>0
  <2> QED
    BY DEF delta_of_delta, Parts
<1>3. packed.ok
  <2> SUFFICES ASSUME ~packed.ok PROVE delta_of_delta(p, count, type) = Corrupt
    BY <1>0
  <2> QED
    BY DEF delta_of_delta, Parts
<1>4. ToSet(deltas) \subseteq Int64
  <2> SUFFICES ASSUME ~(ToSet(deltas) \subseteq Int64)
               PROVE  delta_of_delta(p, count, type) = Corrupt
    BY <1>0
  <2> QED
    BY DEF delta_of_delta, Parts
<1> QED
  BY <1>1, <1>2, <1>3, <1>4 DEF delta_of_delta, Parts

LEMMA DeltaOfDelta ==
    ASSUME NEW p \in Seq(Bytes), NEW count \in Nat, NEW type \in IntegerTypes,
           NEW result, result = delta_of_delta(p, count, type), result.ok
    PROVE  /\ Fits(result.values, count, type)
           /\ \A k \in 1..(count - 1) : adjacent_deltas(result.values)[k] \in Int64
           /\ p = RelaidAs(p, result.values, type, "delta_of_delta")
<1> DEFINE w == type.width
           n == w + WordBytes
           first == read_integer(SubSeq(p, 1, w), type.signed)
           step == read_integer(SubSeq(p, w + 1, n), TRUE)
           packed == bit_unpack(SubSeq(p, n + 1, Len(p)), count - 2)
           d == packed.values
           u == UnZigZags(d)
           deltas == PartialSums(step, u)
           vs == PartialSums(first, deltas)
<1>0. w \in Nat \ {0} /\ type.signed \in BOOLEAN /\ WordBytes \in Nat \ {0}
  BY TypeOf, Widths
<1>00. n \in Nat \ {0} /\ (w + 1) + WordBytes - 1 = n /\ (w + 1) + WordBytes = n + 1
  <2> HIDE DEF w
  <2> QED
    BY ONLY <1>0 DEF n
<1>1. /\ ~(count < 2) /\ ~(Len(p) < n) /\ packed.ok /\ ToSet(deltas) \subseteq Int64
      /\ result = narrowed(vs, type)
  <2> DEFINE at == (w + 1) + WordBytes
             rest == bit_unpack(SubSeq(p, at, Len(p)), count - 2)
             move == read_integer(SubSeq(p, w + 1, at - 1), TRUE)
             D == PartialSums(move, UnZigZags(rest.values))
  <2>1. Parts(p, count, type, at, rest, move, D)
    BY Zenon DEF Parts
  <2>2. delta_of_delta(p, count, type).ok
    BY Zenon
  <2>3. at = n + 1 /\ at - 1 = n
    BY <1>00
  <2>4. rest = packed
    BY <2>3, Zenon
  <2>5. move = step
    BY <2>3, Zenon
  <2> HIDE DEF at, rest, move
  <2>6. D = deltas
    BY <2>4, <2>5, Zenon
  <2> HIDE DEF D, deltas, packed, n
  <2>7. /\ ~(count < 2) /\ ~(Len(p) < at - 1) /\ rest.ok /\ ToSet(D) \subseteq Int64
        /\ delta_of_delta(p, count, type) = narrowed(PartialSums(first, D), type)
    BY ONLY <2>1, <2>2, DeltaOfDeltaChecks
  <2> HIDE DEF first
  <2> QED
    BY <2>3, <2>4, <2>6, <2>7
<1> DEFINE q == SubSeq(p, w + 1, Len(p))
           a == SubSeq(p, 1, w)
           m == count - 2
<1>2. n <= Len(p) /\ m \in Nat /\ w <= Len(p) /\ WordBytes <= Len(p) - w /\ w + WordBytes <= Len(p)
  BY <1>0, <1>00, <1>1
<1>3. a \in Seq(Bytes) /\ Len(a) = w /\ q \in Seq(Bytes) /\ Len(q) = Len(p) - w /\ a \o q = p
  <2>1. w \in Nat /\ w <= Len(p) /\ p \in Seq(Bytes)
    BY <1>0, <1>2
  <2> HIDE DEF w
  <2> QED
    BY ONLY <2>1, Cut
<1>4. first \in Int /\ to_le_bytes(first, w) = a
  BY <1>0, <1>3, ReadOfType
<1>5. /\ SubSeq(q, 1, WordBytes) = SubSeq(p, w + 1, n)
      /\ SubSeq(q, WordBytes + 1, Len(q)) = SubSeq(p, n + 1, Len(p))
      /\ n < Len(p) => q[WordBytes + 1] = p[n + 1]
  <2>1. w \in Nat /\ WordBytes \in Nat /\ w + WordBytes <= Len(p) /\ p \in Seq(Bytes)
    BY <1>0, <1>2
  <2> HIDE DEF w
  <2> QED
    BY ONLY <2>1, CutAgain
<1>6. /\ step \in Int /\ q[WordBytes + 1] \in 0..WordBits
      /\ d \in Seq(0..(2^q[WordBytes + 1] - 1)) /\ Len(d) = m
      /\ q = to_le_bytes(step, WordBytes) \o pack_from(q[WordBytes + 1], d)
      /\ Len(q) > WordBytes
  <2> DEFINE yes == TRUE
  <2>1. FrontOf(q, WordBytes, yes, m, step, d)
    <3>1. WordBytes <= Len(q)
      BY <1>2, <1>3
    <3>2. /\ bit_unpack(SubSeq(q, WordBytes + 1, Len(q)), m) = packed
          /\ step = read_integer(SubSeq(q, 1, WordBytes), TRUE)
      BY <1>5, Zenon
    <3> HIDE DEF q, packed, step
    <3> QED
      BY <1>0, <1>1, <1>2, <1>3, <3>1, <3>2, Zenon DEF FrontOf
  <2> HIDE DEF q, step, d, packed, m, yes
  <2>2. /\ step \in Int /\ q[WordBytes + 1] \in 0..WordBits
        /\ d \in Seq(0..(2^q[WordBytes + 1] - 1)) /\ Len(d) = m
        /\ q = to_le_bytes(step, WordBytes) \o pack_from(q[WordBytes + 1], d)
    BY ONLY <2>1, FrontAndPacked
  <2>3. Len(q) > WordBytes
    <3> DEFINE x == to_le_bytes(step, WordBytes)
               y == pack_from(q[WordBytes + 1], d)
    <3>1. x \in Seq(Bytes) /\ Len(x) = WordBytes
      BY <1>0, <2>2, WrittenInteger
    <3>2. y \in Seq(Bytes) /\ Len(y) >= 1
      <4> DEFINE e == q[WordBytes + 1]
      <4>1. e \in 0..WordBits /\ d \in Seq(0..(2^e - 1)) /\ e \in Nat
        BY <2>2, Widths
      <4> HIDE DEF e
      <4>2. pack_from(e, d) \in Seq(Bytes) /\ Len(pack_from(e, d)) = packed_length(Len(d), e)
        BY ONLY <4>1, Packed
      <4>3. CeilDiv(Len(d) * e, ByteBits) \in Nat
        <5>1. Len(d) * e \in Nat
          BY <4>1
        <5> QED
          BY <5>1, Ceiling, Widths
      <4> QED
        BY <4>2, <4>3 DEF packed_length, e
    <3> HIDE DEF x, y
    <3>3. q = x \o y
      BY <2>2 DEF x, y
    <3> QED
      BY ONLY <3>1, <3>2, <3>3, <1>0
  <2> QED
    BY <2>2, <2>3
<1>7. q[WordBytes + 1] = p[n + 1]
  <2>1. n < Len(p)
    <3> DEFINE x == Len(q)
               y == Len(p)
    <3>1. x = y - w /\ x > WordBytes /\ y \in Nat /\ w \in Nat /\ WordBytes \in Nat
      <4>1. y \in Nat /\ w \in Nat /\ WordBytes \in Nat
        BY <1>0
      <4>2. x = y - w /\ x > WordBytes
        BY <1>3, <1>6, Zenon
      <4> QED
        BY <4>1, <4>2, Zenon
    <3> HIDE DEF x, y, w
    <3>2. w + WordBytes < y
      BY ONLY <3>1
    <3> QED
      BY <3>2 DEF y
  <2> QED
    BY <1>5, <2>1
<1> HIDE DEF first, step, d, packed, q, a
<1>8. /\ u \in Seq(Int) /\ Len(u) = Len(d) /\ ZigZags(u) = d
  BY <1>6, UnZigZagged
<1> HIDE DEF u
<1>9. /\ deltas \in Seq(Int) /\ Len(deltas) = Len(u) + 1 /\ deltas[1] = step
      /\ adjacent_deltas(deltas) = u
  BY <1>6, <1>8, PartialSumsAt, DeltasOfSums
<1> HIDE DEF deltas
<1>10. /\ vs \in Seq(Int) /\ Len(vs) = Len(deltas) + 1 /\ vs[1] = first
       /\ adjacent_deltas(vs) = deltas
  BY <1>4, <1>9, PartialSumsAt, DeltasOfSums
<1> HIDE DEF vs
<1>11. Len(vs) = count /\ Len(deltas) = count - 1
  BY <1>6, <1>8, <1>9, <1>10
<1>12. result.values = vs /\ Fits(vs, count, type)
  BY <1>1, <1>10, <1>11, Narrowed
<1>13. p = delta_of_delta_bytes(p[n + 1], vs, type)
  <2> DEFINE x == to_le_bytes(first, w)
             y == to_le_bytes(step, WordBytes)
             z == pack_from(p[n + 1], d)
  <2>1. delta_of_delta_bytes(p[n + 1], vs, type) = (x \o y) \o z
    BY <1>8, <1>9, <1>10, Zenon DEF delta_of_delta_bytes
  <2>2. x \in Seq(Bytes) /\ y \in Seq(Bytes)
    BY <1>0, <1>4, <1>6, WrittenInteger
  <2>3. z \in Seq(Bytes)
    <3> DEFINE e == p[n + 1]
    <3>1. e \in 0..WordBits /\ d \in Seq(0..(2^e - 1))
      BY <1>6, <1>7, Zenon
    <3> HIDE DEF e
    <3>2. pack_from(e, d) \in Seq(Bytes)
      BY ONLY <3>1, Packed
    <3> QED
      BY <3>2 DEF e
  <2>4. q = y \o z
    BY <1>6, <1>7, Zenon
  <2>5. p = x \o q
    BY <1>3, <1>4
  <2> HIDE DEF x, y, z
  <2>6. (x \o y) \o z = x \o (y \o z)
    BY ONLY <2>2, <2>3
  <2> QED
    BY <2>1, <2>4, <2>5, <2>6, Zenon
<1>14. \A k \in 1..(count - 1) : adjacent_deltas(vs)[k] \in Int64
  <2>1. \A k \in 1..Len(deltas) : deltas[k] \in ToSet(deltas)
    BY DEF ToSet
  <2> QED
    BY <1>1, <1>10, <1>11, <2>1
<1>15. RelaidAs(p, vs, type, "delta_of_delta") = delta_of_delta_bytes(p[n + 1], vs, type)
  BY DEF RelaidAs
<1> QED
  BY <1>12, <1>13, <1>14, <1>15
-----------------------------------------------------------------------------
(* Booleans                                                                *)

\* The last running sum is the sum of the whole.
LEMMA SumOfSeq ==
    ASSUME NEW d \in Seq(Nat)
    PROVE  SumSeq(d) = SumFunctionOnSet(d, 1..Len(d)) /\ SumSeq(d) \in Nat
<1> DEFINE n == Len(d)
           z == 0
           s == PartialSums(z, d)
           P(k) == SumFunctionOnSet(d, 1..k)
<1>0. n \in Nat /\ d \in Seq(Int) /\ z \in Int /\ \A i \in 1..n : d[i] \in Nat
  OBVIOUS
<1>1. P(0) = 0 /\ (\A k \in 0..n : P(k) \in Nat) /\ \A k \in 1..n : P(k) = P(k - 1) + d[k]
  BY <1>0, PrefixSum
<1>2. s \in Seq(Int) /\ Len(s) = n + 1 /\ s[1] = 0 /\ \A k \in 1..n : s[k + 1] = s[k] + d[k]
  <2> HIDE DEF z
  <2>1. /\ s \in Seq(Int) /\ Len(s) = n + 1 /\ s[1] = z
        /\ \A k \in 1..n : s[k + 1] = s[k] + d[k]
    BY <1>0, PartialSumsAt
  <2> QED
    BY <2>1 DEF z
<1>3. SumSeq(d) = s[n + 1]
  <2>1. SumSeq(d) = s[Len(s)]
    BY DEF SumSeq, Last
  <2> HIDE DEF s
  <2> QED
    BY <1>2, <2>1
<1> DEFINE Good == {k \in Nat : s[k + 1] = P(k)}
<1> HIDE DEF s, P, n
<1>4. 0 \in Good
  BY <1>1, <1>2
<1>5. ASSUME NEW k \in 0..(n - 1), k \in Good PROVE k + 1 \in Good
  <2>1. k + 1 \in 1..n /\ (k + 1) - 1 = k /\ k + 1 \in Nat
    BY <1>0
  <2>2. s[(k + 1) + 1] = s[k + 1] + d[k + 1] /\ P(k + 1) = P(k) + d[k + 1]
    BY <1>1, <1>2, <2>1
  <2> QED
    BY <1>5, <2>1, <2>2
<1>6. \A k \in 0..n : k \in Good
  <2> HIDE DEF Good
  <2> QED
    BY <1>0, <1>4, <1>5, SetInduction
<1>7. n \in Good
  BY <1>0, <1>6, n \in 0..n
<1> QED
  BY <1>0, <1>1, <1>3, <1>7, n \in 0..n DEF n, P

\* Each value, for as long as its run.
LEMMA Expanded ==
    ASSUME NEW T, NEW lengths \in Seq(Nat), NEW values, NEW out, out = Expand(values, lengths),
           \A r \in 1..Len(lengths) : values[r] \in T
    PROVE  /\ out \in Seq(T) /\ Len(out) = SumSeq(lengths)
           /\ \A r \in 1..Len(lengths) : \A j \in 1..lengths[r] :
                out[SumFunctionOnSet(lengths, 1..(r - 1)) + j] = values[r]
<1> DEFINE n == Len(lengths)
           s == [r \in 1..n |-> [k \in 1..lengths[r] |-> values[r]]]
<1>0. n \in Nat /\ DOMAIN lengths = 1..n
  OBVIOUS
<1>1. out = FlattenSeq(s)
  BY <1>0 DEF Expand
<1>2. ASSUME NEW r \in 1..n
      PROVE  /\ s[r] \in Seq(T) /\ Len(s[r]) = lengths[r]
             /\ \A k \in 1..lengths[r] : s[r][k] = values[r]
  <2> DEFINE l == lengths[r]
             x == values[r]
             y == s[r]
  <2>1. l \in Nat /\ x \in T
    OBVIOUS
  <2>2. y = [k \in 1..l |-> x]
    OBVIOUS
  <2> HIDE DEF l, x, y
  <2>3. y \in Seq(T) /\ Len(y) = l /\ \A k \in 1..l : y[k] = x
    BY ONLY <2>1, <2>2
  <2> QED
    BY <2>3 DEF l, x, y
<1>3. s \in Seq(Seq(T)) /\ Len(s) = n
  <2>1. s = [r \in 1..n |-> s[r]] /\ \A r \in 1..n : s[r] \in Seq(T)
    BY <1>2
  <2>2. n \in Nat
    OBVIOUS
  <2> HIDE DEF s, n
  <2> QED
    BY ONLY <2>1, <2>2
<1>4. \A i \in 1..Len(s) : lengths[i] = Len(s[i])
  BY <1>2, <1>3
<1> HIDE DEF s
<1>5. /\ FlattenSeq(s) \in Seq(T) /\ Len(FlattenSeq(s)) = SumFunctionOnSet(lengths, 1..Len(s))
      /\ \A i \in 1..Len(s) : \A j \in 1..Len(s[i]) :
            FlattenSeq(s)[SumFunctionOnSet(lengths, 1..(i - 1)) + j] = s[i][j]
  <2>1. s \in Seq(Seq(T)) /\ \A i \in 1..Len(s) : lengths[i] = Len(s[i])
    BY <1>3, <1>4
  <2> QED
    BY ONLY <2>1, FlattenAt
<1>6. SumSeq(lengths) = SumFunctionOnSet(lengths, 1..n)
  BY SumOfSeq
<1>7. ASSUME NEW r \in 1..n, NEW j \in 1..lengths[r]
      PROVE  out[SumFunctionOnSet(lengths, 1..(r - 1)) + j] = values[r]
  <2>1. r \in 1..Len(s) /\ j \in 1..Len(s[r])
    BY <1>2, <1>3
  <2>2. FlattenSeq(s)[SumFunctionOnSet(lengths, 1..(r - 1)) + j] = s[r][j]
    BY <1>5, <2>1
  <2> QED
    BY <1>1, <1>2, <2>2
<1> QED
  BY <1>1, <1>3, <1>5, <1>6, <1>7

\* The parts of a run-length payload.
RunParts(p, count, runs, at, lengths) ==
    /\ p \in Seq(Bytes) /\ count \in Nat
    /\ runs = read_integer(SubSeq(p, 1, CountBytes), FALSE)
    /\ at = CountBytes + CeilDiv(runs, ByteBits)
    /\ lengths = bit_unpack(SubSeq(p, at + 1, Len(p)), runs)

\* The value of each run.
RunBits(p, runs, at) == [r \in 1..runs |-> Bit(SubSeq(p, CountBytes + 1, at), r - 1) = 1]

LEMMA RunPartsChecked ==
    ASSUME NEW p, NEW count, NEW runs, NEW at, NEW lengths, RunParts(p, count, runs, at, lengths)
    PROVE  boolean_rle_values(p, count) =
             IF Len(p) < CountBytes \/ runs > count THEN Corrupt
             ELSE IF runs = 0
             THEN IF count = 0 /\ Len(p) = CountBytes THEN Decoded(<<>>) ELSE Corrupt
             ELSE IF \/ Len(p) < at
                     \/ ~lengths.ok
                     \/ 0 \in ToSet(lengths.values)
                     \/ SumSeq(lengths.values) # count
             THEN Corrupt
             ELSE Decoded(Expand(RunBits(p, runs, at), lengths.values))
  BY Zenon DEF boolean_rle_values, RunParts, RunBits

\* The decoder of runs returns as many booleans as were asked for.
LEMMA BooleanRuns ==
    ASSUME NEW p \in Seq(Bytes), NEW count \in Nat,
           NEW result, result = boolean_rle_values(p, count), result.ok
    PROVE  /\ result.values \in Seq(BOOLEAN) /\ Len(result.values) = count
           /\ result = Decoded(result.values)
<1> DEFINE runs == read_integer(SubSeq(p, 1, CountBytes), FALSE)
           at == CountBytes + CeilDiv(runs, ByteBits)
           lengths == bit_unpack(SubSeq(p, at + 1, Len(p)), runs)
           l == lengths.values
           bits == RunBits(p, runs, at)
<1>1. RunParts(p, count, runs, at, lengths)
  BY Zenon DEF RunParts
<1>2. ~Corrupt.ok /\ CountBytes \in Nat \ {0} /\ Len(p) \in Nat
  BY Widths DEF Corrupt
<1>3. result = IF Len(p) < CountBytes \/ runs > count THEN Corrupt
               ELSE IF runs = 0
               THEN IF count = 0 /\ Len(p) = CountBytes THEN Decoded(<<>>) ELSE Corrupt
               ELSE IF \/ Len(p) < at
                       \/ ~lengths.ok
                       \/ 0 \in ToSet(l)
                       \/ SumSeq(l) # count
               THEN Corrupt
               ELSE Decoded(Expand(bits, l))
  <2> HIDE DEF runs, at, lengths
  <2> QED
    BY ONLY <1>1, RunPartsChecked, result = boolean_rle_values(p, count)
<1>4. CountBytes <= Len(p)
  <2> HIDE DEF runs, at, lengths, l, bits
  <2> QED
    BY <1>2, <1>3
<1>5. runs \in Nat
  <2> DEFINE front == SubSeq(p, 1, CountBytes)
             no == FALSE
  <2>1. front \in Seq(Bytes) /\ Len(front) = CountBytes
    BY <1>2, <1>4, Cut
  <2> HIDE DEF front
  <2>2. no \in BOOLEAN /\ ~no
    OBVIOUS
  <2> HIDE DEF no
  <2>3. read_integer(front, no) \in Values([width |-> CountBytes, signed |-> no])
    BY <1>2, <2>1, <2>2, ReadInteger
  <2>4. read_integer(front, no) \in Nat
    BY <1>2, <2>2, <2>3, ValuesOf
  <2> QED
    BY <2>4 DEF no, front
<1>6. CASE runs = 0
  <2> HIDE DEF runs, at, lengths, l, bits
  <2>1. result = Decoded(<<>>) /\ count = 0
    BY <1>2, <1>3, <1>6
  <2> QED
    BY <2>1 DEF Decoded
<1>7. CASE runs # 0
  <2>1. Len(p) >= at /\ at \in Nat /\ lengths.ok /\ SumSeq(l) = count /\ result = Decoded(Expand(bits, l))
    <3>1. at \in Nat
      <4> HIDE DEF runs
      <4>1. CeilDiv(runs, ByteBits) \in Nat
        BY <1>5, Ceiling, Widths
      <4> QED
        BY <1>2, <4>1
    <3> HIDE DEF runs, at, lengths, l, bits
    <3> QED
      BY <1>2, <1>3, <1>7, <3>1
  <2> DEFINE q == SubSeq(p, at + 1, Len(p))
  <2>2. q \in Seq(Bytes)
    <3> HIDE DEF at
    <3> QED
      BY <2>1, Cut
  <2>3. q[1] \in 0..WordBits /\ l \in Seq(0..(2^q[1] - 1)) /\ Len(l) = runs
    <3>1. l = bit_unpack(q, runs).values /\ bit_unpack(q, runs).ok
      BY <2>1, Zenon
    <3> HIDE DEF q, runs, l
    <3> QED
      BY <1>5, <2>2, <3>1, Unpacked
  <2>4. l \in Seq(Nat)
    <3> DEFINE e == q[1]
    <3> HIDE DEF q, l
    <3>0. e \in Nat
      BY <2>3, Widths
    <3> HIDE DEF e
    <3>1. 2^e \in Nat
      BY <3>0, PowerType
    <3> USE DEF e
    <3> QED
      BY <2>3, <3>1
  <2>5. \A r \in 1..Len(l) : bits[r] \in BOOLEAN
    <3> HIDE DEF l, runs, at
    <3> QED
      BY <2>3 DEF RunBits
  <2> DEFINE out == Expand(bits, l)
  <2>6. out \in Seq(BOOLEAN) /\ Len(out) = count
    <3> DEFINE B == BOOLEAN
    <3>1. \A r \in 1..Len(l) : bits[r] \in B
      BY <2>5
    <3> HIDE DEF l, bits, B
    <3>2. out \in Seq(B) /\ Len(out) = SumSeq(l)
      BY <2>4, <3>1, Expanded
    <3> QED
      BY <2>1, <3>2 DEF B
  <2>7. result = Decoded(out)
    BY <2>1, Zenon
  <2> HIDE DEF out
  <2> QED
    BY <2>6, <2>7 DEF Decoded
<1> QED
  BY <1>6, <1>7

-----------------------------------------------------------------------------
(* Positions in order                                                      *)

\* How many of some positions come no later than this one.
Rank(S, k) == Cardinality({j \in S : j <= k})

LEMMA RankStep ==
    ASSUME NEW n \in Nat, NEW S \in SUBSET (1..n)
    PROVE  /\ Rank(S, 0) = 0 /\ Rank(S, n) = Cardinality(S) /\ Cardinality(S) \in Nat
           /\ \A k \in 0..n : Rank(S, k) \in Nat
           /\ \A k \in 1..n : Rank(S, k) = IF k \in S THEN Rank(S, k - 1) + 1 ELSE Rank(S, k - 1)
<1> DEFINE U(k) == {j \in S : j <= k}
<1>0. IsFiniteSet(S)
  <2>1. IsFiniteSet(1..n)
    BY FS_Interval, 1 \in Int, n \in Int
  <2> QED
    BY <2>1, FS_Subset
<1>00. \A j \in S : j \in Int /\ 1 <= j /\ j <= n
  OBVIOUS
<1>1. \A k : IsFiniteSet(U(k))
  BY <1>0, FS_Subset
<1>2. \A k : Rank(S, k) \in Nat
  BY <1>1, FS_CardinalityType DEF Rank
<1>3. U(0) = {} /\ U(n) = S
  <2>1. \A j \in S : ~(j <= 0) /\ j <= n
    BY <1>00
  <2> QED
    BY <2>1, Zenon
<1>4. Rank(S, 0) = 0 /\ Rank(S, n) = Cardinality(S)
  BY <1>3, FS_EmptySet DEF Rank
<1>5. ASSUME NEW k \in 1..n
      PROVE  Rank(S, k) = IF k \in S THEN Rank(S, k - 1) + 1 ELSE Rank(S, k - 1)
  <2>1. CASE k \in S
    <3>1. U(k) = U(k - 1) \cup {k} /\ k \notin U(k - 1)
      <4>1. \A j \in S : j <= k <=> j <= k - 1 \/ j = k
        BY <1>00
      <4>2. ~(k <= k - 1)
        OBVIOUS
      <4> QED
        BY <2>1, <4>1, <4>2, Zenon
    <3>2. Cardinality(U(k)) = Cardinality(U(k - 1)) + 1
      <4> DEFINE A == U(k - 1)
      <4>1. IsFiniteSet(A) /\ k \notin A /\ U(k) = A \cup {k}
        BY <1>1, <3>1
      <4> HIDE DEF A
      <4> QED
        BY <4>1, FS_AddElement DEF A
    <3> QED
      BY <2>1, <3>2 DEF Rank
  <2>2. CASE k \notin S
    <3>1. U(k) = U(k - 1)
      <4>1. \A j \in S : j <= k <=> j <= k - 1
        BY <1>00, <2>2
      <4> QED
        BY <4>1, Zenon
    <3> QED
      BY <2>2, <3>1 DEF Rank
  <2> QED
    BY <2>1, <2>2
<1>6. Cardinality(S) \in Nat
  BY <1>0, FS_CardinalityType
<1> QED
  BY <1>2, <1>4, <1>5, <1>6

LEMMA RankMonotone ==
    ASSUME NEW n \in Nat, NEW S \in SUBSET (1..n), NEW j \in 0..n, NEW k \in j..n
    PROVE  Rank(S, j) <= Rank(S, k)
<1>1. /\ \A i \in 0..n : Rank(S, i) \in Nat
      /\ \A i \in 1..n : Rank(S, i) = IF i \in S THEN Rank(S, i - 1) + 1 ELSE Rank(S, i - 1)
  BY RankStep
<1> DEFINE Good == {i \in Nat : Rank(S, j) <= Rank(S, i)}
<1>2. j \in Good /\ j \in Nat
  BY <1>1
<1>3. ASSUME NEW i \in j..(n - 1), i \in Good PROVE i + 1 \in Good
  <2>1. i + 1 \in 1..n /\ (i + 1) - 1 = i /\ i \in 0..n /\ i + 1 \in 0..n
    OBVIOUS
  <2>2. Rank(S, i + 1) >= Rank(S, i)
    BY <1>1, <2>1
  <2> QED
    BY <1>1, <1>3, <2>1, <2>2
<1>4. \A i \in j..n : i \in Good
  <2> HIDE DEF Good
  <2> QED
    BY <1>2, <1>3, SetInduction
<1> QED
  BY <1>4

\* Every number up to how many there are is the rank of one of them.
LEMMA NthOf ==
    ASSUME NEW n \in Nat, NEW S \in SUBSET (1..n), NEW r \in 1..Cardinality(S)
    PROVE  Nth(S, r) \in S /\ Nth(S, r) \in 1..n /\ Rank(S, Nth(S, r)) = r
<1>1. /\ Rank(S, 0) = 0 /\ Rank(S, n) = Cardinality(S) /\ Cardinality(S) \in Nat
      /\ \A i \in 0..n : Rank(S, i) \in Nat
      /\ \A i \in 1..n : Rank(S, i) = IF i \in S THEN Rank(S, i - 1) + 1 ELSE Rank(S, i - 1)
  BY RankStep
<1> DEFINE Far == {i \in 0..n : Rank(S, i) >= r}
<1>2. n \in Far /\ Far \in SUBSET Nat
  BY <1>1
<1>3. PICK k \in Far : \A i \in Far : k <= i
  BY <1>2, LeastElement
<1>4. k # 0 /\ k \in 1..n /\ k - 1 \in 0..n
  BY <1>1, <1>3
<1>5. ~(Rank(S, k - 1) >= r)
  BY <1>3, <1>4
<1>6. k \in S /\ Rank(S, k) = r
  BY <1>1, <1>3, <1>4, <1>5
<1>7. \E i \in S : Rank(S, i) = r
  BY <1>6
<1>8. Nth(S, r) = CHOOSE i \in S : Rank(S, i) = r
  BY DEF Nth, Rank
<1> QED
  BY <1>7, <1>8

\* A position lies between the one of its rank and the next.
LEMMA NthAround ==
    ASSUME NEW n \in Nat, NEW S \in SUBSET (1..n), NEW k \in 1..n, NEW r, r = Rank(S, k), r # 0
    PROVE  /\ r \in 1..Cardinality(S) /\ Nth(S, r) <= k
           /\ r # Cardinality(S) => r + 1 \in 1..Cardinality(S) /\ k < Nth(S, r + 1)
<1>1. /\ Rank(S, n) = Cardinality(S) /\ Cardinality(S) \in Nat
      /\ \A i \in 0..n : Rank(S, i) \in Nat
      /\ \A i \in 1..n : Rank(S, i) = IF i \in S THEN Rank(S, i - 1) + 1 ELSE Rank(S, i - 1)
  BY RankStep
<1>2. r \in 1..Cardinality(S)
  <2>1. Rank(S, k) <= Rank(S, n)
    BY RankMonotone, k \in 0..n, n \in k..n
  <2> QED
    BY <1>1, <2>1
<1> DEFINE x == Nth(S, r)
           y == Nth(S, r + 1)
<1>3. x \in S /\ x \in 1..n /\ Rank(S, x) = r
  BY <1>2, NthOf
<1> HIDE DEF x
<1>4. x <= k
  <2> SUFFICES ASSUME x > k PROVE FALSE
    BY <1>3
  <2>1. k \in 0..n /\ x - 1 \in k..n /\ x - 1 \in 0..n
    BY <1>3
  <2>2. Rank(S, k) <= Rank(S, x - 1)
    BY <2>1, RankMonotone
  <2>3. Rank(S, x) = Rank(S, x - 1) + 1
    BY <1>1, <1>3
  <2> QED
    BY <1>1, <1>3, <2>1, <2>2, <2>3
<1>5. ASSUME r # Cardinality(S) PROVE r + 1 \in 1..Cardinality(S) /\ k < y
  <2>1. r + 1 \in 1..Cardinality(S)
    BY <1>1, <1>2, <1>5
  <2>2. y \in 1..n /\ Rank(S, y) = r + 1
    BY <2>1, NthOf
  <2> HIDE DEF y
  <2> SUFFICES ASSUME y <= k PROVE FALSE
    BY <2>1, <2>2
  <2>3. Rank(S, y) <= Rank(S, k)
    BY <2>2, RankMonotone, y \in 0..n, k \in y..n
  <2> QED
    BY <1>2, <2>2, <2>3
<1> QED
  BY <1>2, <1>4, <1>5 DEF x

\* Up to the next of the positions the rank stays.
LEMMA RankBetween ==
    ASSUME NEW n \in Nat, NEW S \in SUBSET (1..n), NEW r \in 1..Cardinality(S), NEW k \in 1..n,
           Nth(S, r) <= k, r # Cardinality(S) => k < Nth(S, r + 1)
    PROVE  Rank(S, k) = r
<1>1. /\ Rank(S, n) = Cardinality(S) /\ Cardinality(S) \in Nat
      /\ \A i \in 0..n : Rank(S, i) \in Nat
      /\ \A i \in 1..n : Rank(S, i) = IF i \in S THEN Rank(S, i - 1) + 1 ELSE Rank(S, i - 1)
  BY RankStep
<1> DEFINE x == Nth(S, r)
           y == Nth(S, r + 1)
<1>2. x \in 1..n /\ Rank(S, x) = r
  BY NthOf
<1> HIDE DEF x
<1>3. Rank(S, k) >= r
  <2>1. x \in 0..n /\ k \in x..n
    BY <1>2 DEF x
  <2>2. Rank(S, x) <= Rank(S, k)
    BY <2>1, RankMonotone
  <2> QED
    BY <1>1, <1>2, <2>2
<1>4. CASE r = Cardinality(S)
  <2>1. Rank(S, k) <= Rank(S, n)
    BY RankMonotone, k \in 0..n, n \in k..n
  <2> QED
    BY <1>1, <1>3, <1>4, <2>1
<1>5. CASE r # Cardinality(S)
  <2>1. r + 1 \in 1..Cardinality(S) /\ k < y
    BY <1>1, <1>5
  <2>2. y \in S /\ y \in 1..n /\ Rank(S, y) = r + 1
    BY <2>1, NthOf
  <2> HIDE DEF y
  <2>3. k \in 0..n /\ y - 1 \in k..n /\ y - 1 \in 0..n
    BY <2>1, <2>2
  <2>4. Rank(S, k) <= Rank(S, y - 1)
    BY <2>3, RankMonotone
  <2>5. Rank(S, y) = Rank(S, y - 1) + 1
    BY <1>1, <2>2
  <2> QED
    BY <1>1, <1>3, <2>2, <2>3, <2>4, <2>5
<1> QED
  BY <1>4, <1>5

-----------------------------------------------------------------------------
(* Runs                                                                    *)

\* The position after a run.
RunEnd(values, r) ==
    LET starts == RunStarts(values)
    IN  IF r = Cardinality(starts) THEN Len(values) + 1 ELSE Nth(starts, r + 1)

\* The runs of a sequence lie end to end.
LEMMA RunsOf ==
    ASSUME NEW T, NEW v \in Seq(T), NEW n, n = Len(v), NEW S, S = RunStarts(v),
           NEW R, R = Cardinality(S), NEW L, L = RunLengths(v)
    PROVE  /\ n \in Nat /\ S \in SUBSET (1..n) /\ R \in Nat /\ (n = 0 <=> R = 0)
           /\ L \in Seq(Nat) /\ Len(L) = R
           /\ \A r \in 1..R : L[r] = RunEnd(v, r) - Nth(S, r) /\ L[r] \in 1..n
           /\ \A r \in 1..R : Nth(S, r) \in 1..n /\ RunEnd(v, r) \in 1..(n + 1)
           /\ \A r \in 1..R : SumFunctionOnSet(L, 1..(r - 1)) = Nth(S, r) - 1
           /\ SumSeq(L) = n
<1> DEFINE N(r) == Nth(S, r)
           E(r) == RunEnd(v, r)
           P(r) == SumFunctionOnSet(L, 1..r)
<1>1. n \in Nat /\ S \in SUBSET (1..n)
  BY DEF RunStarts
<1>2. /\ R \in Nat /\ Rank(S, 0) = 0 /\ Rank(S, n) = R
      /\ \A k \in 0..n : Rank(S, k) \in Nat
      /\ \A k \in 1..n : Rank(S, k) = IF k \in S THEN Rank(S, k - 1) + 1 ELSE Rank(S, k - 1)
  BY <1>1, RankStep
<1>3. n = 0 <=> R = 0
  <2>1. n = 0 => R = 0
    BY <1>2
  <2>2. ASSUME n # 0 PROVE R # 0
    <3>1. 1 \in S /\ 1 \in 1..n
      BY <1>1, <2>2 DEF RunStarts
    <3>2. Rank(S, 1) = 1
      BY <1>2, <3>1
    <3>3. Rank(S, 1) <= Rank(S, n)
      BY <1>1, <3>1, RankMonotone, 1 \in 0..n, n \in 1..n
    <3> QED
      BY <1>2, <3>2, <3>3
  <2> QED
    BY <2>1, <2>2
<1>4. \A r \in 1..R : E(r) = IF r = R THEN n + 1 ELSE N(r + 1)
  BY DEF RunEnd
<1>5. L = [r \in 1..R |-> E(r) - N(r)]
  BY DEF RunLengths, RunEnd
<1>6. \A r \in 1..R : N(r) \in S /\ N(r) \in 1..n /\ Rank(S, N(r)) = r
  BY <1>1, NthOf
<1>7. ASSUME NEW r \in 1..R PROVE E(r) \in 1..(n + 1) /\ N(r) < E(r)
  <2>1. CASE r = R
    <3> HIDE DEF E, N
    <3> QED
      BY <1>1, <1>4, <1>6, <2>1
  <2>2. CASE r # R
    <3>1. r + 1 \in 1..R /\ E(r) = N(r + 1)
      BY <1>2, <1>4, <2>2
    <3>2. N(r) \in 1..n /\ N(r + 1) \in 1..n /\ Rank(S, N(r)) = r /\ Rank(S, N(r + 1)) = r + 1
      BY <1>6, <3>1
    <3> HIDE DEF E, N
    <3>3. ~(N(r + 1) <= N(r))
      <4> DEFINE x == N(r)
                 y == N(r + 1)
      <4>1. x \in 1..n /\ y \in 1..n /\ Rank(S, x) = r /\ Rank(S, y) = r + 1
        BY <3>2
      <4> HIDE DEF x, y
      <4> SUFFICES ASSUME y <= x PROVE FALSE
        BY DEF x, y
      <4>2. y \in 0..n /\ x \in y..n
        BY <1>1, <4>1
      <4>3. Rank(S, y) <= Rank(S, x)
        BY <1>1, <4>2, RankMonotone
      <4> QED
        BY <1>2, <4>1, <4>3
    <3> QED
      BY <1>1, <3>1, <3>2, <3>3
  <2> QED
    BY <2>1, <2>2
<1> HIDE DEF E, N
<1>8. \A r \in 1..R : L[r] = E(r) - N(r) /\ L[r] \in 1..n /\ L[r] \in Nat
  <2> SUFFICES ASSUME NEW r \in 1..R
               PROVE  L[r] = E(r) - N(r) /\ L[r] \in 1..n /\ L[r] \in Nat
    OBVIOUS
  <2>1. L[r] = E(r) - N(r)
    BY <1>5
  <2>2. E(r) \in 1..(n + 1) /\ N(r) < E(r) /\ N(r) \in 1..n
    BY <1>6, <1>7
  <2> QED
    BY <1>1, <2>1, <2>2
<1>9. L \in Seq(Nat) /\ Len(L) = R
  <2>1. L = [r \in 1..R |-> L[r]] /\ \A r \in 1..R : L[r] \in Nat
    BY <1>5, <1>8
  <2> QED
    BY ONLY <1>2, <2>1
<1>10. P(0) = 0 /\ (\A r \in 0..R : P(r) \in Nat) /\ \A r \in 1..R : P(r) = P(r - 1) + L[r]
  BY <1>2, <1>8, PrefixSum
<1> HIDE DEF P
<1>11. R # 0 => N(1) = 1
  <2> SUFFICES ASSUME R # 0 PROVE N(1) = 1
    OBVIOUS
  <2>1. 1 \in 1..R /\ 1 \in 1..n /\ 1 \in S
    BY <1>1, <1>2, <1>3 DEF RunStarts
  <2>2. Rank(S, 1) = 1
    BY <1>2, <2>1
  <2>3. Nth(S, Rank(S, 1)) <= 1
    BY <1>1, <2>1, <2>2, NthAround
  <2> QED
    BY <1>6, <2>1, <2>2, <2>3 DEF N
<1> DEFINE Good == {r \in Nat : r = 0 \/ (P(r - 1) = N(r) - 1 /\ P(r) = E(r) - 1)}
<1>12. 0 \in Good
  OBVIOUS
<1>13. ASSUME NEW r \in 0..(R - 1), r \in Good PROVE r + 1 \in Good
  <2>1. r + 1 \in 1..R /\ (r + 1) - 1 = r /\ r + 1 \in Nat /\ r \in 0..R
    BY <1>2
  <2>2. P(r) = N(r + 1) - 1
    <3>1. CASE r = 0
      BY <1>2, <1>10, <1>11, <3>1
    <3>2. CASE r # 0
      <4>1. r \in 1..R /\ r # R
        BY <1>2, <3>2
      <4> QED
        BY <1>4, <1>13, <3>2, <4>1
    <3> QED
      BY <3>1, <3>2
  <2>3. P(r + 1) = P(r) + L[r + 1] /\ L[r + 1] = E(r + 1) - N(r + 1)
    BY <1>8, <1>10, <2>1
  <2>4. E(r + 1) \in Int /\ N(r + 1) \in Int /\ P(r) \in Int
    BY <1>6, <1>7, <1>10, <2>1
  <2> QED
    BY <2>1, <2>2, <2>3, <2>4
<1>14. \A r \in 0..R : r \in Good
  <2> HIDE DEF Good
  <2> QED
    BY <1>2, <1>12, <1>13, SetInduction
<1>15. \A r \in 1..R : P(r - 1) = N(r) - 1
  BY <1>14
<1>16. SumSeq(L) = n
  <2>1. SumSeq(L) = P(R)
    BY <1>9, SumOfSeq DEF P
  <2>2. CASE R = 0
    BY <1>3, <1>10, <2>1, <2>2
  <2>3. CASE R # 0
    <3>1. R \in 1..R /\ R \in 0..R
      BY <1>2, <2>3
    <3>2. P(R) = E(R) - 1 /\ E(R) = n + 1
      BY <1>4, <1>14, <2>3, <3>1
    <3> QED
      BY <1>1, <2>1, <3>2
  <2> QED
    BY <2>2, <2>3
<1> QED
  BY <1>1, <1>2, <1>3, <1>6, <1>7, <1>8, <1>9, <1>15, <1>16 DEF E, N, P

\* Within a run every element is the first.
LEMMA RunConstant ==
    ASSUME NEW T, NEW v \in Seq(T), NEW n, n = Len(v), NEW S, S = RunStarts(v),
           NEW r \in 1..Cardinality(S), NEW x \in 1..n, Rank(S, x) = r
    PROVE  v[x] = v[Nth(S, r)]
<1>1. n \in Nat /\ S \in SUBSET (1..n)
  BY DEF RunStarts
<1>2. /\ \A k \in 0..n : Rank(S, k) \in Nat
      /\ \A k \in 1..n : Rank(S, k) = IF k \in S THEN Rank(S, k - 1) + 1 ELSE Rank(S, k - 1)
  BY ONLY <1>1, RankStep
<1> DEFINE s == Nth(S, r)
           Good == {k \in Nat : Rank(S, k) = r => v[k] = v[s]}
<1>3. s \in 1..n /\ Rank(S, s) = r
  BY <1>1, NthOf
<1>4. s <= x
  <2>1. Rank(S, x) # 0
    OBVIOUS
  <2> QED
    BY <1>1, <2>1, NthAround
<1> HIDE DEF s
<1>5. s \in Good /\ s \in Nat
  BY <1>3
<1>6. ASSUME NEW k \in s..(n - 1), k \in Good PROVE k + 1 \in Good
  <2>1. k + 1 \in 1..n /\ k \in 1..n /\ (k + 1) - 1 = k /\ k + 1 \in Nat
    BY <1>1, <1>3
  <2> SUFFICES ASSUME Rank(S, k + 1) = r PROVE v[k + 1] = v[s]
    BY <2>1
  <2>2. Rank(S, s) <= Rank(S, k)
    BY <1>1, <1>3, <2>1, RankMonotone, s \in 0..n, k \in s..n
  <2>3. k + 1 \notin S /\ Rank(S, k) = r
    <3> DEFINE a == Rank(S, k)
               b == Rank(S, k + 1)
    <3>1. a \in Nat /\ b = (IF k + 1 \in S THEN a + 1 ELSE a) /\ r <= a /\ b = r
      BY <1>2, <1>3, <2>1, <2>2
    <3> HIDE DEF a, b
    <3>2. k + 1 \notin S /\ a = r
      BY <3>1
    <3> QED
      BY <3>2 DEF a
  <2>4. v[k + 1] = v[k]
    <3>1. k + 1 \in DOMAIN v /\ k + 1 # 1
      BY <2>1
    <3>2. v[k + 1] = v[(k + 1) - 1]
      BY <2>3, <3>1 DEF RunStarts
    <3> QED
      BY <2>1, <3>2
  <2> QED
    BY <1>6, <2>3, <2>4
<1>7. \A k \in s..n : k \in Good
  <2> HIDE DEF Good
  <2> QED
    BY <1>1, <1>5, <1>6, SetInduction
<1> QED
  BY <1>3, <1>4, <1>7 DEF s

\* The runs of a sequence, laid out, are the sequence.
LEMMA RunsExpand ==
    ASSUME NEW T, NEW v \in Seq(T)
    PROVE  /\ RunValues(v) \in Seq(T) /\ Len(RunValues(v)) = Cardinality(RunStarts(v))
           /\ Expand(RunValues(v), RunLengths(v)) = v
<1> DEFINE n == Len(v)
           S == RunStarts(v)
           R == Cardinality(S)
           L == RunLengths(v)
           V == RunValues(v)
           out == Expand(V, L)
           P(r) == SumFunctionOnSet(L, 1..r)
<1>1. /\ n \in Nat /\ S \in SUBSET (1..n) /\ R \in Nat
      /\ L \in Seq(Nat) /\ Len(L) = R
      /\ \A r \in 1..R : L[r] = RunEnd(v, r) - Nth(S, r)
      /\ \A r \in 1..R : Nth(S, r) \in 1..n /\ RunEnd(v, r) \in 1..(n + 1)
      /\ \A r \in 1..R : P(r - 1) = Nth(S, r) - 1
      /\ SumSeq(L) = n
  BY RunsOf
<1>2. V = [r \in 1..R |-> v[Nth(S, r)]]
  BY DEF RunValues, ElementsAt
<1>3. \A r \in 1..R : V[r] = v[Nth(S, r)] /\ V[r] \in T
  BY <1>1, <1>2
<1>4. V \in Seq(T) /\ Len(V) = R
  <2>1. V = [r \in 1..R |-> V[r]] /\ \A r \in 1..R : V[r] \in T
    BY <1>2, <1>3
  <2>2. R \in Nat
    BY <1>1
  <2> HIDE DEF V, R
  <2> QED
    BY ONLY <2>1, <2>2
<1>5. /\ out \in Seq(T) /\ Len(out) = SumSeq(L)
      /\ \A r \in 1..Len(L) : \A j \in 1..L[r] : out[P(r - 1) + j] = V[r]
  <2>1. L \in Seq(Nat) /\ \A r \in 1..Len(L) : V[r] \in T
    BY <1>1, <1>3
  <2> HIDE DEF L, V
  <2> QED
    BY ONLY <2>1, Expanded
<1>6. /\ Rank(S, 0) = 0 /\ \A k \in 0..n : Rank(S, k) \in Nat
      /\ \A k \in 1..n : Rank(S, k) = IF k \in S THEN Rank(S, k - 1) + 1 ELSE Rank(S, k - 1)
  <2> HIDE DEF n, S
  <2> QED
    BY <1>1, RankStep
<1>7. ASSUME NEW x \in 1..n PROVE out[x] = v[x]
  <2> DEFINE r == Rank(S, x)
             s == Nth(S, r)
  <2>1. r # 0
    <3>1. 1 \in 1..n /\ 1 \in S
      BY <1>1 DEF RunStarts
    <3> HIDE DEF S, n
    <3>2. Rank(S, 1) = 1
      BY <1>6, <3>1
    <3>3. Rank(S, 1) <= Rank(S, x)
      BY <1>1, RankMonotone, 1 \in 0..n, x \in 1..n
    <3> QED
      BY <1>1, <1>6, <3>2, <3>3
  <2>2. /\ r \in 1..R /\ s <= x
        /\ r # R => r + 1 \in 1..R /\ x < Nth(S, r + 1)
    <3> HIDE DEF S, n
    <3> QED
      BY <1>1, <2>1, NthAround
  <2>3. x < RunEnd(v, r) /\ RunEnd(v, r) \in Int /\ s \in Int
    <3>1. RunEnd(v, r) = IF r = R THEN n + 1 ELSE Nth(S, r + 1)
      BY DEF RunEnd
    <3> HIDE DEF S, n, r
    <3> QED
      BY <1>1, <2>2, <3>1
  <2>4. v[x] = v[s]
    <3>1. r = Rank(S, x)
      OBVIOUS
    <3> HIDE DEF r
    <3> QED
      BY <2>2, <3>1, RunConstant
  <2> HIDE DEF r, S, V, L, out, P, s
  <2>5. L[r] = RunEnd(v, r) - s /\ P(r - 1) = s - 1 /\ V[r] = v[s]
    BY <1>1, <1>3, <2>2 DEF s
  <2> DEFINE j == x - s + 1
  <2>6. j \in 1..L[r] /\ P(r - 1) + j = x
    <3> DEFINE e == RunEnd(v, r)
               a == L[r]
               p == P(r - 1)
    <3>1. e \in Int /\ s \in Int /\ x \in Int /\ s <= x /\ x < e /\ a = e - s /\ p = s - 1
      BY <2>2, <2>3, <2>5
    <3> HIDE DEF e, a, p
    <3>2. j \in 1..a /\ p + j = x
      BY ONLY <3>1 DEF j
    <3> QED
      BY <3>2 DEF a, p
  <2> HIDE DEF j
  <2>7. out[P(r - 1) + j] = V[r]
    BY <1>1, <1>5, <2>2, <2>6
  <2> QED
    BY <2>4, <2>5, <2>6, <2>7
<1>8. out = v
  <2>1. Len(out) = n
    BY <1>1, <1>5
  <2> HIDE DEF out
  <2> QED
    BY <1>5, <1>7, <2>1
<1> QED
  BY <1>4, <1>8

\* A bitmap reads back as the booleans it was made of.
LEMMA Bitmap ==
    ASSUME NEW v \in Seq(BOOLEAN), NEW n, n = Len(v)
    PROVE  /\ pack_booleans(v) \in Seq(Bytes) /\ Len(pack_booleans(v)) = CeilDiv(n, ByteBits)
           /\ [k \in 1..n |-> Bit(pack_booleans(v), k - 1) = 1] = v
           /\ raw_booleans(pack_booleans(v), n) = Decoded(v)
<1> DEFINE bits == [i \in 1..n |-> IF v[i] THEN 1 ELSE 0]
           B == pack_booleans(v)
<1>0. n \in Nat /\ DOMAIN v = 1..n
  OBVIOUS
<1>1. B = ToBytes(bits)
  BY <1>0, Zenon DEF pack_booleans
<1>2. \A i \in 1..n : bits[i] \in {0, 1} /\ (bits[i] = 1 <=> v[i])
  OBVIOUS
<1>3. bits = [i \in 1..n |-> bits[i]]
  OBVIOUS
<1> HIDE DEF bits
<1>4. bits \in Seq({0, 1}) /\ Len(bits) = n
  <2>1. \A i \in 1..n : bits[i] \in {0, 1}
    BY <1>2
  <2> QED
    BY ONLY <1>0, <1>3, <2>1
<1>5. /\ B \in Seq(Bytes) /\ Len(B) = CeilDiv(n, ByteBits)
      /\ \A i \in 0..(n - 1) : Bit(B, i) = bits[i + 1]
      /\ n % ByteBits # 0 => Last(B) \div 2^(n % ByteBits) = 0
  BY <1>1, <1>4, BytesOfBits
<1> HIDE DEF B
<1> DEFINE u == [k \in 1..n |-> Bit(B, k - 1) = 1]
<1>6. u = v
  <2>1. ASSUME NEW k \in 1..n PROVE (Bit(B, k - 1) = 1) <=> v[k]
    <3>1. k - 1 \in 0..(n - 1) /\ (k - 1) + 1 = k
      BY <1>0
    <3>2. Bit(B, k - 1) = bits[k]
      BY <1>5, <3>1
    <3> QED
      BY <1>2, <3>2
  <2>2. \A k \in 1..n : v[k] \in BOOLEAN
    BY <1>0
  <2>3. \A k \in 1..n : (Bit(B, k - 1) = 1) = v[k]
    BY <2>1, <2>2, Zenon
  <2>4. u = [k \in 1..n |-> v[k]]
    BY <2>3, Zenon
  <2>5. v = [k \in 1..n |-> v[k]]
    BY <1>0
  <2> QED
    BY <2>4, <2>5, Zenon
<1>7. raw_booleans(B, n) = Decoded(u)
  <2> HIDE DEF u
  <2>1. raw_booleans(B, n) = IF \/ Len(B) # CeilDiv(n, ByteBits)
                                \/ n % ByteBits # 0 /\ Last(B) \div 2^(n % ByteBits) # 0
                             THEN Corrupt ELSE Decoded(u)
    BY Zenon DEF raw_booleans, u
  <2> QED
    BY <1>5, <2>1, Zenon
<1> QED
  BY <1>5, <1>6, <1>7, Zenon DEF B

\* The width of a value that fits a word.
LEMMA BitWidth ==
    ASSUME NEW value \in Nat, value < 2^WordBits
    PROVE  bit_width(value) \in 0..WordBits /\ value < 2^bit_width(value)
<1> DEFINE W == {w \in 0..(WordBits + 1) : value < 2^w}
<1>0. WordBits \in Nat
  BY Widths
<1>1. WordBits \in W /\ W \in SUBSET Nat
  BY <1>0
<1>2. PICK m \in W : \A k \in W : m <= k
  BY <1>1, LeastElement
<1>3. Min(W) \in W /\ \A k \in W : Min(W) <= k
  BY <1>2 DEF Min
<1>4. bit_width(value) = Min(W)
  BY DEF bit_width
<1> QED
  BY <1>0, <1>1, <1>3, <1>4

\* Three parts end to end.
LEMMA ThreeParts ==
    ASSUME NEW T, NEW a \in Seq(T), NEW b \in Seq(T), NEW c \in Seq(T), NEW p, p = a \o (b \o c),
           NEW at, at = Len(a) + Len(b)
    PROVE  /\ p \in Seq(T) /\ Len(p) = at + Len(c) /\ Len(a) \in Nat /\ at \in Nat
           /\ SubSeq(p, 1, Len(a)) = a /\ SubSeq(p, Len(a) + 1, at) = b
           /\ SubSeq(p, at + 1, Len(p)) = c
<1> DEFINE x == Len(a)
           y == Len(b)
           z == Len(c)
           q == b \o c
<1>1. x \in Nat /\ y \in Nat /\ z \in Nat /\ at \in Nat /\ at = x + y
  OBVIOUS
<1>2. /\ q \in Seq(T) /\ Len(q) = y + z /\ (\A i \in 1..y : q[i] = b[i])
      /\ \A i \in 1..z : q[y + i] = c[i]
  <2>1. q \in Seq(T) /\ Len(q) = y + z /\ (\A i \in 1..y : q[i] = b[i])
    OBVIOUS
  <2>2. ASSUME NEW i \in 1..z PROVE q[y + i] = c[i]
    <3>1. y + i \in 1..(y + z) /\ y + i > y /\ (y + i) - y = i
      OBVIOUS
    <3>2. q[y + i] = c[(y + i) - y]
      BY <3>1
    <3> QED
      BY <3>1, <3>2
  <2> QED
    BY <2>1, <2>2
<1>02. p = a \o q
  OBVIOUS
<1> HIDE DEF q
<1>3. /\ p \in Seq(T) /\ Len(p) = x + (y + z) /\ (\A i \in 1..x : p[i] = a[i])
      /\ \A i \in 1..(y + z) : p[x + i] = q[i]
  <2>1. p \in Seq(T) /\ Len(p) = x + (y + z) /\ (\A i \in 1..x : p[i] = a[i])
    <3>1. a \in Seq(T) /\ Len(a) = x /\ x \in Nat /\ y + z \in Nat
      OBVIOUS
    <3> HIDE DEF x, y, z
    <3>2. q \in Seq(T) /\ a \in Seq(T)
      BY <1>2
    <3>3. a \o q \in Seq(T) /\ Len(a \o q) = Len(a) + Len(q)
      BY ONLY <3>2
    <3>4. \A i \in 1..Len(a) : (a \o q)[i] = a[i]
      BY ONLY <3>2
    <3> QED
      BY <1>02, <1>2, <3>1, <3>3, <3>4
  <2>2. ASSUME NEW i \in 1..(y + z) PROVE p[x + i] = q[i]
    <3>1. x + i \in 1..(x + (y + z)) /\ x + i > x /\ (x + i) - x = i
      BY <1>1
    <3>2. p[x + i] = q[(x + i) - x]
      BY <1>02, <1>2, <3>1
    <3> QED
      BY <3>1, <3>2
  <2> QED
    BY <2>1, <2>2
<1> HIDE DEF x, y, z
<1>4. SubSeq(p, 1, x) = a
  <2>1. SubSeq(p, 0 + 1, 0 + x) = [i \in 1..x |-> p[0 + i]]
    BY <1>1, Slice
  <2>2. SubSeq(p, 1, x) = [i \in 1..x |-> p[i]]
    BY <1>1, <2>1
  <2>3. a = [i \in 1..x |-> a[i]]
    BY DEF x
  <2> QED
    BY <1>3, <2>2, <2>3
<1>5. SubSeq(p, x + 1, at) = b
  <2>1. SubSeq(p, x + 1, x + y) = [i \in 1..y |-> p[x + i]]
    BY <1>1, Slice
  <2>2. \A i \in 1..y : p[x + i] = b[i]
    <3>1. \A i \in 1..y : i \in 1..(y + z)
      BY <1>1
    <3> QED
      BY <1>2, <1>3, <3>1
  <2>3. b = [i \in 1..y |-> b[i]]
    BY DEF y
  <2> QED
    BY <1>1, <2>1, <2>2, <2>3
<1>6. SubSeq(p, at + 1, Len(p)) = c
  <2>1. SubSeq(p, at + 1, at + z) = [i \in 1..z |-> p[at + i]]
    BY ONLY <1>1, Slice
  <2>2. ASSUME NEW i \in 1..z PROVE p[at + i] = c[i]
    <3>1. y + i \in 1..(y + z) /\ x + (y + i) = at + i
      BY ONLY <1>1, i \in 1..z
    <3>2. p[x + (y + i)] = q[y + i]
      BY <1>3, <3>1
    <3> QED
      BY <1>2, <3>1, <3>2
  <2>3. c = [i \in 1..z |-> c[i]]
    BY DEF z
  <2>4. Len(p) = at + z
    BY <1>1, <1>3
  <2> QED
    BY <2>1, <2>2, <2>3, <2>4
<1>7. Len(p) = at + z
  BY <1>1, <1>3
<1> QED
  BY <1>1, <1>3, <1>4, <1>5, <1>6, <1>7 DEF x, z

\* A count that fits reads back as it was.
LEMMA CountReadBack ==
    ASSUME NEW r \in Nat, r < 2^(ByteBits * CountBytes)
    PROVE  /\ to_le_bytes(r, CountBytes) \in Seq(Bytes) /\ Len(to_le_bytes(r, CountBytes)) = CountBytes
           /\ read_integer(to_le_bytes(r, CountBytes), FALSE) = r
<1> DEFINE no == FALSE
           M == 2^(ByteBits * CountBytes)
<1>0. no \in BOOLEAN /\ ~no /\ CountBytes \in Nat \ {0} /\ r \in Int
  BY Widths
<1> HIDE DEF no
<1>1. M \in Nat /\ Values([width |-> CountBytes, signed |-> no]) =
                      IF no THEN -(2^(ByteBits * CountBytes - 1)) .. 2^(ByteBits * CountBytes - 1) - 1
                      ELSE 0..(M - 1)
  BY <1>0, ValuesOf
<1>2. r \in Values([width |-> CountBytes, signed |-> no])
  <2> HIDE DEF M
  <2> QED
    BY <1>0, <1>1 DEF M
<1>3. read_integer(to_le_bytes(r, CountBytes), no) = r
  BY <1>0, <1>2, WrittenInteger
<1>4. to_le_bytes(r, CountBytes) \in Seq(Bytes) /\ Len(to_le_bytes(r, CountBytes)) = CountBytes
  BY <1>0, WrittenInteger
<1> QED
  BY <1>3, <1>4 DEF no

\* The run lengths fit the width the writer gives them.
LEMMA LengthsPacked ==
    ASSUME NEW L \in Seq(Nat), NEW n \in Nat, n < 2^WordBits, Len(L) # 0,
           \A r \in 1..Len(L) : L[r] \in 1..n,
           NEW w, w = bit_width(MaxOf(L))
    PROVE  /\ pack_from(w, L) \in Seq(Bytes) /\ Len(pack_from(w, L)) = packed_length(Len(L), w)
           /\ bit_unpack(pack_from(w, L), Len(L)) = Decoded(L)
<1> DEFINE m == Max(ToSet(L))
<1>1. MaxOf(L) = m
  BY DEF MaxOf
<1>2. ToSet(L) = {L[r] : r \in 1..Len(L)}
  BY DEF ToSet
<1>3. ToSet(L) \in SUBSET (0..n) /\ ToSet(L) # {} /\ \A r \in 1..Len(L) : L[r] \in ToSet(L)
  <2>1. 1 \in 1..Len(L)
    OBVIOUS
  <2>2. \A r \in 1..Len(L) : L[r] \in 0..n
    OBVIOUS
  <2> QED
    BY <1>2, <2>1, <2>2
<1>4. m \in 0..n /\ \A r \in 1..Len(L) : L[r] <= m
  BY <1>3, MaxOfBounded
<1> HIDE DEF m
<1>5. 2^WordBits \in Nat
  BY Widths, PowerType
<1>6. m \in Nat /\ m < 2^WordBits
  BY <1>4, <1>5
<1>7. bit_width(m) \in 0..WordBits /\ m < 2^bit_width(m)
  BY <1>6, BitWidth
<1>8. w = bit_width(m)
  BY <1>1
<1>9. w \in 0..WordBits /\ m < 2^w
  BY <1>7, <1>8, Zenon
<1>10. 2^w \in Nat
  BY <1>9, Widths, PowerType
<1>11. L \in Seq(0..(2^w - 1))
  <2> DEFINE U == 0..(2^w - 1)
             l == Len(L)
  <2>1. \A r \in 1..l : L[r] \in U
    BY <1>4, <1>6, <1>9, <1>10
  <2>2. L = [r \in 1..l |-> L[r]] /\ l \in Nat
    OBVIOUS
  <2> HIDE DEF U, l
  <2>3. L \in Seq(U)
    BY ONLY <2>1, <2>2
  <2> QED
    BY <2>3 DEF U
<1> QED
  BY ONLY <1>9, <1>11, Packed

\* Runs read back as the booleans they were made of.
LEMMA RunsReadBack ==
    ASSUME NEW v \in Seq(BOOLEAN), NEW n, n = Len(v), n < 2^(ByteBits * CountBytes),
           n < 2^WordBits
    PROVE  boolean_rle_values(boolean_rle(v), n) = Decoded(v)
<1> DEFINE S == RunStarts(v)
           R == Cardinality(S)
           L == RunLengths(v)
           V == RunValues(v)
           p == boolean_rle(v)
           C == to_le_bytes(R, CountBytes)
           B == pack_booleans(V)
           w == bit_width(MaxOf(L))
           K == pack_from(w, L)
<1>1. /\ n \in Nat /\ S \in SUBSET (1..n) /\ R \in Nat /\ (n = 0 <=> R = 0)
      /\ L \in Seq(Nat) /\ Len(L) = R /\ SumSeq(L) = n /\ \A r \in 1..R : L[r] \in 1..n
  BY RunsOf
<1>2. V \in Seq(BOOLEAN) /\ Len(V) = R /\ Expand(V, L) = v
  BY RunsExpand
<1>3. R <= n
  <2>1. IsFiniteSet(1..n) /\ Cardinality(1..n) = n
    <3>1. 1 \in Int /\ n \in Int
      BY <1>1
    <3>2. IsFiniteSet(1..n) /\ Cardinality(1..n) = IF 1 > n THEN 0 ELSE n - 1 + 1
      BY ONLY <3>1, FS_Interval
    <3> QED
      BY ONLY <1>1, <3>2
  <2> HIDE DEF S
  <2> QED
    BY <1>1, <2>1, FS_Subset
<1> HIDE DEF S, R, L, V
<1>4. 2^(ByteBits * CountBytes) \in Nat /\ CountBytes \in Nat \ {0} /\ ByteBits \in Nat \ {0}
  BY Widths, PowerType, ByteBits * CountBytes \in Nat
<1>5. R < 2^(ByteBits * CountBytes)
  BY <1>1, <1>3, <1>4
<1>6. C \in Seq(Bytes) /\ Len(C) = CountBytes /\ read_integer(C, FALSE) = R
  BY <1>1, <1>5, CountReadBack
<1> HIDE DEF C
<1>7. p = C \o (IF v = <<>> THEN <<>> ELSE B \o K)
  BY <1>2, Zenon DEF boolean_rle, R, S, L, V, C
<1>8. v = <<>> <=> n = 0
  OBVIOUS
<1> HIDE DEF B, K, p
<1> DEFINE runs == read_integer(SubSeq(p, 1, CountBytes), FALSE)
           at == CountBytes + CeilDiv(runs, ByteBits)
           lengths == bit_unpack(SubSeq(p, at + 1, Len(p)), runs)
<1>9. CASE n = 0
  <2>1. p = C
    BY <1>6, <1>7, <1>8, <1>9
  <2>2. SubSeq(p, 1, CountBytes) = p
    BY <1>4, <1>6, <2>1
  <2>3. runs = 0 /\ Len(p) = CountBytes /\ p \in Seq(Bytes)
    BY <1>1, <1>6, <1>9, <2>1, <2>2, Zenon
  <2>4. RunParts(p, n, runs, at, lengths)
    BY <1>1, <2>3, Zenon DEF RunParts
  <2> HIDE DEF runs, at, lengths
  <2>5. ~(Len(p) < CountBytes) /\ ~(runs > n)
    BY <1>4, <1>9, <2>3
  <2>6. boolean_rle_values(p, n) = Decoded(<<>>)
    BY <1>9, <2>3, <2>4, <2>5, RunPartsChecked
  <2> QED
    BY <1>8, <1>9, <2>6 DEF p
<1>10. CASE n # 0
  <2>1. B \in Seq(Bytes) /\ Len(B) = CeilDiv(R, ByteBits) /\ [k \in 1..R |-> Bit(B, k - 1) = 1] = V
    BY <1>2, Bitmap DEF B
  <2>2. K \in Seq(Bytes) /\ bit_unpack(K, R) = Decoded(L)
    <3>1. /\ L \in Seq(Nat) /\ n \in Nat /\ n < 2^WordBits /\ Len(L) # 0
          /\ \A r \in 1..Len(L) : L[r] \in 1..n
      BY <1>1, <1>10
    <3> DEFINE e == w
    <3>2. e = bit_width(MaxOf(L))
      OBVIOUS
    <3> HIDE DEF e
    <3>3. pack_from(e, L) \in Seq(Bytes) /\ bit_unpack(pack_from(e, L), Len(L)) = Decoded(L)
      BY ONLY <3>1, <3>2, LengthsPacked
    <3> QED
      BY <1>1, <3>3 DEF K, e
  <2> DEFINE end == Len(C) + Len(B)
  <2>3. p = C \o (B \o K)
    BY <1>7, <1>8, <1>10
  <2>4. /\ p \in Seq(Bytes) /\ Len(p) = end + Len(K) /\ end \in Nat
        /\ SubSeq(p, 1, Len(C)) = C /\ SubSeq(p, Len(C) + 1, end) = B
        /\ SubSeq(p, end + 1, Len(p)) = K
    <3>1. C \in Seq(Bytes) /\ B \in Seq(Bytes) /\ K \in Seq(Bytes) /\ end = Len(C) + Len(B)
      BY <1>6, <2>1, <2>2
    <3> HIDE DEF end
    <3> QED
      BY ONLY <2>3, <3>1, ThreeParts
  <2> HIDE DEF end
  <2>5. runs = R
    BY <1>6, <2>4, Zenon
  <2>6. at = end
    <3>1. end = CountBytes + CeilDiv(R, ByteBits)
      BY <1>6, <2>1, Zenon DEF end
    <3> QED
      BY <2>5, <3>1, Zenon
  <2>7. lengths = Decoded(L)
    BY <2>2, <2>4, <2>5, <2>6, Zenon
  <2>8. RunParts(p, n, runs, at, lengths)
    BY <1>1, <2>4, Zenon DEF RunParts
  <2> HIDE DEF runs, at, lengths
  <2>9. RunBits(p, runs, at) = V
    <3>1. SubSeq(p, CountBytes + 1, at) = B
      BY <1>6, <2>4, <2>6, Zenon
    <3> QED
      BY <2>1, <2>5, <3>1, Zenon DEF RunBits
  <2>10. lengths.ok /\ lengths.values = L
    BY <2>7 DEF Decoded
  <2>11. /\ ~(Len(p) < CountBytes) /\ ~(runs > n) /\ runs # 0 /\ ~(Len(p) < at)
    <3>1. Len(K) \in Nat /\ Len(B) \in Nat /\ end = CountBytes + Len(B)
      BY <1>6, <2>1, <2>2 DEF end
    <3> QED
      BY ONLY <1>1, <1>3, <1>4, <1>10, <2>4, <2>5, <2>6, <3>1
  <2>12. 0 \notin ToSet(L)
    <3>1. \A r \in 1..Len(L) : L[r] # 0
      BY <1>1
    <3> QED
      BY <1>1, <3>1 DEF ToSet
  <2>13. boolean_rle_values(p, n) = Decoded(Expand(RunBits(p, runs, at), lengths.values))
    <3>1. 0 \notin ToSet(lengths.values) /\ SumSeq(lengths.values) = n
      BY <1>1, <2>10, <2>12, Zenon
    <3>2. boolean_rle_values(p, n) =
             IF Len(p) < CountBytes \/ runs > n THEN Corrupt
             ELSE IF runs = 0
             THEN IF n = 0 /\ Len(p) = CountBytes THEN Decoded(<<>>) ELSE Corrupt
             ELSE IF \/ Len(p) < at
                     \/ ~lengths.ok
                     \/ 0 \in ToSet(lengths.values)
                     \/ SumSeq(lengths.values) # n
             THEN Corrupt
             ELSE Decoded(Expand(RunBits(p, runs, at), lengths.values))
      BY ONLY <2>8, RunPartsChecked
    <3> QED
      BY ONLY <2>10, <2>11, <3>1, <3>2
  <2>14. Expand(RunBits(p, runs, at), lengths.values) = v
    BY <1>2, <2>9, <2>10, Zenon
  <2> QED
    BY <2>13, <2>14, Zenon DEF p
<1> QED
  BY <1>9, <1>10

-----------------------------------------------------------------------------
(* The stream as it is stored                                              *)

StreamType == stream \in Seq(Bytes)

LEMMA StreamTypeHolds ==
    StreamSpec => []StreamType
<1>1. StreamInit => StreamType
  BY DEF StreamInit, StreamType
<1>2. StreamType /\ [StoreByte]_stream => StreamType'
  <2> SUFFICES ASSUME StreamType, [StoreByte]_stream PROVE StreamType'
    OBVIOUS
  <2>1. CASE StoreByte
    <3>1. PICK byte \in StreamBytes : stream' = Append(stream, byte)
      BY <2>1 DEF StoreByte
    <3>2. byte \in Bytes
      BY StreamBoundsAssumption
    <3> QED
      BY <3>1, <3>2 DEF StreamType
  <2>2. CASE UNCHANGED stream
    BY <2>2 DEF StreamType
  <2> QED
    BY <2>1, <2>2
<1> QED
  BY <1>1, <1>2, PTL DEF StreamSpec

LEMMA StreamInputs ==
    /\ \A count \in Counts : count \in Nat /\ count < 2^(ByteBits * CountBytes) /\ count < 2^WordBits
    /\ \A type \in Types : type \in IntegerTypes
<1>1. MaxElements \in Nat /\ MaxElements < 2^(ByteBits * CountBytes)
  BY StreamBoundsAssumption
<1>2. /\ ByteBits \in Nat \ {0} /\ WordBytes \in Nat \ {0} /\ CountBytes \in Nat \ {0}
      /\ WordBits = ByteBits * WordBytes /\ CountBytes <= WordBytes
  BY Widths, WidthAssumption DEF WordBits
<1> DEFINE c == ByteBits * CountBytes
           d == ByteBits * WordBytes
<1>3. c \in Nat /\ d \in Nat /\ c <= d
  BY <1>2
<1>4. MaxElements < 2^c /\ WordBits = d
  BY <1>1, <1>2
<1> HIDE DEF c, d
<1>5. 2^c \in Nat /\ 2^d \in Nat /\ 2^c <= 2^d
  BY <1>3, PowerType, PowerMonotone
<1>6. \A count \in Counts : count \in Nat /\ count < 2^c /\ count < 2^d
  BY <1>1, <1>4, <1>5 DEF Counts
<1>7. \A type \in Types : type \in IntegerTypes
  BY <1>2 DEF Types, IntegerTypes
<1> QED
  BY <1>4, <1>6, <1>7 DEF c

\* Every decoder of integers, at once: what it accepts fits the column, and is what
\* the writer lays down.
LEMMA AcceptedIntegers ==
    ASSUME NEW p \in Seq(Bytes), NEW count \in Nat, NEW type \in IntegerTypes,
           NEW transform \in IntegerTransforms,
           NEW result, result = integer(p, count, type, transform), result.ok
    PROVE  /\ Fits(result.values, count, type)
           /\ transform \in {"delta", "delta_of_delta"} =>
                \A k \in 1..(count - 1) : adjacent_deltas(result.values)[k] \in Int64
           /\ IF count = 0 /\ transform \in {"frame_of_reference", "delta"} THEN p = <<>>
              ELSE p = RelaidAs(p, result.values, type, transform)
<1>1. CASE transform = "raw"
  <2>1. result = raw_integers(p, count, type)
    BY <1>1 DEF integer
  <2> QED
    BY <1>1, <2>1, RawIntegers
<1>2. CASE transform = "bit_packed"
  <2>1. result = packed_integers(p, count, type)
    BY <1>2 DEF integer
  <2> QED
    BY <1>2, <2>1, PackedIntegers
<1>3. CASE transform = "frame_of_reference"
  <2>1. result = frame_of_reference(p, count, type)
    BY <1>3 DEF integer
  <2> QED
    BY <1>3, <2>1, FrameOfReference
<1>4. CASE transform = "delta"
  <2>1. result = delta(p, count, type)
    BY <1>4 DEF integer
  <2> QED
    BY <1>4, <2>1, Delta
<1>5. CASE transform = "delta_of_delta"
  <2>1. result = delta_of_delta(p, count, type)
    BY <1>5 DEF integer
  <2> QED
    BY <1>5, <2>1, DeltaOfDelta
<1> QED
  BY <1>1, <1>2, <1>3, <1>4, <1>5 DEF IntegerTransforms

\* Every decoder of booleans returns as many as were asked for.
LEMMA AcceptedBooleans ==
    ASSUME NEW p \in Seq(Bytes), NEW count \in Nat, NEW transform \in BooleanTransforms,
           NEW result, result = booleans(p, count, transform), result.ok
    PROVE  Len(result.values) = count
<1>1. CASE transform = "raw"
  <2>1. result = raw_booleans(p, count)
    BY <1>1 DEF booleans
  <2>2. result.values = [k \in 1..count |-> Bit(p, k - 1) = 1]
    BY <2>1 DEF raw_booleans, Decoded, Corrupt
  <2> QED
    BY <2>2
<1>2. CASE transform = "bit_packed"
  <2>1. result = packed_booleans(p, count)
    BY <1>2 DEF booleans
  <2> DEFINE v == bit_unpack(p, count).values
  <2>2. result.values = [k \in 1..count |-> v[k] = 1]
    BY <2>1 DEF packed_booleans, Decoded, Corrupt
  <2> HIDE DEF v
  <2> QED
    BY <2>2
<1>3. CASE transform = "boolean_rle"
  <2>1. result = boolean_rle_values(p, count)
    BY <1>3 DEF booleans
  <2> QED
    BY <2>1, BooleanRuns
<1> QED
  BY <1>1, <1>2, <1>3 DEF BooleanTransforms

\* What the decoders of codec/transform.rs accept is as many values as the descriptor
\* declares, each of the column's type, and no difference that a delta stream rebuilds
\* leaves int64: whatever bytes are stored, for every byte and word size.
THEOREM AcceptedFitsTheColumnHolds ==
    StreamSpec => []AcceptedFitsTheColumn
<1>1. StreamType => AcceptedFitsTheColumn
  <2> SUFFICES ASSUME StreamType PROVE AcceptedFitsTheColumn
    OBVIOUS
  <2>0. stream \in Seq(Bytes)
    BY DEF StreamType
  <2>1. ASSUME NEW count \in Counts, NEW type \in Types, NEW transform \in IntegerTransforms,
               integer(stream, count, type, transform).ok
        PROVE  LET result == integer(stream, count, type, transform)
               IN  /\ Len(result.values) = count
                   /\ ToSet(result.values) \subseteq Values(type)
                   /\ transform \in {"delta", "delta_of_delta"} =>
                        ToSet(adjacent_deltas(result.values)) \subseteq Int64
    <3> DEFINE result == integer(stream, count, type, transform)
               vs == result.values
               ds == adjacent_deltas(vs)
    <3>1. count \in Nat /\ type \in IntegerTypes
      BY StreamInputs
    <3>2. /\ Fits(vs, count, type)
          /\ transform \in {"delta", "delta_of_delta"} =>
                \A k \in 1..(count - 1) : ds[k] \in Int64
      BY <2>0, <2>1, <3>1, AcceptedIntegers
    <3> HIDE DEF vs
    <3>3. vs \in Seq(Int) /\ Len(vs) = count /\ \A k \in 1..count : vs[k] \in Values(type)
      BY <3>2 DEF Fits
    <3>4. ToSet(vs) \subseteq Values(type)
      BY <3>3 DEF ToSet
    <3>5. DOMAIN ds = 1..(count - 1)
      BY <3>3 DEF adjacent_deltas
    <3> HIDE DEF ds
    <3>6. transform \in {"delta", "delta_of_delta"} => ToSet(ds) \subseteq Int64
      BY <3>2, <3>5 DEF ToSet
    <3> QED
      BY <3>3, <3>4, <3>6 DEF vs, ds
  <2>2. ASSUME NEW count \in Counts, NEW transform \in BooleanTransforms,
               booleans(stream, count, transform).ok
        PROVE  Len(booleans(stream, count, transform).values) = count
    BY <2>0, <2>2, StreamInputs, AcceptedBooleans
  <2> QED
    BY <2>1, <2>2 DEF AcceptedFitsTheColumn
<1> QED
  BY <1>1, StreamTypeHolds, PTL

\* The bytes the decoders of codec/transform.rs accept are the ones the writer lays
\* down for the values at the width and base they name, and a run-length stream says
\* what the writer's own runs and the raw bitmap of the same booleans say: whatever
\* bytes are stored, for every byte and word size.
THEOREM AcceptedIsCanonicalHolds ==
    StreamSpec => []AcceptedIsCanonical
<1>1. StreamType => AcceptedIsCanonical
  <2> SUFFICES ASSUME StreamType PROVE AcceptedIsCanonical
    OBVIOUS
  <2>0. stream \in Seq(Bytes)
    BY DEF StreamType
  <2>1. ASSUME NEW count \in Counts, NEW type \in Types, NEW transform \in IntegerTransforms,
               integer(stream, count, type, transform).ok
        PROVE  LET result == integer(stream, count, type, transform)
               IN  IF count = 0 /\ transform \in {"frame_of_reference", "delta"}
                   THEN stream = <<>>
                   ELSE stream = Relaid(result.values, type, transform)
    <3> DEFINE vs == integer(stream, count, type, transform).values
    <3>1. count \in Nat /\ type \in IntegerTypes
      BY StreamInputs
    <3>2. IF count = 0 /\ transform \in {"frame_of_reference", "delta"} THEN stream = <<>>
          ELSE stream = RelaidAs(stream, vs, type, transform)
      BY <2>0, <2>1, <3>1, AcceptedIntegers
    <3> HIDE DEF vs
    <3>3. RelaidAs(stream, vs, type, transform) = Relaid(vs, type, transform)
      BY Zenon DEF RelaidAs, Relaid
    <3> QED
      BY <3>2, <3>3, Zenon DEF vs
  <2>2. ASSUME NEW count \in Counts, booleans(stream, count, "boolean_rle").ok
        PROVE  LET runs == booleans(stream, count, "boolean_rle")
               IN  /\ booleans(boolean_rle(runs.values), count, "boolean_rle") = runs
                   /\ booleans(pack_booleans(runs.values), count, "raw") = runs
    <3> DEFINE runs == booleans(stream, count, "boolean_rle")
               v == runs.values
    <3>1. count \in Nat /\ count < 2^(ByteBits * CountBytes) /\ count < 2^WordBits
      BY StreamInputs
    <3>2. runs = boolean_rle_values(stream, count)
      BY DEF booleans
    <3>3. v \in Seq(BOOLEAN) /\ Len(v) = count /\ runs = Decoded(v)
      <4>1. runs.ok
        BY <2>2
      <4> HIDE DEF runs
      <4> QED
        BY <2>0, <3>1, <3>2, <4>1, BooleanRuns
    <3> HIDE DEF runs, v
    <3>4. boolean_rle_values(boolean_rle(v), count) = Decoded(v)
      BY ONLY <3>1, <3>3, RunsReadBack
    <3>5. raw_booleans(pack_booleans(v), count) = Decoded(v)
      BY ONLY <3>3, Bitmap
    <3>6. /\ booleans(boolean_rle(v), count, "boolean_rle") = boolean_rle_values(boolean_rle(v), count)
          /\ booleans(pack_booleans(v), count, "raw") = raw_booleans(pack_booleans(v), count)
      BY DEF booleans
    <3>7. /\ booleans(boolean_rle(v), count, "boolean_rle") = runs
          /\ booleans(pack_booleans(v), count, "raw") = runs
      BY <3>3, <3>4, <3>5, <3>6, Zenon
    <3> QED
      BY <3>7 DEF runs, v
  <2> QED
    BY <2>1, <2>2 DEF AcceptedIsCanonical
<1> QED
  BY <1>1, StreamTypeHolds, PTL
=============================================================================
