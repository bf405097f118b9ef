--------------------------- MODULE ActaFoldProofs ---------------------------
(***************************************************************************)
(* Induction over numbers and finite sets, stated over sets instead of     *)
(* predicates, and what the folds the models are written with compute:     *)
(* sums over sets and along sequences, and the joining of sequences.       *)
(***************************************************************************)
EXTENDS Integers, Sequences, SequencesExt, FiniteSetsExt, FiniteSetTheorems,
        SequenceTheorems, TLAPS

-----------------------------------------------------------------------------
(* Induction                                                               *)

\* A nonempty set of naturals has a least element: the form of induction that
\* needs no operator as a parameter.
LEMMA LeastElement ==
    ASSUME NEW S \in SUBSET Nat, S # {}
    PROVE  \E m \in S : \A k \in S : m <= k
<1>1. IsWellFoundedOn(OpToRel(<, Nat), Nat)
  BY NatLessThanWellFounded
<1>2. PICK x \in S : \A y \in S : ~(<<y, x>> \in OpToRel(<, Nat))
  BY <1>1, WFMin
<1>3. \A y \in S : ~(y < x)
  BY <1>2 DEF OpToRel
<1> QED
  BY <1>3

\* Induction along an interval, over a set instead of a predicate.
LEMMA SetInduction ==
    ASSUME NEW S, NEW m \in Nat, NEW n \in Nat, m \in S,
           \A k \in m..(n - 1) : k \in S => k + 1 \in S
    PROVE  \A k \in m..n : k \in S
<1> SUFFICES ASSUME NEW b \in m..n, b \notin S PROVE FALSE
  OBVIOUS
<1> DEFINE Bad == {k \in m..n : k \notin S}
<1>1. Bad \in SUBSET Nat /\ Bad # {}
  OBVIOUS
<1>2. PICK k \in Bad : \A j \in Bad : k <= j
  BY <1>1, LeastElement
<1>3. k # m /\ k \in m..n /\ k \notin S
  BY <1>2
<1>4. k - 1 \in m..(n - 1) /\ k - 1 \notin Bad
  BY <1>2, <1>3
<1> QED
  BY <1>3, <1>4

\* The same over the subsets of a finite set, each after its proper subsets.
LEMMA SubsetInduction ==
    ASSUME NEW T, IsFiniteSet(T), NEW P,
           \A s \in SUBSET T : (\A t \in SUBSET s : t # s => t \in P) => s \in P
    PROVE  \A s \in SUBSET T : s \in P
<1> SUFFICES ASSUME NEW b \in SUBSET T, b \notin P PROVE FALSE
  OBVIOUS
<1> DEFINE Bad == {n \in Nat : \E s \in SUBSET T : s \notin P /\ Cardinality(s) = n}
<1>0. \A s \in SUBSET T : IsFiniteSet(s) /\ Cardinality(s) \in Nat
  BY FS_Subset, FS_CardinalityType
<1>1. Bad \in SUBSET Nat /\ Bad # {}
  BY <1>0
<1>2. PICK n \in Bad : \A m \in Bad : n <= m
  BY <1>1, LeastElement
<1>3. PICK s \in SUBSET T : s \notin P /\ Cardinality(s) = n
  BY <1>2
<1>4. ASSUME NEW t \in SUBSET s, t # s PROVE t \in P
  <2>1. t \in SUBSET T /\ Cardinality(t) \in Nat /\ Cardinality(s) \in Nat /\ IsFiniteSet(s)
    BY <1>0
  <2>2. Cardinality(t) <= Cardinality(s) /\ Cardinality(t) # Cardinality(s)
    BY <1>4, <2>1, FS_Subset
  <2>3. ~(n <= Cardinality(t))
    BY <1>3, <2>1, <2>2
  <2> QED
    BY <1>2, <2>1, <2>3
<1> QED
  BY <1>3, <1>4

-----------------------------------------------------------------------------
(* Sums over finite sets                                                   *)

\* MapThenSumSet and SumFunction, which take the elements in an order of their
\* own, written for a function.
SumOver(f, S) == MapThenSumSet(LAMBDA x : f[x], S)

Picked(s) == CHOOSE x \in s : TRUE

\* One level of the recursion.
SumBody(f, g, s) == IF s = {} THEN 0 ELSE f[Picked(s)] + g[s \ {Picked(s)}]

Solves(f, S, g) == \A s \in SUBSET S : g[s] = SumBody(f, g, s)

LEMMA PickedIn ==
    ASSUME NEW s, s # {}
    PROVE  Picked(s) \in s
  BY DEF Picked

\* The recursion of a sum has a solution on the subsets of a finite set.
LEMMA SumRecursion ==
    ASSUME NEW f, NEW S, IsFiniteSet(S)
    PROVE  \E g : g = [s \in SUBSET S |-> SumBody(f, g, s)]
<1> DEFINE Layer(n) == {s \in SUBSET S : Cardinality(s) <= n}
           Solved == {n \in Nat : \E g : g = [s \in Layer(n) |-> SumBody(f, g, s)]}
           N == Cardinality(S)
<1>0. N \in Nat /\ \A s \in SUBSET S : /\ IsFiniteSet(s) /\ Cardinality(s) \in Nat
                                       /\ Cardinality(s) <= N
  BY FS_Subset, FS_CardinalityType
<1>1. 0 \in Solved
  <2>1. \A s \in Layer(0) : s = {}
    BY <1>0, FS_EmptySet
  <2>2. [s \in Layer(0) |-> 0] = [s \in Layer(0) |-> SumBody(f, [u \in Layer(0) |-> 0], s)]
    BY <2>1 DEF SumBody
  <2> QED
    BY <2>2
<1>2. ASSUME NEW n \in 0..(N - 1), n \in Solved PROVE n + 1 \in Solved
  <2>1. PICK g : g = [s \in Layer(n) |-> SumBody(f, g, s)]
    BY <1>2
  <2> DEFINE h == [s \in Layer(n + 1) |-> SumBody(f, g, s)]
  <2>2. \A s \in Layer(n + 1) : s # {} => s \ {Picked(s)} \in Layer(n)
    BY <1>0, PickedIn, FS_RemoveElement
  <2>3. \A s \in Layer(n) : s \in Layer(n + 1)
    BY <1>0
  <2>4. \A s \in Layer(n) : h[s] = g[s]
    BY <2>1, <2>3
  <2>5. \A s \in Layer(n + 1) : SumBody(f, g, s) = SumBody(f, h, s)
    BY <2>2, <2>4 DEF SumBody
  <2>6. h = [s \in Layer(n + 1) |-> SumBody(f, h, s)]
    BY <2>5
  <2>7. \E e : e = [s \in Layer(n + 1) |-> SumBody(f, e, s)]
    <3> HIDE DEF h, Layer
    <3> QED
      BY <2>6
  <2>8. n + 1 \in Nat
    BY <1>0
  <2> HIDE DEF Layer
  <2> QED
    BY <2>7, <2>8
<1>3. N \in Solved
  <2>1. \A k \in 0..(N - 1) : k \in Solved => k + 1 \in Solved
    BY <1>2
  <2>2. N \in 0..N /\ 0 \in Nat
    BY <1>0
  <2> HIDE DEF Solved, N
  <2>3. \A k \in 0..N : k \in Solved
    BY <1>0, <1>1, <2>1, <2>2, SetInduction
  <2> QED
    BY <2>2, <2>3
<1>4. Layer(N) = SUBSET S
  BY <1>0
<1> QED
  BY <1>3, <1>4

\* A sum takes the element it picks and goes on with the others.
LEMMA SumUnfolds ==
    ASSUME NEW f, NEW S, IsFiniteSet(S)
    PROVE  \E g : Solves(f, S, g) /\ SumOver(f, S) = g[S]
<1> DEFINE g == CHOOSE h : h = [s \in SUBSET S |-> SumBody(f, h, s)]
<1>1. g = [s \in SUBSET S |-> SumBody(f, g, s)]
  BY SumRecursion
<1>2. SumOver(f, S) = g[S]
  BY DEF SumOver, MapThenSumSet, MapThenFoldSet, SumBody, Picked
<1> HIDE DEF g
<1>3. Solves(f, S, g)
  BY <1>1 DEF Solves
<1> QED
  BY <1>2, <1>3

\* There is but one solution.
LEMMA SumUnique ==
    ASSUME NEW f, NEW e, NEW S, IsFiniteSet(S), \A x \in S : e[x] = f[x],
           NEW g, Solves(f, S, g), NEW h, Solves(e, S, h)
    PROVE  \A s \in SUBSET S : g[s] = h[s]
<1> DEFINE Same == {s \in SUBSET S : g[s] = h[s]}
<1>1. ASSUME NEW s \in SUBSET S, \A t \in SUBSET s : t # s => t \in Same PROVE s \in Same
  <2>1. CASE s = {}
    BY <2>1 DEF SumBody, Solves
  <2>2. CASE s # {}
    <3>1. Picked(s) \in s /\ Picked(s) \in S
      BY <2>2, PickedIn
    <3>2. s \ {Picked(s)} \in Same
      BY <1>1, <3>1
    <3> QED
      BY <2>2, <3>1, <3>2 DEF SumBody, Solves
  <2> QED
    BY <2>1, <2>2
<1>2. \A s \in SUBSET S : (\A t \in SUBSET s : t # s => t \in Same) => s \in Same
  BY <1>1
<1>3. \A s \in SUBSET S : s \in Same
  <2> HIDE DEF Same
  <2> QED
    BY <1>2, SubsetInduction
<1> QED
  BY <1>3

\* Sums depend on the values at the elements only.
LEMMA SumAgree ==
    ASSUME NEW f, NEW e, NEW S, IsFiniteSet(S), \A x \in S : e[x] = f[x]
    PROVE  SumOver(e, S) = SumOver(f, S)
<1>1. PICK g : Solves(f, S, g) /\ SumOver(f, S) = g[S]
  BY SumUnfolds
<1>2. PICK h : Solves(e, S, h) /\ SumOver(e, S) = h[S]
  BY SumUnfolds
<1>3. g[S] = h[S]
  BY <1>1, <1>2, SumUnique
<1> QED
  BY <1>1, <1>2, <1>3

LEMMA SumEmpty ==
    ASSUME NEW f
    PROVE  SumOver(f, {}) = 0
<1>1. IsFiniteSet({})
  BY FS_EmptySet
<1>2. PICK g : Solves(f, {}, g) /\ SumOver(f, {}) = g[{}]
  BY <1>1, SumUnfolds
<1> QED
  BY <1>2 DEF SumBody, Solves

\* The sum of a subset, by the recursion of the whole.
LEMMA SumOfSubset ==
    ASSUME NEW f, NEW S, IsFiniteSet(S), NEW g, Solves(f, S, g),
           NEW T \in SUBSET S
    PROVE  SumOver(f, T) = g[T]
<1>1. IsFiniteSet(T) /\ \A s \in SUBSET T : s \in SUBSET S
  BY FS_Subset
<1>2. PICK h : Solves(f, T, h) /\ SumOver(f, T) = h[T]
  BY <1>1, SumUnfolds
<1>3. Solves(f, T, g)
  BY <1>1 DEF Solves
<1>4. \A s \in SUBSET T : h[s] = g[s]
  BY <1>1, <1>2, <1>3, SumUnique
<1> QED
  BY <1>2, <1>4

LEMMA SumPicks ==
    ASSUME NEW f, NEW S, IsFiniteSet(S), S # {}
    PROVE  /\ Picked(S) \in S
           /\ SumOver(f, S) = f[Picked(S)] + SumOver(f, S \ {Picked(S)})
<1>1. PICK g : Solves(f, S, g) /\ SumOver(f, S) = g[S]
  BY SumUnfolds
<1>2. \A T \in SUBSET S : SumOver(f, T) = g[T]
  BY <1>1, SumOfSubset
<1>3. SumOver(f, S \ {Picked(S)}) = g[S \ {Picked(S)}]
  BY <1>2
<1> QED
  BY <1>1, <1>3, PickedIn DEF SumBody, Solves

\* A sum of naturals is a natural, and any element may be taken first.
LEMMA SumRemove ==
    ASSUME NEW f, NEW S, IsFiniteSet(S), \A x \in S : f[x] \in Nat
    PROVE  /\ SumOver(f, S) \in Nat
           /\ \A x \in S : SumOver(f, S) = f[x] + SumOver(f, S \ {x})
<1> DEFINE Order == {s \in SUBSET S : /\ SumOver(f, s) \in Nat
                                      /\ \A x \in s : SumOver(f, s) = f[x] + SumOver(f, s \ {x})}
<1>1. ASSUME NEW s \in SUBSET S, \A t \in SUBSET s : t # s => t \in Order PROVE s \in Order
  <2>0. IsFiniteSet(s)
    BY FS_Subset
  <2>1. CASE s = {}
    BY <2>1, SumEmpty
  <2>2. CASE s # {}
    <3> DEFINE p == Picked(s)
    <3>1. p \in s /\ SumOver(f, s) = f[p] + SumOver(f, s \ {p})
      BY <2>0, <2>2, SumPicks
    <3>2. s \ {p} \in Order
      BY <1>1, <3>1
    <3>3. SumOver(f, s) \in Nat
      BY <3>1, <3>2
    <3> HIDE DEF p
    <3>4. ASSUME NEW x \in s PROVE SumOver(f, s) = f[x] + SumOver(f, s \ {x})
      <4>1. CASE x = p
        BY <3>1, <4>1
      <4>2. CASE x # p
        <5>1. x \in s \ {p} /\ p \in s \ {x} /\ s \ {x} \in Order
          BY <1>1, <3>1, <3>4, <4>2
        <5>2. (s \ {p}) \ {x} = (s \ {x}) \ {p}
          OBVIOUS
        <5>3. SumOver(f, s \ {p}) = f[x] + SumOver(f, (s \ {p}) \ {x})
          BY <3>2, <5>1
        <5>4. SumOver(f, s \ {x}) = f[p] + SumOver(f, (s \ {p}) \ {x})
          BY <5>1, <5>2
        <5>5. (s \ {p}) \ {x} \in Order
          BY <1>1, <3>1
        <5>6. f[x] \in Nat /\ f[p] \in Nat /\ SumOver(f, (s \ {p}) \ {x}) \in Nat
          BY <3>1, <5>5
        <5> QED
          BY <3>1, <5>3, <5>4, <5>6
      <4> QED
        BY <4>1, <4>2
    <3> QED
      BY <3>3, <3>4
  <2> QED
    BY <2>1, <2>2
<1>2. \A s \in SUBSET S : (\A t \in SUBSET s : t # s => t \in Order) => s \in Order
  BY <1>1
<1>3. \A s \in SUBSET S : s \in Order
  <2> HIDE DEF Order
  <2> QED
    BY <1>2, SubsetInduction
<1> QED
  BY <1>3

\* One more element.
LEMMA SumAdd ==
    ASSUME NEW f, NEW S, IsFiniteSet(S), NEW y, y \notin S, \A x \in S \cup {y} : f[x] \in Nat
    PROVE  /\ SumOver(f, S) \in Nat /\ f[y] \in Nat
           /\ SumOver(f, S \cup {y}) = f[y] + SumOver(f, S)
<1>1. IsFiniteSet(S \cup {y}) /\ (S \cup {y}) \ {y} = S
  BY FS_AddElement
<1> QED
  BY <1>1, SumRemove

\* A sum of larger values over more elements is larger.
LEMMA SumMonotone ==
    ASSUME NEW f, NEW e, NEW S, IsFiniteSet(S),
           \A x \in S : f[x] \in Nat /\ e[x] \in Nat /\ e[x] <= f[x]
    PROVE  SumOver(e, S) <= SumOver(f, S)
<1> DEFINE Below == {s \in SUBSET S : SumOver(e, s) <= SumOver(f, s)}
<1>1. ASSUME NEW s \in SUBSET S, \A t \in SUBSET s : t # s => t \in Below PROVE s \in Below
  <2>0. IsFiniteSet(s)
    BY FS_Subset
  <2>1. CASE s = {}
    BY <2>1, SumEmpty
  <2>2. CASE s # {}
    <3> DEFINE p == Picked(s)
    <3>1. /\ p \in s /\ p \in S /\ SumOver(f, s) = f[p] + SumOver(f, s \ {p})
          /\ SumOver(e, s) = e[p] + SumOver(e, s \ {p})
      BY <2>0, <2>2, SumPicks
    <3>2. s \ {p} \in Below /\ IsFiniteSet(s \ {p})
      BY <1>1, <2>0, <3>1, FS_RemoveElement
    <3>3. SumOver(f, s \ {p}) \in Nat /\ SumOver(e, s \ {p}) \in Nat
      BY <3>2, SumRemove
    <3> HIDE DEF p
    <3> QED
      BY <3>1, <3>2, <3>3
  <2> QED
    BY <2>1, <2>2
<1>2. \A s \in SUBSET S : (\A t \in SUBSET s : t # s => t \in Below) => s \in Below
  BY <1>1
<1>3. \A s \in SUBSET S : s \in Below
  <2> HIDE DEF Below
  <2> QED
    BY <1>2, SubsetInduction
<1> QED
  BY <1>3

LEMMA SumFunctionIsSum ==
    ASSUME NEW f
    PROVE  SumFunction(f) = SumOver(f, DOMAIN f)
  BY DEF SumFunction, SumFunctionOnSet, FoldFunctionOnSet, SumOver, MapThenSumSet

LEMMA SumOnSetIsSum ==
    ASSUME NEW f, NEW S
    PROVE  SumFunctionOnSet(f, S) = SumOver(f, S)
  BY DEF SumFunctionOnSet, FoldFunctionOnSet, SumOver, MapThenSumSet

LEMMA SumType ==
    ASSUME NEW f, IsFiniteSet(DOMAIN f), \A x \in DOMAIN f : f[x] \in Nat
    PROVE  SumFunction(f) \in Nat
  BY SumFunctionIsSum, SumRemove

\* A function that extends another by one element.
LEMMA SumExtend ==
    ASSUME NEW f, NEW e, NEW y, IsFiniteSet(DOMAIN f), y \notin DOMAIN f,
           DOMAIN e = DOMAIN f \cup {y},
           \A x \in DOMAIN f : f[x] \in Nat /\ e[x] = f[x], e[y] \in Nat
    PROVE  /\ SumFunction(f) \in Nat
           /\ SumFunction(e) = SumFunction(f) + e[y]
<1> DEFINE S == DOMAIN f
<1>1. SumFunction(e) = SumOver(e, S \cup {y}) /\ SumFunction(f) = SumOver(f, S)
  BY SumFunctionIsSum
<1>2. SumOver(e, S) = SumOver(f, S)
  <2>1. \A x \in S : e[x] = f[x]
    OBVIOUS
  <2> HIDE DEF S
  <2>2. IsFiniteSet(S)
    BY DEF S
  <2> QED
    BY <2>1, <2>2, SumAgree
<1>3. /\ SumOver(e, S) \in Nat /\ e[y] \in Nat
      /\ SumOver(e, S \cup {y}) = e[y] + SumOver(e, S)
  <2>1. \A x \in S \cup {y} : e[x] \in Nat
    OBVIOUS
  <2>2. IsFiniteSet(S) /\ y \notin S
    OBVIOUS
  <2> HIDE DEF S
  <2> QED
    BY <2>1, <2>2, SumAdd
<1> QED
  BY <1>1, <1>2, <1>3

\* A sum over more elements is larger.
LEMMA SumSubset ==
    ASSUME NEW f, NEW S, IsFiniteSet(S), \A x \in S : f[x] \in Nat, NEW T \in SUBSET S
    PROVE  SumOver(f, T) <= SumOver(f, S)
<1> DEFINE Below == {s \in SUBSET S : \A t \in SUBSET s : SumOver(f, t) <= SumOver(f, s)}
<1>1. ASSUME NEW s \in SUBSET S, \A t \in SUBSET s : t # s => t \in Below PROVE s \in Below
  <2>0. IsFiniteSet(s) /\ \A x \in s : f[x] \in Nat
    BY FS_Subset
  <2>1. SumOver(f, s) \in Nat /\ \A x \in s : SumOver(f, s) = f[x] + SumOver(f, s \ {x})
    BY <2>0, SumRemove
  <2>2. ASSUME NEW t \in SUBSET s, t # s PROVE SumOver(f, t) <= SumOver(f, s)
    <3>1. PICK x \in s : x \notin t
      BY <2>2
    <3>2. s \ {x} \in Below /\ t \in SUBSET (s \ {x})
      BY <1>1, <3>1
    <3>3. SumOver(f, t) <= SumOver(f, s \ {x})
      BY <3>2
    <3>4. IsFiniteSet(s \ {x}) /\ IsFiniteSet(t)
      BY <2>0, FS_Subset
    <3>5. SumOver(f, s \ {x}) \in Nat /\ SumOver(f, t) \in Nat
      BY <2>0, <3>4, SumRemove
    <3> QED
      BY <2>0, <2>1, <3>3, <3>5
  <2> QED
    BY <2>1, <2>2
<1>2. \A s \in SUBSET S : (\A t \in SUBSET s : t # s => t \in Below) => s \in Below
  BY <1>1
<1>3. \A s \in SUBSET S : s \in Below
  <2> HIDE DEF Below
  <2> QED
    BY <1>2, SubsetInduction
<1> QED
  BY <1>3

\* The same value at every element.
LEMMA SumConstant ==
    ASSUME NEW f, NEW S, IsFiniteSet(S), NEW w \in Nat, \A x \in S : f[x] = w
    PROVE  Cardinality(S) \in Nat /\ SumOver(f, S) = w * Cardinality(S)
<1> DEFINE Times == {s \in SUBSET S : SumOver(f, s) = w * Cardinality(s)}
<1>1. ASSUME NEW s \in SUBSET S, \A t \in SUBSET s : t # s => t \in Times PROVE s \in Times
  <2>0. IsFiniteSet(s) /\ Cardinality(s) \in Nat
    BY FS_Subset, FS_CardinalityType
  <2>1. CASE s = {}
    BY <2>1, SumEmpty, FS_EmptySet
  <2>2. CASE s # {}
    <3> DEFINE p == Picked(s)
    <3>1. p \in s /\ SumOver(f, s) = f[p] + SumOver(f, s \ {p})
      BY <2>0, <2>2, SumPicks
    <3>2. s \ {p} \in Times /\ IsFiniteSet(s \ {p}) /\ Cardinality(s \ {p}) = Cardinality(s) - 1
      BY <1>1, <2>0, <3>1, FS_RemoveElement
    <3>3. SumOver(f, s) = w + w * (Cardinality(s) - 1)
      BY <3>1, <3>2
    <3>4. \A c \in Nat : w + w * (c - 1) = w * c
      OBVIOUS
    <3> QED
      BY <2>0, <3>3, <3>4
  <2> QED
    BY <2>1, <2>2
<1>2. \A s \in SUBSET S : (\A t \in SUBSET s : t # s => t \in Times) => s \in Times
  BY <1>1
<1>3. \A s \in SUBSET S : s \in Times
  <2> HIDE DEF Times
  <2> QED
    BY <1>2, SubsetInduction
<1> QED
  BY <1>3, FS_CardinalityType

-----------------------------------------------------------------------------
(* The largest of a set of numbers                                         *)

LEMMA MaxOfBounded ==
    ASSUME NEW n \in Nat, NEW S \in SUBSET (0..n), S # {}
    PROVE  Max(S) \in S /\ \A k \in S : k <= Max(S)
<1> DEFINE Rest == {n - k : k \in S}
<1>1. Rest \in SUBSET Nat /\ Rest # {}
  OBVIOUS
<1>2. PICK m \in Rest : \A k \in Rest : m <= k
  BY <1>1, LeastElement
<1>3. PICK x \in S : m = n - x
  BY <1>2
<1>4. \A y \in S : x >= y
  BY <1>2, <1>3
<1> QED
  BY <1>4 DEF Max

\* A finite nonempty set of integers has a least and a greatest element.
LEMMA ExtremesOfFinite ==
    ASSUME NEW S \in SUBSET Int, IsFiniteSet(S), S # {}
    PROVE  /\ Min(S) \in S /\ \A k \in S : Min(S) <= k
           /\ Max(S) \in S /\ \A k \in S : k <= Max(S)
<1> DEFINE Bounded == {s \in SUBSET S : s = {} \/ /\ \E m \in s : \A k \in s : m <= k
                                                  /\ \E m \in s : \A k \in s : k <= m}
<1>1. ASSUME NEW s \in SUBSET S, \A t \in SUBSET s : t # s => t \in Bounded
      PROVE  s \in Bounded
  <2>1. CASE s # {}
    <3>0. PICK x \in s : TRUE
      BY <2>1
    <3>1. s \ {x} \in Bounded
      <4>1. s \ {x} \in SUBSET s /\ s \ {x} # s
        OBVIOUS
      <4> QED
        BY <1>1, <4>1
    <3>2. CASE s \ {x} = {}
      <4>1. \A k \in s : k = x
        BY <3>2
      <4>2. \A k \in s : x <= k /\ k <= x
        BY <4>1
      <4> QED
        BY <4>2
    <3>3. CASE s \ {x} # {}
      <4>1. PICK m \in s \ {x} : \A k \in s \ {x} : m <= k
        BY <3>1, <3>3
      <4>2. PICK n \in s \ {x} : \A k \in s \ {x} : k <= n
        BY <3>1, <3>3
      <4>3. m \in Int /\ n \in Int /\ x \in Int
        OBVIOUS
      <4>4. \E a \in s : \A k \in s : a <= k
        <5>1. CASE m <= x
          <6>1. \A k \in s : m <= k
            BY <4>1, <5>1
          <6> QED
            BY <6>1
        <5>2. CASE x <= m
          <6>1. \A k \in s : x <= k
            BY <4>1, <4>3, <5>2
          <6> QED
            BY <6>1
        <5> QED
          BY <4>3, <5>1, <5>2
      <4>5. \E a \in s : \A k \in s : k <= a
        <5>1. CASE x <= n
          <6>1. \A k \in s : k <= n
            BY <4>2, <5>1
          <6> QED
            BY <6>1
        <5>2. CASE n <= x
          <6>1. \A k \in s : k <= x
            BY <4>2, <4>3, <5>2
          <6> QED
            BY <6>1
        <5> QED
          BY <4>3, <5>1, <5>2
      <4> QED
        BY <4>4, <4>5
    <3> QED
      BY <3>2, <3>3
  <2> QED
    BY <2>1
<1>2. \A s \in SUBSET S : (\A t \in SUBSET s : t # s => t \in Bounded) => s \in Bounded
  BY <1>1
<1>3. \A s \in SUBSET S : s \in Bounded
  <2> HIDE DEF Bounded
  <2> QED
    BY <1>2, SubsetInduction
<1>4. PICK m \in S : \A k \in S : m <= k
  BY <1>3
<1>5. PICK n \in S : \A k \in S : k <= n
  BY <1>3
<1> QED
  BY <1>4, <1>5 DEF Min, Max

-----------------------------------------------------------------------------
(* Sequences in order                                                      *)

\* Neighbours in order are enough.
LEMMA SortedBetween ==
    ASSUME NEW v \in Seq(Int), \A i \in 1..Len(v) - 1 : v[i] <= v[i + 1]
    PROVE  \A i \in 1..Len(v) : \A j \in i..Len(v) : v[i] <= v[j]
<1> SUFFICES ASSUME NEW i \in 1..Len(v)
             PROVE  \A j \in i..Len(v) : v[i] <= v[j]
  OBVIOUS
<1> DEFINE Above == {j \in Nat : v[i] <= v[j]}
           n == Len(v)
<1>0. n \in Nat /\ i \in Nat /\ v[i] \in Int /\ i \in Above
  OBVIOUS
<1>1. \A k \in i..(n - 1) : k \in Above => k + 1 \in Above
  <2> SUFFICES ASSUME NEW k \in i..(n - 1), k \in Above PROVE k + 1 \in Above
    OBVIOUS
  <2>1. k \in 1..Len(v) - 1 /\ k + 1 \in 1..Len(v) /\ k \in 1..Len(v) /\ k + 1 \in Nat
    BY <1>0
  <2>2. v[k] <= v[k + 1] /\ v[k] \in Int /\ v[k + 1] \in Int
    BY <2>1
  <2> QED
    BY <1>0, <2>1, <2>2
<1>2. \A j \in i..n : j \in Above
  <2> HIDE DEF Above, n
  <2> QED
    BY <1>0, <1>1, SetInduction
<1> QED
  BY <1>2

-----------------------------------------------------------------------------
(* Sequences joined end to end                                             *)

FlatBody(s, g, i) == IF i = 1 THEN s[i] ELSE g[i - 1] \o s[i]

Joins(s, n, g) == \A i \in 1..n : g[i] = FlatBody(s, g, i)

LEMMA JoinRecursion ==
    ASSUME NEW s, NEW n \in Nat
    PROVE  \E g : g = [i \in 1..n |-> FlatBody(s, g, i)]
<1> DEFINE Solved == {k \in Nat : \E g : g = [i \in 1..k |-> FlatBody(s, g, i)]}
<1>1. 0 \in Solved
  <2>1. [i \in 1..0 |-> 0] = [i \in 1..0 |-> FlatBody(s, [j \in 1..0 |-> 0], i)]
    OBVIOUS
  <2> QED
    BY <2>1
<1>2. ASSUME NEW k \in 0..(n - 1), k \in Solved PROVE k + 1 \in Solved
  <2>1. PICK g : g = [i \in 1..k |-> FlatBody(s, g, i)]
    BY <1>2
  <2> DEFINE h == [i \in 1..(k + 1) |-> FlatBody(s, g, i)]
  <2>2. \A i \in 1..k : h[i] = g[i]
    BY <2>1
  <2>3. \A i \in 1..(k + 1) : FlatBody(s, g, i) = FlatBody(s, h, i)
    <3>1. \A i \in 1..(k + 1) : i # 1 => i - 1 \in 1..k
      OBVIOUS
    <3> HIDE DEF h
    <3> QED
      BY <2>2, <3>1 DEF FlatBody
  <2>4. h = [i \in 1..(k + 1) |-> FlatBody(s, h, i)]
    BY <2>3
  <2>5. k + 1 \in Nat
    OBVIOUS
  <2> HIDE DEF h
  <2> QED
    BY <2>4, <2>5
<1>3. \A k \in 0..(n - 1) : k \in Solved => k + 1 \in Solved
  BY <1>2
<1>4. n \in 0..n
  OBVIOUS
<1>5. n \in Solved
  <2> HIDE DEF Solved
  <2>1. \A k \in 0..n : k \in Solved
    BY <1>1, <1>3, SetInduction
  <2> QED
    BY <1>4, <2>1
<1> QED
  BY <1>5

LEMMA FlattenUnfolds ==
    ASSUME NEW s, Len(s) \in Nat \ {0}
    PROVE  \E g : Joins(s, Len(s), g) /\ FlattenSeq(s) = g[Len(s)]
<1> DEFINE n == Len(s)
           g == CHOOSE h : h = [i \in 1..n |-> FlatBody(s, h, i)]
<1>1. g = [i \in 1..n |-> FlatBody(s, g, i)]
  BY JoinRecursion
<1>2. FlattenSeq(s) = g[n]
  BY DEF FlattenSeq, FlatBody
<1> HIDE DEF g
<1>3. Joins(s, n, g)
  BY <1>1 DEF Joins
<1> QED
  BY <1>2, <1>3

LEMMA JoinUnique ==
    ASSUME NEW s, NEW t, NEW n \in Nat, \A i \in 1..n : s[i] = t[i],
           NEW g, Joins(s, n, g), NEW h, Joins(t, n, h)
    PROVE  \A i \in 1..n : g[i] = h[i]
<1> DEFINE Same == {i \in Nat : i = 0 \/ g[i] = h[i]}
<1>1. 0 \in Same
  OBVIOUS
<1>2. \A k \in 0..(n - 1) : k \in Same => k + 1 \in Same
  BY DEF Joins, FlatBody
<1>3. \A k \in 0..n : k \in Same
  <2> HIDE DEF Same
  <2> QED
    BY <1>1, <1>2, SetInduction
<1> QED
  BY <1>3

LEMMA JoinType ==
    ASSUME NEW T, NEW s \in Seq(Seq(T)), NEW g, Joins(s, Len(s), g)
    PROVE  \A i \in 1..Len(s) : g[i] \in Seq(T)
<1> DEFINE Typed == {i \in Nat : i = 0 \/ g[i] \in Seq(T)}
<1>1. 0 \in Typed
  OBVIOUS
<1>2. ASSUME NEW k \in 0..(Len(s) - 1), k \in Typed PROVE k + 1 \in Typed
  <2>1. k + 1 \in 1..Len(s) /\ s[k + 1] \in Seq(T)
    OBVIOUS
  <2>2. CASE k = 0
    BY <2>1, <2>2 DEF Joins, FlatBody
  <2>3. CASE k # 0
    <3>1. k + 1 # 1 /\ (k + 1) - 1 = k /\ k + 1 \in Nat
      BY <2>3
    <3>2. g[k] \in Seq(T)
      BY <1>2, <2>3
    <3>3. g[k + 1] = g[k] \o s[k + 1]
      BY <2>1, <3>1 DEF Joins, FlatBody
    <3>4. g[k] \o s[k + 1] \in Seq(T)
      BY <2>1, <3>2
    <3> QED
      BY <3>1, <3>3, <3>4
  <2> QED
    BY <2>2, <2>3
<1>3. \A k \in 0..(Len(s) - 1) : k \in Typed => k + 1 \in Typed
  BY <1>2
<1>4. Len(s) \in Nat
  OBVIOUS
<1>5. \A k \in 0..Len(s) : k \in Typed
  <2> HIDE DEF Typed
  <2> QED
    BY <1>1, <1>3, <1>4, SetInduction
<1> QED
  BY <1>5

LEMMA FlattenEmpty ==
    FlattenSeq(<<>>) = <<>>
  BY DEF FlattenSeq

LEMMA FlattenType ==
    ASSUME NEW T, NEW s \in Seq(Seq(T))
    PROVE  FlattenSeq(s) \in Seq(T)
<1>1. CASE Len(s) = 0
  BY <1>1, FlattenEmpty, s = <<>>, <<>> \in Seq(T)
<1>2. CASE Len(s) # 0
  <2>1. Len(s) \in Nat \ {0}
    BY <1>2
  <2>2. PICK g : Joins(s, Len(s), g) /\ FlattenSeq(s) = g[Len(s)]
    BY <2>1, FlattenUnfolds
  <2> QED
    BY <2>1, <2>2, JoinType
<1> QED
  BY <1>1, <1>2

\* One more sequence at the end.
LEMMA FlattenAppend ==
    ASSUME NEW T, NEW s \in Seq(Seq(T)), NEW e \in Seq(T)
    PROVE  FlattenSeq(Append(s, e)) = FlattenSeq(s) \o e
<1> DEFINE u == Append(s, e)
           n == Len(s)
<1>1. /\ u \in Seq(Seq(T)) /\ Len(u) = n + 1 /\ n \in Nat /\ u[n + 1] = e
      /\ \A i \in 1..n : u[i] = s[i]
  OBVIOUS
<1> HIDE DEF u
<1>2. PICK g : Joins(u, Len(u), g) /\ FlattenSeq(u) = g[Len(u)]
  BY <1>1, FlattenUnfolds
<1>3. CASE n = 0
  <2>1. FlattenSeq(s) = <<>>
    BY <1>3, FlattenEmpty
  <2>2. FlattenSeq(u) = e
    BY <1>1, <1>2, <1>3 DEF Joins, FlatBody
  <2> QED
    BY <2>1, <2>2 DEF u
<1>4. CASE n # 0
  <2>1. PICK h : Joins(s, n, h) /\ FlattenSeq(s) = h[n]
    BY <1>1, <1>4, FlattenUnfolds
  <2>2. Joins(u, n, g)
    BY <1>1, <1>2 DEF Joins
  <2> HIDE DEF n
  <2>3. \A i \in 1..n : g[i] = h[i]
    <3>1. n \in Nat /\ Joins(s, n, h) /\ Joins(u, n, g)
      BY <1>1, <2>1, <2>2
    <3>2. \A i \in 1..n : u[i] = s[i]
      BY <1>1
    <3> QED
      BY ONLY <3>1, <3>2, JoinUnique
  <2>4. n + 1 \in 1..Len(u) /\ n + 1 # 1 /\ (n + 1) - 1 = n /\ n \in 1..n
    BY <1>1, <1>4
  <2>5. g[n + 1] = g[n] \o e
    BY <1>1, <1>2, <2>4 DEF Joins, FlatBody
  <2>6. FlattenSeq(u) = FlattenSeq(s) \o e
    BY <1>1, <1>2, <2>1, <2>3, <2>4, <2>5
  <2> QED
    BY <2>6 DEF u
<1> QED
  BY <1>3, <1>4

\* What one of the sequences holds is in the whole.
LEMMA FlattenMember ==
    ASSUME NEW T, NEW s \in Seq(Seq(T)), NEW i \in 1..Len(s), NEW j \in 1..Len(s[i])
    PROVE  \E m \in 1..Len(FlattenSeq(s)) : FlattenSeq(s)[m] = s[i][j]
<1> DEFINE n == Len(s)
<1>1. n \in Nat \ {0} /\ i \in 1..n /\ s[i] \in Seq(T) /\ i \in Nat
  OBVIOUS
<1>2. PICK g : Joins(s, n, g) /\ FlattenSeq(s) = g[n]
  BY <1>1, FlattenUnfolds
<1>3. \A k \in 1..n : g[k] \in Seq(T)
  BY <1>2, JoinType
<1> DEFINE Held == {k \in Nat : \E m \in 1..Len(g[k]) : g[k][m] = s[i][j]}
<1>4. i \in Held
  <2>1. CASE i = 1
    BY <1>1, <1>2, <2>1 DEF Joins, FlatBody
  <2>2. CASE i # 1
    <3>0. i - 1 \in 1..n
      BY <1>1, <2>2
    <3>1. g[i - 1] \in Seq(T) /\ g[i] = g[i - 1] \o s[i]
      BY <1>1, <1>2, <1>3, <2>2, <3>0 DEF Joins, FlatBody
    <3>2. \A a, b \in Seq(T) : \A m \in 1..Len(b) :
            Len(a) + m \in 1..Len(a \o b) /\ (a \o b)[Len(a) + m] = b[m]
      OBVIOUS
    <3>3. j \in 1..Len(s[i])
      OBVIOUS
    <3>4. Len(g[i - 1]) + j \in 1..Len(g[i]) /\ g[i][Len(g[i - 1]) + j] = s[i][j]
      <4>1. \A m \in 1..Len(s[i]) :
              /\ Len(g[i - 1]) + m \in 1..Len(g[i - 1] \o s[i])
              /\ (g[i - 1] \o s[i])[Len(g[i - 1]) + m] = s[i][m]
        BY ONLY <1>1, <3>1, <3>2
      <4> QED
        BY ONLY <3>1, <3>3, <4>1
    <3> QED
      BY <1>1, <3>4
  <2> QED
    BY <2>1, <2>2
<1>5. ASSUME NEW k \in i..(n - 1), k \in Held PROVE k + 1 \in Held
  <2>1. k + 1 \in 1..n /\ k + 1 # 1 /\ (k + 1) - 1 = k /\ k \in 1..n /\ k + 1 \in Nat
    BY <1>1
  <2>2. g[k] \in Seq(T) /\ s[k + 1] \in Seq(T) /\ g[k + 1] = g[k] \o s[k + 1]
    <3>1. g[k] \in Seq(T) /\ s[k + 1] \in Seq(T)
      BY <1>3, <2>1
    <3>2. g[k + 1] = FlatBody(s, g, k + 1)
      BY <1>2, <2>1 DEF Joins
    <3> QED
      BY <2>1, <3>1, <3>2 DEF FlatBody
  <2>3. PICK m \in 1..Len(g[k]) : g[k][m] = s[i][j]
    BY <1>5
  <2>4. m \in 1..Len(g[k + 1]) /\ g[k + 1][m] = s[i][j]
    <3>1. \A a, b \in Seq(T) : \A l \in 1..Len(a) :
            l \in 1..Len(a \o b) /\ (a \o b)[l] = a[l]
      OBVIOUS
    <3> QED
      BY ONLY <2>2, <2>3, <3>1
  <2> QED
    BY <2>1, <2>4
<1>6. \A k \in i..(n - 1) : k \in Held => k + 1 \in Held
  BY <1>5
<1>7. \A k \in i..n : k \in Held
  <2> HIDE DEF Held, n
  <2> QED
    BY <1>1, <1>4, <1>6, SetInduction
<1>8. n \in i..n
  BY <1>1
<1> QED
  BY <1>2, <1>7, <1>8
-----------------------------------------------------------------------------
(* Sums along a sequence, and where a joined sequence holds its parts      *)

\* The sum of the first elements grows by the next one.
LEMMA PrefixSum ==
    ASSUME NEW f, NEW n \in Nat, \A i \in 1..n : f[i] \in Nat
    PROVE  /\ SumFunctionOnSet(f, 1..0) = 0
           /\ \A k \in 0..n : SumFunctionOnSet(f, 1..k) \in Nat
           /\ \A k \in 1..n : SumFunctionOnSet(f, 1..k) = SumFunctionOnSet(f, 1..(k - 1)) + f[k]
<1>1. SumFunctionOnSet(f, 1..0) = 0
  BY SumEmpty, SumOnSetIsSum, 1..0 = {}
<1>2. ASSUME NEW k \in 0..n PROVE SumFunctionOnSet(f, 1..k) \in Nat
  <2>1. IsFiniteSet(1..k) /\ \A x \in 1..k : f[x] \in Nat
    BY FS_Interval
  <2> QED
    BY <2>1, SumRemove, SumOnSetIsSum
<1>3. ASSUME NEW k \in 1..n
      PROVE  SumFunctionOnSet(f, 1..k) = SumFunctionOnSet(f, 1..(k - 1)) + f[k]
  <2>0. k - 1 \in Int /\ 1 \in Int /\ k \notin 1..(k - 1) /\ 1..k = 1..(k - 1) \cup {k}
    OBVIOUS
  <2>1. IsFiniteSet(1..(k - 1))
    BY <2>0, FS_Interval
  <2>2. \A x \in 1..(k - 1) \cup {k} : f[x] \in Nat
    OBVIOUS
  <2>3. /\ SumOver(f, 1..(k - 1)) \in Nat /\ f[k] \in Nat
        /\ SumOver(f, 1..(k - 1) \cup {k}) = f[k] + SumOver(f, 1..(k - 1))
    BY <2>0, <2>1, <2>2, SumAdd
  <2>4. SumOver(f, 1..k) = SumOver(f, 1..(k - 1)) + f[k]
    <3>1. SumOver(f, 1..k) = SumOver(f, 1..(k - 1) \cup {k})
      BY <2>0, Zenon
    <3> QED
      BY <2>3, <3>1
  <2> QED
    BY <2>4, SumOnSetIsSum
<1> QED
  BY <1>1, <1>2, <1>3

\* The same sum, of the function cut off.
LEMMA PartialSum ==
    ASSUME NEW f, NEW n \in Nat, \A i \in 1..n : f[i] \in Nat
    PROVE  \A k \in 0..n : SumFunction([i \in 1..k |-> f[i]]) = SumFunctionOnSet(f, 1..k)
<1> SUFFICES ASSUME NEW k \in 0..n
             PROVE  SumFunction([i \in 1..k |-> f[i]]) = SumFunctionOnSet(f, 1..k)
  OBVIOUS
<1> DEFINE e == [i \in 1..k |-> f[i]]
<1>1. DOMAIN e = 1..k /\ \A i \in 1..k : e[i] = f[i]
  OBVIOUS
<1>2. IsFiniteSet(1..k)
  BY FS_Interval
<1> HIDE DEF e
<1>3. SumOver(e, 1..k) = SumOver(f, 1..k)
  BY <1>1, <1>2, SumAgree
<1>4. SumFunction(e) = SumOver(e, 1..k)
  BY <1>1, SumFunctionIsSum
<1> QED
  BY <1>3, <1>4, SumOnSetIsSum DEF e

\* The sum over an interval is what it adds to the sum of the elements before it.
LEMMA IntervalSum ==
    ASSUME NEW f, NEW b \in Nat, NEW a \in 0..b, \A i \in 1..b : f[i] \in Nat
    PROVE  /\ SumFunction([i \in a + 1..b |-> f[i]])
                = SumFunctionOnSet(f, 1..b) - SumFunctionOnSet(f, 1..a)
           /\ SumFunction([i \in a + 1..b |-> f[i]]) \in Nat
<1> DEFINE P(k) == SumFunctionOnSet(f, 1..k)
           Right == {k \in a..b : SumOver(f, a + 1..k) \in Nat /\ SumOver(f, a + 1..k) = P(k) - P(a)}
<1>0. /\ \A k \in 0..b : P(k) \in Nat
      /\ \A k \in 1..b : P(k) = P(k - 1) + f[k]
  BY PrefixSum
<1> HIDE DEF P
<1>1. a \in Right
  <2>1. a + 1..a = {} /\ a \in a..b /\ P(a) - P(a) = 0
    BY <1>0
  <2>2. SumOver(f, a + 1..a) = 0
    BY <2>1, SumEmpty
  <2> QED
    BY <2>1, <2>2
<1>2. ASSUME NEW k \in a..(b - 1), k \in Right PROVE k + 1 \in Right
  <2>1. /\ a + 1..k + 1 = (a + 1..k) \cup {k + 1} /\ k + 1 \notin a + 1..k
        /\ \A x \in (a + 1..k) \cup {k + 1} : f[x] \in Nat
        /\ k + 1 \in 1..b /\ k + 1 \in a..b /\ k \in 0..b /\ a \in 0..b
    OBVIOUS
  <2>2. IsFiniteSet(a + 1..k)
    BY FS_Interval
  <2>3. /\ SumOver(f, a + 1..k) \in Nat /\ f[k + 1] \in Nat
        /\ SumOver(f, (a + 1..k) \cup {k + 1}) = f[k + 1] + SumOver(f, a + 1..k)
    BY <2>1, <2>2, SumAdd
  <2>4. P(k + 1) = P(k) + f[k + 1] /\ P(k) \in Nat /\ P(a) \in Nat
    <3>1. (k + 1) - 1 = k
      OBVIOUS
    <3>2. P(k + 1) = P((k + 1) - 1) + f[k + 1]
      BY <1>0, <2>1
    <3>3. P(k + 1) = P(k) + f[k + 1]
      BY <3>1, <3>2, Zenon
    <3> QED
      BY <1>0, <2>1, <3>3
  <2>5. SumOver(f, a + 1..k) = P(k) - P(a)
    BY <1>2
  <2>6. SumOver(f, a + 1..k + 1) = f[k + 1] + SumOver(f, a + 1..k)
    BY <2>1, <2>3, Zenon
  <2> QED
    BY <2>1, <2>3, <2>4, <2>5, <2>6
<1>3. b \in Right
  <2>1. \A k \in a..b : k \in Right
    <3> HIDE DEF Right
    <3> QED
      BY <1>1, <1>2, SetInduction
  <2> QED
    BY <2>1
<1> DEFINE e == [i \in a + 1..b |-> f[i]]
<1>4. DOMAIN e = a + 1..b /\ (\A i \in a + 1..b : e[i] = f[i]) /\ IsFiniteSet(a + 1..b)
  BY FS_Interval
<1> HIDE DEF e
<1>5. SumFunction(e) = SumOver(f, a + 1..b)
  BY <1>4, SumAgree, SumFunctionIsSum
<1> QED
  BY <1>3, <1>5 DEF P, e

\* More elements sum to more.
LEMMA PrefixMonotone ==
    ASSUME NEW f, NEW n \in Nat, \A i \in 1..n : f[i] \in Nat,
           NEW k \in 0..n, NEW j \in 0..k
    PROVE  SumFunctionOnSet(f, 1..j) <= SumFunctionOnSet(f, 1..k)
<1>1. IsFiniteSet(1..k) /\ \A x \in 1..k : f[x] \in Nat
  BY FS_Interval
<1>2. 1..j \in SUBSET (1..k)
  OBVIOUS
<1> QED
  BY <1>1, <1>2, SumSubset, SumOnSetIsSum

\* Each sequence lies in the whole behind the lengths of those before it.
LEMMA FlattenAt ==
    ASSUME NEW T, NEW s \in Seq(Seq(T)), NEW lens, \A i \in 1..Len(s) : lens[i] = Len(s[i])
    PROVE  /\ FlattenSeq(s) \in Seq(T)
           /\ Len(FlattenSeq(s)) = SumFunctionOnSet(lens, 1..Len(s))
           /\ \A i \in 1..Len(s) : \A j \in 1..Len(s[i]) :
                /\ SumFunctionOnSet(lens, 1..(i - 1)) + j \in 1..Len(FlattenSeq(s))
                /\ FlattenSeq(s)[SumFunctionOnSet(lens, 1..(i - 1)) + j] = s[i][j]
<1> DEFINE n == Len(s)
           P(k) == SumFunctionOnSet(lens, 1..k)
<1>0. n \in Nat /\ \A i \in 1..n : s[i] \in Seq(T) /\ lens[i] \in Nat /\ lens[i] = Len(s[i])
  OBVIOUS
<1>1. /\ P(0) = 0 /\ \A k \in 0..n : P(k) \in Nat
      /\ \A k \in 1..n : P(k) = P(k - 1) + lens[k]
  BY <1>0, PrefixSum
<1>2. FlattenSeq(s) \in Seq(T)
  BY FlattenType
<1>3. CASE n = 0
  <2>1. FlattenSeq(s) = <<>>
    BY <1>3, FlattenEmpty, s = <<>>
  <2> HIDE DEF P
  <2> QED
    BY <1>1, <1>2, <1>3, <2>1 DEF P
<1>4. CASE n # 0
  <2>1. PICK g : Joins(s, n, g) /\ FlattenSeq(s) = g[n]
    BY <1>0, <1>4, FlattenUnfolds
  <2>2. \A k \in 1..n : g[k] \in Seq(T)
    BY <2>1, JoinType
  <2> DEFINE Placed(k) ==
               /\ Len(g[k]) = P(k)
               /\ \A i \in 1..k : \A j \in 1..Len(s[i]) :
                    P(i - 1) + j \in 1..Len(g[k]) /\ g[k][P(i - 1) + j] = s[i][j]
             Good == {k \in 1..n : Placed(k)}
  <2> HIDE DEF P, n
  <2>3. 1 \in Good
    <3>1. g[1] = s[1] /\ 1 \in 1..n
      BY <1>0, <1>4, <2>1 DEF Joins, FlatBody
    <3>2. P(1) = lens[1] /\ P(1 - 1) = 0
      BY <1>0, <1>1, <3>1
    <3>3. Placed(1)
      BY <1>0, <3>1, <3>2
    <3> QED
      BY <3>1, <3>3
  <2>4. ASSUME NEW k \in 1..(n - 1), k \in Good PROVE k + 1 \in Good
    <3>0. k \in 1..n /\ k + 1 \in 1..n /\ k + 1 # 1 /\ (k + 1) - 1 = k
      BY <1>0
    <3>1. g[k + 1] = g[k] \o s[k + 1]
      BY <2>1, <3>0 DEF Joins, FlatBody
    <3>2. g[k] \in Seq(T) /\ s[k + 1] \in Seq(T) /\ Placed(k)
      BY <1>0, <2>2, <2>4, <3>0
    <3>3. P(k + 1) = P(k) + Len(s[k + 1]) /\ P(k) \in Nat
      BY <1>0, <1>1, <3>0
    <3>4. \A a, b \in Seq(T) :
            /\ Len(a \o b) = Len(a) + Len(b) /\ Len(a) \in Nat /\ Len(b) \in Nat
            /\ \A l \in 1..Len(a) : l \in 1..Len(a \o b) /\ (a \o b)[l] = a[l]
            /\ \A l \in 1..Len(b) : /\ Len(a) + l \in 1..Len(a \o b)
                                    /\ (a \o b)[Len(a) + l] = b[l]
      OBVIOUS
    <3>5. /\ Len(g[k + 1]) = Len(g[k]) + Len(s[k + 1])
          /\ \A l \in 1..Len(g[k]) : l \in 1..Len(g[k + 1]) /\ g[k + 1][l] = g[k][l]
          /\ \A l \in 1..Len(s[k + 1]) : /\ Len(g[k]) + l \in 1..Len(g[k + 1])
                                        /\ g[k + 1][Len(g[k]) + l] = s[k + 1][l]
      <4>1. LET a == g[k]
                b == s[k + 1]
            IN  /\ Len(a \o b) = Len(a) + Len(b)
                /\ \A l \in 1..Len(a) : l \in 1..Len(a \o b) /\ (a \o b)[l] = a[l]
                /\ \A l \in 1..Len(b) : /\ Len(a) + l \in 1..Len(a \o b)
                                        /\ (a \o b)[Len(a) + l] = b[l]
        BY ONLY <3>2, <3>4
      <4> QED
        BY ONLY <3>1, <4>1
    <3>6. Len(g[k + 1]) = P(k + 1) /\ Len(g[k]) = P(k)
      BY <3>2, <3>3, <3>5
    <3>7. ASSUME NEW i \in 1..(k + 1), NEW j \in 1..Len(s[i])
          PROVE  P(i - 1) + j \in 1..Len(g[k + 1]) /\ g[k + 1][P(i - 1) + j] = s[i][j]
      <4>1. CASE i = k + 1
        <5>1. P(i - 1) = Len(g[k]) /\ s[i] = s[k + 1] /\ j \in 1..Len(s[k + 1])
          BY <3>0, <3>6, <4>1
        <5> QED
          BY <3>5, <5>1
      <4>2. CASE i # k + 1
        <5>1. i \in 1..k
          BY <3>0, <4>2
        <5>2. P(i - 1) + j \in 1..Len(g[k]) /\ g[k][P(i - 1) + j] = s[i][j]
          BY <3>2, <5>1
        <5> HIDE DEF Placed, Good
        <5> QED
          BY <3>5, <5>2
      <4> QED
        BY <4>1, <4>2
    <3>8. Placed(k + 1)
      BY <3>6, <3>7
    <3> HIDE DEF Placed
    <3> QED
      BY <3>0, <3>8
  <2>5. n \in Good
    <3>1. \A k \in 1..(n - 1) : k \in Good => k + 1 \in Good
      BY <2>4
    <3> HIDE DEF Good
    <3>2. \A k \in 1..n : k \in Good
      BY <1>0, <2>3, <3>1, SetInduction
    <3> QED
      BY <1>0, <1>4, <3>2
  <2>6. Placed(n)
    BY <2>5
  <2>7. /\ Len(FlattenSeq(s)) = P(n)
        /\ \A i \in 1..n : \A j \in 1..Len(s[i]) :
              /\ P(i - 1) + j \in 1..Len(FlattenSeq(s))
              /\ FlattenSeq(s)[P(i - 1) + j] = s[i][j]
    BY <2>1, <2>6
  <2> QED
    BY <1>2, <2>7 DEF P, n
<1> QED
  BY <1>3, <1>4

\* A part of a sequence, place by place.
LEMMA Slice ==
    ASSUME NEW p, NEW a \in Nat, NEW l \in Nat
    PROVE  SubSeq(p, a + 1, a + l) = [b \in 1..l |-> p[a + b]]
<1>1. SubSeq(p, a + 1, a + l) = [b \in 1..(1 + (a + l) - (a + 1)) |-> p[b + (a + 1) - 1]]
  OBVIOUS
<1>2. 1 + (a + l) - (a + 1) = l /\ \A b \in 1..l : b + (a + 1) - 1 = a + b
  OBVIOUS
<1> QED
  BY <1>1, <1>2

-----------------------------------------------------------------------------
(* Multiples                                                               *)

\* Products and quotients of numbers that are no literals.
LEMMA Quotients ==
    ASSUME NEW d \in Nat \ {0}, NEW x \in Int
    PROVE  /\ x \div d \in Int /\ x % d \in 0..(d - 1)
           /\ x = (x \div d) * d + (x % d)
  OBVIOUS

LEMMA Multiples ==
    ASSUME NEW d \in Nat \ {0}, NEW q \in Int
    PROVE  (q * d) % d = 0 /\ (q * d) \div d = q
<1>1. q * d \in Int
  OBVIOUS
<1>2. /\ (q * d) \div d \in Int /\ (q * d) % d \in 0..(d - 1)
      /\ q * d = ((q * d) \div d) * d + ((q * d) % d)
  BY <1>1, Quotients
<1> DEFINE p == (q * d) \div d
           r == (q * d) % d
<1>3. (q - p) * d = r /\ p \in Int /\ r \in 0..(d - 1)
  BY <1>2
<1> HIDE DEF p, r
<1>4. q - p = 0
  BY <1>3
<1> QED
  BY <1>3, <1>4 DEF p, r

LEMMA SumOfMultiples ==
    ASSUME NEW d \in Nat \ {0}, NEW x \in Int, NEW y \in Int, x % d = 0, y % d = 0
    PROVE  (x + y) % d = 0
<1>1. x = (x \div d) * d + (x % d) /\ y = (y \div d) * d + (y % d) /\ x \div d \in Int /\ y \div d \in Int
  BY Quotients
<1> DEFINE p == x \div d
           q == y \div d
<1>2. p \in Int /\ q \in Int /\ x = p * d /\ y = q * d
  BY <1>1
<1> HIDE DEF p, q
<1>3. x + y = (p + q) * d /\ p + q \in Int
  BY <1>2
<1> QED
  BY <1>3, Multiples

\* The least multiple from a number on.
LEMMA RoundedUp ==
    ASSUME NEW d \in Nat \ {0}, NEW n \in Nat,
           NEW r, r = ((n + d - 1) \div d) * d
    PROVE  /\ r \in Nat /\ r >= n /\ r < n + d /\ r % d = 0
           /\ \A m \in Nat : m >= n /\ m % d = 0 => r <= m
<1> DEFINE x == n + d - 1
           q == x \div d
<1>0. x \in Int
  OBVIOUS
<1>1. q \in Int /\ x % d \in 0..(d - 1) /\ x = q * d + (x % d)
  BY <1>0, Quotients
<1>2. r = q * d
  OBVIOUS
<1> HIDE DEF q
<1>3. r % d = 0
  BY <1>1, <1>2, Multiples
<1>4. r \in Int /\ r >= n /\ r < n + d
  BY <1>1, <1>2
<1>5. ASSUME NEW m \in Nat, m >= n, m % d = 0 PROVE r <= m
  <2> DEFINE k == m \div d
  <2>1. k \in Int /\ m = k * d + (m % d)
    BY Quotients
  <2> HIDE DEF k
  <2>2. m = k * d
    BY <1>5, <2>1
  <2>3. q - k <= 0
    <3>1. (q - k) * d = r - m
      BY <1>1, <1>2, <2>1, <2>2
    <3>2. (q - k) * d < d
      BY <1>4, <1>5, <3>1
    <3> DEFINE e == q - k
    <3>3. e \in Int /\ e * d < d
      BY <1>1, <2>1, <3>2
    <3> HIDE DEF e
    <3>4. e <= 0
      BY <3>3
    <3> QED
      BY <3>4 DEF e
  <2>4. q <= k
    BY <1>1, <2>1, <2>3
  <2>5. q * d <= k * d
    BY <1>1, <2>1, <2>4
  <2> QED
    BY <1>2, <2>2, <2>5
<1> QED
  BY <1>3, <1>4, <1>5
=============================================================================
