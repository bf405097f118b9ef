--------------------------- MODULE ActaScanProofs ---------------------------
(***************************************************************************)
(* What a scan or a tail yields, for every schema, block, plan, allowance  *)
(* and damage.  The invariant ScanInv relates the answers given so far to  *)
(* the allowances left and the counters, charge by charge of the decode in *)
(* progress.  The lemmas before it say what a search by halving, a filter  *)
(* and the list of charges of a decode compute.                            *)
(***************************************************************************)
EXTENDS ActaScan, ActaFoldProofs

-----------------------------------------------------------------------------
(* The search by halving                                                   *)

SearchBody(values, limit, g, slice) ==
    LET base == slice[1]  size == slice[2]  half == size \div 2
    IN  IF size = 1 THEN IF values[base] < limit THEN base + 1 ELSE base
        ELSE g[<<IF values[base + half] < limit THEN base + half ELSE base, size - half>>]

\* The slices of at most a size.
Within(values, size) == {slice \in Slices(values) : slice[2] <= size}

LEMMA SliceType ==
    ASSUME NEW values \in Seq(Int), NEW slice \in Slices(values)
    PROVE  /\ slice[1] \in 1..Len(values) /\ slice[2] \in 1..Len(values)
           /\ slice[1] + slice[2] <= Len(values) + 1 /\ Len(values) \in Nat
           /\ slice = <<slice[1], slice[2]>>
  BY DEF Slices

\* Both halves of a slice are shorter slices.
LEMMA HalvesAreSlices ==
    ASSUME NEW values \in Seq(Int), NEW size \in Nat,
           NEW slice \in Within(values, size + 1), slice[2] # 1
    PROVE  LET half == slice[2] \div 2
           IN  /\ half \in 1..slice[2] - 1 /\ half <= slice[2] - half
               /\ <<slice[1] + half, slice[2] - half>> \in Within(values, size)
               /\ <<slice[1], slice[2] - half>> \in Within(values, size)
<1> DEFINE base == slice[1]
           length == slice[2]
           half == slice[2] \div 2
<1>1. /\ base \in 1..Len(values) /\ length \in 1..Len(values) /\ length <= size + 1
      /\ base + length <= Len(values) + 1 /\ Len(values) \in Nat
  BY SliceType DEF Within
<1>2. half \in 1..length - 1 /\ half <= length - half
  <2>1. \A n \in Nat : n > 1 => n \div 2 \in 1..n - 1 /\ n \div 2 <= n - n \div 2
    OBVIOUS
  <2>2. length \in Nat /\ length > 1
    BY <1>1
  <2> QED
    BY ONLY <2>1, <2>2
<1> HIDE DEF base, length, half
<1>3. base \in Nat /\ length \in Nat /\ half \in Nat
  BY <1>1, <1>2
<1>4. base + half \in 1..Len(values) /\ length - half \in 1..Len(values)
  BY <1>1, <1>2, <1>3
<1>5. (base + half) + (length - half) <= Len(values) + 1 /\ base + (length - half) <= Len(values) + 1
  BY <1>1, <1>2, <1>3
<1>6. length - half <= size
  BY <1>1, <1>2, <1>3
<1>7. /\ <<base + half, length - half>> \in Within(values, size)
      /\ <<base, length - half>> \in Within(values, size)
  BY <1>1, <1>4, <1>5, <1>6 DEF Within, Slices
<1> QED
  BY <1>2, <1>7 DEF base, length, half

Searches(values, limit, g) ==
    \A slice \in Slices(values) : g[slice] = SearchBody(values, limit, g, slice)

\* The recursion of the search has a solution.
LEMMA SearchRecursion ==
    ASSUME NEW values \in Seq(Int), NEW limit
    PROVE  \E g : g = [slice \in Slices(values) |-> SearchBody(values, limit, g, slice)]
<1> DEFINE Body(g, slice) == SearchBody(values, limit, g, slice)
           Solved == {n \in Nat : \E g : g = [slice \in Within(values, n) |-> Body(g, slice)]}
           N == Len(values)
<1>1. 0 \in Solved
  <2>1. Within(values, 0) = {}
    BY SliceType DEF Within
  <2>2. \A g : [slice \in {} |-> 0] = [slice \in {} |-> Body(g, slice)]
    OBVIOUS
  <2>3. \E g : g = [slice \in {} |-> Body(g, slice)]
    <3> HIDE DEF Body
    <3> QED
      BY <2>2
  <2> QED
    BY <2>1, <2>3
<1>2. ASSUME NEW n \in 0..(N - 1), n \in Solved PROVE n + 1 \in Solved
  <2>0. n \in Nat /\ n + 1 \in Nat
    OBVIOUS
  <2>1. PICK g : g = [slice \in Within(values, n) |-> Body(g, slice)]
    BY <1>2
  <2> DEFINE h == [slice \in Within(values, n + 1) |-> Body(g, slice)]
  <2>2. \A slice \in Within(values, n) : slice \in Within(values, n + 1)
    BY <2>0, SliceType DEF Within
  <2>3. \A slice \in Within(values, n) : h[slice] = g[slice]
    <3> HIDE DEF Body
    <3> QED
      BY <2>1, <2>2
  <2>4. ASSUME NEW slice \in Within(values, n + 1) PROVE Body(g, slice) = Body(h, slice)
    <3>1. CASE slice[2] = 1
      BY <3>1 DEF SearchBody
    <3>2. CASE slice[2] # 1
      <4> DEFINE half == slice[2] \div 2
      <4>1. /\ <<slice[1] + half, slice[2] - half>> \in Within(values, n)
            /\ <<slice[1], slice[2] - half>> \in Within(values, n)
        BY <2>0, <3>2, HalvesAreSlices
      <4>2. /\ h[<<slice[1] + half, slice[2] - half>>] = g[<<slice[1] + half, slice[2] - half>>]
            /\ h[<<slice[1], slice[2] - half>>] = g[<<slice[1], slice[2] - half>>]
        BY <2>3, <4>1
      <4> HIDE DEF h
      <4> QED
        BY <3>2, <4>2 DEF SearchBody
    <3> QED
      BY <3>1, <3>2
  <2>5. h = [slice \in Within(values, n + 1) |-> Body(h, slice)]
    <3> HIDE DEF Body
    <3> QED
      BY <2>4
  <2> HIDE DEF h, Body
  <2> QED
    BY <2>0, <2>5
<1>3. N \in Solved
  <2>1. \A k \in 0..(N - 1) : k \in Solved => k + 1 \in Solved
    BY <1>2
  <2>2. N \in Nat /\ N \in 0..N
    OBVIOUS
  <2> HIDE DEF Solved, N
  <2>3. \A k \in 0..N : k \in Solved
    BY <1>1, <2>1, <2>2, SetInduction
  <2> QED
    BY <2>2, <2>3
<1>4. Within(values, N) = Slices(values)
  BY SliceType DEF Within
<1> HIDE DEF Body
<1>5. \E g : g = [slice \in Slices(values) |-> Body(g, slice)]
  BY <1>3, <1>4
<1> QED
  BY <1>5 DEF Body

LEMMA SearchUnfolds ==
    ASSUME NEW values \in Seq(Int), NEW limit
    PROVE  \E g : Searches(values, limit, g)
                  /\ partition_point(values, limit) = g[<<1, Len(values)>>]
<1> DEFINE g == CHOOSE h : h = [slice \in Slices(values) |-> SearchBody(values, limit, h, slice)]
<1>1. g = [slice \in Slices(values) |-> SearchBody(values, limit, g, slice)]
  BY SearchRecursion
<1>2. partition_point(values, limit) = g[<<1, Len(values)>>]
  BY DEF partition_point, SearchBody
<1> HIDE DEF g
<1>3. Searches(values, limit, g)
  BY <1>1 DEF Searches
<1> QED
  BY <1>2, <1>3

\* The values from an index on are those that are not below a limit.
Parts(values, limit, p) ==
    /\ p \in 1..Len(values) + 1
    /\ \A i \in 1..Len(values) : values[i] < limit <=> i < p

InOrder(values) == \A i \in 1..Len(values) : \A j \in i..Len(values) : values[i] <= values[j]

\* What lies before a slice is below the limit and what lies after it is not.
Brackets(values, limit, slice) ==
    /\ \A i \in 1..slice[1] - 1 : values[i] < limit
    /\ \A i \in slice[1] + slice[2]..Len(values) : values[i] >= limit

LEMMA SearchFinds ==
    ASSUME NEW values \in Seq(Int), InOrder(values), NEW limit \in Int,
           NEW g, Searches(values, limit, g)
    PROVE  \A slice \in Slices(values) :
              Brackets(values, limit, slice) => Parts(values, limit, g[slice])
<1> DEFINE Good(n) == \A slice \in Within(values, n) :
                        Brackets(values, limit, slice) => Parts(values, limit, g[slice])
           Sound == {n \in Nat : Good(n)}
           N == Len(values)
<1>0. \A i \in 1..N : values[i] \in Int
  OBVIOUS
<1>1. 0 \in Sound
  <2>1. Within(values, 0) = {}
    BY SliceType DEF Within
  <2> QED
    BY <2>1
<1>2. ASSUME NEW n \in 0..(N - 1), n \in Sound PROVE n + 1 \in Sound
  <2> SUFFICES ASSUME NEW slice \in Within(values, n + 1), Brackets(values, limit, slice)
               PROVE  Parts(values, limit, g[slice])
    OBVIOUS
  <2> DEFINE base == slice[1]
             size == slice[2]
             half == size \div 2
  <2>0. n \in Nat /\ Good(n) /\ slice \in Slices(values)
    BY <1>2 DEF Within
  <2>1. /\ base \in 1..N /\ size \in 1..N /\ base + size <= N + 1 /\ N \in Nat
        /\ values[base] \in Int
    BY <2>0, SliceType
  <2>2. CASE size = 1
    <3>1. g[slice] = IF values[base] < limit THEN base + 1 ELSE base
      BY <2>0, <2>2 DEF Searches, SearchBody
    <3>2. \A i \in 1..base - 1 : values[i] < limit
      BY DEF Brackets
    <3>3. \A i \in base + 1..N : values[i] >= limit
      BY <2>2 DEF Brackets
    <3> HIDE DEF base, size, half, N
    <3>4. CASE values[base] < limit
      <4>1. \A i \in 1..N : values[i] < limit <=> i < base + 1
        BY <1>0, <2>1, <3>2, <3>3, <3>4
      <4> QED
        BY <2>1, <3>1, <3>4, <4>1 DEF Parts, N
    <3>5. CASE ~(values[base] < limit)
      <4>1. \A i \in 1..N : values[i] < limit <=> i < base
        BY <1>0, <2>1, <3>2, <3>3, <3>5
      <4> QED
        BY <2>1, <3>1, <3>5, <4>1 DEF Parts, N
    <3> QED
      BY <3>4, <3>5
  <2>3. CASE size # 1
    <3> DEFINE middle == base + half
               right == <<middle, size - half>>
               left == <<base, size - half>>
    <3>1. /\ half \in 1..size - 1 /\ half <= size - half
          /\ right \in Within(values, n) /\ left \in Within(values, n)
      BY <2>0, <2>3, HalvesAreSlices
    <3>2. g[slice] = IF values[middle] < limit THEN g[right] ELSE g[left]
      BY <2>0, <2>3 DEF Searches, SearchBody
    <3>3. middle \in 1..N
      BY <2>0, <3>1, SliceType DEF Within
    <3>4. right[1] = middle /\ right[2] = size - half /\ left[1] = base /\ left[2] = size - half
      OBVIOUS
    <3>5. \A i \in 1..base - 1 : values[i] < limit
      BY DEF Brackets
    <3>6. \A i \in base + size..N : values[i] >= limit
      BY DEF Brackets
    <3>7. middle = base + half /\ half \in Nat /\ size \in Nat /\ base \in Nat
      <4>1. middle = base + half
        OBVIOUS
      <4> HIDE DEF base, size, half, N, middle
      <4> QED
        BY <2>1, <3>1, <4>1
    <3> HIDE DEF base, size, half, N, middle, right, left, Sound
    <3>8. CASE values[middle] < limit
      <4>1. \A i \in 1..middle - 1 : values[i] < limit
        <5> SUFFICES ASSUME NEW i \in 1..middle - 1 PROVE values[i] < limit
          OBVIOUS
        <5>1. i \in 1..N /\ middle \in i..N
          BY <2>1, <3>3
        <5>2. values[i] <= values[middle]
          BY <5>1 DEF InOrder, N
        <5> QED
          BY <1>0, <3>3, <3>8, <5>1, <5>2
      <4>2. middle + (size - half) = base + size
        BY <3>7
      <4>3. Brackets(values, limit, right)
        BY <3>4, <3>6, <4>1, <4>2 DEF Brackets, N
      <4> QED
        BY <2>0, <3>1, <3>2, <3>8, <4>3
    <3>9. CASE ~(values[middle] < limit)
      <4>1. \A i \in base + (size - half)..N : values[i] >= limit
        <5> SUFFICES ASSUME NEW i \in base + (size - half)..N PROVE values[i] >= limit
          OBVIOUS
        <5>1. i \in 1..N /\ i \in middle..N
          BY <2>1, <3>1, <3>3, <3>7
        <5>2. values[middle] <= values[i]
          BY <3>3, <5>1 DEF InOrder, N
        <5> QED
          BY <1>0, <3>3, <3>9, <5>1, <5>2
      <4>2. Brackets(values, limit, left)
        BY <3>4, <3>5, <4>1 DEF Brackets, N
      <4> QED
        BY <2>0, <3>1, <3>2, <3>9, <4>2
    <3> QED
      BY <3>8, <3>9
  <2> QED
    BY <2>2, <2>3
<1>3. N \in Sound
  <2>1. \A k \in 0..(N - 1) : k \in Sound => k + 1 \in Sound
    BY <1>2
  <2>2. N \in Nat /\ N \in 0..N
    OBVIOUS
  <2> HIDE DEF Sound, N
  <2>3. \A k \in 0..N : k \in Sound
    BY <1>1, <2>1, <2>2, SetInduction
  <2> QED
    BY <2>2, <2>3
<1>4. Within(values, N) = Slices(values)
  BY SliceType DEF Within
<1> QED
  BY <1>3, <1>4

\* The search finds the partition point of values in order.
LEMMA PartitionParts ==
    ASSUME NEW values \in Seq(Int), values # <<>>, InOrder(values), NEW limit \in Int
    PROVE  Parts(values, limit, partition_point(values, limit))
<1> DEFINE whole == <<1, Len(values)>>
<1>1. PICK g : Searches(values, limit, g) /\ partition_point(values, limit) = g[whole]
  BY SearchUnfolds
<1>2. Len(values) \in Nat \ {0}
  OBVIOUS
<1>3. whole \in Slices(values) /\ whole[1] = 1 /\ whole[2] = Len(values)
  BY <1>2 DEF Slices
<1>4. Brackets(values, limit, whole)
  BY <1>2, <1>3 DEF Brackets
<1> QED
  BY <1>1, <1>3, <1>4, SearchFinds

-----------------------------------------------------------------------------
(* The rows a plan keeps                                                   *)

KeptBody(values, g, n) ==
    IF n = 0 THEN <<>>
    ELSE IF InRange(values[n]) THEN Append(g[n - 1], n) ELSE g[n - 1]

Keeps(values, g) == \A n \in 0..Len(values) : g[n] = KeptBody(values, g, n)

\* The rows of a filter, in their order, are those in the range.
Exact(values, rows, n) ==
    /\ rows \in Seq(1..n) /\ InFileOrder(rows)
    /\ Range(rows) = {k \in 1..n : InRange(values[k])}

LEMMA KeptRecursion ==
    ASSUME NEW values \in Seq(Int)
    PROVE  \E g : g = [n \in 0..Len(values) |-> KeptBody(values, g, n)]
<1> DEFINE Solved == {k \in Nat : \E g : g = [n \in 0..k |-> KeptBody(values, g, n)]}
           N == Len(values)
<1>1. 0 \in Solved
  <2>1. [n \in 0..0 |-> <<>>] = [n \in 0..0 |-> KeptBody(values, [m \in 0..0 |-> <<>>], n)]
    BY DEF KeptBody
  <2> QED
    BY <2>1
<1>2. ASSUME NEW k \in 0..(N - 1), k \in Solved PROVE k + 1 \in Solved
  <2>1. PICK g : g = [n \in 0..k |-> KeptBody(values, g, n)]
    BY <1>2
  <2> DEFINE h == [n \in 0..(k + 1) |-> KeptBody(values, g, n)]
  <2>2. \A n \in 0..k : h[n] = g[n]
    BY <2>1
  <2>3. \A n \in 0..(k + 1) : KeptBody(values, g, n) = KeptBody(values, h, n)
    <3>1. \A n \in 0..(k + 1) : n # 0 => n - 1 \in 0..k
      OBVIOUS
    <3> HIDE DEF h
    <3> QED
      BY <2>2, <3>1 DEF KeptBody
  <2>4. h = [n \in 0..(k + 1) |-> KeptBody(values, h, n)]
    BY <2>3
  <2>5. k + 1 \in Nat
    OBVIOUS
  <2> HIDE DEF h
  <2> QED
    BY <2>4, <2>5
<1>3. \A k \in 0..(N - 1) : k \in Solved => k + 1 \in Solved
  BY <1>2
<1>4. N \in Nat /\ N \in 0..N
  OBVIOUS
<1>5. N \in Solved
  <2> HIDE DEF Solved, N
  <2>1. \A k \in 0..N : k \in Solved
    BY <1>1, <1>3, <1>4, SetInduction
  <2> QED
    BY <1>4, <2>1
<1> QED
  BY <1>5

\* Appending a row that is in the range, or passing one that is not.
LEMMA ExactNext ==
    ASSUME NEW values \in Seq(Int), NEW n \in Nat, NEW rows, Exact(values, rows, n)
    PROVE  /\ InRange(values[n + 1]) => Exact(values, Append(rows, n + 1), n + 1)
           /\ ~InRange(values[n + 1]) => Exact(values, rows, n + 1)
<1>1. /\ rows \in Seq(1..n) /\ \A i, j \in 1..Len(rows) : i < j => rows[i] < rows[j]
      /\ {rows[i] : i \in 1..Len(rows)} = {k \in 1..n : InRange(values[k])}
  BY DEF Exact, InFileOrder, Range
<1> DEFINE More == Append(rows, n + 1)
<1>2. ASSUME InRange(values[n + 1]) PROVE Exact(values, More, n + 1)
  <2>1. /\ More \in Seq(1..n + 1) /\ Len(More) = Len(rows) + 1 /\ Len(rows) \in Nat
        /\ More[Len(rows) + 1] = n + 1 /\ \A i \in 1..Len(rows) : More[i] = rows[i]
        /\ \A i \in 1..Len(rows) : rows[i] \in 1..n
    BY <1>1
  <2> HIDE DEF More
  <2>2. InFileOrder(More)
    <3> SUFFICES ASSUME NEW i \in 1..Len(More), NEW j \in 1..Len(More), i < j
                 PROVE  More[i] < More[j]
      BY DEF InFileOrder
    <3>1. i \in 1..Len(rows) /\ More[i] = rows[i] /\ rows[i] \in 1..n
      BY <2>1
    <3>2. CASE j \in 1..Len(rows)
      BY <1>1, <2>1, <3>1, <3>2
    <3>3. CASE j = Len(rows) + 1
      BY <2>1, <3>1, <3>3
    <3> QED
      BY <2>1, <3>2, <3>3
  <2>3. Range(More) = {k \in 1..n + 1 : InRange(values[k])}
    <3>1. DOMAIN More = 1..Len(rows) + 1
      BY <2>1
    <3>2. Range(More) = {rows[i] : i \in 1..Len(rows)} \cup {n + 1}
      <4>1. \A x : x \in Range(More) <=> \E i \in 1..Len(rows) + 1 : x = More[i]
        BY <3>1 DEF Range
      <4>2. \A i : i \in 1..Len(rows) + 1 <=> i \in 1..Len(rows) \/ i = Len(rows) + 1
        BY <2>1
      <4> QED
        BY <2>1, <4>1, <4>2
    <3>3. \A k : k \in 1..n + 1 <=> k \in 1..n \/ k = n + 1
      OBVIOUS
    <3> QED
      BY <1>1, <1>2, <3>2, <3>3
  <2> QED
    BY <2>1, <2>2, <2>3 DEF Exact
<1>3. ASSUME ~InRange(values[n + 1]) PROVE Exact(values, rows, n + 1)
  <2>1. rows \in Seq(1..n + 1)
    BY <1>1
  <2>2. \A k : k \in 1..n + 1 <=> k \in 1..n \/ k = n + 1
    OBVIOUS
  <2>3. {k \in 1..n : InRange(values[k])} = {k \in 1..n + 1 : InRange(values[k])}
    BY <1>3, <2>2
  <2> QED
    BY <2>1, <2>3 DEF Exact
<1> QED
  BY <1>2, <1>3

LEMMA KeptExact ==
    ASSUME NEW values \in Seq(Int), NEW g, Keeps(values, g)
    PROVE  Exact(values, g[Len(values)], Len(values))
<1> DEFINE Sound == {n \in Nat : Exact(values, g[n], n)}
           N == Len(values)
<1>0. N \in Nat /\ N \in 0..N
  OBVIOUS
<1>1. 0 \in Sound
  <2>1. g[0] = <<>>
    BY <1>0 DEF Keeps, KeptBody
  <2>2. Exact(values, <<>>, 0)
    BY DEF Exact, InFileOrder, Range
  <2> QED
    BY <2>1, <2>2
<1>2. ASSUME NEW n \in 0..(N - 1), n \in Sound PROVE n + 1 \in Sound
  <2>1. n \in Nat /\ n + 1 \in 0..N /\ n + 1 # 0 /\ (n + 1) - 1 = n
    BY <1>0
  <2>2. g[n + 1] = IF InRange(values[n + 1]) THEN Append(g[n], n + 1) ELSE g[n]
    BY <2>1 DEF Keeps, KeptBody
  <2>3. Exact(values, g[n], n)
    BY <1>2
  <2>4. Exact(values, g[n + 1], n + 1)
    BY <2>1, <2>2, <2>3, ExactNext
  <2> QED
    BY <2>1, <2>4
<1>3. \A n \in 0..(N - 1) : n \in Sound => n + 1 \in Sound
  BY <1>2
<1>4. \A n \in 0..N : n \in Sound
  <2> HIDE DEF Sound, N
  <2> QED
    BY <1>0, <1>1, <1>3, SetInduction
<1> QED
  BY <1>0, <1>4

\* A filter keeps the rows in the range, whichever way it goes about it.
LEMMA FilterExact ==
    ASSUME NEW values \in Seq(Int), values # <<>>,
           plan.range.start \in Int, plan.range.end \in Int, plan.range.start <= plan.range.end,
           NEW sorted \in BOOLEAN, sorted => InOrder(values)
    PROVE  Exact(values, filter_batch(sorted, values), Len(values))
<1>1. CASE sorted
  <2> DEFINE from == partition_point(values, plan.range.start)
             to == partition_point(values, plan.range.end)
             n == Len(values)
             rows == [k \in 1..to - from |-> from + k - 1]
  <2>1. /\ from \in 1..n + 1 /\ \A i \in 1..n : values[i] < plan.range.start <=> i < from
        /\ to \in 1..n + 1 /\ \A i \in 1..n : values[i] < plan.range.end <=> i < to
    BY <1>1, PartitionParts DEF Parts
  <2>2. filter_batch(sorted, values) = rows
    BY <1>1 DEF filter_batch
  <2> HIDE DEF from, to
  <2>3. n \in Nat /\ \A i \in 1..n : values[i] \in Int
    OBVIOUS
  <2>4. from <= to
    <3> SUFFICES ASSUME to < from PROVE FALSE
      BY <2>1
    <3>1. to \in 1..n /\ ~(values[to] < plan.range.end) /\ values[to] < plan.range.start
      BY <2>1, <2>3
    <3> QED
      BY <2>3, <3>1
  <2>5. to - from \in Nat
    BY <2>1, <2>4
  <2>6. /\ rows \in Seq(1..n) /\ Len(rows) = to - from /\ DOMAIN rows = 1..to - from
        /\ \A k \in 1..to - from : rows[k] = from + k - 1
    <3>1. \A k \in 1..to - from : from + k - 1 \in 1..n
      BY <2>1, <2>3
    <3> QED
      BY <2>5, <3>1
  <2> HIDE DEF rows
  <2>7. InFileOrder(rows)
    BY <2>1, <2>5, <2>6 DEF InFileOrder
  <2>8. Range(rows) = {k \in 1..n : InRange(values[k])}
    <3>1. \A k \in 1..n : InRange(values[k]) <=> from <= k /\ k < to
      BY <2>1, <2>3 DEF InRange
    <3>2. \A x : x \in Range(rows) <=> \E k \in 1..to - from : x = from + k - 1
      BY <2>6 DEF Range
    <3>3. ASSUME NEW x \in Range(rows) PROVE x \in 1..n /\ from <= x /\ x < to
      BY <2>1, <2>3, <2>5, <3>2
    <3>4. ASSUME NEW x \in 1..n, from <= x, x < to PROVE x \in Range(rows)
      <4>1. x - from + 1 \in 1..to - from /\ x = from + (x - from + 1) - 1
        BY <2>1, <3>4
      <4> QED
        BY <3>2, <4>1
    <3> QED
      BY <3>1, <3>3, <3>4
  <2> QED
    BY <2>2, <2>6, <2>7, <2>8 DEF Exact
<1>2. CASE ~sorted
  <2> DEFINE g == CHOOSE h : h = [n \in 0..Len(values) |-> KeptBody(values, h, n)]
  <2>1. g = [n \in 0..Len(values) |-> KeptBody(values, g, n)]
    BY KeptRecursion
  <2>2. filter_batch(sorted, values) = g[Len(values)]
    BY <1>2 DEF filter_batch, KeptBody
  <2> HIDE DEF g
  <2>3. Keeps(values, g)
    BY <2>1 DEF Keeps
  <2> QED
    BY <2>2, <2>3, KeptExact
<1> QED
  BY <1>1, <1>2

-----------------------------------------------------------------------------
(* What a header truly claims                                              *)

LEMMA RangeFinite ==
    ASSUME NEW S, NEW s \in Seq(S)
    PROVE  IsFiniteSet(Range(s)) /\ Range(s) \in SUBSET S
<1>1. s \in Surjection(1..Len(s), Range(s))
  BY DEF Surjection, Range
<1>2. IsFiniteSet(1..Len(s))
  BY FS_Interval
<1>3. IsFiniteSet(Range(s))
  BY <1>1, <1>2, FS_Surjection
<1> QED
  BY <1>3 DEF Range

\* True bounds are those of every row, and a true claim of order puts the rows in order.
LEMMA HonestMeans ==
    ASSUME NEW block, BlockShape(block), Honest(block)
    PROVE  /\ \A i \in 1..Rows(block) : block.min <= block.values[i]
                                        /\ block.values[i] <= block.max
           /\ block.sorted => InOrder(block.values)
<1> DEFINE v == block.values
<1>1. v \in Seq(Int) /\ v # <<>> /\ block.min \in Int /\ block.max \in Int
  BY DEF BlockShape
<1>2. /\ block.min = Min(Range(v)) /\ block.max = Max(Range(v))
      /\ block.sorted => \A k \in 1..Len(v) - 1 : v[k] <= v[k + 1]
  BY DEF Honest, primary_metadata
<1> HIDE DEF v
<1>3. Range(v) \in SUBSET Int /\ IsFiniteSet(Range(v)) /\ \A i \in 1..Len(v) : v[i] \in Range(v)
  BY <1>1, RangeFinite DEF Range
<1>4. Range(v) # {}
  BY <1>1, <1>3
<1>5. \A i \in 1..Len(v) : block.min <= v[i] /\ v[i] <= block.max
  BY <1>2, <1>3, <1>4, ExtremesOfFinite
<1>6. block.sorted => InOrder(v)
  BY <1>1, <1>2, SortedBetween DEF InOrder
<1> QED
  BY <1>5, <1>6 DEF v, Rows

\* No row of a block with true bounds is in a range it is pruned for.
LEMMA PrunedHasNone ==
    ASSUME NEW block, BlockShape(block), Honest(block), plan.range # NoRange,
           plan.range.start \in Int, plan.range.end \in Int, should_prune(block)
    PROVE  Reference(block) = {}
<1> SUFFICES ASSUME NEW k \in 1..Rows(block), InRange(block.values[k])
             PROVE  FALSE
  BY DEF Reference
<1>1. /\ block.min \in Int /\ block.max \in Int /\ block.values[k] \in Int
      /\ block.min <= block.values[k] /\ block.values[k] <= block.max
  BY HonestMeans DEF BlockShape, Rows
<1> QED
  BY <1>1 DEF should_prune, InRange, Empty

-----------------------------------------------------------------------------
(* The charges of a decode                                                 *)

\* The streams of some columns, and the charges that are about some streams.
StreamsOf(columns) == UNION {Range(Streams[c]) : c \in Range(columns)}

StepsAbout(streams) == [stage : {"stored", "transformed", "values"}, of : streams]

Steps == StepsAbout(AllStreams) \cup {Step("primary", PrimaryColumn)}

PlanShape == /\ primary \in {"timestamp", "none"}
             /\ plan \in [projection : Seq(Names), range : Ranges \cup {NoRange}]
             /\ plan.range # NoRange => plan.range.start <= plan.range.end

LEMMA SequenceOfOne ==
    ASSUME NEW x, NEW S \in SUBSET {x}
    PROVE  /\ SetToSeq(S) \in Seq({x})
           /\ S # {} => \E i \in 1..Len(SetToSeq(S)) : SetToSeq(S)[i] = x
<1>1. CASE S = {}
  <2>1. Cardinality(S) = 0
    BY <1>1, FS_EmptySet
  <2>2. <<>> \in [1..0 -> S] /\ IsInjective(<<>>)
    BY DEF IsInjective
  <2>3. SetToSeq(S) \in [1..0 -> S]
    BY <2>1, <2>2 DEF SetToSeq
  <2>4. SetToSeq(S) = <<>>
    BY <2>3
  <2>5. <<>> \in Seq({x})
    OBVIOUS
  <2> QED
    BY <1>1, <2>4, <2>5
<1>2. CASE S = {x}
  <2>1. Cardinality(S) = 1
    BY <1>2, FS_Singleton
  <2>2. [i \in 1..1 |-> x] \in [1..1 -> S] /\ IsInjective([i \in 1..1 |-> x])
    BY <1>2 DEF IsInjective
  <2>3. SetToSeq(S) \in [1..1 -> S]
    BY <2>1, <2>2 DEF SetToSeq
  <2>4. SetToSeq(S) \in Seq({x}) /\ Len(SetToSeq(S)) = 1 /\ SetToSeq(S)[1] = x
    BY <1>2, <2>3
  <2> QED
    BY <2>4
<1> QED
  BY <1>1, <1>2

LEMMA DecodedType ==
    ASSUME PlanShape
    PROVE  Decoded \in Seq(Names) /\ internal_primary \in SUBSET {PrimaryColumn}
<1> DEFINE S == internal_primary \ Range(plan.projection)
<1>1. /\ PrimaryColumn \in Names /\ plan.projection \in Seq(Names)
      /\ internal_primary \in SUBSET {PrimaryColumn}
  BY ScanAssumption DEF PlanShape, internal_primary, Primaries
<1>2. S \in SUBSET {PrimaryColumn}
  BY <1>1
<1> HIDE DEF S
<1>3. SetToSeq(S) \in Seq({PrimaryColumn})
  BY <1>2, SequenceOfOne
<1>4. SetToSeq(S) \in Seq(Names)
  BY <1>1, <1>3
<1>5. Decoded = plan.projection \o SetToSeq(S)
  BY DEF Decoded, S
<1> QED
  BY <1>1, <1>4, <1>5

\* The streams of the columns, joined, are all of them and no other.
LEMMA SourcesCover ==
    ASSUME NEW columns \in Seq(Names)
    PROVE  LET sources == FlattenSeq([i \in 1..Len(columns) |-> Streams[columns[i]]])
           IN  /\ sources \in Seq(StreamsOf(columns)) /\ StreamsOf(columns) \in SUBSET AllStreams
               /\ \A s \in StreamsOf(columns) : \E m \in 1..Len(sources) : sources[m] = s
<1> DEFINE wanted == StreamsOf(columns)
           lists == [i \in 1..Len(columns) |-> Streams[columns[i]]]
<1>1. Streams \in [Names -> Seq(AllStreams)] /\ Len(columns) \in Nat
  BY ScanAssumption
<1>2. \A i \in 1..Len(columns) : columns[i] \in Names /\ columns[i] \in Range(columns)
  BY DEF Range
<1>3. \A c \in Range(columns) : c \in Names /\ \E i \in 1..Len(columns) : columns[i] = c
  BY DEF Range
<1>4. wanted \in SUBSET AllStreams
  BY <1>3 DEF StreamsOf, AllStreams
<1>5. \A i \in 1..Len(columns) : Streams[columns[i]] \in Seq(wanted)
  <2>1. SUFFICES ASSUME NEW i \in 1..Len(columns) PROVE Streams[columns[i]] \in Seq(wanted)
    OBVIOUS
  <2> DEFINE list == Streams[columns[i]]
  <2>2. list \in Seq(AllStreams)
    BY <1>1, <1>2
  <2>3. \A j \in 1..Len(list) : list[j] \in Range(list)
    BY <2>2 DEF Range
  <2>4. Range(list) \in SUBSET wanted
    BY <1>2 DEF StreamsOf
  <2> HIDE DEF list, wanted
  <2>5. list \in Seq(wanted)
    BY <2>2, <2>3, <2>4
  <2> QED
    BY <2>5 DEF list
<1> HIDE DEF wanted
<1>6. lists \in Seq(Seq(wanted)) /\ Len(lists) = Len(columns)
  BY <1>1, <1>5
<1>7. ASSUME NEW s \in wanted
      PROVE  \E m \in 1..Len(FlattenSeq(lists)) : FlattenSeq(lists)[m] = s
  <2>1. PICK c \in Range(columns) : s \in Range(Streams[c])
    BY DEF StreamsOf, wanted
  <2>2. PICK i \in 1..Len(columns) : columns[i] = c
    BY <1>3
  <2>3. PICK j \in 1..Len(Streams[c]) : Streams[c][j] = s
    BY <1>1, <1>3, <2>1 DEF Range
  <2>4. i \in 1..Len(lists) /\ lists[i] = Streams[c]
    BY <1>6, <2>2
  <2> HIDE DEF lists
  <2>5. \E m \in 1..Len(FlattenSeq(lists)) : FlattenSeq(lists)[m] = lists[i][j]
    BY <1>6, <2>3, <2>4, FlattenMember
  <2> QED
    BY <2>3, <2>4, <2>5
<1> HIDE DEF lists
<1>8. FlattenSeq(lists) \in Seq(wanted)
  BY <1>6, FlattenType
<1> QED
  BY <1>4, <1>7, <1>8 DEF wanted, lists

LEMMA FirstOfThree ==
    ASSUME NEW T, NEW a \in Seq(T), NEW b \in Seq(T), NEW c \in Seq(T), Len(a) = 1
    PROVE  /\ (a \o b) \o c \in Seq(T) /\ 1 \in 1..Len((a \o b) \o c)
           /\ ((a \o b) \o c)[1] = a[1]
<1>1. \A x, y \in Seq(T) : /\ x \o y \in Seq(T) /\ Len(x \o y) = Len(x) + Len(y)
                          /\ Len(x) \in Nat /\ Len(y) \in Nat
                          /\ \A m \in 1..Len(x) : (x \o y)[m] = x[m]
  OBVIOUS
<1> DEFINE d == a \o b
<1>2. d \in Seq(T) /\ Len(d) \in Nat \ {0} /\ d[1] = a[1]
  <2>1. d \in Seq(T) /\ Len(d) = Len(a) + Len(b) /\ Len(b) \in Nat
    BY <1>1
  <2>2. 1 \in 1..Len(a)
    OBVIOUS
  <2>3. d[1] = a[1]
    BY <1>1, <2>2
  <2> QED
    BY <2>1, <2>3
<1> HIDE DEF d
<1>3. d \o c \in Seq(T) /\ Len(d \o c) = Len(d) + Len(c) /\ Len(c) \in Nat
  BY <1>1, <1>2
<1>4. 1 \in 1..Len(d)
  BY <1>2
<1>5. (d \o c)[1] = d[1]
  BY <1>1, <1>2, <1>4
<1> QED
  BY <1>2, <1>3, <1>5 DEF d

\* What a decode charges: every stream of its columns is stored somewhere in it, no other
\* is, and a primary it was given to verify is verified.
LEMMA StepsCover ==
    ASSUME NEW columns \in Seq(Names), NEW verified \in SUBSET {PrimaryColumn}, NEW block
    PROVE  LET steps == StepsFor(block, columns, verified)
           IN  /\ steps \in Seq(Steps)
               /\ \A i \in 1..Len(steps) :
                    steps[i].stage = "stored" => steps[i].of \in StreamsOf(columns)
               /\ \A s \in StreamsOf(columns) :
                    \E i \in 1..Len(steps) : steps[i] = Step("stored", s)
               /\ verified # {} => \E i \in 1..Len(steps) : steps[i].stage = "primary"
<1> DEFINE wanted == StreamsOf(columns)
           T == StepsAbout(wanted)
           sources == FlattenSeq([i \in 1..Len(columns) |-> Streams[columns[i]]])
           lists == [i \in 1..Len(sources) |-> StreamSteps(block, sources[i])]
           last == [i \in 1..Cardinality(verified) |-> Step("primary", PrimaryColumn)]
<1>1. /\ sources \in Seq(wanted) /\ wanted \in SUBSET AllStreams
      /\ \A s \in wanted : \E m \in 1..Len(sources) : sources[m] = s
  BY SourcesCover
<1>2. StepsFor(block, columns, verified) = FlattenSeq(lists) \o last
  BY DEF StepsFor
<1> HIDE DEF sources, wanted
<1>3. ASSUME NEW s \in wanted
      PROVE  /\ StreamSteps(block, s) \in Seq(T) /\ 1 \in 1..Len(StreamSteps(block, s))
             /\ StreamSteps(block, s)[1] = Step("stored", s)
  <2>1. Step("stored", s) \in T /\ Step("transformed", s) \in T /\ Step("values", s) \in T
    BY DEF Step, StepsAbout
  <2> HIDE DEF T
  <2> DEFINE head == <<Step("stored", s)>>
             middle == IF s \in block.packed THEN <<Step("transformed", s)>> ELSE <<>>
             end == <<Step("values", s)>>
  <2>2. /\ head \in Seq(T) /\ middle \in Seq(T) /\ end \in Seq(T)
        /\ Len(head) = 1 /\ head[1] = Step("stored", s)
    BY <2>1
  <2>3. StreamSteps(block, s) = (head \o middle) \o end
    BY DEF StreamSteps
  <2> HIDE DEF head, middle, end
  <2> QED
    BY <2>2, <2>3, FirstOfThree
<1> HIDE DEF T
<1>4. lists \in Seq(Seq(T)) /\ Len(lists) = Len(sources)
      /\ \A i \in 1..Len(sources) : lists[i] = StreamSteps(block, sources[i])
  BY <1>1, <1>3
<1> HIDE DEF lists
<1> DEFINE flat == FlattenSeq(lists)
<1>5. flat \in Seq(T)
  BY <1>4, FlattenType
<1>6. ASSUME NEW s \in wanted PROVE \E m \in 1..Len(flat) : flat[m] = Step("stored", s)
  <2>1. PICK i \in 1..Len(sources) : sources[i] = s
    BY <1>1
  <2>2. i \in 1..Len(lists) /\ 1 \in 1..Len(lists[i]) /\ lists[i][1] = Step("stored", s)
    BY <1>3, <1>4, <2>1
  <2>3. \A j \in 1..Len(lists[i]) :
          \E m \in 1..Len(FlattenSeq(lists)) : FlattenSeq(lists)[m] = lists[i][j]
    BY <1>4, <2>2, FlattenMember
  <2> QED
    BY <2>2, <2>3 DEF flat
<1> HIDE DEF flat
<1>7. Cardinality(verified) \in Nat /\ (verified # {} => Cardinality(verified) = 1)
  <2>1. Cardinality({}) = 0 /\ Cardinality({PrimaryColumn}) = 1
    BY FS_EmptySet, FS_Singleton
  <2>2. CASE verified = {}
    BY <2>1, <2>2
  <2>3. CASE verified = {PrimaryColumn}
    BY <2>1, <2>3
  <2> QED
    BY <2>2, <2>3
<1> DEFINE n == Cardinality(verified)
           e == Step("primary", PrimaryColumn)
<1>8. e \in Steps /\ e.stage = "primary" /\ T \in SUBSET Steps
      /\ \A step \in T : step.stage # "primary" /\ step.of \in wanted
  BY <1>1 DEF T, Steps, StepsAbout, Step
<1>9. last = [i \in 1..n |-> e] /\ n \in Nat
  BY <1>7
<1> HIDE DEF n, e, last
<1>10. last \in Seq(Steps) /\ Len(last) = n /\ \A i \in 1..n : last[i] = e
  BY <1>8, <1>9
<1>11. flat \in Seq(Steps) /\ \A i \in 1..Len(flat) : flat[i] \in T
  BY <1>5, <1>8
<1> DEFINE steps == flat \o last
<1>12. /\ steps \in Seq(Steps) /\ Len(steps) = Len(flat) + Len(last)
       /\ Len(flat) \in Nat /\ Len(last) \in Nat
       /\ \A m \in 1..Len(flat) : m \in 1..Len(steps) /\ steps[m] = flat[m]
       /\ \A m \in 1..Len(last) : /\ Len(flat) + m \in 1..Len(steps)
                                  /\ steps[Len(flat) + m] = last[m]
       /\ \A m \in 1..Len(steps) : m \in 1..Len(flat) \/ \E j \in 1..Len(last) : steps[m] = last[j]
  <2>1. \A a, b \in Seq(Steps) :
          /\ a \o b \in Seq(Steps) /\ Len(a \o b) = Len(a) + Len(b)
          /\ Len(a) \in Nat /\ Len(b) \in Nat
          /\ \A m \in 1..Len(a) : m \in 1..Len(a \o b) /\ (a \o b)[m] = a[m]
          /\ \A m \in 1..Len(b) : /\ Len(a) + m \in 1..Len(a \o b)
                                 /\ (a \o b)[Len(a) + m] = b[m]
          /\ \A m \in 1..Len(a \o b) :
               m \in 1..Len(a) \/ (m - Len(a) \in 1..Len(b) /\ (a \o b)[m] = b[m - Len(a)])
    OBVIOUS
  <2> QED
    BY ONLY <1>10, <1>11, <2>1
<1> HIDE DEF steps
<1>13. \A i \in 1..Len(steps) : steps[i].stage = "stored" => steps[i].of \in wanted
  BY <1>8, <1>10, <1>11, <1>12
<1>14. \A s \in wanted : \E i \in 1..Len(steps) : steps[i] = Step("stored", s)
  BY <1>6, <1>12
<1>15. ASSUME verified # {} PROVE \E i \in 1..Len(steps) : steps[i].stage = "primary"
  <2>1. 1 \in 1..Len(last) /\ last[1].stage = "primary"
    BY <1>7, <1>8, <1>10, <1>15 DEF n
  <2> QED
    BY <1>12, <2>1
<1> QED
  BY <1>2, <1>12, <1>13, <1>14, <1>15 DEF steps, flat, wanted

-----------------------------------------------------------------------------
(* Accounts                                                                *)

Fields == {"considered", "pruned", "rows", "bytes", "streams", "stream_bytes", "read", "returned"}

Kinds == {"pruned", "io", "scan_rows", "bad_frame", "block_bytes", "scan_bytes", "corruption",
          "empty", "batch", "frame", "decode"}

Found == [stream : AllStreams, contents : {"damaged", "mismatched", "intact"}]

Entries == [block : Nat, kind : Kinds, rows : Seq(Nat), steps : Nat, reads : Seq(Found)]

LEMMA BlockType ==
    ASSUME NEW block, BlockShape(block)
    PROVE  /\ Rows(block) \in Nat /\ Rows(block) > 0
           /\ \A s \in AllStreams : StoredBytes(block, s) \in Nat
           /\ \A step \in Steps : /\ Charge(block, step) \in Nat
                                  /\ Worth(block, step, "bytes") = Charge(block, step)
                                  /\ Worth(block, step, "streams") \in Nat
                                  /\ Worth(block, step, "stream_bytes") \in Nat
<1>1. \A a, b \in Nat : a * b \in Nat
  OBVIOUS
<1>2. Rows(block) \in Nat /\ Rows(block) > 0
  BY DEF BlockShape, Rows
<1>3. /\ KeyBytes \in Nat /\ \A s \in AllStreams : ValueBytes[s] \in Nat
      /\ \A s \in AllStreams : PackedBytes[s] \in Nat
  BY ScanAssumption
<1>4. \A s \in AllStreams : StoredBytes(block, s) \in Nat
  BY <1>1, <1>2, <1>3 DEF StoredBytes
<1>5. ASSUME NEW step \in Steps
      PROVE  /\ Charge(block, step) \in Nat
             /\ Worth(block, step, "bytes") = Charge(block, step)
             /\ Worth(block, step, "streams") \in Nat
             /\ Worth(block, step, "stream_bytes") \in Nat
  <2>1. step.stage = "primary" \/ (step.stage # "primary" /\ step.of \in AllStreams)
    BY DEF Steps, StepsAbout, Step
  <2>2. Charge(block, step) \in Nat
    <3>1. CASE step.stage = "primary"
      BY <1>1, <1>2, <1>3, <3>1 DEF Charge
    <3>2. CASE step.stage # "primary" /\ step.of \in AllStreams
      <4>1. StoredBytes(block, step.of) \in Nat /\ Rows(block) * ValueBytes[step.of] \in Nat
        BY <1>1, <1>2, <1>3, <1>4, <3>2
      <4> QED
        BY <3>2, <4>1 DEF Charge
    <3> QED
      BY <2>1, <3>1, <3>2
  <2>3. Records(block, step) => step.of \in AllStreams
    BY <2>1 DEF Records
  <2>4. Records(block, step) => StoredBytes(block, step.of) \in Nat
    BY <1>4, <2>3
  <2> QED
    BY <2>2, <2>4 DEF Worth
<1> QED
  BY <1>2, <1>4, <1>5

\* The charges taken so far, added up, grow by the next one.
LEMMA UptoNext ==
    ASSUME NEW block, BlockShape(block), NEW steps \in Seq(Steps),
           NEW what \in {"bytes", "streams", "stream_bytes"}
    PROVE  /\ Upto(block, steps, 0, what) = 0
           /\ \A n \in 0..Len(steps) : Upto(block, steps, n, what) \in Nat
           /\ \A n \in 0..Len(steps) - 1 :
                Upto(block, steps, n + 1, what)
                  = Upto(block, steps, n, what) + Worth(block, steps[n + 1], what)
<1> DEFINE f == [i \in 1..Len(steps) |-> Worth(block, steps[i], what)]
<1>1. Len(steps) \in Nat /\ \A i \in 1..Len(steps) : f[i] \in Nat
  BY BlockType
<1>2. \A n \in 0..Len(steps) : Upto(block, steps, n, what) = SumFunction([i \in 1..n |-> f[i]])
  <2>1. ASSUME NEW n \in 0..Len(steps)
        PROVE  [i \in 1..n |-> f[i]] = [i \in 1..n |-> Worth(block, steps[i], what)]
    <3>1. \A i \in 1..n : i \in 1..Len(steps)
      OBVIOUS
    <3>2. \A i \in 1..n : f[i] = Worth(block, steps[i], what)
      BY <3>1
    <3> HIDE DEF f
    <3> QED
      BY <3>2
  <2> QED
    BY <2>1 DEF Upto
<1>3. \A n \in 1..Len(steps) : f[n] = Worth(block, steps[n], what)
  OBVIOUS
<1> HIDE DEF f
<1> DEFINE P(k) == SumFunctionOnSet(f, 1..k)
<1>4. /\ P(0) = 0 /\ \A k \in 0..Len(steps) : P(k) \in Nat
      /\ \A k \in 1..Len(steps) : P(k) = P(k - 1) + f[k]
  BY <1>1, PrefixSum
<1>5. \A n \in 0..Len(steps) : Upto(block, steps, n, what) = P(n)
  BY <1>1, <1>2, PartialSum
<1> HIDE DEF P
<1>6. \A n \in 0..Len(steps) - 1 : P(n + 1) = P(n) + f[n + 1]
  <2> SUFFICES ASSUME NEW n \in 0..Len(steps) - 1 PROVE P(n + 1) = P(n) + f[n + 1]
    OBVIOUS
  <2>1. n + 1 \in 1..Len(steps) /\ (n + 1) - 1 = n
    BY <1>1
  <2>2. P(n + 1) = P((n + 1) - 1) + f[n + 1]
    BY <1>4, <2>1
  <2> QED
    BY <2>1, <2>2, Zenon
<1>7. \A n \in 0..Len(steps) - 1 :
        n \in 0..Len(steps) /\ n + 1 \in 0..Len(steps) /\ n + 1 \in 1..Len(steps)
  BY <1>1
<1> QED
  BY <1>1, <1>3, <1>4, <1>5, <1>6, <1>7

LEMMA LengthType ==
    ASSUME NEW block, BlockShape(block)
    PROVE  total_length(block) \in Nat
<1> DEFINE f == [s \in AllStreams |-> StoredBytes(block, s)]
<1>1. IsFiniteSet(AllStreams)
  <2>1. IsFiniteSet(Names)
    BY ScanAssumption, RangeFinite DEF Names
  <2>2. \A c \in Names : IsFiniteSet(Range(Streams[c]))
    BY ScanAssumption, RangeFinite
  <2> DEFINE S == {Range(Streams[c]) : c \in Names}
             g == [c \in Names |-> Range(Streams[c])]
  <2>3. g \in Surjection(Names, S)
    BY DEF Surjection
  <2>4. IsFiniteSet(S)
    BY <2>1, <2>3, FS_Surjection
  <2>5. \A T \in S : IsFiniteSet(T)
    BY <2>2
  <2> HIDE DEF S
  <2>6. IsFiniteSet(UNION S)
    BY <2>4, <2>5, FS_UNION
  <2> QED
    BY <2>6 DEF AllStreams, S
<1>2. IsFiniteSet(DOMAIN f) /\ \A x \in DOMAIN f : f[x] \in Nat
  BY <1>1, BlockType
<1>3. total_length(block) = HeaderBytes + SumFunction(f)
  BY DEF total_length
<1> HIDE DEF f
<1>4. SumFunction(f) \in Nat /\ HeaderBytes \in Nat
  BY <1>2, SumType, ScanAssumption
<1> QED
  BY <1>3, <1>4

\* The account of an entry, field by field.
LEMMA AccountIs ==
    ASSUME NEW entry, NEW block, NEW steps
    PROVE  /\ Account(entry, block, steps, "considered") = 1
           /\ Account(entry, block, steps, "pruned") = IF entry.kind = "pruned" THEN 1 ELSE 0
           /\ Account(entry, block, steps, "rows") = IF Opened(entry) THEN Rows(block) ELSE 0
           /\ Account(entry, block, steps, "bytes") = Upto(block, steps, Charges(entry), "bytes")
           /\ Account(entry, block, steps, "streams") = Upto(block, steps, entry.steps, "streams")
           /\ Account(entry, block, steps, "stream_bytes")
                = Upto(block, steps, entry.steps, "stream_bytes")
           /\ Account(entry, block, steps, "read")
                = Framed(entry, block) + Upto(block, steps, entry.steps, "stream_bytes")
           /\ Account(entry, block, steps, "returned") = Len(entry.rows)
  BY DEF Account

LEMMA AccountType ==
    ASSUME NEW entry \in Entries, NEW block, BlockShape(block), NEW steps \in Seq(Steps),
           Charges(entry) <= Len(steps), NEW field \in Fields
    PROVE  Account(entry, block, steps, field) \in Nat
<1>1. /\ entry.steps \in Nat /\ entry.rows \in Seq(Nat) /\ Len(steps) \in Nat
      /\ Len(entry.rows) \in Nat
  BY DEF Entries
<1>2. Charges(entry) \in 0..Len(steps) /\ entry.steps \in 0..Len(steps)
  BY <1>1 DEF Charges
<1>3. \A what \in {"bytes", "streams", "stream_bytes"} :
        /\ Upto(block, steps, Charges(entry), what) \in Nat
        /\ Upto(block, steps, entry.steps, what) \in Nat
  BY <1>2, UptoNext
<1>4. Rows(block) \in Nat /\ total_length(block) \in Nat /\ HeaderBytes \in Nat
  BY BlockType, LengthType, ScanAssumption
<1>5. Framed(entry, block) \in Nat
  BY <1>4 DEF Framed
<1> QED
  BY <1>1, <1>3, <1>4, <1>5, AccountIs DEF Fields

\* What the first entries come to, in a file and for the columns decoded.
Part(given, i, blks, columns, verified, field) ==
    LET block == blks[given[i].block]
    IN  Account(given[i], block, StepsFor(block, columns, verified), field)

Tally(given, n, blks, columns, verified, field) ==
    SumFunction([i \in 1..n |-> Part(given, i, blks, columns, verified, field)])

Ledger(given, n, blks, columns, verified) ==
    /\ columns \in Seq(Names) /\ verified \in SUBSET {PrimaryColumn}
    /\ \A i \in 1..n :
         LET block == blks[given[i].block]
         IN  /\ given[i] \in Entries /\ BlockShape(block)
             /\ Charges(given[i]) <= Len(StepsFor(block, columns, verified))

LEMMA PartType ==
    ASSUME NEW given, NEW n \in Nat, NEW blks, NEW columns, NEW verified,
           Ledger(given, n, blks, columns, verified), NEW field \in Fields
    PROVE  \A i \in 1..n : Part(given, i, blks, columns, verified, field) \in Nat
<1> SUFFICES ASSUME NEW i \in 1..n PROVE Part(given, i, blks, columns, verified, field) \in Nat
  OBVIOUS
<1> DEFINE block == blks[given[i].block]
           steps == StepsFor(block, columns, verified)
<1>1. /\ columns \in Seq(Names) /\ verified \in SUBSET {PrimaryColumn}
      /\ given[i] \in Entries /\ BlockShape(block) /\ Charges(given[i]) <= Len(steps)
  BY DEF Ledger
<1>2. steps \in Seq(Steps)
  BY <1>1, StepsCover
<1>3. Part(given, i, blks, columns, verified, field) = Account(given[i], block, steps, field)
  BY DEF Part
<1> HIDE DEF block, steps
<1> QED
  BY <1>1, <1>2, <1>3, AccountType

\* A tally grows by the next entry.
LEMMA TallyNext ==
    ASSUME NEW given, NEW n \in Nat, NEW blks, NEW columns, NEW verified,
           Ledger(given, n, blks, columns, verified), NEW field \in Fields
    PROVE  /\ Tally(given, 0, blks, columns, verified, field) = 0
           /\ \A k \in 0..n : Tally(given, k, blks, columns, verified, field) \in Nat
           /\ \A k \in 1..n : Tally(given, k, blks, columns, verified, field)
                                = Tally(given, k - 1, blks, columns, verified, field)
                                    + Part(given, k, blks, columns, verified, field)
<1> DEFINE f == [i \in 1..n |-> Part(given, i, blks, columns, verified, field)]
           P(k) == SumFunctionOnSet(f, 1..k)
<1>1. \A i \in 1..n : f[i] \in Nat /\ f[i] = Part(given, i, blks, columns, verified, field)
  BY PartType
<1>2. \A k \in 0..n : Tally(given, k, blks, columns, verified, field)
                        = SumFunction([i \in 1..k |-> f[i]])
  <2>1. ASSUME NEW k \in 0..n
        PROVE  [i \in 1..k |-> f[i]] = [i \in 1..k |-> Part(given, i, blks, columns, verified, field)]
    <3>1. \A i \in 1..k : i \in 1..n
      OBVIOUS
    <3>2. \A i \in 1..k : f[i] = Part(given, i, blks, columns, verified, field)
      BY <1>1, <3>1
    <3> HIDE DEF f
    <3> QED
      BY <3>2
  <2> QED
    BY <2>1 DEF Tally
<1> HIDE DEF f
<1>3. /\ P(0) = 0 /\ \A k \in 0..n : P(k) \in Nat
      /\ \A k \in 1..n : P(k) = P(k - 1) + f[k]
  BY <1>1, PrefixSum
<1>4. \A k \in 0..n : Tally(given, k, blks, columns, verified, field) = P(k)
  BY <1>1, <1>2, PartialSum
<1> HIDE DEF P
<1>5. \A k \in 1..n : k - 1 \in 0..n /\ k \in 0..n
  OBVIOUS
<1> QED
  BY <1>1, <1>3, <1>4, <1>5

\* It depends on the entries it covers and on their blocks only.
LEMMA TallySame ==
    ASSUME NEW given, NEW more, NEW n, NEW blks, NEW news, NEW columns, NEW verified, NEW field,
           \A i \in 1..n : more[i] = given[i] /\ news[given[i].block] = blks[given[i].block]
    PROVE  Tally(more, n, news, columns, verified, field)
             = Tally(given, n, blks, columns, verified, field)
<1>1. \A i \in 1..n : Part(more, i, news, columns, verified, field)
                        = Part(given, i, blks, columns, verified, field)
  BY DEF Part
<1> QED
  BY <1>1 DEF Tally

\* Nothing dealt with comes to nothing.
LEMMA TallyNone ==
    ASSUME NEW given, NEW blks, NEW columns, NEW verified, NEW field
    PROVE  Tally(given, 0, blks, columns, verified, field) = 0
<1> DEFINE f == [i \in 1..0 |-> Part(given, i, blks, columns, verified, field)]
<1>1. DOMAIN f = {}
  OBVIOUS
<1> HIDE DEF f
<1>2. SumFunction(f) = 0
  BY <1>1, SumFunctionIsSum, SumEmpty
<1> QED
  BY <1>2 DEF f, Tally

-----------------------------------------------------------------------------
(* The invariant                                                           *)

Matches(range, block) ==
    {k \in 1..Rows(block) :
        range = NoRange \/ (range.start <= block.values[k] /\ block.values[k] < range.end)}

FileShape == file \in Seq(UNION {Blocks(k) : k \in 1..FileBlocks})

Metrics == [ blocks_considered : Nat, blocks_pruned : Nat, streams_decoded : Nat,
             stream_bytes_decoded : Nat, bytes_read : Nat, rows_returned : Nat ]

ScanShape ==
    /\ mode \in {"scan", "tail"}
    /\ pc \in {"closed", "configure", "refused", "next", "idle", "done", "frame", "decode"}
    /\ blocks \in 0..Len(file) /\ next_index \in 0..blocks
    /\ budget \in [rows : Nat, bytes : Nat] /\ remaining \in Nat
    /\ pc \in {"frame", "decode"} => next_index > 0

\* Nothing is consumed before the plan is settled.
PlanSettles ==
    /\ pc \in {"closed", "configure", "refused"} => answers = <<>>
    /\ pc = "closed" => mode = "scan"

ShapeInv == /\ PlanShape /\ FileShape /\ metrics \in Metrics /\ ScanShape
            /\ answers \in Seq(Entries) /\ PlanSettles

OrderInv == First \in Nat /\ EachBlockOnce

\* What the charges taken so far have established of the block being decoded.
Checked(block, steps, n, seen, wanted) ==
    /\ seen \in Seq(Found)
    /\ \A read \in Range(seen) : read.contents = "intact" /\ read.stream \in wanted
    /\ \A j \in 1..n :
         /\ steps[j] \notin block.broken
         /\ steps[j].stage = "primary" => Honest(block)
         /\ steps[j].stage = "stored" => \E read \in Range(seen) : read.stream = steps[j].of

DecodeInv ==
    IF pc = "decode"
    THEN LET block == file[next_index]
         IN  /\ work = Selection(block) /\ done \in 0..Len(work)
             /\ remaining = MaxBlockBytes - Upto(block, work, done, "bytes")
             /\ Checked(block, work, done, reads, StreamsOf(Decoded))
    ELSE work = <<>> /\ done = 0 /\ reads = <<>>

\* What an answer says of its block, and of the allowances it met.
True(answer, block, range, columns, verified) ==
    /\ answer.kind = "batch" => /\ Range(answer.rows) = Matches(range, block)
                                /\ InFileOrder(answer.rows)
    /\ answer.kind = "empty" => Matches(range, block) = {}
    /\ answer.kind = "pruned" /\ Honest(block) => Matches(range, block) = {}
    /\ answer.kind \in {"batch", "empty"} =>
         /\ {read.stream : read \in Range(answer.reads)} = StreamsOf(columns)
         /\ \A read \in Range(answer.reads) : read.contents = "intact"
         /\ Range(StepsFor(block, columns, verified)) \cap block.broken = {}
         /\ verified # {} => Honest(block)

Fair(answer, block, columns, verified, rows, bytes) ==
    LET steps == StepsFor(block, columns, verified)
        own == Upto(block, steps, Charges(answer), "bytes")
        next == Charge(block, steps[answer.steps + 1])
    IN  /\ Charges(answer) <= Len(steps) /\ own <= MaxBlockBytes
        /\ answer.kind = "scan_rows" => rows + Rows(block) > MaxRowsPerScan
        /\ answer.kind = "block_bytes" => own + next > MaxBlockBytes
        /\ answer.kind = "scan_bytes" => bytes + next > MaxScanBytes

Sound(given, i, blks, range, columns, verified) ==
    LET block == blks[given[i].block]
    IN  /\ True(given[i], block, range, columns, verified)
        /\ Fair(given[i], block, columns, verified,
                Tally(given, i, blks, columns, verified, "rows"),
                Tally(given, i, blks, columns, verified, "bytes"))

EntriesInv ==
    \A i \in 1..Len(answers) : Sound(answers, i, file, plan.range, Decoded, internal_primary)

\* What the allowances and the counters say has been dealt with.
Booked(b, m, discovered, field) ==
    CASE field = "considered" -> m.blocks_considered
      [] field = "pruned" -> m.blocks_pruned
      [] field = "rows" -> MaxRowsPerScan - b.rows
      [] field = "bytes" -> MaxScanBytes - b.bytes
      [] field = "streams" -> m.streams_decoded
      [] field = "stream_bytes" -> m.stream_bytes_decoded
      [] field = "read" -> m.bytes_read - discovered
      [] field = "returned" -> m.rows_returned

\* The block being read, as it stands.
Present == Entry(next_index, pc, <<>>, done, reads)

Current(field) ==
    IF InFlight = 0 THEN 0
    ELSE Account(Present, file[next_index], Selection(file[next_index]), field)

BooksInv ==
    \A field \in Fields :
        Booked(budget, metrics, Discovered, field)
          = Tally(answers, Len(answers), file, Decoded, internal_primary, field) + Current(field)

ScanInv == ShapeInv /\ OrderInv /\ DecodeInv /\ EntriesInv /\ BooksInv

-----------------------------------------------------------------------------
(* What the shapes give                                                    *)

LEMMA FileBlocksShaped ==
    ASSUME FileShape
    PROVE  Len(file) \in Nat /\ \A k \in 1..Len(file) : BlockShape(file[k])
  BY ScanAssumption DEF FileShape

LEMMA InFlightBlock ==
    ASSUME ShapeInv, pc \in {"frame", "decode"}
    PROVE  /\ next_index \in 1..Len(file) /\ next_index \in Nat /\ BlockShape(file[next_index])
           /\ InFlight = 1
  BY FileBlocksShaped DEF ShapeInv, ScanShape, InFlight

LEMMA SelectionType ==
    ASSUME ShapeInv, NEW block
    PROVE  /\ Selection(block) = StepsFor(block, Decoded, internal_primary)
           /\ Selection(block) \in Seq(Steps) /\ Len(Selection(block)) \in Nat
           /\ Decoded \in Seq(Names) /\ internal_primary \in SUBSET {PrimaryColumn}
<1>1. Decoded \in Seq(Names) /\ internal_primary \in SUBSET {PrimaryColumn}
  BY DecodedType DEF ShapeInv
<1>2. Selection(block) = StepsFor(block, Decoded, internal_primary)
  BY DEF Selection
<1>3. Selection(block) \in Seq(Steps)
  BY <1>1, <1>2, StepsCover
<1> QED
  BY <1>1, <1>2, <1>3

LEMMA PlanKept ==
    ASSUME UNCHANGED <<primary, plan>>
    PROVE  Decoded' = Decoded /\ internal_primary' = internal_primary
<1>1. internal_primary' = internal_primary
  BY DEF internal_primary, Primaries
<1> QED
  BY <1>1 DEF Decoded

\* The answers are about the first blocks of the file that have been dealt with.
LEMMA AnswersOfFile ==
    ASSUME ShapeInv, OrderInv
    PROVE  /\ Len(answers) \in Nat /\ next_index \in Nat /\ next_index <= Len(file)
           /\ InFlight \in {0, 1} /\ First \in Nat /\ First + Len(answers) = next_index - InFlight
           /\ \A i \in 1..Len(answers) : /\ answers[i].block = First + i
                                         /\ answers[i].block \in 1..Len(file)
<1>1. /\ Len(answers) \in Nat /\ next_index \in Nat /\ next_index <= Len(file) /\ Len(file) \in Nat
      /\ InFlight \in {0, 1}
  BY FileBlocksShaped DEF ShapeInv, ScanShape, InFlight
<1>2. First \in Nat /\ First = next_index - InFlight - Len(answers)
  BY DEF OrderInv, First
<1>3. \A i \in 1..Len(answers) : answers[i].block = First + i
  BY DEF OrderInv, EachBlockOnce
<1>4. \A i \in 1..Len(answers) : First + i \in 1..Len(file)
  BY ONLY <1>1, <1>2
<1> QED
  BY <1>1, <1>2, <1>3, <1>4

LEMMA AnswersLedger ==
    ASSUME ShapeInv, OrderInv, EntriesInv
    PROVE  Ledger(answers, Len(answers), file, Decoded, internal_primary)
<1>1. \A i \in 1..Len(answers) : answers[i] \in Entries /\ answers[i].block \in 1..Len(file)
  BY AnswersOfFile DEF ShapeInv
<1>2. \A i \in 1..Len(answers) : BlockShape(file[answers[i].block])
  BY <1>1, FileBlocksShaped DEF ShapeInv
<1>3. \A i \in 1..Len(answers) :
        Charges(answers[i])
          <= Len(StepsFor(file[answers[i].block], Decoded, internal_primary))
  BY DEF EntriesInv, Sound, Fair
<1>4. Decoded \in Seq(Names) /\ internal_primary \in SUBSET {PrimaryColumn}
  BY DecodedType DEF ShapeInv
<1> QED
  BY <1>1, <1>2, <1>3, <1>4 DEF Ledger

\* Field by field, and all of them together.
LEMMA BookedIs ==
    ASSUME NEW b, NEW m, NEW d
    PROVE  /\ Booked(b, m, d, "considered") = m.blocks_considered
           /\ Booked(b, m, d, "pruned") = m.blocks_pruned
           /\ Booked(b, m, d, "rows") = MaxRowsPerScan - b.rows
           /\ Booked(b, m, d, "bytes") = MaxScanBytes - b.bytes
           /\ Booked(b, m, d, "streams") = m.streams_decoded
           /\ Booked(b, m, d, "stream_bytes") = m.stream_bytes_decoded
           /\ Booked(b, m, d, "read") = m.bytes_read - d
           /\ Booked(b, m, d, "returned") = m.rows_returned
  BY DEF Booked

-----------------------------------------------------------------------------
(* The start                                                               *)

LEMMA InitScan ==
    Init => ScanInv
<1> SUFFICES ASSUME Init PROVE ScanInv
  OBVIOUS
<1>1. ShapeInv
  BY ScanAssumption DEF Init, ShapeInv, PlanShape, FileShape, Metrics, ScanShape, PlanSettles
<1>2. /\ InFlight = 0 /\ answers = <<>> /\ Len(answers) = 0 /\ next_index = 0 /\ pc = "closed"
      /\ mode = "scan"
  BY DEF Init, InFlight
<1>3. First = 0
  <2>1. next_index = 0 /\ InFlight = 0 /\ Len(answers) = 0
    BY <1>2
  <2> QED
    BY ONLY <2>1 DEF First
<1>4. \A i \in 1..Len(answers) : FALSE
  BY <1>2
<1>5. OrderInv /\ EntriesInv
  BY <1>3, <1>4 DEF OrderInv, EachBlockOnce, EntriesInv
<1>6. DecodeInv
  BY <1>2 DEF DecodeInv, Init
<1>7. BooksInv
  <2>1. Discovered = 0 /\ MaxRowsPerScan \in Nat /\ MaxScanBytes \in Nat
    BY <1>2, ScanAssumption DEF Discovered
  <2>2. \A field \in Fields : Booked(budget, metrics, Discovered, field) = 0
    BY <2>1, BookedIs DEF Init, Fields
  <2>3. \A field : Current(field) = 0
    BY <1>2 DEF Current
  <2>4. \A field : Tally(answers, Len(answers), file, Decoded, internal_primary, field) = 0
    BY <1>2, TallyNone
  <2> QED
    BY <2>2, <2>3, <2>4 DEF BooksInv
<1> QED
  BY <1>1, <1>5, <1>6, <1>7 DEF ScanInv

-----------------------------------------------------------------------------
(* Steps that deal with no block                                           *)

Rests ==
    /\ UNCHANGED <<answers, budget, remaining, work, done, reads>> /\ InFlight' = InFlight
    /\ InFlight = 1 => UNCHANGED <<pc, next_index>>
    /\ Len(file) <= Len(file') /\ \A k \in 1..Len(file) : file'[k] = file[k]
    /\ UNCHANGED <<primary, plan>> \/ (answers = <<>> /\ InFlight = 0)
    /\ \/ UNCHANGED mode /\ First' = First
       \/ answers = <<>> /\ First' \in Nat /\ (mode' = "scan" => First' = 0)
    /\ \A field \in Fields : Booked(budget', metrics', Discovered', field)
                               = Booked(budget, metrics, Discovered, field)

LEMMA RestsKeep ==
    ASSUME ScanInv, Rests
    PROVE  OrderInv' /\ DecodeInv' /\ EntriesInv' /\ BooksInv'
<1>0. ShapeInv /\ OrderInv /\ DecodeInv /\ EntriesInv /\ BooksInv
  BY DEF ScanInv
<1>1. /\ Len(answers) \in Nat /\ InFlight \in {0, 1} /\ First \in Nat
      /\ \A i \in 1..Len(answers) : /\ answers[i].block = First + i
                                    /\ answers[i].block \in 1..Len(file)
  BY <1>0, AnswersOfFile
<1>2. \A i \in 1..Len(answers) : file'[answers[i].block] = file[answers[i].block]
  BY <1>1 DEF Rests
<1>3. \/ Decoded' = Decoded /\ internal_primary' = internal_primary /\ UNCHANGED plan
      \/ answers = <<>> /\ InFlight = 0
  BY PlanKept DEF Rests
<1>4. answers' = answers /\ (answers = <<>> => Len(answers) = 0 /\ \A i \in 1..Len(answers) : FALSE)
  BY DEF Rests
<1>5. OrderInv'
  <2>1. CASE UNCHANGED mode /\ First' = First
    BY <1>0, <1>4, <2>1 DEF OrderInv, EachBlockOnce
  <2>2. CASE answers = <<>> /\ First' \in Nat /\ (mode' = "scan" => First' = 0)
    BY <1>4, <2>2 DEF OrderInv, EachBlockOnce
  <2> QED
    BY <2>1, <2>2 DEF Rests
<1>6. ASSUME InFlight = 1
      PROVE  /\ next_index \in 1..Len(file) /\ file'[next_index'] = file[next_index]
             /\ pc' = pc /\ next_index' = next_index
             /\ Decoded' = Decoded /\ internal_primary' = internal_primary
             /\ Selection(file[next_index])' = Selection(file[next_index])
  <2>1. pc' = pc /\ next_index' = next_index /\ next_index \in 1..Len(file)
    BY <1>0, <1>6, InFlightBlock DEF Rests, InFlight
  <2>2. file'[next_index'] = file[next_index]
    BY <2>1 DEF Rests
  <2>3. Decoded' = Decoded /\ internal_primary' = internal_primary
    BY <1>3, <1>6
  <2> QED
    BY <2>1, <2>2, <2>3 DEF Selection
<1>7. DecodeInv'
  <2>1. CASE pc = "decode"
    <3>1. InFlight = 1
      BY <2>1 DEF InFlight
    <3>2. UNCHANGED <<remaining, work, done, reads>>
      BY DEF Rests
    <3> QED
      BY <1>0, <1>6, <2>1, <3>1, <3>2 DEF DecodeInv
  <2>2. CASE pc # "decode"
    <3>1. pc' # "decode"
      <4>1. CASE InFlight = 1
        BY <1>6, <2>2, <4>1
      <4>2. CASE InFlight = 0
        BY <4>2 DEF Rests, InFlight
      <4> QED
        BY <1>1, <4>1, <4>2
    <3> QED
      BY <1>0, <2>2, <3>1 DEF DecodeInv, Rests
  <2> QED
    BY <2>1, <2>2
<1>8. CASE answers = <<>> /\ InFlight = 0
  <2>1. EntriesInv'
    BY <1>4, <1>8 DEF EntriesInv
  <2>2. InFlight' = 0
    BY <1>8 DEF Rests
  <2>3. \A field \in Fields : Current(field) = 0 /\ Current(field)' = 0
    BY <1>8, <2>2 DEF Current
  <2>4. \A field : /\ Tally(answers, Len(answers), file, Decoded, internal_primary, field) = 0
                   /\ Tally(answers', Len(answers'), file', Decoded', internal_primary', field) = 0
    BY <1>4, <1>8, TallyNone
  <2>5. BooksInv'
    <3>1. \A field \in Fields : Booked(budget', metrics', Discovered', field)
                                  = Booked(budget, metrics, Discovered, field)
      BY DEF Rests
    <3> QED
      BY <1>0, <2>3, <2>4, <3>1 DEF BooksInv
  <2> QED
    BY <1>5, <1>7, <2>1, <2>5
<1>9. CASE Decoded' = Decoded /\ internal_primary' = internal_primary /\ UNCHANGED plan
  <2>1. \A i \in 0..Len(answers) : \A field :
          Tally(answers', i, file', Decoded', internal_primary', field)
            = Tally(answers, i, file, Decoded, internal_primary, field)
    <3>1. SUFFICES ASSUME NEW i \in 0..Len(answers), NEW field
                   PROVE  Tally(answers, i, file', Decoded, internal_primary, field)
                            = Tally(answers, i, file, Decoded, internal_primary, field)
      BY <1>4, <1>9
    <3>2. \A k \in 1..i : file'[answers[k].block] = file[answers[k].block]
      BY <1>1, <1>2
    <3> QED
      BY <3>2, TallySame
  <2>2. EntriesInv'
    <3>1. SUFFICES ASSUME NEW i \in 1..Len(answers)
                   PROVE  Sound(answers', i, file', plan'.range, Decoded', internal_primary')
      BY <1>4 DEF EntriesInv
    <3>2. /\ \A field : Tally(answers', i, file', Decoded', internal_primary', field)
                          = Tally(answers, i, file, Decoded, internal_primary, field)
          /\ file'[answers'[i].block] = file[answers[i].block] /\ answers'[i] = answers[i]
      BY <1>1, <1>2, <1>4, <2>1
    <3>3. Sound(answers, i, file, plan.range, Decoded, internal_primary)
      BY <1>0 DEF EntriesInv
    <3> QED
      BY <1>9, <3>2, <3>3 DEF Sound
  <2>3. \A field \in Fields : Current(field)' = Current(field)
    <3>1. CASE InFlight = 0
      <4>1. InFlight' = 0
        BY <3>1 DEF Rests
      <4> QED
        BY <3>1, <4>1 DEF Current
    <3>2. CASE InFlight = 1
      <4>1. Present' = Present /\ InFlight' = 1
        BY <1>6, <3>2 DEF Present, Rests
      <4>2. /\ file'[next_index'] = file[next_index]
            /\ Selection(file[next_index])' = Selection(file[next_index])
        BY <1>6, <3>2
      <4> QED
        BY <3>2, <4>1, <4>2 DEF Current
    <3> QED
      BY <1>1, <3>1, <3>2
  <2>4. BooksInv'
    <3>1. \A field \in Fields : Booked(budget', metrics', Discovered', field)
                                  = Booked(budget, metrics, Discovered, field)
      BY DEF Rests
    <3>2. \A field : Tally(answers', Len(answers'), file', Decoded', internal_primary', field)
                       = Tally(answers, Len(answers), file, Decoded, internal_primary, field)
      BY <1>1, <1>4, <2>1
    <3> QED
      BY <1>0, <2>3, <3>1, <3>2 DEF BooksInv
  <2> QED
    BY <1>5, <1>7, <2>2, <2>4
<1> QED
  BY <1>3, <1>8, <1>9

LEMMA ConfigureShape ==
    ASSUME ShapeInv, Open \/ Project \/ PrimaryRange \/ Call \/ ScanDone
    PROVE  ShapeInv'
<1> USE DEF environment, decoding
<1>a. PlanShape
  BY DEF ShapeInv
<1>2. CASE Project
  <2>1. PlanShape'
    BY <1>a, <1>2, ScanAssumption DEF Project, Refused, PlanShape
  <2>2. pc = "configure" /\ pc' \in {"configure", "refused"}
    BY <1>2 DEF Project, Refused
  <2> QED
    BY <1>2, <2>1, <2>2 DEF Project, FileShape, PlanSettles, ShapeInv, ScanShape
<1>3. CASE PrimaryRange
  <2>1. PlanShape'
    BY <1>a, <1>3, ScanAssumption DEF PrimaryRange, Refused, PlanShape
  <2>2. pc = "configure" /\ pc' \in {"configure", "refused"}
    BY <1>3 DEF PrimaryRange, Refused
  <2> QED
    BY <1>3, <2>1, <2>2 DEF PrimaryRange, FileShape, PlanSettles, ShapeInv, ScanShape
<1> USE DEF ShapeInv, ScanShape
<1>0. Len(file) \in Nat
  BY DEF FileShape
<1>1. CASE Open
  BY <1>0, <1>1 DEF Open, PlanShape, FileShape, PlanSettles
<1>4. CASE Call
  BY <1>4 DEF Call, PlanShape, FileShape, PlanSettles
<1>5. CASE ScanDone
  BY <1>5 DEF ScanDone, PlanShape, FileShape, PlanSettles
<1> QED
  BY <1>1, <1>2, <1>3, <1>4, <1>5

\* The lengths of the frames of the file, after some and up to others.
Lengths(a, b) == SumFunction([k \in a + 1..b |-> total_length(file[k])])

LEMMA LengthsSum ==
    ASSUME ShapeInv, NEW a \in Nat, NEW b \in Nat, NEW c \in Nat,
           a <= b, b <= c, c <= Len(file)
    PROVE  /\ Lengths(a, b) \in Nat /\ Lengths(b, c) \in Nat
           /\ Lengths(a, c) = Lengths(a, b) + Lengths(b, c)
<1> DEFINE f == [k \in 1..Len(file) |-> total_length(file[k])]
           P(k) == SumFunctionOnSet(f, 1..k)
<1>1. Len(file) \in Nat /\ \A k \in 1..Len(file) : f[k] \in Nat /\ f[k] = total_length(file[k])
  BY FileBlocksShaped, LengthType DEF ShapeInv
<1> HIDE DEF f
<1>2. ASSUME NEW i \in 0..Len(file), NEW j \in i..Len(file)
      PROVE  Lengths(i, j) = P(j) - P(i) /\ Lengths(i, j) \in Nat
  <2>1. \A k \in i + 1..j : f[k] = total_length(file[k])
    BY <1>1
  <2>2. [k \in i + 1..j |-> f[k]] = [k \in i + 1..j |-> total_length(file[k])]
    BY <2>1
  <2>3. /\ j \in Nat /\ i \in 0..j /\ \A k \in 1..j : f[k] \in Nat
    BY <1>1
  <2>4. /\ SumFunction([k \in i + 1..j |-> f[k]]) = P(j) - P(i)
        /\ SumFunction([k \in i + 1..j |-> f[k]]) \in Nat
    BY <2>3, IntervalSum
  <2> QED
    BY <2>2, <2>4 DEF Lengths
<1>3. \A k \in 0..Len(file) : P(k) \in Nat
  BY <1>1, PrefixSum
<1> HIDE DEF P
<1>4. /\ a \in 0..Len(file) /\ b \in 0..Len(file) /\ c \in 0..Len(file)
      /\ b \in a..Len(file) /\ c \in b..Len(file) /\ c \in a..Len(file)
  BY <1>1
<1>5. /\ Lengths(a, b) = P(b) - P(a) /\ Lengths(b, c) = P(c) - P(b) /\ Lengths(a, c) = P(c) - P(a)
      /\ Lengths(a, b) \in Nat /\ Lengths(b, c) \in Nat
  BY <1>2, <1>4
<1>6. P(a) \in Nat /\ P(b) \in Nat /\ P(c) \in Nat
  BY <1>3, <1>4
<1>7. Lengths(a, c) = Lengths(a, b) + Lengths(b, c)
  BY ONLY <1>5, <1>6
<1> QED
  BY <1>5, <1>7

\* Frames come with a refresh, and are read then.
LEMMA RefreshBooks ==
    ASSUME ShapeInv, OrderInv, Refresh
    PROVE  /\ metrics' \in Metrics /\ metrics'.bytes_read - Discovered' = metrics.bytes_read - Discovered
           /\ \E n \in Nat : metrics' = [metrics EXCEPT !.bytes_read = n]
<1>1. /\ Len(file) \in Nat /\ blocks \in Nat /\ blocks <= Len(file) /\ next_index = blocks
      /\ metrics \in Metrics /\ mode = "tail" /\ metrics.bytes_read \in Nat
  BY FileBlocksShaped DEF ShapeInv, ScanShape, Refresh, Metrics
<1>2. First \in Nat /\ First <= blocks
  BY <1>1, AnswersOfFile
<1>3. /\ Lengths(First, blocks) \in Nat /\ Lengths(blocks, Len(file)) \in Nat
      /\ Lengths(First, Len(file)) = Lengths(First, blocks) + Lengths(blocks, Len(file))
  <2>1. /\ First \in Nat /\ blocks \in Nat /\ Len(file) \in Nat
        /\ First <= blocks /\ blocks <= Len(file) /\ Len(file) <= Len(file)
    BY <1>1, <1>2
  <2> QED
    BY <2>1, LengthsSum
<1>4. Discovered = Lengths(First, blocks)
  BY <1>1 DEF Discovered, Lengths
<1>5. /\ First' = First /\ mode' = mode /\ file' = file
  <2>1. UNCHANGED <<next_index, answers, mode, file>> /\ pc = "next" /\ pc' \in {"idle", "next"}
    BY DEF Refresh, decoding, environment
  <2> QED
    BY <2>1 DEF First, InFlight
<1>6. Discovered' = SumFunction([k \in First + 1..blocks' |-> total_length(file[k])])
  <2>1. Discovered' = SumFunction([k \in First' + 1..blocks' |-> total_length(file'[k])])
    BY <1>1, <1>5 DEF Discovered, total_length, StoredBytes, Rows
  <2> QED
    BY <1>5, <2>1
<1>7. CASE UNCHANGED <<blocks, metrics>>
  <2>1. Discovered' = Discovered
    BY <1>4, <1>6, <1>7 DEF Lengths
  <2>2. metrics = [metrics EXCEPT !.bytes_read = metrics.bytes_read]
    BY <1>1 DEF Metrics
  <2> QED
    BY <1>1, <1>7, <2>1, <2>2
<1>8. CASE blocks' = Len(file) /\ metrics' = [metrics EXCEPT !.bytes_read = @ + Lengths(blocks, Len(file))]
  <2>1. Discovered' = Lengths(First, Len(file))
    BY <1>6, <1>8 DEF Lengths
  <2>2. metrics.bytes_read + Lengths(blocks, Len(file)) \in Nat
    BY <1>1, <1>3
  <2>3. metrics'.bytes_read = metrics.bytes_read + Lengths(blocks, Len(file)) /\ metrics' \in Metrics
    BY <1>1, <1>8, <2>2 DEF Metrics
  <2>4. metrics'.bytes_read - Discovered' = metrics.bytes_read - Discovered
    BY ONLY <1>1, <1>3, <1>4, <2>1, <2>3
  <2> QED
    BY <1>8, <2>2, <2>3, <2>4
<1> QED
  BY <1>7, <1>8 DEF Refresh, Lengths

LEMMA RefreshShape ==
    ASSUME ShapeInv, OrderInv, Refresh
    PROVE  ShapeInv'
<1>1. Len(file) \in Nat /\ blocks \in 0..Len(file)
  BY FileBlocksShaped DEF ShapeInv, ScanShape
<1>2. pc = "next" /\ pc' \in {"idle", "next"} /\ blocks' \in 0..Len(file) /\ blocks' >= blocks
  BY <1>1 DEF Refresh
<1>3. metrics' \in Metrics
  BY RefreshBooks
<1> QED
  BY <1>1, <1>2, <1>3
     DEF Refresh, environment, decoding, ShapeInv, PlanShape, FileShape, ScanShape, PlanSettles

LEMMA OthersShape ==
    ASSUME ShapeInv, Commit \/ Damage \/ UNCHANGED vars
    PROVE  ShapeInv'
<1>1. CASE Commit
  <2>0. Len(file) \in Nat /\ Len(file) + 1 \in 1..FileBlocks
    BY <1>1, ScanAssumption DEF Commit, ShapeInv, FileShape
  <2>1. PICK block \in Blocks(Len(file) + 1) : file' = Append(file, block)
    BY <1>1 DEF Commit
  <2>2. block \in UNION {Blocks(k) : k \in 1..FileBlocks}
    BY <2>0
  <2>3. FileShape' /\ Len(file') = Len(file) + 1
    BY <2>1, <2>2 DEF ShapeInv, FileShape
  <2> QED
    BY <1>1, <2>0, <2>3 DEF Commit, decoding, ShapeInv, PlanShape, ScanShape, PlanSettles
<1>2. CASE Damage
  BY <1>2 DEF Damage, decoding, ShapeInv, PlanShape, FileShape, ScanShape, PlanSettles
<1>3. CASE UNCHANGED vars
  BY <1>3 DEF vars, environment, decoding, ShapeInv, PlanShape, FileShape, ScanShape, PlanSettles
<1> QED
  BY <1>1, <1>2, <1>3

\* Frames committed after the snapshot was taken are not discovered yet.
LEMMA DiscoveredSame ==
    ASSUME ShapeInv, UNCHANGED <<mode, blocks>>, First' = First, First \in Nat,
           \A k \in 1..Len(file) : file'[k] = file[k]
    PROVE  Discovered' = Discovered
<1>1. blocks \in Nat /\ blocks <= Len(file)
  BY FileBlocksShaped DEF ShapeInv, ScanShape
<1>2. \A k \in First + 1..blocks : file'[k] = file[k]
  BY <1>1
<1>3. [k \in First + 1..blocks |-> total_length(file'[k])]
        = [k \in First + 1..blocks |-> total_length(file[k])]
  BY <1>2
<1>4. [k \in First' + 1..blocks' |-> total_length(file'[k])]
        = [k \in First + 1..blocks |-> total_length(file[k])]
  BY <1>3
<1> QED
  BY <1>4 DEF Discovered, total_length, StoredBytes, Rows

\* The books agree when the counters move by a discovery only.
LEMMA BooksAgree ==
    ASSUME NEW b, NEW m \in Metrics, NEW n \in Nat, NEW d, NEW e, n - e = m.bytes_read - d
    PROVE  \A field \in Fields :
             Booked(b, [m EXCEPT !.bytes_read = n], e, field) = Booked(b, m, d, field)
<1> DEFINE c == [m EXCEPT !.bytes_read = n]
<1>1. /\ c.blocks_considered = m.blocks_considered /\ c.blocks_pruned = m.blocks_pruned
      /\ c.streams_decoded = m.streams_decoded
      /\ c.stream_bytes_decoded = m.stream_bytes_decoded
      /\ c.rows_returned = m.rows_returned /\ c.bytes_read = n
  BY DEF Metrics
<1> HIDE DEF c
<1> SUFFICES ASSUME NEW field \in Fields PROVE Booked(b, c, e, field) = Booked(b, m, d, field)
  BY DEF c
<1> QED
  BY <1>1 DEF Fields, Booked

LEMMA RestSteps ==
    ASSUME ShapeInv, OrderInv,
           Open \/ Project \/ PrimaryRange \/ Call \/ ScanDone \/ Refresh \/ Commit
             \/ Damage \/ UNCHANGED vars
    PROVE  Rests
<1>0. /\ Len(file) \in Nat /\ metrics \in Metrics /\ blocks \in 0..Len(file)
      /\ First \in Nat /\ InFlight \in {0, 1}
  BY FileBlocksShaped, AnswersOfFile DEF ShapeInv, ScanShape
<1> DEFINE Extends == Len(file) <= Len(file') /\ \A k \in 1..Len(file) : file'[k] = file[k]
           Agrees == \A field \in Fields : Booked(budget', metrics', Discovered', field)
                                             = Booked(budget, metrics, Discovered, field)
<1>b. UNCHANGED file => Extends
  BY <1>0
<1>d. ASSUME UNCHANGED <<budget, metrics>>, Discovered' = Discovered PROVE Agrees
  BY <1>d
<1> HIDE DEF Extends, Agrees
<1>c. ASSUME Extends, Agrees,
             UNCHANGED <<answers, budget, remaining, work, done, reads>>, InFlight' = InFlight,
             InFlight = 1 => UNCHANGED <<pc, next_index>>,
             UNCHANGED <<primary, plan>> \/ (answers = <<>> /\ InFlight = 0),
             \/ UNCHANGED mode /\ First' = First
             \/ answers = <<>> /\ First' \in Nat /\ (mode' = "scan" => First' = 0)
      PROVE  Rests
  BY <1>c DEF Rests, Extends, Agrees
<1>3. CASE Open
  <2>1. pc = "closed" /\ pc' = "configure" /\ answers = <<>> /\ mode = "scan"
    BY <1>3 DEF Open, ShapeInv, PlanSettles
  <2>2. InFlight = 0 /\ InFlight' = 0
    BY <2>1 DEF InFlight
  <2>3. /\ UNCHANGED <<primary, file, budget, remaining, work, done, reads, answers, plan, metrics>>
        /\ blocks' = Len(file) /\ mode' \in {"scan", "tail"}
        /\ next_index' = IF mode' = "tail" THEN Len(file) ELSE 0
    BY <1>3 DEF Open, environment, decoding
  <2>4. First' = next_index'
    <3>1. Len(answers') = 0 /\ next_index' \in Nat
      BY <1>0, <2>1, <2>3
    <3>2. First' = (next_index' - InFlight') - Len(answers')
      BY DEF First
    <3>3. First' = (next_index' - 0) - 0
      BY <2>2, <3>1, <3>2, Zenon
    <3>4. \A n \in Nat : (n - 0) - 0 = n
      OBVIOUS
    <3> QED
      BY <3>1, <3>3, <3>4
  <2>5. First' \in Nat /\ (mode' = "scan" => First' = 0)
    BY <1>0, <2>3, <2>4
  <2>6. Discovered = 0 /\ Discovered' = 0
    <3>1. Discovered = 0
      BY <2>1 DEF Discovered
    <3>2. CASE mode' = "scan"
      BY <3>1, <3>2 DEF Discovered
    <3>3. CASE mode' = "tail"
      <4> DEFINE f == [k \in First' + 1..blocks' |-> total_length(file'[k])]
      <4>1. First' + 1..blocks' = {}
        BY <1>0, <2>3, <2>4, <3>3
      <4>2. DOMAIN f = {}
        BY <4>1
      <4>3. Discovered' = SumFunction(f)
        BY <3>3 DEF Discovered, total_length, StoredBytes, Rows
      <4> HIDE DEF f
      <4> QED
        BY <3>1, <4>2, <4>3, SumFunctionIsSum, SumEmpty
    <3> QED
      BY <2>3, <3>1, <3>2, <3>3
  <2>7. Agrees /\ Extends
    BY <1>b, <1>d, <2>3, <2>6
  <2> QED
    BY <1>c, <2>1, <2>2, <2>3, <2>5, <2>7
<1>e. ASSUME Extends, UNCHANGED <<mode, blocks, next_index, answers, budget, metrics>>,
             InFlight' = InFlight
      PROVE  First' = First /\ Agrees
  <2>1. First' = First
    BY <1>e DEF First
  <2>2. Discovered' = Discovered
    BY <1>0, <1>e, <2>1, DiscoveredSame DEF Extends
  <2> QED
    BY <1>d, <1>e, <2>1, <2>2
<1>4. CASE Project \/ PrimaryRange
  <2>1. pc = "configure" /\ pc' \in {"configure", "refused"} /\ answers = <<>>
    BY <1>4 DEF Project, PrimaryRange, Refused, ShapeInv, PlanSettles
  <2>2. InFlight = 0 /\ InFlight' = 0
    BY <2>1 DEF InFlight
  <2>3. UNCHANGED <<primary, file, blocks, budget, remaining, work, done, reads, answers, mode,
                    next_index, metrics>>
    BY <1>4 DEF Project, PrimaryRange, environment, decoding
  <2>4. Extends
    BY <1>b, <2>3
  <2>5. First' = First /\ Agrees
    BY <1>e, <2>2, <2>3, <2>4
  <2> QED
    BY <1>c, <2>1, <2>2, <2>3, <2>4, <2>5
<1>5. CASE Call \/ ScanDone
  <2>1. pc \in {"configure", "idle", "next"} /\ pc' \in {"next", "done"}
    BY <1>5 DEF Call, ScanDone
  <2>2. InFlight = 0 /\ InFlight' = 0
    BY <2>1 DEF InFlight
  <2>3. UNCHANGED <<primary, file, blocks, budget, remaining, work, done, reads, answers, plan, mode,
                    next_index, metrics>>
    BY <1>5 DEF Call, ScanDone, environment, decoding
  <2>4. Extends
    BY <1>b, <2>3
  <2>5. First' = First /\ Agrees
    BY <1>e, <2>2, <2>3, <2>4
  <2> QED
    BY <1>c, <2>2, <2>3, <2>4, <2>5
<1>6. CASE Refresh
  <2>1. pc = "next" /\ pc' \in {"next", "idle"}
    BY <1>6 DEF Refresh
  <2>2. InFlight = 0 /\ InFlight' = 0
    BY <2>1 DEF InFlight
  <2>3. UNCHANGED <<primary, file, budget, remaining, work, done, reads, answers, plan, mode, next_index>>
    BY <1>6 DEF Refresh, environment, decoding
  <2>4. Extends
    BY <1>b, <2>3
  <2>5. Agrees
    <3>1. PICK n \in Nat : metrics' = [metrics EXCEPT !.bytes_read = n]
      BY <1>6, RefreshBooks
    <3>2. metrics'.bytes_read = n
      BY <1>0, <3>1 DEF Metrics
    <3>3. n - Discovered' = metrics.bytes_read - Discovered
      BY <1>6, <3>2, RefreshBooks
    <3> QED
      BY <1>0, <2>3, <3>1, <3>3, BooksAgree DEF Agrees
  <2>6. First' = First
    BY <2>2, <2>3 DEF First
  <2> QED
    BY <1>c, <2>2, <2>3, <2>4, <2>5, <2>6
<1>7. CASE Commit
  <2>1. \E block : file' = Append(file, block)
    BY <1>7 DEF Commit
  <2>2. Extends
    BY <1>0, <2>1 DEF ShapeInv, FileShape, Extends
  <2>3. InFlight' = InFlight
    BY <1>7 DEF Commit, InFlight
  <2>4. UNCHANGED <<primary, blocks, budget, remaining, work, done, reads, answers, plan, mode, pc,
                    next_index, metrics>>
    BY <1>7 DEF Commit, decoding
  <2>5. First' = First /\ Agrees
    BY <1>e, <2>2, <2>3, <2>4
  <2> QED
    BY <1>c, <2>2, <2>3, <2>4, <2>5
<1>8. CASE Damage \/ UNCHANGED vars
  <2>1. InFlight' = InFlight
    BY <1>8 DEF Damage, vars, InFlight
  <2>2. UNCHANGED <<primary, file, blocks, budget, remaining, work, done, reads, answers, plan, mode, pc,
                    next_index, metrics>>
    BY <1>8 DEF Damage, vars, environment, decoding
  <2>3. Extends
    BY <1>b, <2>2
  <2>4. First' = First /\ Agrees
    BY <1>e, <2>1, <2>2, <2>3
  <2> QED
    BY <1>c, <2>1, <2>2, <2>3, <2>4
<1> QED
  BY <1>3, <1>4, <1>5, <1>6, <1>7, <1>8

-----------------------------------------------------------------------------
(* Steps that deal with a block                                            *)

\* What such a step comes to: the next block of the file is entered, or the entry of
\* the one in flight is written anew, and the books move by the difference.
Deals(entry) ==
    /\ UNCHANGED <<primary, file, mode, plan, blocks>>
    /\ entry \in Entries /\ entry.block \in 1..Len(file)
    /\ entry.block = (next_index - InFlight) + 1 /\ next_index' = entry.block
    /\ Charges(entry) <= Len(Selection(file[entry.block]))
    /\ \A field \in Fields :
         Booked(budget', metrics', Discovered, field)
           = (Booked(budget, metrics, Discovered, field) - Current(field))
               + Account(entry, file[entry.block], Selection(file[entry.block]), field)
    /\ IF InFlight' = 0
       THEN /\ answers' = Append(answers, entry)
            /\ True(entry, file[entry.block], plan.range, Decoded, internal_primary)
            /\ Fair(entry, file[entry.block], Decoded, internal_primary,
                    MaxRowsPerScan - budget'.rows, MaxScanBytes - budget'.bytes)
       ELSE answers' = answers /\ Present' = entry

LEMMA PresentType ==
    ASSUME ShapeInv, DecodeInv, InFlight = 1
    PROVE  /\ Present \in Entries /\ next_index \in 1..Len(file) /\ BlockShape(file[next_index])
           /\ Charges(Present) = done /\ done \in 0..Len(Selection(file[next_index]))
           /\ Present.kind = pc /\ pc \in {"frame", "decode"} /\ Present.steps = done
           /\ Present.rows = <<>> /\ done \in Nat /\ reads \in Seq(Found)
<1>1. pc \in {"frame", "decode"}
  BY DEF InFlight
<1>2. next_index \in 1..Len(file) /\ next_index \in Nat /\ BlockShape(file[next_index])
  BY <1>1, InFlightBlock
<1>3. Len(Selection(file[next_index])) \in Nat
  BY SelectionType
<1>4. done \in 0..Len(Selection(file[next_index])) /\ reads \in Seq(Found)
  <2>1. CASE pc = "decode"
    BY <2>1 DEF DecodeInv, Checked
  <2>2. CASE pc # "decode"
    BY <1>3, <2>2 DEF DecodeInv
  <2> QED
    BY <2>1, <2>2
<1>5. /\ Present.block = next_index /\ Present.kind = pc /\ Present.rows = <<>>
      /\ Present.steps = done /\ Present.reads = reads
      /\ Present = [block |-> next_index, kind |-> pc, rows |-> <<>>, steps |-> done, reads |-> reads]
  BY DEF Present, Entry
<1>6. done \in Nat /\ <<>> \in Seq(Nat) /\ pc \in Kinds
  BY <1>1, <1>3, <1>4 DEF Kinds
<1>7. Present \in Entries
  BY <1>2, <1>4, <1>5, <1>6 DEF Entries
<1>8. Charges(Present) = done
  BY <1>1, <1>5, <1>6 DEF Charges
<1> QED
  BY <1>1, <1>2, <1>4, <1>5, <1>6, <1>7, <1>8

LEMMA CurrentType ==
    ASSUME ShapeInv, DecodeInv, NEW field \in Fields
    PROVE  Current(field) \in Nat
<1>1. CASE InFlight = 0
  BY <1>1 DEF Current
<1>2. CASE InFlight = 1
  <2>1. /\ Present \in Entries /\ BlockShape(file[next_index])
        /\ Charges(Present) <= Len(Selection(file[next_index]))
    BY <1>2, PresentType, SelectionType
  <2>2. Selection(file[next_index]) \in Seq(Steps)
    BY SelectionType
  <2>3. Account(Present, file[next_index], Selection(file[next_index]), field) \in Nat
    BY <2>1, <2>2, AccountType
  <2> QED
    BY <1>2, <2>3 DEF Current
<1> QED
  BY <1>1, <1>2 DEF InFlight

LEMMA DealsKeep ==
    ASSUME ScanInv, NEW entry, Deals(entry)
    PROVE  OrderInv' /\ EntriesInv' /\ BooksInv'
<1> DEFINE n == Len(answers)
           block == file[entry.block]
           T(k, field) == Tally(answers, k, file, Decoded, internal_primary, field)
           S(k, field) == Tally(answers', k, file, Decoded, internal_primary, field)
           A(field) == Account(entry, block, Selection(block), field)
<1>0. ShapeInv /\ OrderInv /\ DecodeInv /\ EntriesInv /\ BooksInv
  BY DEF ScanInv
<1>1. /\ n \in Nat /\ InFlight \in {0, 1} /\ First \in Nat /\ next_index \in Nat
      /\ First + n = next_index - InFlight /\ answers \in Seq(Entries) /\ Len(file) \in Nat
      /\ \A i \in 1..n : /\ answers[i].block = First + i
                         /\ answers[i].block \in 1..Len(file)
  BY <1>0, AnswersOfFile, FileBlocksShaped DEF ShapeInv
<1>2. /\ Decoded' = Decoded /\ internal_primary' = internal_primary
      /\ UNCHANGED <<mode, file, plan, blocks>>
  BY PlanKept DEF Deals
<1>3. /\ entry \in Entries /\ entry.block \in 1..Len(file) /\ next_index' = entry.block
      /\ entry.block = (next_index - InFlight) + 1 /\ Charges(entry) <= Len(Selection(block))
  BY DEF Deals
<1>4. /\ BlockShape(block) /\ Selection(block) \in Seq(Steps)
      /\ Selection(block) = StepsFor(block, Decoded, internal_primary)
  BY <1>0, <1>3, FileBlocksShaped, SelectionType DEF ShapeInv
<1>5. \A field \in Fields : A(field) \in Nat
  BY <1>3, <1>4, AccountType
<1>6. Ledger(answers, n, file, Decoded, internal_primary)
  BY <1>0, AnswersLedger
<1>7. \A field \in Fields : T(n, field) \in Nat /\ Current(field) \in Nat
  <2>1. n \in 0..n
    BY <1>1
  <2> QED
    BY <1>0, <1>1, <1>6, <2>1, TallyNext, CurrentType
<1>8. \A field \in Fields : Booked(budget, metrics, Discovered, field) = T(n, field) + Current(field)
  BY <1>0 DEF BooksInv
<1>9. \A field \in Fields : Booked(budget', metrics', Discovered, field) = T(n, field) + A(field)
  <2>1. SUFFICES ASSUME NEW field \in Fields
                 PROVE  Booked(budget', metrics', Discovered, field) = T(n, field) + A(field)
    OBVIOUS
  <2>2. /\ Booked(budget', metrics', Discovered, field)
             = (Booked(budget, metrics, Discovered, field) - Current(field)) + A(field)
        /\ Booked(budget, metrics, Discovered, field) = T(n, field) + Current(field)
    BY <1>8 DEF Deals
  <2>3. T(n, field) \in Nat /\ Current(field) \in Nat /\ A(field) \in Nat
    BY <1>5, <1>7
  <2> HIDE DEF T, A
  <2>4. \A t, c, a \in Nat : ((t + c) - c) + a = t + a
    OBVIOUS
  <2> QED
    BY <2>2, <2>3, <2>4
<1>10. InFlight' \in {0, 1}
  BY DEF InFlight
<1>11. ASSUME First' = First PROVE Discovered' = Discovered
  <2>1. \A k \in 1..Len(file) : file'[k] = file[k]
    BY <1>2
  <2> QED
    BY <1>0, <1>1, <1>2, <1>11, <2>1, DiscoveredSame
<1>12. First' = (next_index' - InFlight') - Len(answers')
  BY DEF First
<1> HIDE DEF A
<1>13. CASE InFlight' = 0
  <2>1. /\ answers' = Append(answers, entry)
        /\ True(entry, block, plan.range, Decoded, internal_primary)
        /\ Fair(entry, block, Decoded, internal_primary,
                MaxRowsPerScan - budget'.rows, MaxScanBytes - budget'.bytes)
    BY <1>13 DEF Deals
  <2> HIDE DEF block
  <2>2. /\ answers' \in Seq(Entries) /\ Len(answers') = n + 1 /\ answers'[n + 1] = entry
        /\ \A i \in 1..n : answers'[i] = answers[i]
    BY <1>1, <1>3, <2>1
  <2>3. First' = First
    BY <1>1, <1>3, <1>12, <1>13, <2>2
  <2>4. \A i \in 1..n + 1 : i \in 1..n \/ i = n + 1
    BY <1>1
  <2>5. OrderInv'
    <3>1. \A i \in 1..n + 1 : answers'[i].block = First + i
      <4>1. First + (n + 1) = entry.block
        BY <1>1, <1>3
      <4>2. \A i \in 1..n : answers'[i].block = First + i
        BY <1>1, <2>2
      <4>3. answers'[n + 1].block = First + (n + 1)
        BY <2>2, <4>1
      <4> QED
        BY <2>4, <4>2, <4>3
    <3> QED
      BY <1>0, <1>2, <2>2, <2>3, <3>1 DEF OrderInv, EachBlockOnce
  <2>6. Ledger(answers', n + 1, file, Decoded, internal_primary)
    BY <1>3, <1>4, <1>6, <2>2, <2>4 DEF Ledger, block
  <2>7. \A i \in 1..n : \A field : S(i, field) = T(i, field)
    <3>1. SUFFICES ASSUME NEW i \in 1..n, NEW field PROVE S(i, field) = T(i, field)
      OBVIOUS
    <3>2. \A k \in 1..i : answers'[k] = answers[k] /\ file[answers[k].block] = file[answers[k].block]
      BY <2>2
    <3> QED
      BY <3>2, TallySame
  <2>8. \A field \in Fields : S(n + 1, field) = T(n, field) + A(field)
    <3>1. SUFFICES ASSUME NEW field \in Fields PROVE S(n + 1, field) = T(n, field) + A(field)
      OBVIOUS
    <3>2. n + 1 \in Nat /\ n + 1 \in 1..n + 1 /\ (n + 1) - 1 = n
      BY <1>1
    <3>3. \A k \in 1..n + 1 :
            S(k, field) = S(k - 1, field) + Part(answers', k, file, Decoded, internal_primary, field)
      BY <2>6, <3>2, TallyNext
    <3>4. S(n + 1, field) = S((n + 1) - 1, field)
                              + Part(answers', n + 1, file, Decoded, internal_primary, field)
      BY <3>2, <3>3
    <3>5. S(n, field) = T(n, field)
      <4>1. \A k \in 1..n : answers'[k] = answers[k] /\ file[answers[k].block] = file[answers[k].block]
        BY <2>2
      <4> QED
        BY <4>1, TallySame
    <3>6. Part(answers', n + 1, file, Decoded, internal_primary, field) = A(field)
      BY <1>4, <2>2 DEF Part, A, block
    <3> HIDE DEF S, T
    <3>7. S((n + 1) - 1, field) = S(n, field)
      BY <3>2
    <3> QED
      BY <3>4, <3>5, <3>6, <3>7
  <2>9. \A field \in Fields : Booked(budget', metrics', Discovered, field) = S(n + 1, field)
    BY <1>9, <2>8
  <2>10. EntriesInv'
    <3>1. SUFFICES ASSUME NEW i \in 1..n + 1
                   PROVE  Sound(answers', i, file, plan.range, Decoded, internal_primary)
      BY <1>2, <2>2 DEF EntriesInv
    <3>2. CASE i \in 1..n
      <4>1. Sound(answers, i, file, plan.range, Decoded, internal_primary)
        BY <1>0, <3>2 DEF EntriesInv
      <4>2. answers'[i] = answers[i] /\ \A field : S(i, field) = T(i, field)
        BY <2>2, <2>7, <3>2
      <4> QED
        BY <4>1, <4>2 DEF Sound
    <3>3. CASE i = n + 1
      <4>1. "rows" \in Fields /\ "bytes" \in Fields
        BY DEF Fields
      <4>2. /\ S(n + 1, "rows") = MaxRowsPerScan - budget'.rows
            /\ S(n + 1, "bytes") = MaxScanBytes - budget'.bytes
        BY <2>9, <4>1, BookedIs
      <4> QED
        BY <2>1, <2>2, <3>3, <4>2 DEF Sound, block
    <3> QED
      BY <2>4, <3>2, <3>3
  <2>11. BooksInv'
    <3>1. Discovered' = Discovered
      BY <1>11, <2>3
    <3>2. \A field \in Fields : Current(field)' = 0
      BY <1>13 DEF Current
    <3>3. \A field \in Fields : S(n + 1, field) \in Nat
      BY <1>5, <1>7, <2>8
    <3>4. \A field \in Fields :
            Booked(budget', metrics', Discovered', field) = S(n + 1, field) + Current(field)'
      BY <2>9, <3>1, <3>2, <3>3
    <3> QED
      BY <1>2, <2>2, <3>4 DEF BooksInv
  <2> QED
    BY <2>5, <2>10, <2>11
<1>14. CASE InFlight' = 1
  <2>1. answers' = answers /\ Present' = entry
    BY <1>14 DEF Deals
  <2>2. First' = First
    BY <1>1, <1>3, <1>12, <1>14, <2>1
  <2>3. OrderInv'
    BY <1>0, <1>2, <2>1, <2>2 DEF OrderInv, EachBlockOnce
  <2>4. EntriesInv'
    BY <1>0, <1>2, <2>1 DEF EntriesInv
  <2>5. \A field \in Fields : Current(field)' = A(field)
    <3>1. \A field \in Fields :
            Current(field)' = Account(entry, file'[next_index'], Selection(file[next_index])', field)
      BY <1>14, <2>1 DEF Current
    <3>2. file'[next_index'] = block /\ Selection(file[next_index])' = Selection(block)
      BY <1>2, <1>3 DEF Selection
    <3> QED
      BY <3>1, <3>2 DEF A
  <2>6. BooksInv'
    <3>1. Discovered' = Discovered
      BY <1>11, <2>2
    <3> QED
      BY <1>2, <1>9, <2>1, <2>5, <3>1 DEF BooksInv
  <2> QED
    BY <2>3, <2>4, <2>6
<1> QED
  BY <1>10, <1>13, <1>14

-----------------------------------------------------------------------------
(* How the books move                                                      *)

Budgets == [rows : Nat, bytes : Nat]

\* Allowances and counters before and after, and what the accounts were and are.
Shift(b, c, m, n, f, g) ==
    /\ n.blocks_considered + f["considered"] = m.blocks_considered + g["considered"]
    /\ n.blocks_pruned + f["pruned"] = m.blocks_pruned + g["pruned"]
    /\ c.rows + g["rows"] = b.rows + f["rows"]
    /\ c.bytes + g["bytes"] = b.bytes + f["bytes"]
    /\ n.streams_decoded + f["streams"] = m.streams_decoded + g["streams"]
    /\ n.stream_bytes_decoded + f["stream_bytes"] = m.stream_bytes_decoded + g["stream_bytes"]
    /\ n.bytes_read + f["read"] = m.bytes_read + g["read"]
    /\ n.rows_returned + f["returned"] = m.rows_returned + g["returned"]

LEMMA Moved ==
    ASSUME NEW b \in Budgets, NEW c \in Budgets, NEW m \in Metrics, NEW n \in Metrics,
           NEW d \in Int, NEW f \in [Fields -> Nat], NEW g \in [Fields -> Nat],
           Shift(b, c, m, n, f, g)
    PROVE  \A field \in Fields :
             Booked(c, n, d, field) = (Booked(b, m, d, field) - f[field]) + g[field]
<1>1. /\ m.blocks_considered \in Nat /\ n.blocks_considered \in Nat
      /\ m.blocks_pruned \in Nat /\ n.blocks_pruned \in Nat
      /\ m.streams_decoded \in Nat /\ n.streams_decoded \in Nat
      /\ m.stream_bytes_decoded \in Nat /\ n.stream_bytes_decoded \in Nat
      /\ m.bytes_read \in Nat /\ n.bytes_read \in Nat
      /\ m.rows_returned \in Nat /\ n.rows_returned \in Nat
  BY DEF Metrics
<1>2. b.rows \in Nat /\ b.bytes \in Nat /\ c.rows \in Nat /\ c.bytes \in Nat
  BY DEF Budgets
<1>3. \A field \in Fields : f[field] \in Nat /\ g[field] \in Nat
  OBVIOUS
<1>4. MaxRowsPerScan \in Nat /\ MaxScanBytes \in Nat
  BY ScanAssumption
<1>5. n.blocks_considered = (m.blocks_considered - f["considered"]) + g["considered"]
  <2>1. f["considered"] \in Nat /\ g["considered"] \in Nat
    BY <1>3 DEF Fields
  <2>2. n.blocks_considered + f["considered"] = m.blocks_considered + g["considered"]
    BY DEF Shift
  <2> QED
    BY ONLY <1>1, <2>1, <2>2
<1>6. n.blocks_pruned = (m.blocks_pruned - f["pruned"]) + g["pruned"]
  <2>1. f["pruned"] \in Nat /\ g["pruned"] \in Nat
    BY <1>3 DEF Fields
  <2>2. n.blocks_pruned + f["pruned"] = m.blocks_pruned + g["pruned"]
    BY DEF Shift
  <2> QED
    BY ONLY <1>1, <2>1, <2>2
<1>7. n.streams_decoded = (m.streams_decoded - f["streams"]) + g["streams"]
  <2>1. f["streams"] \in Nat /\ g["streams"] \in Nat
    BY <1>3 DEF Fields
  <2>2. n.streams_decoded + f["streams"] = m.streams_decoded + g["streams"]
    BY DEF Shift
  <2> QED
    BY ONLY <1>1, <2>1, <2>2
<1>8. n.stream_bytes_decoded = (m.stream_bytes_decoded - f["stream_bytes"]) + g["stream_bytes"]
  <2>1. f["stream_bytes"] \in Nat /\ g["stream_bytes"] \in Nat
    BY <1>3 DEF Fields
  <2>2. n.stream_bytes_decoded + f["stream_bytes"] = m.stream_bytes_decoded + g["stream_bytes"]
    BY DEF Shift
  <2> QED
    BY ONLY <1>1, <2>1, <2>2
<1>9. n.rows_returned = (m.rows_returned - f["returned"]) + g["returned"]
  <2>1. f["returned"] \in Nat /\ g["returned"] \in Nat
    BY <1>3 DEF Fields
  <2>2. n.rows_returned + f["returned"] = m.rows_returned + g["returned"]
    BY DEF Shift
  <2> QED
    BY ONLY <1>1, <2>1, <2>2
<1>10. MaxRowsPerScan - c.rows = ((MaxRowsPerScan - b.rows) - f["rows"]) + g["rows"]
  <2>1. f["rows"] \in Nat /\ g["rows"] \in Nat
    BY <1>3 DEF Fields
  <2>2. c.rows + g["rows"] = b.rows + f["rows"]
    BY DEF Shift
  <2> QED
    BY ONLY <1>2, <1>4, <2>1, <2>2
<1>11. MaxScanBytes - c.bytes = ((MaxScanBytes - b.bytes) - f["bytes"]) + g["bytes"]
  <2>1. f["bytes"] \in Nat /\ g["bytes"] \in Nat
    BY <1>3 DEF Fields
  <2>2. c.bytes + g["bytes"] = b.bytes + f["bytes"]
    BY DEF Shift
  <2> QED
    BY ONLY <1>2, <1>4, <2>1, <2>2
<1>12. n.bytes_read - d = ((m.bytes_read - d) - f["read"]) + g["read"]
  <2>1. f["read"] \in Nat /\ g["read"] \in Nat
    BY <1>3 DEF Fields
  <2>2. n.bytes_read + f["read"] = m.bytes_read + g["read"]
    BY DEF Shift
  <2> QED
    BY ONLY <1>1, <2>1, <2>2, d \in Int
<1> SUFFICES ASSUME NEW field \in Fields
             PROVE  Booked(c, n, d, field) = (Booked(b, m, d, field) - f[field]) + g[field]
  OBVIOUS
<1> QED
  BY <1>5, <1>6, <1>7, <1>8, <1>9, <1>10, <1>11, <1>12 DEF Fields, Booked

Accounts(entry, block, steps) == [field \in Fields |-> Account(entry, block, steps, field)]

Nothing == [field \in Fields |-> 0]

\* The account of a block none of whose charges was taken.
LEMMA FreshAccount ==
    ASSUME NEW entry \in Entries, NEW block, BlockShape(block), NEW steps \in Seq(Steps),
           entry.steps = 0, entry.rows = <<>>, entry.kind \in {"pruned", "io", "scan_rows", "frame"}
    PROVE  LET g == Accounts(entry, block, steps)
           IN  /\ g["considered"] = 1 /\ g["pruned"] = IF entry.kind = "pruned" THEN 1 ELSE 0
               /\ g["rows"] = IF entry.kind = "frame" THEN Rows(block) ELSE 0
               /\ g["bytes"] = 0 /\ g["streams"] = 0 /\ g["stream_bytes"] = 0 /\ g["read"] = 0
               /\ g["returned"] = 0
<1> DEFINE g == Accounts(entry, block, steps)
<1>1. \A field \in Fields : g[field] = Account(entry, block, steps, field)
  BY DEF Accounts
<1>2. Charges(entry) = 0 /\ Framed(entry, block) = 0 /\ (Opened(entry) <=> entry.kind = "frame")
  BY DEF Charges, Framed, Opened
<1>3. Upto(block, steps, 0, "bytes") = 0 /\ Upto(block, steps, 0, "streams") = 0
      /\ Upto(block, steps, 0, "stream_bytes") = 0
  BY UptoNext
<1> HIDE DEF g
<1>4. g["considered"] = 1 /\ g["pruned"] = IF entry.kind = "pruned" THEN 1 ELSE 0
  BY <1>1, AccountIs DEF Fields
<1>5. g["rows"] = IF entry.kind = "frame" THEN Rows(block) ELSE 0
  BY <1>1, <1>2, AccountIs DEF Fields
<1>6. g["bytes"] = 0 /\ g["streams"] = 0 /\ g["stream_bytes"] = 0 /\ g["read"] = 0
  BY <1>1, <1>2, <1>3, AccountIs DEF Fields
<1>7. g["returned"] = 0
  BY <1>1, AccountIs DEF Fields
<1> QED
  BY <1>4, <1>5, <1>6, <1>7 DEF g

Underway == {"frame", "bad_frame", "decode", "block_bytes", "scan_bytes", "corruption", "empty", "batch"}

\* The account of a block whose rows were charged, in terms of its charges.
LEMMA OpenedAccount ==
    ASSUME NEW entry \in Entries, NEW block, NEW steps, entry.kind \in Underway
    PROVE  LET g == Accounts(entry, block, steps)
           IN  /\ g["considered"] = 1 /\ g["pruned"] = 0 /\ g["rows"] = Rows(block)
               /\ g["bytes"] = Upto(block, steps, Charges(entry), "bytes")
               /\ g["streams"] = Upto(block, steps, entry.steps, "streams")
               /\ g["stream_bytes"] = Upto(block, steps, entry.steps, "stream_bytes")
               /\ g["read"] = (IF entry.kind \in {"frame", "bad_frame"} THEN 0
                               ELSE total_length(block) + HeaderBytes)
                                + Upto(block, steps, entry.steps, "stream_bytes")
               /\ g["returned"] = Len(entry.rows)
               /\ Charges(entry) = entry.steps + (IF entry.kind = "corruption" THEN 1 ELSE 0)
<1> DEFINE g == Accounts(entry, block, steps)
<1>1. \A field \in Fields : g[field] = Account(entry, block, steps, field)
  BY DEF Accounts
<1>2. /\ Opened(entry) /\ entry.kind # "pruned"
      /\ Framed(entry, block) = IF entry.kind \in {"frame", "bad_frame"} THEN 0
                                ELSE total_length(block) + HeaderBytes
      /\ Charges(entry) = entry.steps + (IF entry.kind = "corruption" THEN 1 ELSE 0)
  BY DEF Charges, Framed, Opened, Underway
<1> HIDE DEF g
<1>3. g["considered"] = 1 /\ g["pruned"] = 0 /\ g["rows"] = Rows(block)
  BY <1>1, <1>2, AccountIs DEF Fields
<1>4. /\ g["bytes"] = Upto(block, steps, Charges(entry), "bytes")
      /\ g["streams"] = Upto(block, steps, entry.steps, "streams")
      /\ g["stream_bytes"] = Upto(block, steps, entry.steps, "stream_bytes")
  BY <1>1, AccountIs DEF Fields
<1>5. g["read"] = Framed(entry, block) + Upto(block, steps, entry.steps, "stream_bytes")
  BY <1>1, AccountIs DEF Fields
<1>6. g["returned"] = Len(entry.rows)
  BY <1>1, AccountIs DEF Fields
<1> QED
  BY <1>2, <1>3, <1>4, <1>5, <1>6 DEF g

LEMMA AccountsType ==
    ASSUME NEW entry \in Entries, NEW block, BlockShape(block), NEW steps \in Seq(Steps),
           Charges(entry) <= Len(steps)
    PROVE  Accounts(entry, block, steps) \in [Fields -> Nat]
  BY AccountType DEF Accounts

\* The account of the block in flight, before a step.
Before == IF InFlight = 0 THEN Nothing
          ELSE Accounts(Present, file[next_index], Selection(file[next_index]))

\* What every step that deals with a block has in common.
Enters(entry) ==
    /\ UNCHANGED <<primary, file, mode, plan, blocks>>
    /\ entry \in Entries /\ entry.block \in 1..blocks
    /\ entry.block = (next_index - InFlight) + 1 /\ next_index' = entry.block
    /\ Charges(entry) <= Len(Selection(file[entry.block]))
    /\ budget' \in Budgets /\ remaining' \in Nat /\ metrics' \in Metrics
    /\ Shift(budget, budget', metrics, metrics', Before,
             Accounts(entry, file[entry.block], Selection(file[entry.block])))

LEMMA DiscoveredType ==
    ASSUME ShapeInv, OrderInv
    PROVE  Discovered \in Nat
<1>1. CASE mode = "scan"
  BY <1>1 DEF Discovered
<1>2. CASE mode # "scan"
  <2>1. blocks \in Nat /\ blocks <= Len(file) /\ blocks <= blocks
    BY FileBlocksShaped DEF ShapeInv, ScanShape
  <2>2. /\ First \in Nat /\ Len(answers) \in Nat /\ InFlight \in {0, 1} /\ next_index \in Nat
        /\ First + Len(answers) = next_index - InFlight /\ next_index <= blocks
    BY AnswersOfFile DEF ShapeInv, ScanShape
  <2>3. First <= blocks
    BY ONLY <2>1, <2>2
  <2>4. Lengths(First, blocks) \in Nat
    BY <2>1, <2>2, <2>3, LengthsSum
  <2> QED
    BY <1>2, <2>4 DEF Discovered, Lengths
<1> QED
  BY <1>1, <1>2

LEMMA EntersBooks ==
    ASSUME ShapeInv, OrderInv, DecodeInv, NEW entry, Enters(entry)
    PROVE  /\ entry.block \in 1..Len(file)
           /\ \A field \in Fields :
                Booked(budget', metrics', Discovered, field)
                  = (Booked(budget, metrics, Discovered, field) - Current(field))
                      + Account(entry, file[entry.block], Selection(file[entry.block]), field)
<1> DEFINE f == Before
           g == Accounts(entry, file[entry.block], Selection(file[entry.block]))
<1>1. /\ entry.block \in 1..Len(file) /\ budget \in Budgets /\ metrics \in Metrics
      /\ budget' \in Budgets /\ metrics' \in Metrics /\ Shift(budget, budget', metrics, metrics', f, g)
      /\ blocks \in Nat /\ blocks <= Len(file)
  BY FileBlocksShaped DEF ShapeInv, ScanShape, Enters, Budgets
<1>2. Discovered \in Int
  BY DiscoveredType
<1>3. \A field \in Fields : f[field] = Current(field)
  BY DEF Before, Current, Nothing, Accounts
<1>4. f \in [Fields -> Nat]
  <2>1. f = [field \in Fields |-> f[field]]
    BY DEF Before, Nothing, Accounts
  <2>2. \A field \in Fields : f[field] \in Nat
    BY <1>3, CurrentType
  <2> HIDE DEF f
  <2> QED
    BY <2>1, <2>2
<1>5. g \in [Fields -> Nat]
  BY <1>1, FileBlocksShaped, SelectionType, AccountsType DEF Enters, ShapeInv
<1>6. \A field \in Fields :
        g[field] = Account(entry, file[entry.block], Selection(file[entry.block]), field)
  BY DEF Accounts
<1> HIDE DEF f, g
<1>7. \A field \in Fields : Booked(budget', metrics', Discovered, field)
                              = (Booked(budget, metrics, Discovered, field) - f[field]) + g[field]
  BY <1>1, <1>2, <1>4, <1>5, Moved
<1> QED
  BY <1>1, <1>3, <1>6, <1>7

LEMMA EntersShape ==
    ASSUME ShapeInv, NEW entry, Enters(entry), pc' \in {"next", "idle", "frame", "decode"},
           answers' \in Seq(Entries)
    PROVE  ShapeInv'
<1>1. entry.block \in 1..blocks /\ next_index' = entry.block /\ blocks \in Nat
  BY FileBlocksShaped DEF Enters, ShapeInv, ScanShape
<1>2. next_index' \in 0..blocks /\ next_index' > 0
  BY <1>1
<1>3. ScanShape'
  BY <1>2 DEF Enters, ShapeInv, ScanShape, Budgets
<1>4. PlanShape' /\ FileShape'
  BY DEF Enters, ShapeInv, PlanShape, FileShape
<1> QED
  BY <1>3, <1>4 DEF Enters, ShapeInv, PlanSettles

\* The block is answered for.
LEMMA Closes ==
    ASSUME ScanInv, NEW entry, Enters(entry), pc' \in {"next", "idle"},
           answers' = Append(answers, entry), work' = <<>>, done' = 0, reads' = <<>>,
           True(entry, file[entry.block], plan.range, Decoded, internal_primary),
           Fair(entry, file[entry.block], Decoded, internal_primary,
                MaxRowsPerScan - budget'.rows, MaxScanBytes - budget'.bytes)
    PROVE  ScanInv'
<1>0. ShapeInv /\ OrderInv /\ DecodeInv
  BY DEF ScanInv
<1>1. InFlight' = 0
  BY DEF InFlight
<1>2. Deals(entry)
  BY <1>0, <1>1, EntersBooks DEF Enters, Deals
<1>3. answers' \in Seq(Entries)
  BY <1>0 DEF ShapeInv, Enters
<1>4. ShapeInv'
  BY <1>0, <1>3, EntersShape
<1>5. DecodeInv'
  BY DEF DecodeInv
<1> QED
  BY <1>2, <1>4, <1>5, DealsKeep DEF ScanInv

\* It stays in flight.
LEMMA Continues ==
    ASSUME ScanInv, NEW entry, Enters(entry), pc' \in {"frame", "decode"},
           answers' = answers, Present' = entry, DecodeInv'
    PROVE  ScanInv'
<1>0. ShapeInv /\ OrderInv /\ DecodeInv
  BY DEF ScanInv
<1>1. InFlight' = 1
  BY DEF InFlight
<1>2. Deals(entry)
  BY <1>0, <1>1, EntersBooks DEF Enters, Deals
<1>3. ShapeInv'
  BY <1>0, EntersShape DEF ShapeInv
<1> QED
  BY <1>2, <1>3, DealsKeep DEF ScanInv

-----------------------------------------------------------------------------
(* Counters, as the steps move them                                        *)

LEMMA BlockCounted ==
    ASSUME NEW m \in Metrics, NEW a \in Nat
    PROVE  LET n == [m EXCEPT !.blocks_considered = @ + 1, !.blocks_pruned = @ + a]
           IN  /\ n \in Metrics /\ n.blocks_considered = m.blocks_considered + 1
               /\ n.blocks_pruned = m.blocks_pruned + a
               /\ n.streams_decoded = m.streams_decoded
               /\ n.stream_bytes_decoded = m.stream_bytes_decoded
               /\ n.bytes_read = m.bytes_read /\ n.rows_returned = m.rows_returned
<1> DEFINE u == m.blocks_considered + 1
           v == m.blocks_pruned + a
           s == [m EXCEPT !.blocks_considered = u]
           n == [s EXCEPT !.blocks_pruned = v]
<1>1. u \in Nat /\ v \in Nat
  BY DEF Metrics
<1>2. [m EXCEPT !.blocks_considered = @ + 1, !.blocks_pruned = @ + a] = n
  OBVIOUS
<1> HIDE DEF u, v
<1>3. /\ s \in Metrics /\ s.blocks_considered = u /\ s.blocks_pruned = m.blocks_pruned
      /\ s.streams_decoded = m.streams_decoded /\ s.stream_bytes_decoded = m.stream_bytes_decoded
      /\ s.bytes_read = m.bytes_read /\ s.rows_returned = m.rows_returned
  BY <1>1 DEF Metrics
<1> HIDE DEF s
<1>4. /\ n \in Metrics /\ n.blocks_considered = s.blocks_considered /\ n.blocks_pruned = v
      /\ n.streams_decoded = s.streams_decoded /\ n.stream_bytes_decoded = s.stream_bytes_decoded
      /\ n.bytes_read = s.bytes_read /\ n.rows_returned = s.rows_returned
  BY <1>1, <1>3 DEF Metrics
<1> HIDE DEF n
<1> QED
  BY <1>2, <1>3, <1>4 DEF u, v

LEMMA StreamCounted ==
    ASSUME NEW m \in Metrics, NEW a \in Nat
    PROVE  LET n == [m EXCEPT !.streams_decoded = @ + 1, !.stream_bytes_decoded = @ + a,
                              !.bytes_read = @ + a]
           IN  /\ n \in Metrics /\ n.blocks_considered = m.blocks_considered
               /\ n.blocks_pruned = m.blocks_pruned
               /\ n.streams_decoded = m.streams_decoded + 1
               /\ n.stream_bytes_decoded = m.stream_bytes_decoded + a
               /\ n.bytes_read = m.bytes_read + a /\ n.rows_returned = m.rows_returned
<1> DEFINE u == m.streams_decoded + 1
           v == m.stream_bytes_decoded + a
           w == m.bytes_read + a
           s == [m EXCEPT !.streams_decoded = u]
           t == [s EXCEPT !.stream_bytes_decoded = v]
           n == [t EXCEPT !.bytes_read = w]
<1>1. u \in Nat /\ v \in Nat /\ w \in Nat
  BY DEF Metrics
<1>2. [m EXCEPT !.streams_decoded = @ + 1, !.stream_bytes_decoded = @ + a, !.bytes_read = @ + a] = n
  OBVIOUS
<1> HIDE DEF u, v, w
<1>3. /\ s \in Metrics /\ s.blocks_considered = m.blocks_considered
      /\ s.blocks_pruned = m.blocks_pruned /\ s.streams_decoded = u
      /\ s.stream_bytes_decoded = m.stream_bytes_decoded
      /\ s.bytes_read = m.bytes_read /\ s.rows_returned = m.rows_returned
  BY <1>1 DEF Metrics
<1> HIDE DEF s
<1>4. /\ t \in Metrics /\ t.blocks_considered = s.blocks_considered
      /\ t.blocks_pruned = s.blocks_pruned /\ t.streams_decoded = s.streams_decoded
      /\ t.stream_bytes_decoded = v
      /\ t.bytes_read = s.bytes_read /\ t.rows_returned = s.rows_returned
  BY <1>1, <1>3 DEF Metrics
<1> HIDE DEF t
<1>5. /\ n \in Metrics /\ n.blocks_considered = t.blocks_considered
      /\ n.blocks_pruned = t.blocks_pruned /\ n.streams_decoded = t.streams_decoded
      /\ n.stream_bytes_decoded = t.stream_bytes_decoded
      /\ n.bytes_read = w /\ n.rows_returned = t.rows_returned
  BY <1>1, <1>4 DEF Metrics
<1> HIDE DEF n
<1> QED
  BY <1>2, <1>3, <1>4, <1>5 DEF u, v, w

LEMMA ReadCounted ==
    ASSUME NEW m \in Metrics, NEW a \in Nat
    PROVE  LET n == [m EXCEPT !.bytes_read = @ + a]
           IN  /\ n \in Metrics /\ n.blocks_considered = m.blocks_considered
               /\ n.blocks_pruned = m.blocks_pruned /\ n.streams_decoded = m.streams_decoded
               /\ n.stream_bytes_decoded = m.stream_bytes_decoded
               /\ n.bytes_read = m.bytes_read + a /\ n.rows_returned = m.rows_returned
  BY DEF Metrics

LEMMA RowsCounted ==
    ASSUME NEW m \in Metrics, NEW a \in Nat
    PROVE  LET n == [m EXCEPT !.rows_returned = @ + a]
           IN  /\ n \in Metrics /\ n.blocks_considered = m.blocks_considered
               /\ n.blocks_pruned = m.blocks_pruned /\ n.streams_decoded = m.streams_decoded
               /\ n.stream_bytes_decoded = m.stream_bytes_decoded
               /\ n.bytes_read = m.bytes_read /\ n.rows_returned = m.rows_returned + a
  BY DEF Metrics

-----------------------------------------------------------------------------
(* Consuming a block                                                       *)

LEMMA ConsumeStep ==
    ASSUME ScanInv, Consume
    PROVE  ScanInv'
<1> DEFINE k == next_index + 1
           block == file[k]
           steps == Selection(block)
           entry(kind) == Entry(k, kind, <<>>, 0, <<>>)
<1>0. ShapeInv /\ OrderInv /\ DecodeInv
  BY DEF ScanInv
<1>1. /\ pc = "next" /\ next_index < blocks /\ InFlight = 0 /\ Before = Nothing
      /\ done = 0 /\ reads = <<>> /\ work = <<>>
      /\ UNCHANGED <<primary, file, mode, plan, blocks, remaining>>
      /\ metrics' = record_block(should_prune(block))
  BY <1>0 DEF Consume, DecodeInv, InFlight, Before, environment
<1>2. /\ k \in 1..blocks /\ k \in 1..Len(file) /\ k \in Nat /\ BlockShape(block)
      /\ Rows(block) \in Nat /\ k = (next_index - InFlight) + 1
      /\ budget \in Budgets /\ remaining \in Nat /\ metrics \in Metrics
  BY <1>0, <1>1, FileBlocksShaped, BlockType DEF ShapeInv, ScanShape, Budgets
<1>3. steps \in Seq(Steps) /\ Len(steps) \in Nat /\ steps = StepsFor(block, Decoded, internal_primary)
  BY <1>0, SelectionType
<1>4. /\ metrics' \in Metrics /\ metrics'.blocks_considered = metrics.blocks_considered + 1
      /\ metrics'.blocks_pruned = metrics.blocks_pruned + (IF should_prune(block) THEN 1 ELSE 0)
      /\ metrics'.streams_decoded = metrics.streams_decoded
      /\ metrics'.stream_bytes_decoded = metrics.stream_bytes_decoded
      /\ metrics'.bytes_read = metrics.bytes_read /\ metrics'.rows_returned = metrics.rows_returned
  <2> DEFINE a == IF should_prune(block) THEN 1 ELSE 0
  <2>1. a \in Nat /\ metrics' = [metrics EXCEPT !.blocks_considered = @ + 1, !.blocks_pruned = @ + a]
    BY <1>1 DEF record_block
  <2> HIDE DEF a
  <2>2. /\ metrics' \in Metrics /\ metrics'.blocks_considered = metrics.blocks_considered + 1
        /\ metrics'.blocks_pruned = metrics.blocks_pruned + a
        /\ metrics'.streams_decoded = metrics.streams_decoded
        /\ metrics'.stream_bytes_decoded = metrics.stream_bytes_decoded
        /\ metrics'.bytes_read = metrics.bytes_read /\ metrics'.rows_returned = metrics.rows_returned
    BY <1>2, <2>1, BlockCounted
  <2> QED
    BY <2>2 DEF a
<1> HIDE DEF block, steps
<1>5. ASSUME NEW kind \in {"pruned", "io", "scan_rows", "frame"},
             budget' \in Budgets, next_index' = k, kind = "pruned" <=> should_prune(block),
             budget'.bytes = budget.bytes,
             budget'.rows + (IF kind = "frame" THEN Rows(block) ELSE 0) = budget.rows
      PROVE  /\ Enters(entry(kind)) /\ Charges(entry(kind)) = 0
             /\ entry(kind).block = k /\ entry(kind).kind = kind /\ entry(kind).steps = 0
  <2> DEFINE x == entry(kind)
             g == Accounts(x, block, steps)
  <2>1. /\ x.block = k /\ x.kind = kind /\ x.steps = 0 /\ x.rows = <<>> /\ x.reads = <<>>
        /\ x = [block |-> k, kind |-> kind, rows |-> <<>>, steps |-> 0, reads |-> <<>>]
    BY DEF Entry
  <2>2. x \in Entries
    <3>1. <<>> \in Seq(Nat) /\ <<>> \in Seq(Found) /\ kind \in Kinds /\ 0 \in Nat
      BY DEF Kinds
    <3> QED
      BY <1>2, <2>1, <3>1 DEF Entries
  <2>3. Charges(x) = 0
    BY <1>5, <2>1 DEF Charges
  <2> HIDE DEF x
  <2>4. /\ g["considered"] = 1 /\ g["pruned"] = (IF x.kind = "pruned" THEN 1 ELSE 0)
        /\ g["rows"] = (IF x.kind = "frame" THEN Rows(block) ELSE 0)
        /\ g["bytes"] = 0 /\ g["streams"] = 0 /\ g["stream_bytes"] = 0 /\ g["read"] = 0
        /\ g["returned"] = 0
    BY <1>2, <1>3, <1>5, <2>1, <2>2, FreshAccount
  <2>5. \A field \in Fields : Before[field] = 0
    BY <1>1 DEF Nothing
  <2>6. Shift(budget, budget', metrics, metrics', Before, g)
    <3> HIDE DEF g
    <3>1. /\ Before["considered"] = 0 /\ Before["pruned"] = 0 /\ Before["rows"] = 0
          /\ Before["bytes"] = 0 /\ Before["streams"] = 0 /\ Before["stream_bytes"] = 0
          /\ Before["read"] = 0 /\ Before["returned"] = 0
      BY <2>5 DEF Fields
    <3>2. /\ metrics'.blocks_considered + 0 = metrics.blocks_considered + 1
          /\ metrics'.blocks_pruned + 0
               = metrics.blocks_pruned + (IF should_prune(block) THEN 1 ELSE 0)
          /\ metrics'.streams_decoded + 0 = metrics.streams_decoded + 0
          /\ metrics'.stream_bytes_decoded + 0 = metrics.stream_bytes_decoded + 0
          /\ metrics'.bytes_read + 0 = metrics.bytes_read + 0
          /\ metrics'.rows_returned + 0 = metrics.rows_returned + 0
          /\ budget'.bytes + 0 = budget.bytes + 0
      BY <1>2, <1>4, <1>5 DEF Metrics, Budgets
    <3>3. budget'.rows + g["rows"] = budget.rows + 0
      BY <1>2, <1>5, <2>1, <2>4 DEF Budgets
    <3>4. g["pruned"] = (IF should_prune(block) THEN 1 ELSE 0)
      BY <1>5, <2>1, <2>4
    <3> QED
      BY <2>4, <3>1, <3>2, <3>3, <3>4 DEF Shift
  <2>7. Enters(x)
    BY <1>1, <1>2, <1>3, <1>4, <1>5, <2>1, <2>2, <2>3, <2>6 DEF Enters, block, steps
  <2> QED
    BY <2>1, <2>3, <2>7 DEF x
<1>6. Upto(block, steps, 0, "bytes") = 0 /\ MaxBlockBytes \in Nat /\ 0 <= Len(steps)
  BY <1>2, <1>3, UptoNext, ScanAssumption
<1> HIDE DEF k
<1>7. CASE /\ should_prune(block) /\ Answer(k, "pruned", <<>>, <<>>) /\ next_index' = k
           /\ UNCHANGED <<pc, budget>>
  <2> DEFINE x == entry("pruned")
  <2>1. answers' = Append(answers, x) /\ work' = <<>> /\ done' = 0 /\ reads' = <<>>
    BY <1>1, <1>7 DEF Answer
  <2>2. /\ Enters(x) /\ Charges(x) = 0 /\ x.block = k /\ x.kind = "pruned" /\ x.steps = 0
    BY <1>2, <1>5, <1>7 DEF Budgets
  <2> HIDE DEF x
  <2>3. ASSUME Honest(block) PROVE Matches(plan.range, block) = {}
    <3>1. plan.range # NoRange /\ plan.range.start \in Int /\ plan.range.end \in Int
      BY <1>0, <1>7, ScanAssumption DEF should_prune, ShapeInv, PlanShape
    <3>2. Reference(block) = {}
      BY <1>2, <1>7, <2>3, <3>1, PrunedHasNone
    <3> QED
      BY <3>2 DEF Reference, Matches, InRange
  <2>4. True(x, file[x.block], plan.range, Decoded, internal_primary)
    BY <2>2, <2>3 DEF True, block
  <2>5. Fair(x, file[x.block], Decoded, internal_primary,
             MaxRowsPerScan - budget'.rows, MaxScanBytes - budget'.bytes)
    BY <1>3, <1>6, <2>2 DEF Fair, block
  <2>6. pc' \in {"next", "idle"}
    BY <1>1, <1>7
  <2> QED
    BY <2>1, <2>2, <2>4, <2>5, <2>6, Closes
<1>8. ASSUME NEW kind \in {"io", "scan_rows"}, ~should_prune(block), Fail(k, kind, <<>>),
             UNCHANGED budget, kind = "scan_rows" => Rows(block) > budget.rows
      PROVE  ScanInv'
  <2> DEFINE x == entry(kind)
  <2>1. /\ answers' = Append(answers, x) /\ work' = <<>> /\ done' = 0 /\ reads' = <<>>
        /\ pc' = "idle" /\ next_index' = k
    BY <1>1, <1>8 DEF Answer, Fail
  <2>2. /\ Enters(x) /\ Charges(x) = 0 /\ x.block = k /\ x.kind = kind /\ x.steps = 0
    BY <1>2, <1>5, <1>8, <2>1 DEF Budgets
  <2> HIDE DEF x
  <2>3. True(x, file[x.block], plan.range, Decoded, internal_primary)
    BY <1>8, <2>2 DEF True
  <2>4. kind = "scan_rows" => (MaxRowsPerScan - budget'.rows) + Rows(block) > MaxRowsPerScan
    BY <1>2, <1>8, ScanAssumption DEF Budgets
  <2>5. Fair(x, file[x.block], Decoded, internal_primary,
             MaxRowsPerScan - budget'.rows, MaxScanBytes - budget'.bytes)
    BY <1>3, <1>6, <1>8, <2>2, <2>4 DEF Fair, block
  <2> QED
    BY <2>1, <2>2, <2>3, <2>5, Closes
<1>9. CASE /\ ~should_prune(block) /\ Rows(block) <= budget.rows
           /\ budget' = [budget EXCEPT !.rows = @ - Rows(block)]
           /\ next_index' = k /\ pc' = "frame" /\ UNCHANGED <<decoding, answers>>
  <2> DEFINE x == entry("frame")
  <2>1. /\ budget' \in Budgets /\ budget'.bytes = budget.bytes
        /\ budget'.rows + Rows(block) = budget.rows
    BY <1>2, <1>9 DEF Budgets
  <2>2. Enters(x)
    BY <1>5, <1>9, <2>1
  <2>3. UNCHANGED <<work, done, reads>>
    BY <1>9 DEF decoding
  <2>4. Present' = x
    BY <1>1, <1>9, <2>3 DEF Present, Entry
  <2>5. DecodeInv'
    BY <1>1, <1>9, <2>3 DEF DecodeInv
  <2> QED
    BY <1>9, <2>2, <2>4, <2>5, Continues
<1>10. \/ /\ should_prune(block) /\ Answer(k, "pruned", <<>>, <<>>) /\ next_index' = k
          /\ UNCHANGED <<pc, budget>>
       \/ ~should_prune(block) /\ Fail(k, "io", <<>>) /\ UNCHANGED budget
       \/ /\ ~should_prune(block) /\ Rows(block) > budget.rows
          /\ Fail(k, "scan_rows", <<>>) /\ UNCHANGED budget
       \/ /\ ~should_prune(block) /\ ~(Rows(block) > budget.rows)
          /\ budget' = [budget EXCEPT !.rows = @ - Rows(block)]
          /\ next_index' = k /\ pc' = "frame" /\ UNCHANGED <<decoding, answers>>
  BY DEF Consume, k, block
<1>11. ~(Rows(block) > budget.rows) => Rows(block) <= budget.rows
  BY <1>2 DEF Budgets
<1> QED
  BY <1>7, <1>8, <1>9, <1>10, <1>11

-----------------------------------------------------------------------------
(* The block in flight                                                     *)

\* What is charged of it so far, and what its frame came to.
Spent(n, what) == Upto(file[next_index], Selection(file[next_index]), n, what)

Frame(kind) == IF kind \in {"frame", "bad_frame"} THEN 0
               ELSE total_length(file[next_index]) + HeaderBytes

Failed(kind) == IF kind = "corruption" THEN 1 ELSE 0

\* The allowances and counters move from what it came to, to what it comes to now.
Reckons(kind, rows, n) ==
    /\ n + Failed(kind) <= Len(Selection(file[next_index]))
    /\ budget' \in Budgets /\ remaining' \in Nat /\ metrics' \in Metrics
    /\ metrics'.blocks_considered = metrics.blocks_considered
    /\ metrics'.blocks_pruned = metrics.blocks_pruned
    /\ budget'.rows = budget.rows
    /\ budget'.bytes + Spent(n + Failed(kind), "bytes") = budget.bytes + Spent(done, "bytes")
    /\ metrics'.streams_decoded + Spent(done, "streams")
         = metrics.streams_decoded + Spent(n, "streams")
    /\ metrics'.stream_bytes_decoded + Spent(done, "stream_bytes")
         = metrics.stream_bytes_decoded + Spent(n, "stream_bytes")
    /\ metrics'.bytes_read + (Frame(pc) + Spent(done, "stream_bytes"))
         = metrics.bytes_read + (Frame(kind) + Spent(n, "stream_bytes"))
    /\ metrics'.rows_returned = metrics.rows_returned + Len(rows)

\* An entry written anew for it.
LEMMA InFlightEnters ==
    ASSUME ScanInv, pc \in {"frame", "decode"}, UNCHANGED <<primary, file, mode, plan, blocks, next_index>>,
           NEW kind \in Underway, NEW rows \in Seq(Nat), NEW n \in Nat, NEW seen \in Seq(Found),
           Reckons(kind, rows, n)
    PROVE  LET x == Entry(next_index, kind, rows, n, seen)
           IN  /\ Enters(x) /\ Charges(x) = n + Failed(kind) /\ x.block = next_index
               /\ x.kind = kind /\ x.rows = rows /\ x.steps = n /\ x.reads = seen
<1> DEFINE x == Entry(next_index, kind, rows, n, seen)
           block == file[next_index]
           steps == Selection(block)
           f == Accounts(Present, block, steps)
           g == Accounts(x, block, steps)
<1>0. ShapeInv /\ OrderInv /\ DecodeInv /\ InFlight = 1
  BY DEF ScanInv, InFlight
<1>1. /\ x.block = next_index /\ x.kind = kind /\ x.rows = rows /\ x.steps = n /\ x.reads = seen
      /\ x = [block |-> next_index, kind |-> kind, rows |-> rows, steps |-> n, reads |-> seen]
  BY DEF Entry
<1>2. /\ Present \in Entries /\ next_index \in 1..Len(file) /\ BlockShape(block)
      /\ Charges(Present) = done /\ Present.kind = pc /\ Present.steps = done
      /\ Present.rows = <<>> /\ done \in Nat
  BY <1>0, PresentType
<1>3. /\ next_index \in 1..blocks /\ next_index \in Nat /\ next_index = (next_index - InFlight) + 1
      /\ metrics \in Metrics /\ budget \in Budgets
  BY <1>0, <1>2 DEF ShapeInv, ScanShape, Budgets
<1>4. x \in Entries
  <2>1. kind \in Kinds
    BY DEF Underway, Kinds
  <2> QED
    BY <1>1, <1>3, <2>1 DEF Entries
<1>5. Charges(x) = n + Failed(kind)
  BY <1>1 DEF Charges, Failed
<1>6. Before = f
  BY <1>0 DEF Before
<1> HIDE DEF x, block, steps
<1>7. /\ f["considered"] = 1 /\ f["pruned"] = 0 /\ f["rows"] = Rows(block)
      /\ f["bytes"] = Spent(done, "bytes") /\ f["streams"] = Spent(done, "streams")
      /\ f["stream_bytes"] = Spent(done, "stream_bytes")
      /\ f["read"] = Frame(pc) + Spent(done, "stream_bytes")
      /\ f["returned"] = 0
  <2>1. pc \in Underway /\ Len(<<>>) = 0
    BY DEF Underway
  <2> QED
    BY <1>2, <2>1, OpenedAccount DEF Spent, Frame, block, steps
<1>8. /\ g["considered"] = 1 /\ g["pruned"] = 0 /\ g["rows"] = Rows(block)
      /\ g["bytes"] = Spent(n + Failed(kind), "bytes") /\ g["streams"] = Spent(n, "streams")
      /\ g["stream_bytes"] = Spent(n, "stream_bytes")
      /\ g["read"] = Frame(kind) + Spent(n, "stream_bytes")
      /\ g["returned"] = Len(rows)
  BY <1>1, <1>4, <1>5, OpenedAccount DEF Spent, Frame, block, steps
<1> HIDE DEF f, g
<1>9. Shift(budget, budget', metrics, metrics', f, g)
  <2>1. /\ metrics'.blocks_considered + 1 = metrics.blocks_considered + 1
        /\ metrics'.blocks_pruned + 0 = metrics.blocks_pruned + 0
        /\ budget'.rows + Rows(block) = budget.rows + Rows(block)
    BY DEF Reckons
  <2>2. metrics'.rows_returned + 0 = metrics.rows_returned + Len(rows)
    BY <1>3 DEF Metrics, Reckons
  <2> QED
    BY <1>7, <1>8, <2>1, <2>2 DEF Shift, Reckons
<1>10. /\ x.block \in 1..blocks /\ x.block = (next_index - InFlight) + 1 /\ next_index' = x.block
       /\ Charges(x) <= Len(Selection(file[x.block]))
  BY <1>1, <1>3, <1>5 DEF Reckons
<1>11. Shift(budget, budget', metrics, metrics', Before,
             Accounts(x, file[x.block], Selection(file[x.block])))
  BY <1>1, <1>6, <1>9 DEF g, block, steps
<1>12. Enters(x)
  BY <1>4, <1>10, <1>11 DEF Enters, Reckons
<1> QED
  BY <1>1, <1>5, <1>12 DEF x

LEMMA SpentType ==
    ASSUME ScanInv, pc \in {"frame", "decode"}
    PROVE  /\ next_index \in 1..Len(file) /\ next_index \in Nat /\ BlockShape(file[next_index])
           /\ Selection(file[next_index]) = StepsFor(file[next_index], Decoded, internal_primary)
           /\ Selection(file[next_index]) \in Seq(Steps) /\ Len(Selection(file[next_index])) \in Nat
           /\ done \in 0..Len(Selection(file[next_index])) /\ reads \in Seq(Found)
           /\ budget \in Budgets /\ remaining \in Nat /\ metrics \in Metrics
           /\ \A what \in {"bytes", "streams", "stream_bytes"} :
                /\ Spent(0, what) = 0 /\ Spent(done, what) \in Nat
                /\ done < Len(Selection(file[next_index])) =>
                     Spent(done + 1, what)
                       = Spent(done, what) + Worth(file[next_index],
                                                   Selection(file[next_index])[done + 1], what)
<1> DEFINE block == file[next_index]
           steps == Selection(block)
<1>0. ShapeInv /\ OrderInv /\ DecodeInv /\ InFlight = 1
  BY DEF ScanInv, InFlight
<1>1. /\ next_index \in 1..Len(file) /\ BlockShape(block) /\ next_index \in Nat
      /\ done \in 0..Len(steps) /\ reads \in Seq(Found)
  BY <1>0, PresentType, InFlightBlock
<1>2. steps = StepsFor(block, Decoded, internal_primary) /\ steps \in Seq(Steps) /\ Len(steps) \in Nat
  BY <1>0, SelectionType
<1>3. budget \in Budgets /\ remaining \in Nat /\ metrics \in Metrics
  BY <1>0 DEF ShapeInv, ScanShape, Budgets
<1>4. ASSUME NEW what \in {"bytes", "streams", "stream_bytes"}
      PROVE  /\ Spent(0, what) = 0 /\ Spent(done, what) \in Nat
             /\ done < Len(steps) =>
                  Spent(done + 1, what) = Spent(done, what) + Worth(block, steps[done + 1], what)
  <2> HIDE DEF block, steps
  <2>1. \A n : Spent(n, what) = Upto(block, steps, n, what)
    BY DEF Spent, block, steps
  <2>2. /\ Upto(block, steps, 0, what) = 0
        /\ \A n \in 0..Len(steps) : Upto(block, steps, n, what) \in Nat
        /\ \A n \in 0..Len(steps) - 1 :
             Upto(block, steps, n + 1, what)
               = Upto(block, steps, n, what) + Worth(block, steps[n + 1], what)
    BY <1>1, <1>2, UptoNext
  <2>3. done < Len(steps) => done \in 0..Len(steps) - 1
    BY <1>1, <1>2
  <2> QED
    BY <1>1, <2>1, <2>2, <2>3
<1> QED
  BY <1>1, <1>2, <1>3, <1>4

\* What an answer to the block being read has to say of it, and of its allowances.
Told(kind, rows, seen) ==
    kind \in {"batch", "empty"} =>
        LET block == file[next_index]
        IN  /\ kind = "batch" => Range(rows) = Matches(plan.range, block) /\ InFileOrder(rows)
            /\ kind = "empty" => Matches(plan.range, block) = {}
            /\ {read.stream : read \in Range(seen)} = StreamsOf(Decoded)
            /\ \A read \in Range(seen) : read.contents = "intact"
            /\ Range(Selection(block)) \cap block.broken = {}
            /\ internal_primary # {} => Honest(block)

Refuses(kind, n) ==
    LET own == Spent(n + Failed(kind), "bytes")
        next == Charge(file[next_index], Selection(file[next_index])[n + 1])
    IN  /\ own <= MaxBlockBytes
        /\ kind = "block_bytes" => own + next > MaxBlockBytes
        /\ kind = "scan_bytes" => (MaxScanBytes - budget'.bytes) + next > MaxScanBytes

LEMMA InFlightCloses ==
    ASSUME ScanInv, pc \in {"frame", "decode"}, UNCHANGED <<primary, file, mode, plan, blocks>>,
           next_index' = next_index, pc' \in {"next", "idle"},
           work' = <<>>, done' = 0, reads' = <<>>,
           NEW kind \in Underway \ {"frame", "decode"}, NEW rows \in Seq(Nat), NEW n \in Nat,
           NEW seen \in Seq(Found), answers' = Append(answers, Entry(next_index, kind, rows, n, seen)),
           Reckons(kind, rows, n), Told(kind, rows, seen), Refuses(kind, n)
    PROVE  ScanInv'
<1> DEFINE x == Entry(next_index, kind, rows, n, seen)
           block == file[next_index]
<1>1. kind \in Underway /\ answers' = Append(answers, x)
  OBVIOUS
<1>2. Enters(x)
  BY <1>1, InFlightEnters
<1>3. /\ x.block = next_index /\ x.kind = kind /\ x.rows = rows /\ x.steps = n /\ x.reads = seen
      /\ Charges(x) = n + Failed(kind)
  BY DEF Entry, Charges, Failed
<1> HIDE DEF x
<1>4. Selection(block) = StepsFor(block, Decoded, internal_primary)
  BY SpentType
<1>5. True(x, block, plan.range, Decoded, internal_primary)
  <2>1. kind # "pruned"
    BY DEF Underway
  <2> QED
    BY <1>3, <1>4, <2>1 DEF Told, True
<1>6. Fair(x, block, Decoded, internal_primary, MaxRowsPerScan - budget'.rows,
           MaxScanBytes - budget'.bytes)
  <2>1. kind # "scan_rows"
    BY DEF Underway
  <2>2. Charges(x) <= Len(Selection(block))
    BY <1>3 DEF Reckons
  <2>3. Upto(block, StepsFor(block, Decoded, internal_primary), Charges(x), "bytes")
          = Spent(n + Failed(kind), "bytes")
    BY <1>3, <1>4 DEF Spent
  <2>4. /\ Spent(n + Failed(kind), "bytes") <= MaxBlockBytes
        /\ kind = "block_bytes" => Spent(n + Failed(kind), "bytes")
                                    + Charge(block, Selection(block)[n + 1]) > MaxBlockBytes
        /\ kind = "scan_bytes" => (MaxScanBytes - budget'.bytes)
                                    + Charge(block, Selection(block)[n + 1]) > MaxScanBytes
    BY DEF Refuses
  <2> QED
    BY <1>3, <1>4, <2>1, <2>2, <2>3, <2>4 DEF Fair
<1> QED
  BY <1>1, <1>2, <1>3, <1>5, <1>6, Closes

LEMMA ReadStep ==
    ASSUME ScanInv, ReadFrame
    PROVE  ScanInv'
<1> DEFINE k == next_index
           block == file[k]
<1>0. /\ ShapeInv /\ DecodeInv /\ pc = "frame" /\ done = 0 /\ reads = <<>> /\ work = <<>>
      /\ UNCHANGED <<primary, file, mode, plan, blocks, budget>>
  BY DEF ScanInv, ReadFrame, DecodeInv, environment
<1>1. /\ k \in 1..Len(file) /\ BlockShape(block) /\ Len(Selection(block)) \in Nat
      /\ budget \in Budgets /\ remaining \in Nat /\ metrics \in Metrics
      /\ Spent(0, "bytes") = 0 /\ Spent(0, "streams") = 0 /\ Spent(0, "stream_bytes") = 0
  BY <1>0, SpentType
<1>2. <<>> \in Seq(Nat) /\ <<>> \in Seq(Found) /\ Len(<<>>) = 0 /\ 0 \in Nat /\ 0 <= Len(Selection(block))
  BY <1>1
<1>3. Frame("frame") = 0 /\ Frame("bad_frame") = 0 /\ Frame("decode") = total_length(block) + HeaderBytes
  BY DEF Frame
<1>4. total_length(block) + HeaderBytes \in Nat /\ MaxBlockBytes \in Nat
  BY <1>1, LengthType, ScanAssumption
<1>5. CASE Fail(k, "bad_frame", <<>>) /\ UNCHANGED <<metrics, remaining>>
  <2>1. /\ answers' = Append(answers, Entry(k, "bad_frame", <<>>, 0, <<>>))
        /\ work' = <<>> /\ done' = 0 /\ reads' = <<>> /\ next_index' = k /\ pc' = "idle"
    BY <1>0, <1>5 DEF Fail, Answer
  <2>2. Failed("bad_frame") = 0 /\ 0 + 0 = 0 /\ "bad_frame" \in Underway
    BY DEF Failed, Underway
  <2>3. metrics'.rows_returned = metrics.rows_returned + 0
    BY <1>1, <1>5 DEF Metrics
  <2>4. Reckons("bad_frame", <<>>, 0)
    BY <1>0, <1>1, <1>2, <1>3, <1>5, <2>1, <2>2, <2>3 DEF Reckons
  <2>5. Told("bad_frame", <<>>, <<>>) /\ Refuses("bad_frame", 0)
    BY <1>1, <1>4, <2>2 DEF Told, Refuses
  <2> QED
    BY <1>0, <1>2, <2>1, <2>2, <2>4, <2>5, InFlightCloses
<1>6. CASE Begin
  <2> DEFINE x == Entry(k, "decode", <<>>, 0, <<>>)
             a == total_length(block) + HeaderBytes
  <2>1. /\ metrics' = [metrics EXCEPT !.bytes_read = @ + a]
        /\ remaining' = MaxBlockBytes /\ work' = Selection(block) /\ pc' = "decode"
        /\ done' = 0 /\ reads' = <<>> /\ answers' = answers /\ next_index' = k
    BY <1>0, <1>6 DEF Begin
  <2> HIDE DEF a
  <2>2. a \in Nat
    BY <1>4 DEF a
  <2>3. /\ metrics' \in Metrics /\ metrics'.blocks_considered = metrics.blocks_considered
        /\ metrics'.blocks_pruned = metrics.blocks_pruned
        /\ metrics'.streams_decoded = metrics.streams_decoded
        /\ metrics'.stream_bytes_decoded = metrics.stream_bytes_decoded
        /\ metrics'.bytes_read = metrics.bytes_read + a
        /\ metrics'.rows_returned = metrics.rows_returned
    BY <1>1, <2>1, <2>2, ReadCounted
  <2>4. Failed("decode") = 0 /\ 0 + 0 = 0 /\ "decode" \in Underway
    BY DEF Failed, Underway
  <2>5. /\ metrics'.rows_returned = metrics.rows_returned + 0
        /\ metrics'.bytes_read + (0 + 0) = metrics.bytes_read + (a + 0)
    BY <1>1, <2>2, <2>3 DEF Metrics
  <2>6. Enters(x)
    <3>1. Reckons("decode", <<>>, 0)
      BY <1>0, <1>1, <1>2, <1>3, <1>4, <2>1, <2>3, <2>4, <2>5 DEF a, Reckons
    <3> QED
      BY <1>0, <1>2, <2>1, <2>4, <3>1, InFlightEnters
  <2>7. Present' = x
    BY <2>1 DEF Present
  <2>8. DecodeInv'
    <3>1. /\ file'[next_index'] = block /\ Selection(file[next_index])' = Selection(block)
          /\ Decoded' = Decoded
      BY <1>0, <2>1, PlanKept DEF Selection
    <3>2. Upto(block, Selection(block), 0, "bytes") = 0
      BY <1>1 DEF Spent
    <3>3. Checked(block, Selection(block), 0, <<>>, StreamsOf(Decoded))
      BY <1>2 DEF Checked, Range
    <3>4. 0 \in 0..Len(Selection(block)) /\ MaxBlockBytes = MaxBlockBytes - 0
      BY <1>1, <1>4
    <3>5. /\ work' = Selection(file[next_index])' /\ done' \in 0..Len(work')
          /\ remaining' = MaxBlockBytes - Upto(file'[next_index'], work', done', "bytes")
          /\ Checked(file'[next_index'], work', done', reads', StreamsOf(Decoded'))
      BY <2>1, <3>1, <3>2, <3>3, <3>4
    <3> QED
      BY <2>1, <3>5 DEF DecodeInv
  <2> QED
    BY <2>1, <2>6, <2>7, <2>8, Continues
<1> QED
  BY <1>5, <1>6 DEF ReadFrame

\* Appending to what was found.
LEMMA FoundAppended ==
    ASSUME NEW s \in Seq(Found), NEW x
    PROVE  Range(Append(s, x)) = Range(s) \cup {x}
<1>1. /\ Len(s) \in Nat /\ DOMAIN s = 1..Len(s) /\ DOMAIN Append(s, x) = 1..Len(s) + 1
      /\ Append(s, x)[Len(s) + 1] = x /\ \A i \in 1..Len(s) : Append(s, x)[i] = s[i]
  OBVIOUS
<1>2. \A i : i \in 1..Len(s) + 1 <=> i \in 1..Len(s) \/ i = Len(s) + 1
  BY <1>1
<1>3. \A y : y \in Range(Append(s, x)) <=> \E i \in 1..Len(s) + 1 : y = Append(s, x)[i]
  BY <1>1 DEF Range
<1>4. \A y : y \in Range(s) <=> \E i \in 1..Len(s) : y = s[i]
  BY <1>1 DEF Range
<1> QED
  BY <1>1, <1>2, <1>3, <1>4

LEMMA DecodeAdvance ==
    ASSUME ScanInv, DecodeStep
    PROVE  ScanInv'
<1> DEFINE k == next_index
           block == file[k]
           steps == Selection(block)
           step == steps[done + 1]
           bytes == Charge(block, step)
           contents == Contents(k, step.of)
           seen == IF step.stage # "stored" THEN reads
                   ELSE Append(reads, [stream |-> step.of, contents |-> contents])
           wanted == StreamsOf(Decoded)
<1>0. /\ ShapeInv /\ DecodeInv /\ pc = "decode" /\ done < Len(work)
      /\ UNCHANGED <<primary, file, damage, mode, plan, blocks>>
  BY DEF ScanInv, DecodeStep, environment
<1>1. /\ work = steps /\ remaining = MaxBlockBytes - Spent(done, "bytes")
      /\ Checked(block, steps, done, reads, wanted)
  BY <1>0 DEF DecodeInv, Spent
<1>2. /\ k \in 1..Len(file) /\ k \in Nat /\ BlockShape(block)
      /\ steps = StepsFor(block, Decoded, internal_primary)
      /\ steps \in Seq(Steps) /\ Len(steps) \in Nat /\ done \in 0..Len(steps) /\ reads \in Seq(Found)
      /\ budget \in Budgets /\ remaining \in Nat /\ metrics \in Metrics
  BY <1>0, SpentType
<1>3. done \in Nat /\ done + 1 \in 1..Len(steps) /\ step \in Steps
  BY <1>0, <1>1, <1>2
<1>4. /\ Spent(done, "bytes") \in Nat /\ Spent(done, "streams") \in Nat
      /\ Spent(done, "stream_bytes") \in Nat
      /\ Spent(done + 1, "bytes") = Spent(done, "bytes") + Worth(block, step, "bytes")
      /\ Spent(done + 1, "streams") = Spent(done, "streams") + Worth(block, step, "streams")
      /\ Spent(done + 1, "stream_bytes")
           = Spent(done, "stream_bytes") + Worth(block, step, "stream_bytes")
  <2>1. done < Len(steps)
    BY <1>0, <1>1
  <2> QED
    BY <1>0, <2>1, SpentType
<1>5. bytes \in Nat /\ Worth(block, step, "bytes") = bytes /\ MaxBlockBytes \in Nat /\ MaxScanBytes \in Nat
  BY <1>2, <1>3, BlockType, ScanAssumption
<1>6. step.stage # "primary" => step.of \in AllStreams
  BY <1>3 DEF Steps, StepsAbout, Step
<1>7. seen \in Seq(Found)
  <2>1. CASE step.stage # "stored"
    BY <1>2, <2>1
  <2>2. CASE step.stage = "stored"
    <3>1. step.of \in AllStreams /\ contents \in {"damaged", "mismatched", "intact"}
      BY <1>6, <2>2 DEF Contents
    <3>2. [stream |-> step.of, contents |-> contents] \in Found
      BY <3>1 DEF Found
    <3> HIDE DEF contents
    <3> QED
      BY <1>2, <2>2, <3>2
  <2> QED
    BY <2>1, <2>2
<1>8. \/ bytes > remaining /\ Fail(k, "block_bytes", reads) /\ UNCHANGED <<budget, remaining, metrics>>
      \/ /\ ~(bytes > remaining) /\ bytes > budget.bytes
         /\ Fail(k, "scan_bytes", reads) /\ UNCHANGED <<budget, remaining, metrics>>
      \/ /\ ~(bytes > remaining) /\ ~(bytes > budget.bytes) /\ charge(bytes)
         /\ Succeeds(block, step, contents)
         /\ done' = done + 1 /\ reads' = seen
         /\ metrics' = IF Records(block, step) THEN record_stream(StoredBytes(block, step.of))
                       ELSE metrics
         /\ UNCHANGED <<pc, work, answers, next_index>>
      \/ /\ ~(bytes > remaining) /\ ~(bytes > budget.bytes) /\ charge(bytes)
         /\ ~Succeeds(block, step, contents)
         /\ Fail(k, "corruption", seen) /\ UNCHANGED metrics
  BY <1>1 DEF DecodeStep
<1>9. <<>> \in Seq(Nat) /\ Len(<<>>) = 0
  OBVIOUS
<1>10. Frame("decode") = Frame("block_bytes") /\ Frame("decode") = Frame("scan_bytes")
       /\ Frame("decode") = Frame("corruption") /\ Frame("decode") \in Nat
  <2>1. total_length(block) + HeaderBytes \in Nat
    BY <1>2, LengthType, ScanAssumption
  <2> QED
    BY <2>1 DEF Frame
<1>11. /\ metrics.rows_returned \in Nat /\ metrics.bytes_read \in Nat /\ budget.bytes \in Nat
       /\ metrics.streams_decoded \in Nat /\ metrics.stream_bytes_decoded \in Nat
  BY <1>2 DEF Metrics, Budgets
<1> HIDE DEF k, block, steps, step, bytes, contents, seen, wanted
<1>12. ASSUME NEW kind \in {"block_bytes", "scan_bytes"}, Fail(k, kind, reads),
              UNCHANGED <<budget, remaining, metrics>>,
              kind = "block_bytes" => bytes > remaining,
              kind = "scan_bytes" => bytes > budget.bytes
       PROVE  ScanInv'
  <2>1. /\ answers' = Append(answers, Entry(k, kind, <<>>, done, reads))
        /\ work' = <<>> /\ done' = 0 /\ reads' = <<>> /\ next_index' = k /\ pc' = "idle"
    BY <1>12 DEF Fail, Answer
  <2>2. Failed(kind) = 0 /\ done + 0 = done /\ Frame(pc) = Frame(kind)
        /\ kind \in Underway \ {"frame", "decode"}
    BY <1>0, <1>3, <1>10, <1>12 DEF Failed, Underway
  <2>3. metrics'.rows_returned = metrics.rows_returned + 0
    BY <1>11, <1>12
  <2>4. Reckons(kind, <<>>, done)
    BY <1>2, <1>9, <1>12, <2>2, <2>3 DEF Reckons, steps, block, k
  <2>5. Told(kind, <<>>, reads)
    BY <1>12 DEF Told
  <2>6. Refuses(kind, done)
    <3>1. Spent(done, "bytes") <= MaxBlockBytes
      BY <1>1, <1>2, <1>4, <1>5
    <3>2. kind = "block_bytes" => Spent(done, "bytes") + bytes > MaxBlockBytes
      BY <1>1, <1>2, <1>4, <1>5, <1>12
    <3>3. kind = "scan_bytes" => (MaxScanBytes - budget'.bytes) + bytes > MaxScanBytes
      BY <1>5, <1>11, <1>12
    <3> QED
      BY <2>2, <3>1, <3>2, <3>3 DEF Refuses, bytes, step, steps, block, k
  <2> QED
    BY <1>0, <1>2, <1>3, <1>9, <2>1, <2>2, <2>4, <2>5, <2>6, InFlightCloses DEF k
<1>13. ASSUME ~(bytes > remaining), ~(bytes > budget.bytes), charge(bytes)
       PROVE  /\ budget' \in Budgets /\ budget'.rows = budget.rows
              /\ budget'.bytes + Spent(done + 1, "bytes") = budget.bytes + Spent(done, "bytes")
              /\ remaining' \in Nat /\ remaining' = MaxBlockBytes - Spent(done + 1, "bytes")
              /\ Spent(done + 1, "bytes") <= MaxBlockBytes
  <2>1. budget' = [budget EXCEPT !.bytes = @ - bytes] /\ remaining' = remaining - bytes
    BY <1>13 DEF charge
  <2>2. budget.bytes - bytes \in Nat /\ remaining - bytes \in Nat
    BY <1>2, <1>5, <1>11, <1>13
  <2>3. budget' \in Budgets /\ budget'.rows = budget.rows /\ budget'.bytes = budget.bytes - bytes
    BY <1>2, <2>1, <2>2 DEF Budgets
  <2>4. remaining' \in Nat /\ Spent(done + 1, "bytes") = Spent(done, "bytes") + bytes
    BY <1>4, <1>5, <2>1, <2>2
  <2>5. \A s, t, r, b, c, d, M \in Nat :
           t = s + b /\ r = M - s /\ b <= r /\ d <= c /\ d = b
             => c - b + t = c + s /\ r - b = M - t /\ t <= M
    OBVIOUS
  <2>6. remaining = MaxBlockBytes - Spent(done, "bytes") /\ bytes <= remaining /\ bytes <= budget.bytes
    BY <1>1, <1>2, <1>5, <1>11, <1>13
  <2>7. Spent(done + 1, "bytes") \in Nat /\ remaining \in Nat
    BY <1>2, <1>4, <1>5, <2>4
  <2>8. /\ budget.bytes - bytes + Spent(done + 1, "bytes") = budget.bytes + Spent(done, "bytes")
        /\ remaining - bytes = MaxBlockBytes - Spent(done + 1, "bytes")
        /\ Spent(done + 1, "bytes") <= MaxBlockBytes
    BY ONLY <1>4, <1>5, <1>11, <2>4, <2>5, <2>6, <2>7
  <2> QED
    BY <2>1, <2>3, <2>4, <2>8
<1>14. CASE /\ ~(bytes > remaining) /\ ~(bytes > budget.bytes) /\ charge(bytes)
            /\ Fail(k, "corruption", seen) /\ UNCHANGED metrics
  <2>1. /\ answers' = Append(answers, Entry(k, "corruption", <<>>, done, seen))
        /\ work' = <<>> /\ done' = 0 /\ reads' = <<>> /\ next_index' = k /\ pc' = "idle"
    BY <1>14 DEF Fail, Answer
  <2>2. Failed("corruption") = 1 /\ Frame(pc) = Frame("corruption") /\ done + 1 <= Len(steps)
        /\ "corruption" \in Underway \ {"frame", "decode"}
    BY <1>0, <1>2, <1>3, <1>10 DEF Failed, Underway
  <2>3. metrics'.rows_returned = metrics.rows_returned + 0
    BY <1>11, <1>14
  <2>4. Reckons("corruption", <<>>, done)
    BY <1>2, <1>9, <1>13, <1>14, <2>2, <2>3 DEF Reckons, steps, block, k
  <2>5. Told("corruption", <<>>, seen) /\ Refuses("corruption", done)
    BY <1>13, <1>14, <2>2 DEF Told, Refuses
  <2> QED
    BY <1>0, <1>3, <1>7, <1>9, <2>1, <2>2, <2>4, <2>5, InFlightCloses DEF k
<1>15. CASE /\ ~(bytes > remaining) /\ ~(bytes > budget.bytes) /\ charge(bytes)
            /\ Succeeds(block, step, contents)
            /\ done' = done + 1 /\ reads' = seen
            /\ metrics' = IF Records(block, step) THEN record_stream(StoredBytes(block, step.of))
                          ELSE metrics
            /\ UNCHANGED <<pc, work, answers, next_index>>
  <2> DEFINE x == Entry(k, "decode", <<>>, done + 1, seen)
  <2>1. /\ metrics' \in Metrics /\ metrics'.blocks_considered = metrics.blocks_considered
        /\ metrics'.blocks_pruned = metrics.blocks_pruned
        /\ metrics'.streams_decoded = metrics.streams_decoded + Worth(block, step, "streams")
        /\ metrics'.stream_bytes_decoded
             = metrics.stream_bytes_decoded + Worth(block, step, "stream_bytes")
        /\ metrics'.bytes_read = metrics.bytes_read + Worth(block, step, "stream_bytes")
        /\ metrics'.rows_returned = metrics.rows_returned
        /\ Worth(block, step, "streams") \in Nat /\ Worth(block, step, "stream_bytes") \in Nat
    <3>1. CASE Records(block, step)
      <4> DEFINE a == StoredBytes(block, step.of)
      <4>1. /\ Worth(block, step, "streams") = 1 /\ Worth(block, step, "stream_bytes") = a
            /\ a \in Nat /\ 1 \in Nat
        <5>1. step.stage # "primary"
          BY <3>1 DEF Records
        <5> QED
          BY <1>2, <1>6, <3>1, <5>1, BlockType DEF Worth
      <4>2. metrics' = [metrics EXCEPT !.streams_decoded = @ + 1,
                                       !.stream_bytes_decoded = @ + a, !.bytes_read = @ + a]
        BY <1>15, <3>1 DEF record_stream
      <4> HIDE DEF a
      <4>3. metrics \in Metrics /\ a \in Nat
        BY <1>2, <4>1
      <4>4. /\ metrics' \in Metrics /\ metrics'.blocks_considered = metrics.blocks_considered
            /\ metrics'.blocks_pruned = metrics.blocks_pruned
            /\ metrics'.streams_decoded = metrics.streams_decoded + 1
            /\ metrics'.stream_bytes_decoded = metrics.stream_bytes_decoded + a
            /\ metrics'.bytes_read = metrics.bytes_read + a
            /\ metrics'.rows_returned = metrics.rows_returned
        BY ONLY <4>2, <4>3, StreamCounted
      <4> QED
        BY <4>1, <4>4, Zenon
    <3>2. CASE ~Records(block, step)
      <4>1. Worth(block, step, "streams") = 0 /\ Worth(block, step, "stream_bytes") = 0
        BY <3>2 DEF Worth
      <4>2. metrics' = metrics /\ 0 \in Nat /\ \A m \in Nat : m = m + 0
        BY <1>15, <3>2
      <4>3. /\ metrics'.streams_decoded = metrics.streams_decoded + 0
            /\ metrics'.stream_bytes_decoded = metrics.stream_bytes_decoded + 0
            /\ metrics'.bytes_read = metrics.bytes_read + 0
        BY <1>11, <4>2
      <4>4. /\ metrics' \in Metrics /\ metrics'.blocks_considered = metrics.blocks_considered
            /\ metrics'.blocks_pruned = metrics.blocks_pruned
            /\ metrics'.rows_returned = metrics.rows_returned
        BY <1>2, <4>2
      <4> QED
        BY <4>1, <4>2, <4>3, <4>4, Zenon
    <3> QED
      BY <3>1, <3>2
  <2>2. Failed("decode") = 0 /\ (done + 1) + 0 = done + 1 /\ done + 1 <= Len(steps)
        /\ "decode" \in Underway /\ done + 1 \in Nat
    BY <1>2, <1>3 DEF Failed, Underway
  <2>3. /\ metrics'.rows_returned = metrics.rows_returned + 0
        /\ metrics'.streams_decoded + Spent(done, "streams")
             = metrics.streams_decoded + Spent(done + 1, "streams")
        /\ metrics'.stream_bytes_decoded + Spent(done, "stream_bytes")
             = metrics.stream_bytes_decoded + Spent(done + 1, "stream_bytes")
        /\ metrics'.bytes_read + (Frame("decode") + Spent(done, "stream_bytes"))
             = metrics.bytes_read + (Frame("decode") + Spent(done + 1, "stream_bytes"))
    BY <1>4, <1>10, <1>11, <2>1
  <2>4. Reckons("decode", <<>>, done + 1)
    BY <1>0, <1>2, <1>9, <1>13, <1>15, <2>1, <2>2, <2>3 DEF Reckons, steps, block, k
  <2>5. next_index' = next_index
    BY <1>15
  <2>6. Enters(x)
    BY <1>0, <1>7, <1>9, <2>2, <2>4, <2>5, InFlightEnters DEF k
  <2>7. Present' = x
    BY <1>0, <1>15 DEF Present, k
  <2>8. Checked(block, steps, done + 1, seen, wanted)
    <3>1. /\ step.stage = "stored" => contents = "intact"
          /\ step.stage = "primary" => verify_primary_column(block)
          /\ step \notin block.broken
      BY <1>15 DEF Succeeds, Intact
    <3>2. step.stage = "primary" => Honest(block)
      BY <3>1 DEF verify_primary_column, Honest
    <3>3. step.stage = "stored" => step.of \in wanted
      BY <1>2, <1>3, <1>0, SelectionType, StepsCover DEF step, wanted
    <3>4. /\ \A read \in Range(reads) : read.contents = "intact" /\ read.stream \in wanted
          /\ \A j \in 1..done :
               /\ steps[j] \notin block.broken
               /\ steps[j].stage = "primary" => Honest(block)
               /\ steps[j].stage = "stored" => \E read \in Range(reads) : read.stream = steps[j].of
      BY <1>1 DEF Checked
    <3>5. /\ Range(reads) \subseteq Range(seen)
          /\ \A read \in Range(seen) : read.contents = "intact" /\ read.stream \in wanted
          /\ step.stage = "stored" => \E read \in Range(seen) : read.stream = step.of
      <4>1. CASE step.stage # "stored"
        BY <3>4, <4>1 DEF seen
      <4>2. CASE step.stage = "stored"
        <5> DEFINE new == [stream |-> step.of, contents |-> contents]
        <5>1. new.stream = step.of /\ new.contents = contents
          OBVIOUS
        <5> HIDE DEF new
        <5>2. seen = Append(reads, new)
          BY <4>2 DEF seen, new
        <5>3. Range(seen) = Range(reads) \cup {new}
          BY <1>2, <5>2, FoundAppended
        <5> QED
          BY <3>1, <3>3, <3>4, <4>2, <5>1, <5>3
      <4> QED
        BY <4>1, <4>2
    <3>6. \A j \in 1..done + 1 : j \in 1..done \/ j = done + 1
      BY <1>3
    <3>7. \A j \in 1..done + 1 :
               /\ steps[j] \notin block.broken
               /\ steps[j].stage = "primary" => Honest(block)
               /\ steps[j].stage = "stored" => \E read \in Range(seen) : read.stream = steps[j].of
      <4> SUFFICES ASSUME NEW j \in 1..done + 1
                   PROVE  /\ steps[j] \notin block.broken
                          /\ steps[j].stage = "primary" => Honest(block)
                          /\ steps[j].stage = "stored" =>
                               \E read \in Range(seen) : read.stream = steps[j].of
        OBVIOUS
      <4>1. CASE j \in 1..done
        BY <3>4, <3>5, <4>1
      <4>2. CASE j = done + 1
        BY <3>1, <3>2, <3>5, <4>2 DEF step
      <4> QED
        BY <3>6, <4>1, <4>2
    <3> QED
      BY <1>7, <3>5, <3>7 DEF Checked
  <2>9. DecodeInv'
    <3>1. /\ file'[next_index'] = block /\ Selection(file[next_index])' = steps /\ Decoded' = Decoded
      BY <1>0, <1>15, PlanKept DEF Selection, steps, block, k
    <3>2. /\ work' = steps /\ done' = done + 1 /\ reads' = seen /\ pc' = "decode"
          /\ done + 1 \in 0..Len(steps)
      BY <1>0, <1>1, <1>2, <1>3, <1>15
    <3>3. remaining' = MaxBlockBytes - Upto(block, steps, done + 1, "bytes")
      BY <1>13, <1>15 DEF Spent, steps, block, k
    <3>4. /\ work' = Selection(file[next_index])' /\ done' \in 0..Len(work')
          /\ remaining' = MaxBlockBytes - Upto(file'[next_index'], work', done', "bytes")
          /\ Checked(file'[next_index'], work', done', reads', StreamsOf(Decoded'))
      BY <2>8, <3>1, <3>2, <3>3 DEF wanted
    <3> QED
      BY <3>2, <3>4 DEF DecodeInv
  <2> HIDE DEF x
  <2>10. pc' \in {"frame", "decode"} /\ answers' = answers
    BY <1>0, <1>15
  <2> QED
    BY <2>6, <2>7, <2>9, <2>10, Continues
<1> QED
  BY <1>8, <1>12, <1>14, <1>15

-----------------------------------------------------------------------------
(* The end of a decode                                                     *)

LEMMA FilterType ==
    ASSUME NEW block, BlockShape(block), NEW sorted \in BOOLEAN, plan.range # NoRange,
           PlanShape, sorted => InOrder(block.values)
    PROVE  Exact(block.values, filter_batch(sorted, block.values), Rows(block))
           /\ filter_batch(sorted, block.values) \in Seq(Nat)
<1>1. plan.range.start \in Int /\ plan.range.end \in Int /\ plan.range.start <= plan.range.end
  BY ScanAssumption DEF PlanShape
<1>2. block.values \in Seq(Int) /\ block.values # <<>>
  BY DEF BlockShape
<1>3. Exact(block.values, filter_batch(sorted, block.values), Rows(block))
  BY <1>1, <1>2, FilterExact DEF Rows
<1>4. Rows(block) \in Nat
  BY BlockType
<1> QED
  BY <1>3, <1>4 DEF Exact

FinalRows(block) ==
    IF plan.range = NoRange THEN [k \in 1..Rows(block) |-> k]
    ELSE filter_batch(internal_primary # {} /\ block.sorted, block.values)

\* The rows of a block whose primary, if it was decoded, was verified.
LEMMA FinalExact ==
    ASSUME PlanShape, NEW block, BlockShape(block), internal_primary # {} => Honest(block)
    PROVE  /\ FinalRows(block) \in Seq(Nat) /\ InFileOrder(FinalRows(block))
           /\ Range(FinalRows(block)) = Matches(plan.range, block)
<1> DEFINE rows == FinalRows(block)
<1>1. Rows(block) \in Nat /\ Rows(block) > 0
  BY DEF BlockShape, Rows
<1>2. CASE plan.range = NoRange
  <2>1. rows = [k \in 1..Rows(block) |-> k]
    BY <1>2 DEF FinalRows
  <2>2. rows \in Seq(Nat) /\ InFileOrder(rows)
    BY <1>1, <2>1 DEF InFileOrder
  <2>3. Range(rows) = Matches(plan.range, block)
    BY <1>2, <2>1 DEF Range, Matches
  <2> QED
    BY <2>2, <2>3
<1>3. CASE plan.range # NoRange
  <2> DEFINE sorted == internal_primary # {} /\ block.sorted
  <2>1. rows = filter_batch(sorted, block.values)
    BY <1>3 DEF FinalRows
  <2>2. sorted \in BOOLEAN /\ (sorted => InOrder(block.values))
    BY HonestMeans DEF BlockShape
  <2> HIDE DEF sorted
  <2>3. Exact(block.values, rows, Rows(block)) /\ rows \in Seq(Nat)
    BY <1>3, <2>1, <2>2, FilterType
  <2> HIDE DEF rows
  <2>4. Range(rows) = Matches(plan.range, block) /\ InFileOrder(rows)
    BY <1>3, <2>3 DEF Exact, Matches, InRange
  <2> QED
    BY <2>3, <2>4 DEF rows
<1> QED
  BY <1>2, <1>3

\* Every charge has been taken, and every check it pays for has passed.
LEMMA AllChecked ==
    ASSUME ScanInv, pc = "decode", done = Len(work)
    PROVE  LET block == file[next_index]
           IN  /\ {read.stream : read \in Range(reads)} = StreamsOf(Decoded)
               /\ \A read \in Range(reads) : read.contents = "intact"
               /\ Range(Selection(block)) \cap block.broken = {}
               /\ internal_primary # {} => Honest(block)
<1> DEFINE block == file[next_index]
           steps == Selection(block)
           wanted == StreamsOf(Decoded)
<1>0. ShapeInv /\ DecodeInv
  BY DEF ScanInv
<1>1. /\ done = Len(steps) /\ steps \in Seq(Steps)
      /\ \A s \in wanted : \E i \in 1..Len(steps) : steps[i] = Step("stored", s)
      /\ internal_primary # {} => \E i \in 1..Len(steps) : steps[i].stage = "primary"
  <2>1. work = steps
    BY <1>0 DEF DecodeInv
  <2>2. steps = StepsFor(block, Decoded, internal_primary)
        /\ Decoded \in Seq(Names) /\ internal_primary \in SUBSET {PrimaryColumn}
    BY <1>0, SelectionType
  <2>3. done = Len(steps)
    BY <2>1
  <2> HIDE DEF steps, wanted, block
  <2>4. /\ StepsFor(block, Decoded, internal_primary) \in Seq(Steps)
        /\ \A s \in StreamsOf(Decoded) :
             \E i \in 1..Len(StepsFor(block, Decoded, internal_primary)) :
               StepsFor(block, Decoded, internal_primary)[i] = Step("stored", s)
        /\ internal_primary # {} =>
             \E i \in 1..Len(StepsFor(block, Decoded, internal_primary)) :
               StepsFor(block, Decoded, internal_primary)[i].stage = "primary"
    BY ONLY <2>2, StepsCover
  <2> QED
    BY <2>2, <2>3, <2>4 DEF wanted
<1>2. /\ \A read \in Range(reads) : read.contents = "intact" /\ read.stream \in wanted
      /\ \A j \in 1..Len(steps) :
           /\ steps[j] \notin block.broken
           /\ steps[j].stage = "primary" => Honest(block)
           /\ steps[j].stage = "stored" => \E read \in Range(reads) : read.stream = steps[j].of
  BY <1>0, <1>1 DEF DecodeInv, Checked
<1> HIDE DEF block, steps, wanted
<1>3. ASSUME NEW s \in wanted PROVE \E read \in Range(reads) : read.stream = s
  <2>1. PICK i \in 1..Len(steps) : steps[i] = Step("stored", s)
    BY <1>1
  <2>2. steps[i].stage = "stored" /\ steps[i].of = s
    BY <2>1 DEF Step
  <2> QED
    BY <1>2, <2>2
<1>4. {read.stream : read \in Range(reads)} = wanted
  BY <1>2, <1>3
<1>5. \A step \in Range(steps) : step \notin block.broken
  <2>1. \A step \in Range(steps) : \E j \in 1..Len(steps) : step = steps[j]
    BY <1>1 DEF Range
  <2> QED
    BY <1>2, <2>1
<1> QED
  BY <1>1, <1>2, <1>4, <1>5 DEF block, steps, wanted

LEMMA FinishStep ==
    ASSUME ScanInv, Finish
    PROVE  ScanInv'
<1> DEFINE k == next_index
           block == file[k]
           rows == FinalRows(block)
<1>0. /\ ShapeInv /\ DecodeInv /\ PlanShape /\ pc = "decode" /\ done = Len(work)
      /\ UNCHANGED <<primary, file, mode, plan, blocks, next_index, budget, remaining>>
  BY DEF ScanInv, ShapeInv, Finish, environment
<1>1. /\ k \in 1..Len(file) /\ BlockShape(block) /\ reads \in Seq(Found)
      /\ done \in Nat /\ done <= Len(Selection(block))
      /\ budget \in Budgets /\ remaining \in Nat /\ metrics \in Metrics
      /\ Spent(done, "bytes") \in Nat
  <2>1. done \in 0..Len(Selection(block)) /\ Len(Selection(block)) \in Nat
    BY <1>0, SpentType
  <2> QED
    BY <1>0, <2>1, SpentType
<1>2. Spent(done, "bytes") <= MaxBlockBytes
  <2>1. remaining = MaxBlockBytes - Spent(done, "bytes") /\ MaxBlockBytes \in Nat
    BY <1>0, ScanAssumption DEF DecodeInv, Spent
  <2> QED
    BY <1>1, <2>1
<1>3. /\ {read.stream : read \in Range(reads)} = StreamsOf(Decoded)
      /\ \A read \in Range(reads) : read.contents = "intact"
      /\ Range(Selection(block)) \cap block.broken = {}
      /\ internal_primary # {} => Honest(block)
  BY <1>0, AllChecked
<1>4. rows \in Seq(Nat) /\ InFileOrder(rows) /\ Range(rows) = Matches(plan.range, block)
  BY <1>0, <1>1, <1>3, FinalExact
<1>5. \/ /\ rows = <<>> /\ Answer(k, "empty", <<>>, reads) /\ pc' = "next" /\ UNCHANGED metrics
      \/ Answer(k, "batch", rows, reads) /\ pc' = "idle" /\ metrics' = record_rows(rows)
  BY DEF Finish, FinalRows
<1>6. \A n \in Nat : n + 0 = n
  OBVIOUS
<1>7. ASSUME NEW kind \in {"empty", "batch"}
      PROVE  /\ Failed(kind) = 0 /\ kind \in Underway \ {"frame", "decode"} /\ Frame(pc) = Frame(kind)
             /\ done + Failed(kind) = done /\ Refuses(kind, done)
  <2>1. Failed(kind) = 0
    BY <1>7 DEF Failed
  <2>2. done + Failed(kind) = done
    BY <1>1, <2>1
  <2>3. Refuses(kind, done)
    BY <1>2, <1>7, <2>2 DEF Refuses
  <2> QED
    BY <1>0, <1>7, <2>1, <2>2, <2>3 DEF Underway, Frame
<1> HIDE DEF k, block, rows
<1>8. CASE rows = <<>> /\ Answer(k, "empty", <<>>, reads) /\ pc' = "next" /\ UNCHANGED metrics
  <2>1. /\ answers' = Append(answers, Entry(k, "empty", <<>>, done, reads))
        /\ work' = <<>> /\ done' = 0 /\ reads' = <<>>
    BY <1>8 DEF Answer
  <2>2. Range(<<>>) = {} /\ <<>> \in Seq(Nat) /\ Len(<<>>) = 0
    BY DEF Range
  <2>3. Told("empty", <<>>, reads)
    BY <1>3, <1>4, <1>8, <2>2 DEF Told, k, block
  <2>4. metrics'.rows_returned = metrics.rows_returned + 0
    BY <1>1, <1>8 DEF Metrics
  <2>5. Reckons("empty", <<>>, done)
    BY <1>0, <1>1, <1>7, <1>8, <2>2, <2>4 DEF Reckons, k, block
  <2> QED
    BY <1>0, <1>1, <1>7, <1>8, <2>1, <2>2, <2>3, <2>5, InFlightCloses DEF k
<1>9. CASE Answer(k, "batch", rows, reads) /\ pc' = "idle" /\ metrics' = record_rows(rows)
  <2>1. /\ answers' = Append(answers, Entry(k, "batch", rows, done, reads))
        /\ work' = <<>> /\ done' = 0 /\ reads' = <<>>
    BY <1>9 DEF Answer
  <2>2. Told("batch", rows, reads)
    BY <1>3, <1>4 DEF Told, k, block
  <2>3. metrics' = [metrics EXCEPT !.rows_returned = @ + Len(rows)] /\ Len(rows) \in Nat
    BY <1>4, <1>9 DEF record_rows
  <2>4. /\ metrics' \in Metrics /\ metrics'.blocks_considered = metrics.blocks_considered
        /\ metrics'.blocks_pruned = metrics.blocks_pruned
        /\ metrics'.streams_decoded = metrics.streams_decoded
        /\ metrics'.stream_bytes_decoded = metrics.stream_bytes_decoded
        /\ metrics'.bytes_read = metrics.bytes_read
        /\ metrics'.rows_returned = metrics.rows_returned + Len(rows)
    BY <1>1, <2>3, RowsCounted
  <2>5. Reckons("batch", rows, done)
    BY <1>0, <1>1, <1>7, <2>4 DEF Reckons, k, block
  <2> QED
    BY <1>0, <1>1, <1>4, <1>7, <1>9, <2>1, <2>2, <2>5, InFlightCloses DEF k
<1> QED
  BY <1>5, <1>8, <1>9

-----------------------------------------------------------------------------
(* The properties                                                          *)

\* The invariant holds whatever blocks other writers commit, whatever is damaged
\* and whenever, and for every projection, range and limit of the scan.
THEOREM ScanInvariant == Spec => []ScanInv
<1>1. ScanInv /\ [Next]_vars => ScanInv'
  <2> SUFFICES ASSUME ScanInv, [Next]_vars PROVE ScanInv'
    OBVIOUS
  <2>0. ShapeInv /\ OrderInv
    BY DEF ScanInv
  <2>1. ASSUME Open \/ Project \/ PrimaryRange \/ Call \/ ScanDone PROVE ScanInv'
    BY <2>0, <2>1, RestSteps, RestsKeep, ConfigureShape DEF ScanInv
  <2>2. ASSUME Refresh PROVE ScanInv'
    BY <2>0, <2>2, RestSteps, RestsKeep, RefreshShape DEF ScanInv
  <2>3. ASSUME Commit \/ Damage \/ UNCHANGED vars PROVE ScanInv'
    BY <2>0, <2>3, RestSteps, RestsKeep, OthersShape DEF ScanInv
  <2> QED
    BY <2>1, <2>2, <2>3, ConsumeStep, ReadStep, DecodeAdvance, FinishStep DEF Next, Advance
<1> QED
  BY <1>1, InitScan, PTL DEF Spec

\* Scan::next and Tail::poll deal with every block exactly once and in file order,
\* failures and passed-over blocks included.
THEOREM BlocksAreOrdered == Spec => []EachBlockOnce
<1>1. ScanInv => EachBlockOnce
  BY DEF ScanInv, OrderInv
<1> QED
  BY <1>1, ScanInvariant, PTL

\* A batch of decode_selected_block_at was read from the streams of its columns, each
\* of which matched its checksum when it was read, whatever was damaged and whenever;
\* and when the primary was decoded, the header's claims about it are true.
THEOREM BatchesVerified == Spec => []BatchesAreVerified
<1>1. ScanInv => BatchesAreVerified
  <2> SUFFICES ASSUME ScanInv PROVE BatchesAreVerified
    OBVIOUS
  <2>1. \A block : Selection(block) = StepsFor(block, Decoded, internal_primary)
    BY DEF Selection
  <2>2. \A i \in 1..Len(answers) :
          answers[i].kind \in {"batch", "empty"} =>
            /\ {read.stream : read \in Range(answers[i].reads)}
                  = UNION {Range(Streams[c]) : c \in Range(Decoded)}
            /\ \A read \in Range(answers[i].reads) : read.contents = "intact"
            /\ Range(Selection(file[answers[i].block])) \cap file[answers[i].block].broken = {}
            /\ internal_primary # {} => Honest(file[answers[i].block])
    BY <2>1 DEF ScanInv, EntriesInv, Sound, True, StreamsOf
  <2> QED
    BY <2>2 DEF BatchesAreVerified
<1> QED
  BY <1>1, ScanInvariant, PTL

\* filter_batch and should_prune lose no row of the range and let in no other,
\* whether the rows are searched by halves or one by one.
THEOREM AnswersExact == Spec => []AnswersAreExact
<1>1. ScanInv => AnswersAreExact
  <2> SUFFICES ASSUME ScanInv PROVE AnswersAreExact
    OBVIOUS
  <2>1. \A block : Reference(block) = Matches(plan.range, block)
    BY DEF Reference, Matches, InRange
  <2>2. \A i \in 1..Len(answers) :
          /\ answers[i].kind = "batch" =>
               /\ Range(answers[i].rows) = Matches(plan.range, file[answers[i].block])
               /\ InFileOrder(answers[i].rows)
          /\ answers[i].kind = "empty" => Matches(plan.range, file[answers[i].block]) = {}
          /\ answers[i].kind = "pruned" /\ Honest(file[answers[i].block]) =>
               Matches(plan.range, file[answers[i].block]) = {}
    BY DEF ScanInv, EntriesInv, Sound, True
  <2> QED
    BY <2>1, <2>2 DEF AnswersAreExact
<1> QED
  BY <1>1, ScanInvariant, PTL

\* What has been dealt with comes to what the allowances and the counters say.
LEMMA TotalIs ==
    ASSUME ScanInv, NEW field \in Fields
    PROVE  /\ Len(answers) \in Nat /\ Len(Dealt) = Len(answers) + InFlight /\ InFlight \in {0, 1}
           /\ \A i \in 1..Len(answers) : Dealt[i] = answers[i]
           /\ InFlight = 1 => Dealt[Len(answers) + 1] = Present
           /\ \A n \in 0..Len(answers) :
                Total(field, n) = Tally(answers, n, file, Decoded, internal_primary, field)
           /\ Total(field, Len(Dealt)) = Booked(budget, metrics, Discovered, field)
<1> DEFINE n == Len(answers)
           T(given, k) == Tally(given, k, file, Decoded, internal_primary, field)
<1>0. ShapeInv /\ OrderInv /\ DecodeInv /\ EntriesInv /\ BooksInv
  BY DEF ScanInv
<1>1. n \in Nat /\ InFlight \in {0, 1} /\ answers \in Seq(Entries)
  BY <1>0, AnswersOfFile DEF ShapeInv
<1>2. /\ InFlight = 0 => Dealt = answers
      /\ InFlight = 1 => Dealt = Append(answers, Present)
  BY DEF Dealt, Present
<1>3. /\ Len(Dealt) = n + InFlight /\ \A i \in 1..n : Dealt[i] = answers[i]
      /\ InFlight = 1 => Dealt[n + 1] = Present
  <2>1. CASE InFlight = 0
    BY <1>1, <1>2, <2>1
  <2>2. CASE InFlight = 1
    <3> HIDE DEF Present
    <3> QED
      BY <1>1, <1>2, <2>2
  <2> QED
    BY <1>1, <2>1, <2>2
<1>4. \A k : Total(field, k) = T(Dealt, k)
  BY DEF Total, Tally, Part, Selection
<1>5. ASSUME NEW k \in 0..n PROVE T(Dealt, k) = T(answers, k)
  <2>1. \A i \in 1..k : Dealt[i] = answers[i] /\ file[answers[i].block] = file[answers[i].block]
    BY <1>1, <1>3
  <2> HIDE DEF Dealt
  <2> QED
    BY <2>1, TallySame
<1>6. Booked(budget, metrics, Discovered, field) = T(answers, n) + Current(field)
  BY <1>0 DEF BooksInv
<1>7. Ledger(answers, n, file, Decoded, internal_primary)
  BY <1>0, AnswersLedger
<1>8. T(answers, n) \in Nat
  <2>1. n \in 0..n
    BY <1>1
  <2> HIDE DEF n
  <2> QED
    BY <1>1, <1>7, <2>1, TallyNext
<1>9. T(Dealt, Len(Dealt)) = T(answers, n) + Current(field)
  <2>1. CASE InFlight = 0
    <3>1. Current(field) = 0 /\ Len(Dealt) = n /\ n \in 0..n
      BY <1>1, <1>3, <2>1 DEF Current
    <3> HIDE DEF T
    <3> QED
      BY <1>5, <1>8, <3>1
  <2>2. CASE InFlight = 1
    <3> DEFINE m == n + 1
    <3>1. /\ Present \in Entries /\ BlockShape(file[next_index])
          /\ Charges(Present) <= Len(Selection(file[next_index])) /\ Present.block = next_index
      BY <1>0, <2>2, PresentType, SelectionType DEF Present, Entry
    <3>2. m \in Nat /\ Len(Dealt) = m /\ m - 1 = n /\ m \in 1..m /\ n \in 0..n
          /\ \A i \in 1..m : i \in 1..n \/ i = m
      BY <1>1, <1>3, <2>2
    <3>3. Dealt[m] = Present
      BY <1>3, <2>2
    <3>4. Selection(file[next_index]) = StepsFor(file[next_index], Decoded, internal_primary)
      BY DEF Selection
    <3> HIDE DEF n, m, Present, Dealt
    <3>5. Ledger(Dealt, m, file, Decoded, internal_primary)
      <4>1. ASSUME NEW i \in 1..m
            PROVE  /\ Dealt[i] \in Entries /\ BlockShape(file[Dealt[i].block])
                   /\ Charges(Dealt[i])
                        <= Len(StepsFor(file[Dealt[i].block], Decoded, internal_primary))
        <5>1. CASE i \in 1..n
          BY <1>3, <1>7, <5>1 DEF Ledger
        <5>2. CASE i = m
          BY <3>1, <3>3, <3>4, <5>2
        <5> QED
          BY <3>2, <5>1, <5>2
      <4> QED
        BY <1>7, <4>1 DEF Ledger
    <3>6. T(Dealt, m) = T(Dealt, m - 1) + Part(Dealt, m, file, Decoded, internal_primary, field)
      BY <3>2, <3>5, TallyNext
    <3>7. Part(Dealt, m, file, Decoded, internal_primary, field) = Current(field)
      BY <2>2, <3>1, <3>3, <3>4 DEF Part, Current
    <3> HIDE DEF T
    <3>8. T(Dealt, m - 1) = T(answers, n)
      BY <1>5, <3>2
    <3> QED
      BY <3>2, <3>6, <3>7, <3>8
  <2> QED
    BY <1>1, <2>1, <2>2
<1> HIDE DEF T, Dealt
<1>10. \A k \in 0..n : Total(field, k) = T(answers, k)
  BY <1>4, <1>5
<1>11. Total(field, Len(Dealt)) = Booked(budget, metrics, Discovered, field)
  BY <1>4, <1>6, <1>9
<1> QED
  BY <1>1, <1>3, <1>10, <1>11 DEF T

\* The charges of ScanBudget and Budget keep the blocks of a scan within its rows and
\* bytes, and each block within its own, however many of them fail; and a block is
\* refused only when it would go past what is left.
THEOREM AllowancesHold == Spec => []AllowancesBound
<1>1. ScanInv => AllowancesBound
  <2> SUFFICES ASSUME ScanInv PROVE AllowancesBound
    OBVIOUS
  <2> DEFINE n == Len(answers)
  <2>0. ShapeInv /\ DecodeInv /\ EntriesInv
    BY DEF ScanInv
  <2>1. /\ budget.rows \in Nat /\ budget.bytes \in Nat /\ remaining \in Nat
        /\ MaxRowsPerScan \in Nat /\ MaxScanBytes \in Nat /\ MaxBlockBytes \in Nat
    BY <2>0, ScanAssumption DEF ShapeInv, ScanShape
  <2>2. "rows" \in Fields /\ "bytes" \in Fields
    BY DEF Fields
  <2>3. /\ n \in Nat /\ Len(Dealt) = n + InFlight /\ InFlight \in {0, 1}
        /\ \A i \in 1..n : Dealt[i] = answers[i]
        /\ InFlight = 1 => Dealt[n + 1] = Present
        /\ \A k \in 0..n :
             /\ Total("rows", k) = Tally(answers, k, file, Decoded, internal_primary, "rows")
             /\ Total("bytes", k) = Tally(answers, k, file, Decoded, internal_primary, "bytes")
        /\ Total("rows", Len(Dealt)) = Booked(budget, metrics, Discovered, "rows")
        /\ Total("bytes", Len(Dealt)) = Booked(budget, metrics, Discovered, "bytes")
    BY <2>2, TotalIs
  <2>4. Total("rows", Len(Dealt)) <= MaxRowsPerScan /\ Total("bytes", Len(Dealt)) <= MaxScanBytes
    BY <2>1, <2>3, BookedIs
  <2>5. \A block : Selection(block) = StepsFor(block, Decoded, internal_primary)
    BY DEF Selection
  <2> HIDE DEF n, Dealt, Present
  <2>6. ASSUME NEW i \in 1..Len(Dealt)
        PROVE  LET answer == Dealt[i]
                   block == file[answer.block]
                   own == Account(answer, block, Selection(block), "bytes")
                   next == Charge(block, Selection(block)[answer.steps + 1])
               IN  /\ own <= MaxBlockBytes
                   /\ answer.kind = "scan_rows" => Total("rows", i) + Rows(block) > MaxRowsPerScan
                   /\ answer.kind = "block_bytes" => own + next > MaxBlockBytes
                   /\ answer.kind = "scan_bytes" => Total("bytes", i) + next > MaxScanBytes
    <3> DEFINE answer == Dealt[i]
               block == file[answer.block]
               own == Account(answer, block, Selection(block), "bytes")
               next == Charge(block, Selection(block)[answer.steps + 1])
    <3>1. own = Upto(block, Selection(block), Charges(answer), "bytes")
      BY AccountIs
    <3>2. CASE i \in 1..n
      <4>1. answer = answers[i] /\ i \in 0..n
        BY <2>3, <3>2
      <4>2. Fair(answer, block, Decoded, internal_primary, Total("rows", i), Total("bytes", i))
        BY <2>0, <2>3, <3>2, <4>1 DEF EntriesInv, Sound, n
      <4> HIDE DEF answer
      <4> QED
        BY <2>5, <3>1, <4>2 DEF Fair, answer
    <3>3. CASE InFlight = 1 /\ i = n + 1
      <4>1. answer = Present
        BY <2>3, <3>3
      <4>2. /\ Present.kind \in {"frame", "decode"} /\ Charges(Present) = done /\ Present.kind = pc
            /\ Present.block = next_index
        BY <2>0, <3>3, PresentType DEF Present, Entry
      <4>3. own = Spent(done, "bytes")
        BY <3>1, <4>1, <4>2 DEF Spent
      <4>4. Spent(done, "bytes") \in Nat /\ Spent(0, "bytes") = 0
        BY <4>2, SpentType
      <4>5. Spent(done, "bytes") <= MaxBlockBytes
        <5>1. CASE pc = "frame"
          BY <2>0, <2>1, <4>4, <5>1 DEF DecodeInv
        <5>2. CASE pc = "decode"
          <6>1. remaining = MaxBlockBytes - Spent(done, "bytes")
            BY <2>0, <5>2 DEF DecodeInv, Spent
          <6> QED
            BY <2>1, <4>4, <6>1
        <5> QED
          BY <4>2, <5>1, <5>2
      <4> QED
        BY <4>1, <4>2, <4>3, <4>5
    <3> QED
      BY <2>3, <3>2, <3>3
  <2> QED
    BY <2>4, <2>6 DEF AllowancesBound
<1> QED
  BY <1>1, ScanInvariant, PTL

\* ScanMetrics is what the blocks dealt with and the frames discovered come to, at
\* every moment: nothing is counted twice, and nothing is left out.
THEOREM MetricsDescribe == Spec => []MetricsDescribeAnswers
<1>1. ScanInv => MetricsDescribeAnswers
  <2> SUFFICES ASSUME ScanInv PROVE MetricsDescribeAnswers
    OBVIOUS
  <2> DEFINE n == Len(Dealt)
  <2>1. metrics \in Metrics
    BY DEF ScanInv, ShapeInv
  <2>2. \A field \in Fields : Total(field, n) = Booked(budget, metrics, Discovered, field)
    BY TotalIs
  <2> HIDE DEF n
  <2>3. /\ Total("considered", n) = metrics.blocks_considered
        /\ Total("pruned", n) = metrics.blocks_pruned
        /\ Total("streams", n) = metrics.streams_decoded
        /\ Total("stream_bytes", n) = metrics.stream_bytes_decoded
        /\ Total("read", n) = metrics.bytes_read - Discovered
        /\ Total("returned", n) = metrics.rows_returned
    BY <2>2, BookedIs DEF Fields
  <2>4. Discovered \in Nat
    BY DiscoveredType DEF ScanInv
  <2>5. metrics.bytes_read = Discovered + Total("read", n)
    BY <2>1, <2>3, <2>4 DEF Metrics
  <2>6. metrics = [ blocks_considered |-> metrics.blocks_considered,
                    blocks_pruned |-> metrics.blocks_pruned,
                    streams_decoded |-> metrics.streams_decoded,
                    stream_bytes_decoded |-> metrics.stream_bytes_decoded,
                    bytes_read |-> metrics.bytes_read,
                    rows_returned |-> metrics.rows_returned ]
    BY <2>1 DEF Metrics
  <2> QED
    BY <2>3, <2>5, <2>6 DEF MetricsDescribeAnswers, n
<1> QED
  BY <1>1, ScanInvariant, PTL
=============================================================================
