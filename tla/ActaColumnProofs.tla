-------------------------- MODULE ActaColumnProofs --------------------------
(***************************************************************************)
(* Proofs about ActaColumn: what a column is encoded as, what a reader     *)
(* accepts of it, and that the two fit.                                    *)
(***************************************************************************)
EXTENDS ActaColumn, ActaStreamProofs

-----------------------------------------------------------------------------
(* Columns and what is stored of them                                      *)

IsColumn(c) ==
    /\ c.family \in Families /\ {c.signed, c.nullable} \subseteq BOOLEAN
    /\ c.width \in Nat /\ (IsVariable(c) \/ c.width # 0)
    /\ IsNumeric(c) => c.width <= WordBytes

CountedBytes == {b \in Seq(Bytes) : Len(b) \in Values(CountType)}
WideBytes(width) == {b \in Seq(Bytes) : Len(b) = width}

\* The values of a column before text is checked.
Domain(c) ==
    IF c.family = "bool" THEN BOOLEAN
    ELSE IF IsNumeric(c) THEN Values(c)
    ELSE IF IsVariable(c) THEN CountedBytes
    ELSE WideBytes(c.width)

Kinds == {"validity", "values", "lengths", "dictionary_values", "dictionary_lengths", "indices",
          "run_values", "run_lengths"}
Transforms == {"raw", "bit_packed", "boolean_rle", "frame_of_reference", "delta",
               "delta_of_delta", "byte_stream_split"}
StreamRecords == [kind : Kinds, transform : Transforms, elements : Nat, bytes : Seq(Bytes)]

StoredColumns ==
    [ layout : DOMAIN AllowedKinds, streams : Seq(StreamRecords), implicit : BOOLEAN,
      null_count : Nat, dense_count : Nat, statistics : Seq(Bytes) ]

\* As many values as were asked for, each of the column's domain.
Filled(values, c, count) == values \in Seq(Domain(c)) /\ Len(values) = count

LEMMA ElementsOf ==
    ASSUME NEW T, NEW v \in Seq(T), NEW S \in SUBSET (1..Len(v))
    PROVE  /\ Cardinality(S) \in Nat
           /\ ElementsAt(v, S) \in Seq(T) /\ Len(ElementsAt(v, S)) = Cardinality(S)
           /\ \A r \in 1..Cardinality(S) : ElementsAt(v, S)[r] = v[Nth(S, r)]
<1> DEFINE n == Len(v)
           R == Cardinality(S)
<1>1. n \in Nat /\ R \in Nat
  BY RankStep
<1>2. \A r \in 1..R : Nth(S, r) \in 1..n
  BY <1>1, NthOf
<1>3. \A k \in 1..n : v[k] \in T
  OBVIOUS
<1>4. ElementsAt(v, S) = [r \in 1..R |-> v[Nth(S, r)]]
  BY DEF ElementsAt
<1> HIDE DEF n, R
<1>5. \A r \in 1..R : v[Nth(S, r)] \in T
  BY <1>2, <1>3
<1> QED
  BY <1>1, <1>4, <1>5 DEF R

LEMMA StreamsOfKind ==
    ASSUME NEW stored_ \in StoredColumns, NEW kind
    PROVE  StreamsOf(stored_, kind) \in Seq(StreamRecords)
<1>1. stored_.streams \in Seq(StreamRecords)
  BY DEF StoredColumns
<1> DEFINE v == stored_.streams
           S == {s \in DOMAIN v : v[s].kind = kind}
<1>2. S \in SUBSET (1..Len(v))
  BY <1>1
<1>3. StreamsOf(stored_, kind) = ElementsAt(v, S)
  BY DEF StreamsOf
<1> HIDE DEF v, S
<1> QED
  BY <1>1, <1>2, <1>3, ElementsOf DEF v

LEMMA TheStream ==
    ASSUME NEW stored_ \in StoredColumns, NEW kind, NEW count, Has(stored_, kind, count)
    PROVE  /\ The(stored_, kind) \in StreamRecords
           /\ The(stored_, kind).bytes \in Seq(Bytes) /\ The(stored_, kind).elements = count
<1> DEFINE streams == StreamsOf(stored_, kind)
<1>1. streams \in Seq(StreamRecords)
  BY StreamsOfKind
<1>2. Len(streams) = 1 /\ streams[1].elements = count /\ The(stored_, kind) = streams[1]
  BY DEF Has, The
<1> HIDE DEF streams
<1>3. streams[1] \in StreamRecords
  BY <1>1, <1>2
<1> QED
  BY <1>2, <1>3 DEF StreamRecords

\* A decoder of integers looks at the width and the signedness of the column only.
AsType(c) == [width |-> c.width, signed |-> c.signed]

LEMMA IntegerOfType ==
    ASSUME NEW c, NEW p, NEW count, NEW transform
    PROVE  /\ Values(c) = Values(AsType(c))
           /\ integer(p, count, c, transform) = integer(p, count, AsType(c), transform)
<1> DEFINE t == AsType(c)
<1>0. t.width = c.width /\ t.signed = c.signed
  BY DEF AsType
<1> HIDE DEF t
<1>1. Values(c) = Values(t)
  BY <1>0 DEF Values
<1>2. \A vs : narrowed(vs, c) = narrowed(vs, t)
  BY <1>1, Zenon DEF narrowed
<1>3. raw_integers(p, count, c) = raw_integers(p, count, t)
  BY <1>0, <1>2, Zenon DEF raw_integers
<1>4. packed_integers(p, count, c) = packed_integers(p, count, t)
  BY <1>2, Zenon DEF packed_integers
<1>5. frame_of_reference(p, count, c) = frame_of_reference(p, count, t)
  BY <1>0, <1>2, Zenon DEF frame_of_reference
<1>6. delta(p, count, c) = delta(p, count, t)
  BY <1>0, <1>2, Zenon DEF delta
<1>7. delta_of_delta(p, count, c) = delta_of_delta(p, count, t)
  BY <1>0, <1>2, Zenon DEF delta_of_delta
<1> QED
  BY <1>1, <1>3, <1>4, <1>5, <1>6, <1>7, Zenon DEF t, integer

LEMMA ColumnIntegers ==
    ASSUME NEW c, IsColumn(c), NEW p \in Seq(Bytes), NEW count \in Nat, NEW transform,
           integer(p, count, c, transform).ok, IsNumeric(c) \/ c = CountType
    PROVE  LET values == integer(p, count, c, transform).values
           IN  values \in Seq(Values(c)) /\ Len(values) = count
<1> DEFINE t == AsType(c)
           out == integer(p, count, t, transform)
<1>1. t \in IntegerTypes
  <2>1. c.width \in Nat \ {0} /\ c.signed \in BOOLEAN
    BY Widths DEF IsColumn, IsNumeric, IsVariable, CountType
  <2> QED
    BY <2>1 DEF AsType, IntegerTypes
<1>2. Values(c) = Values(t) /\ integer(p, count, c, transform) = out
  BY IntegerOfType
<1>3. transform \in IntegerTransforms
  <2>1. CASE transform \notin IntegerTransforms
    <3>1. out = Corrupt
      BY <2>1 DEF integer, IntegerTransforms
    <3> QED
      BY <1>2, <3>1 DEF Corrupt
  <2> QED
    BY <2>1
<1>4. Fits(out.values, count, t)
  <2>1. out.ok
    BY <1>2
  <2> HIDE DEF t
  <2> QED
    BY <1>1, <1>3, <2>1, AcceptedIntegers
<1> HIDE DEF t, out
<1>5. out.values \in Seq(Values(t)) /\ Len(out.values) = count
  BY <1>4 DEF Fits
<1> QED
  BY <1>2, <1>5

LEMMA ColumnBooleans ==
    ASSUME NEW p \in Seq(Bytes), NEW count \in Nat, NEW transform,
           booleans(p, count, transform).ok
    PROVE  LET values == booleans(p, count, transform).values
           IN  values \in Seq(BOOLEAN) /\ Len(values) = count
<1> DEFINE out == booleans(p, count, transform)
<1>1. CASE transform = "raw"
  <2>1. out = raw_booleans(p, count)
    BY <1>1 DEF booleans
  <2>2. out.values = [k \in 1..count |-> Bit(p, k - 1) = 1]
    BY <2>1 DEF raw_booleans, Decoded, Corrupt
  <2> HIDE DEF out
  <2>3. out.values \in Seq(BOOLEAN) /\ Len(out.values) = count
    BY <2>2
  <2> QED
    BY <2>3 DEF out
<1>2. CASE transform = "bit_packed"
  <2>1. out = packed_booleans(p, count)
    BY <1>2 DEF booleans
  <2> DEFINE v == bit_unpack(p, count).values
  <2>2. out.values = [k \in 1..count |-> v[k] = 1]
    BY <2>1 DEF packed_booleans, Decoded, Corrupt
  <2> HIDE DEF v, out
  <2>3. out.values \in Seq(BOOLEAN) /\ Len(out.values) = count
    BY <2>2
  <2> QED
    BY <2>3 DEF out
<1>3. CASE transform = "boolean_rle"
  <2>1. out = boolean_rle_values(p, count)
    BY <1>3 DEF booleans
  <2> QED
    BY <2>1, BooleanRuns
<1>4. CASE transform \notin {"raw", "bit_packed", "boolean_rle"}
  <2>1. out = Corrupt
    BY <1>4 DEF booleans
  <2> QED
    BY <2>1 DEF Corrupt
<1> QED
  BY <1>1, <1>2, <1>3, <1>4

-----------------------------------------------------------------------------
(* Dense values                                                            *)

\* A byte of a split stream.
LEMMA SplitPlace ==
    ASSUME NEW w \in Nat \ {0}, NEW count \in Nat, NEW k \in 1..(count * w)
    PROVE  /\ (k - 1) % w \in 0..(w - 1) /\ (k - 1) \div w \in 0..(count - 1)
           /\ k - 1 = ((k - 1) \div w) * w + ((k - 1) % w)
           /\ ((k - 1) % w) * count + (k - 1) \div w + 1 \in 1..(count * w)
<1> DEFINE x == k - 1
           q == x \div w
           m == x % w
<1>1. x \in Nat /\ x < count * w /\ count * w \in Nat
  OBVIOUS
<1>2. q \in Int /\ m \in 0..(w - 1) /\ x = q * w + m
  BY <1>1, Quotients
<1> HIDE DEF q, m, x
<1>3. q >= 0
  <2>1. CASE q < 0
    <3>1. q + 1 <= 0 /\ (q + 1) * w <= 0
      BY <1>2, <2>1
    <3>2. (q + 1) * w = q * w + w
      BY <1>2
    <3> QED
      BY <1>1, <1>2, <3>1, <3>2
  <2> QED
    BY <1>2, <2>1
<1>4. q <= count - 1
  <2>1. CASE q >= count
    <3>1. q * w >= count * w
      BY <1>2, <2>1
    <3> QED
      BY <1>1, <1>2, <3>1
  <2> QED
    BY <1>2, <2>1
<1>5. m * count + q + 1 \in 1..(count * w)
  <2>1. m * count \in Nat /\ m * count <= (w - 1) * count
    BY <1>2
  <2>2. (w - 1) * count = count * w - count
    OBVIOUS
  <2> HIDE DEF x
  <2>3. m * count + q + 1 <= count * w
    BY <1>2, <1>4, <2>1, <2>2
  <2> QED
    BY <1>1, <1>2, <1>3, <2>1, <2>3
<1> QED
  BY <1>2, <1>3, <1>4, <1>5 DEF q, m, x

\* Bytes cut into values of one width.
LEMMA ChunksOf ==
    ASSUME NEW p \in Seq(Bytes), NEW w \in Nat \ {0}, NEW count \in Nat, Len(p) = count * w
    PROVE  /\ Chunks(p, w) \in Seq(WideBytes(w)) /\ Len(Chunks(p, w)) = count
           /\ \A k \in 1..count : Chunks(p, w)[k] = SubSeq(p, (k - 1) * w + 1, k * w)
<1>1. Len(p) \div w = count
  BY Multiples
<1> DEFINE part(k) == SubSeq(p, (k - 1) * w + 1, k * w)
<1>2. Chunks(p, w) = [k \in 1..count |-> part(k)]
  BY <1>1 DEF Chunks
<1>3. ASSUME NEW k \in 1..count PROVE part(k) \in WideBytes(w)
  <2> DEFINE a == (k - 1) * w
  <2>1. a \in Nat /\ a + w = k * w /\ k * w <= count * w
    <3>1. (k - 1) * w >= 0 /\ (k - 1) * w + w = k * w /\ (count - k) * w >= 0
      OBVIOUS
    <3>2. (count - k) * w = count * w - k * w
      OBVIOUS
    <3> QED
      BY <3>1, <3>2
  <2>2. part(k) = SubSeq(p, a + 1, a + w)
    BY <2>1, Zenon
  <2> HIDE DEF a
  <2>3. part(k) = [b \in 1..w |-> p[a + b]]
    BY <2>1, <2>2, Slice
  <2>4. \A b \in 1..w : p[a + b] \in Bytes
    BY <2>1
  <2> HIDE DEF part
  <2>5. part(k) \in Seq(Bytes) /\ Len(part(k)) = w
    BY <2>3, <2>4
  <2> QED
    BY <2>5 DEF WideBytes
<1> HIDE DEF part
<1>4. Chunks(p, w) \in Seq(WideBytes(w)) /\ Len(Chunks(p, w)) = count
  BY <1>2, <1>3
<1> QED
  BY <1>2, <1>4 DEF part

LEMMA SplitBytesType ==
    ASSUME NEW p \in Seq(Bytes), NEW w \in Nat \ {0}, NEW count \in Nat,
           byte_stream_split(p, count, w).ok
    PROVE  byte_stream_split(p, count, w).values \in Seq(Bytes)
<1> DEFINE place(k) == ((k - 1) % w) * count + (k - 1) \div w + 1
           n == count * w
<1>1. /\ Len(p) = n
      /\ byte_stream_split(p, count, w).values = [k \in 1..n |-> p[place(k)]]
  BY DEF byte_stream_split, Decoded, Corrupt
<1>2. \A k \in 1..n : place(k) \in 1..n
  BY SplitPlace
<1>3. n \in Nat
  OBVIOUS
<1> HIDE DEF place, n
<1>4. \A k \in 1..n : p[place(k)] \in Bytes
  BY <1>1, <1>2
<1> QED
  BY <1>1, <1>3, <1>4

LEMMA CanonicalValues ==
    ASSUME NEW s \in StreamRecords, NEW w \in Nat \ {0}, canonical_values(s, w).ok
    PROVE  LET values == canonical_values(s, w).values
           IN  values \in Seq(WideBytes(w)) /\ Len(values) = s.elements
<1> DEFINE split == byte_stream_split(s.bytes, s.elements, w)
           bytes == IF s.transform = "raw" THEN s.bytes ELSE split.values
<1>0. s.bytes \in Seq(Bytes) /\ s.elements \in Nat
  BY DEF StreamRecords
<1>1. /\ s.transform = "raw" \/ split.ok
      /\ Len(bytes) = s.elements * w
      /\ canonical_values(s, w) = Decoded(Chunks(bytes, w))
  BY DEF canonical_values, Corrupt
<1>2. bytes \in Seq(Bytes)
  <2>1. split.ok => split.values \in Seq(Bytes)
    BY <1>0, SplitBytesType
  <2> HIDE DEF split
  <2> QED
    BY <1>0, <1>1, <2>1
<1> HIDE DEF bytes
<1>3. Chunks(bytes, w) \in Seq(WideBytes(w)) /\ Len(Chunks(bytes, w)) = s.elements
  BY <1>0, <1>1, <1>2, ChunksOf
<1> QED
  BY <1>1, <1>3 DEF Decoded

LEMMA StoredValues ==
    ASSUME NEW c, IsColumn(c), ~IsVariable(c), NEW s \in StreamRecords, stored_values(c, s).ok
    PROVE  Filled(stored_values(c, s).values, c, s.elements)
<1>0. s.bytes \in Seq(Bytes) /\ s.elements \in Nat
  BY DEF StreamRecords
<1>1. CASE c.family = "bool"
  <2>1. stored_values(c, s) = booleans(s.bytes, s.elements, s.transform)
    BY <1>1 DEF stored_values, IsNumeric
  <2>2. Domain(c) = BOOLEAN
    BY <1>1 DEF Domain
  <2> QED
    BY <1>0, <2>1, <2>2, ColumnBooleans DEF Filled
<1>2. CASE IsNumeric(c)
  <2>1. stored_values(c, s) = integer(s.bytes, s.elements, c, s.transform)
    BY <1>2 DEF stored_values, IsNumeric
  <2>2. Domain(c) = Values(c)
    BY <1>2 DEF Domain, IsNumeric
  <2> QED
    BY <1>0, <1>2, <2>1, <2>2, ColumnIntegers DEF Filled
<1>3. CASE c.family \in {"float", "fixed_binary"}
  <2>1. stored_values(c, s) = canonical_values(s, c.width)
    BY <1>3 DEF stored_values, IsNumeric
  <2>2. Domain(c) = WideBytes(c.width) /\ c.width \in Nat \ {0}
    BY <1>3 DEF Domain, IsNumeric, IsVariable, IsColumn
  <2> QED
    BY <2>1, <2>2, CanonicalValues DEF Filled
<1> QED
  BY <1>1, <1>2, <1>3 DEF IsColumn, IsNumeric, IsVariable, Families

LEMMA CountTypeColumn ==
    /\ CountType.width = CountBytes /\ CountType.signed = FALSE
    /\ Values(CountType) = 0..(2^(ByteBits * CountBytes) - 1)
    /\ 2^(ByteBits * CountBytes) \in Nat /\ CountType \in IntegerTypes
<1>1. CountBytes \in Nat \ {0} /\ FALSE \in BOOLEAN
  BY Widths
<1>2. /\ 2^(ByteBits * CountBytes) \in Nat
      /\ Values([width |-> CountBytes, signed |-> FALSE]) = 0 .. 2^(ByteBits * CountBytes) - 1
  BY <1>1, ValuesOf
<1> QED
  BY <1>1, <1>2 DEF CountType, IntegerTypes

LEMMA DecodedLengths ==
    ASSUME NEW p \in Seq(Bytes), NEW count \in Nat, NEW transform,
           decoded_lengths(p, count, transform).ok
    PROVE  LET lengths == decoded_lengths(p, count, transform).values
           IN  /\ lengths \in Seq(Values(CountType)) /\ lengths \in Seq(Nat) /\ Len(lengths) = count
<1> DEFINE out == integer(p, count, CountType, transform)
<1>1. decoded_lengths(p, count, transform) = out /\ out.ok
  BY DEF decoded_lengths
<1>2. transform \in IntegerTransforms
  <2>1. CASE transform \notin IntegerTransforms
    <3>1. out = Corrupt
      BY <2>1 DEF integer, IntegerTransforms
    <3> QED
      BY <1>1, <3>1 DEF Corrupt
  <2> QED
    BY <2>1
<1>3. Fits(out.values, count, CountType)
  BY <1>1, <1>2, CountTypeColumn, AcceptedIntegers
<1> HIDE DEF out
<1>4. \A v \in Values(CountType) : v \in Nat
  BY CountTypeColumn
<1> DEFINE V == Values(CountType)
           vs == out.values
<1>5. vs \in Seq(Int) /\ Len(vs) = count /\ \A k \in 1..count : vs[k] \in V
  BY <1>3 DEF Fits
<1> HIDE DEF V, vs
<1>6. vs \in Seq(V) /\ Len(vs) = count
  BY <1>5
<1>7. vs \in Seq(Nat)
  BY <1>4, <1>5 DEF V
<1> QED
  BY <1>1, <1>6, <1>7, Zenon DEF V, vs

\* Where each value of a payload begins, from the lengths before it.
LEMMA RunningSums ==
    ASSUME NEW d \in Seq(Nat), NEW s, s = PartialSums(0, d)
    PROVE  /\ s \in Seq(Nat) /\ Len(s) = Len(d) + 1 /\ s[1] = 0 /\ Last(s) = s[Len(d) + 1]
           /\ \A k \in 1..Len(d) : s[k + 1] = s[k] + d[k]
           /\ \A k \in 1..Len(d) : s[k + 1] <= s[Len(d) + 1]
           /\ \A k \in 1..(Len(d) + 1) : s[k] = SumFunctionOnSet(d, 1..(k - 1))
<1> DEFINE n == Len(d)
           z == 0
           P(k) == SumFunctionOnSet(d, 1..k)
<1>0. n \in Nat /\ d \in Seq(Int) /\ z \in Int /\ \A i \in 1..n : d[i] \in Nat
  OBVIOUS
<1>1. P(0) = 0 /\ (\A k \in 0..n : P(k) \in Nat) /\ \A k \in 1..n : P(k) = P(k - 1) + d[k]
  BY <1>0, PrefixSum
<1>2. s \in Seq(Int) /\ Len(s) = n + 1 /\ s[1] = 0 /\ \A k \in 1..n : s[k + 1] = s[k] + d[k]
  <2> HIDE DEF z
  <2>0. s = PartialSums(z, d)
    BY DEF z
  <2>1. /\ s \in Seq(Int) /\ Len(s) = n + 1 /\ s[1] = z
        /\ \A k \in 1..n : s[k + 1] = s[k] + d[k]
    BY <1>0, <2>0, PartialSumsAt
  <2> QED
    BY <2>1 DEF z
<1> DEFINE Good == {k \in Nat : s[k + 1] = P(k)}
<1>3. \A j \in 0..n : P(j) <= P(n)
  BY <1>0, PrefixMonotone
<1> HIDE DEF P, n
<1>4. 0 \in Good
  BY <1>1, <1>2
<1>5. ASSUME NEW k \in 0..(n - 1), k \in Good PROVE k + 1 \in Good
  <2>1. k + 1 \in 1..n /\ (k + 1) - 1 = k /\ k + 1 \in Nat
    BY <1>0
  <2>2. s[(k + 1) + 1] = s[k + 1] + d[k + 1] /\ P(k + 1) = P(k) + d[k + 1]
    BY <1>1, <1>2, <2>1
  <2> QED
    BY <1>5, <2>1, <2>2
<1>6. \A k \in 0..n : k \in Good
  <2> HIDE DEF Good
  <2> QED
    BY <1>0, <1>4, <1>5, SetInduction
<1>7. ASSUME NEW k \in 1..(n + 1) PROVE s[k] = P(k - 1) /\ s[k] \in Nat
  <2>1. k - 1 \in 0..n /\ (k - 1) + 1 = k
    BY <1>0
  <2> QED
    BY <1>1, <1>6, <2>1
<1>8. ASSUME NEW k \in 1..n PROVE s[k + 1] <= s[n + 1]
  <2>1. k + 1 \in 1..(n + 1) /\ n + 1 \in 1..(n + 1) /\ (k + 1) - 1 = k /\ (n + 1) - 1 = n /\ k \in 0..n
    BY <1>0
  <2>2. s[k + 1] = P(k) /\ s[n + 1] = P(n)
    BY <1>7, <2>1
  <2> QED
    BY <1>3, <2>1, <2>2
<1>9. s \in Seq(Nat)
  <2>1. s = [k \in 1..(n + 1) |-> s[k]] /\ n + 1 \in Nat
    BY <1>0, <1>2
  <2>2. \A k \in 1..(n + 1) : s[k] \in Nat
    BY <1>7
  <2> QED
    BY <2>1, <2>2
<1>10. Last(s) = s[n + 1]
  BY <1>2 DEF Last
<1> QED
  BY <1>2, <1>7, <1>8, <1>9, <1>10 DEF n, P

\* The parts lengths cut a payload into.
LEMMA SplitValues ==
    ASSUME NEW p \in Seq(Bytes), NEW d \in Seq(Nat), split_values(p, d).ok
    PROVE  LET values == split_values(p, d).values
           IN  /\ values \in Seq(Seq(Bytes)) /\ Len(values) = Len(d)
               /\ \A k \in 1..Len(d) : values[k] \in Seq(Bytes) /\ Len(values[k]) = d[k]
<1> DEFINE e == PartialSums(0, d)
           n == Len(d)
<1>1. /\ e \in Seq(Nat) /\ Len(e) = n + 1 /\ e[1] = 0 /\ Last(e) = e[n + 1]
      /\ \A k \in 1..n : e[k + 1] = e[k] + d[k]
      /\ \A k \in 1..n : e[k + 1] <= e[n + 1]
  BY RunningSums
<1>2. /\ Last(e) = Len(p)
      /\ split_values(p, d).values = [k \in 1..n |-> SubSeq(p, e[k] + 1, e[k + 1])]
  <2>1. /\ Last(e) = Len(p)
        /\ split_values(p, d).values = [k \in DOMAIN d |-> SubSeq(p, e[k] + 1, e[k + 1])]
    BY DEF split_values, Decoded, Corrupt
  <2>2. DOMAIN d = 1..n
    OBVIOUS
  <2> QED
    BY <2>1, <2>2, Zenon
<1> HIDE DEF e
<1>3. ASSUME NEW k \in 1..n
      PROVE  SubSeq(p, e[k] + 1, e[k + 1]) \in Seq(Bytes)
             /\ Len(SubSeq(p, e[k] + 1, e[k + 1])) = d[k]
  <2> DEFINE a == e[k]
             l == d[k]
  <2>0. k \in 1..(n + 1) /\ DOMAIN e = 1..(n + 1) /\ n \in Nat
    BY <1>1
  <2>1. a \in Nat /\ l \in Nat /\ e[k + 1] = a + l /\ a + l <= Len(p)
    <3>1. a \in Nat
      BY <1>1, <2>0
    <3>2. l \in Nat
      OBVIOUS
    <3> QED
      BY <1>1, <1>2, <3>1, <3>2
  <2> HIDE DEF a, l
  <2>2. SubSeq(p, a + 1, a + l) = [b \in 1..l |-> p[a + b]]
    BY <2>1, Slice
  <2>3. \A b \in 1..l : p[a + b] \in Bytes
    BY <2>1
  <2>4. SubSeq(p, a + 1, a + l) \in Seq(Bytes) /\ Len(SubSeq(p, a + 1, a + l)) = l
    BY <2>1, <2>2, <2>3
  <2> QED
    BY <2>1, <2>4, Zenon DEF a, l
<1> DEFINE part(k) == SubSeq(p, e[k] + 1, e[k + 1])
<1>4. split_values(p, d).values = [k \in 1..n |-> part(k)] /\ \A k \in 1..n : part(k) \in Seq(Bytes) /\ Len(part(k)) = d[k]
  BY <1>2, <1>3
<1>5. n \in Nat
  OBVIOUS
<1> HIDE DEF part, n
<1> QED
  BY <1>4, <1>5 DEF n

LEMMA ValuesOfKind ==
    ASSUME NEW c, IsColumn(c), NEW st \in StoredColumns, NEW kind, NEW lengths_kind,
           NEW count \in Nat, values_of(c, st, kind, lengths_kind, count).ok
    PROVE  Filled(values_of(c, st, kind, lengths_kind, count).values, c, count)
<1> DEFINE s == The(st, kind)
           l == The(st, lengths_kind)
           lengths == decoded_lengths(l.bytes, count, l.transform)
           out == values_of(c, st, kind, lengths_kind, count)
<1>1. Has(st, kind, count)
  BY DEF values_of, Corrupt
<1>2. s \in StreamRecords /\ s.bytes \in Seq(Bytes) /\ s.elements = count
  BY <1>1, TheStream
<1>3. CASE ~IsVariable(c)
  <2>1. out = stored_values(c, s)
    BY <1>1, <1>3 DEF values_of
  <2> HIDE DEF s
  <2> QED
    BY <1>2, <1>3, <2>1, StoredValues
<1>4. CASE IsVariable(c)
  <2>1. /\ Has(st, lengths_kind, count) /\ lengths.ok
        /\ out = split_values(s.bytes, lengths.values)
    BY <1>1, <1>4 DEF values_of, AndThen, Corrupt
  <2>2. l.bytes \in Seq(Bytes)
    BY <2>1, TheStream
  <2> DEFINE d == lengths.values
  <2>3. d \in Seq(Values(CountType)) /\ d \in Seq(Nat) /\ Len(d) = count
    BY <2>1, <2>2, DecodedLengths
  <2>10. out = split_values(s.bytes, d) /\ out.ok
    BY <2>1
  <2> HIDE DEF d, s, l, lengths, out
  <2>4. /\ out.values \in Seq(Seq(Bytes)) /\ Len(out.values) = count
        /\ \A k \in 1..count : out.values[k] \in Seq(Bytes) /\ Len(out.values[k]) = d[k]
    BY <1>2, <2>3, <2>10, SplitValues
  <2>5. Domain(c) = CountedBytes
    BY <1>4 DEF Domain, IsVariable, IsNumeric
  <2>6. \A k \in 1..count : d[k] \in Values(CountType)
    BY <2>3
  <2>7. \A k \in 1..count : out.values[k] \in CountedBytes
    BY <2>4, <2>6 DEF CountedBytes
  <2> DEFINE vs == out.values
  <2>8. vs = [k \in 1..count |-> vs[k]]
    BY <2>4
  <2> HIDE DEF vs
  <2>9. vs \in Seq(CountedBytes) /\ Len(vs) = count
    BY <2>7, <2>8 DEF vs
  <2> QED
    BY <2>5, <2>9 DEF Filled, out, vs
<1> QED
  BY <1>3, <1>4

LEMMA PlainValues ==
    ASSUME NEW c, IsColumn(c), NEW st \in StoredColumns, NEW count \in Nat, plain(c, st, count).ok
    PROVE  Filled(plain(c, st, count).values, c, count)
<1>1. plain(c, st, count) = values_of(c, st, "values", "lengths", count)
  BY DEF plain
<1> QED
  BY <1>1, ValuesOfKind

\* One value for the length of a single run.
LEMMA ExpandOne ==
    ASSUME NEW T, NEW vs \in Seq(T), Len(vs) = 1, NEW count \in Nat
    PROVE  /\ Expand(vs, <<count>>) \in Seq(T) /\ Len(Expand(vs, <<count>>)) = count
           /\ \A k \in 1..count : Expand(vs, <<count>>)[k] = vs[1]
<1> DEFINE d == <<count>>
           out == Expand(vs, d)
           P(k) == SumFunctionOnSet(d, 1..k)
<1>1. d \in Seq(Nat) /\ Len(d) = 1 /\ d[1] = count
  OBVIOUS
<1>2. vs[1] \in T
  OBVIOUS
<1> HIDE DEF d
<1>3. P(0) = 0 /\ P(1) = P(0) + d[1]
  <2>1. 1 \in Nat /\ \A i \in 1..1 : d[i] \in Nat
    BY <1>1
  <2>2. P(0) = 0 /\ \A k \in 1..1 : P(k) = P(k - 1) + d[k]
    BY <2>1, PrefixSum
  <2> QED
    BY <2>2
<1>4. SumSeq(d) = count
  <2>1. SumSeq(d) = P(Len(d))
    BY <1>1, SumOfSeq
  <2> HIDE DEF P
  <2> QED
    BY <1>1, <1>3, <2>1
<1>5. /\ out \in Seq(T) /\ Len(out) = SumSeq(d)
      /\ \A r \in 1..Len(d) : \A j \in 1..d[r] : out[P(r - 1) + j] = vs[r]
  <2>1. d \in Seq(Nat) /\ out = Expand(vs, d) /\ \A r \in 1..Len(d) : vs[r] \in T
    BY <1>1, <1>2
  <2> HIDE DEF out
  <2> QED
    BY ONLY <2>1, Expanded
<1> HIDE DEF P, out
<1>6. \A j \in 1..count : out[j] = vs[1]
  <2>1. \A j \in 1..count : out[P(1 - 1) + j] = vs[1]
    BY <1>1, <1>5
  <2> QED
    BY <1>3, <2>1
<1> QED
  BY <1>4, <1>5, <1>6 DEF out, d

LEMMA ConstantValues ==
    ASSUME NEW c, IsColumn(c), NEW st \in StoredColumns, NEW count \in Nat, constant(c, st, count).ok
    PROVE  Filled(constant(c, st, count).values, c, count)
<1> DEFINE one == 1
           vs == plain(c, st, one).values
<1>1. plain(c, st, one).ok /\ constant(c, st, count).values = Expand(vs, <<count>>)
  BY DEF constant, AndThen, Corrupt, Decoded
<1>2. one \in Nat /\ one = 1
  OBVIOUS
<1> HIDE DEF one
<1>3. vs \in Seq(Domain(c)) /\ Len(vs) = 1
  BY <1>1, <1>2, PlainValues DEF Filled
<1> HIDE DEF vs
<1> QED
  BY <1>1, <1>3, ExpandOne DEF Filled

LEMMA UnpackedStream ==
    ASSUME NEW st \in StoredColumns, NEW kind, NEW count \in Nat, unpack(st, kind, count).ok
    PROVE  /\ unpack(st, kind, count).values \in Seq(Nat)
           /\ Len(unpack(st, kind, count).values) = count
<1> DEFINE p == The(st, kind).bytes
           vs == bit_unpack(p, count).values
<1>1. Has(st, kind, count) /\ unpack(st, kind, count) = bit_unpack(p, count)
  BY DEF unpack, Corrupt
<1>2. p \in Seq(Bytes)
  BY <1>1, TheStream
<1> HIDE DEF p
<1>3. p[1] \in 0..WordBits /\ vs \in Seq(0..(2^p[1] - 1)) /\ Len(vs) = count
  BY <1>1, <1>2, Unpacked
<1> HIDE DEF vs
<1>4. \A k \in 1..count : vs[k] \in Nat
  <2>1. \A k \in 1..count : vs[k] \in 0..(2^p[1] - 1)
    BY <1>3
  <2> QED
    BY <2>1
<1>5. vs = [k \in 1..count |-> vs[k]]
  BY <1>3
<1>6. vs \in Seq(Nat)
  BY <1>4, <1>5
<1> QED
  BY <1>1, <1>3, <1>6 DEF vs

LEMMA DictionaryValues ==
    ASSUME NEW c, IsColumn(c), NEW st \in StoredColumns, NEW count \in Nat,
           dictionary(c, st, count).ok
    PROVE  Filled(dictionary(c, st, count).values, c, count)
<1> DEFINE entries == The(st, "dictionary_values").elements
           ix == unpack(st, "indices", count).values
           vs == values_of(c, st, "dictionary_values", "dictionary_lengths", entries).values
<1>1. /\ unpack(st, "indices", count).ok
      /\ Len(StreamsOf(st, "dictionary_values")) = 1
      /\ values_of(c, st, "dictionary_values", "dictionary_lengths", entries).ok
      /\ ~\E k \in 1..count : ix[k] >= Len(vs)
      /\ dictionary(c, st, count).values = [k \in 1..count |-> vs[ix[k] + 1]]
  BY DEF dictionary, AndThen, Corrupt, Decoded
<1>2. ix \in Seq(Nat) /\ Len(ix) = count
  BY <1>1, UnpackedStream
<1>3. entries \in Nat
  <2>1. Has(st, "dictionary_values", entries)
    BY <1>1 DEF Has, The
  <2>2. The(st, "dictionary_values") \in StreamRecords
    BY <2>1, TheStream
  <2> QED
    BY <2>2 DEF StreamRecords
<1>4. vs \in Seq(Domain(c)) /\ Len(vs) = entries
  <2> HIDE DEF entries
  <2> QED
    BY <1>1, <1>3, ValuesOfKind DEF Filled
<1> HIDE DEF ix, vs, entries
<1>5. \A k \in 1..count : ix[k] \in Nat /\ ix[k] < Len(vs)
  BY <1>1, <1>2, <1>3, <1>4
<1>6. \A k \in 1..count : vs[ix[k] + 1] \in Domain(c)
  BY <1>3, <1>4, <1>5
<1> QED
  BY <1>1, <1>6 DEF Filled

LEMMA RunLengthValues ==
    ASSUME NEW c, IsColumn(c), NEW st \in StoredColumns, NEW count \in Nat,
           run_length(c, st, count).ok
    PROVE  Filled(run_length(c, st, count).values, c, count)
<1> DEFINE runs == The(st, "run_lengths").elements
           d == unpack(st, "run_lengths", runs).values
           vs == values_of(c, st, "run_values", "lengths", runs).values
<1>1. /\ Len(StreamsOf(st, "run_lengths")) = 1
      /\ unpack(st, "run_lengths", runs).ok
      /\ SumSeq(d) = count
      /\ values_of(c, st, "run_values", "lengths", runs).ok
      /\ run_length(c, st, count).values = Expand(vs, d)
  BY DEF run_length, AndThen, Corrupt, Decoded
<1>2. runs \in Nat
  <2>1. Has(st, "run_lengths", runs)
    BY <1>1 DEF Has, The
  <2>2. The(st, "run_lengths") \in StreamRecords
    BY <2>1, TheStream
  <2> QED
    BY <2>2 DEF StreamRecords
<1> HIDE DEF runs
<1>3. d \in Seq(Nat) /\ Len(d) = runs
  BY <1>1, <1>2, UnpackedStream
<1>4. vs \in Seq(Domain(c)) /\ Len(vs) = runs
  BY <1>1, <1>2, ValuesOfKind DEF Filled
<1> HIDE DEF d, vs
<1>5. \A r \in 1..Len(d) : vs[r] \in Domain(c)
  BY <1>3, <1>4
<1>6. Expand(vs, d) \in Seq(Domain(c)) /\ Len(Expand(vs, d)) = SumSeq(d)
  BY <1>3, <1>5, Expanded
<1> QED
  BY <1>1, <1>6 DEF Filled

\* What the decoder takes for the dense values of a column are as many as were
\* declared, each of the column's domain.
LEMMA DenseValues ==
    ASSUME NEW c, IsColumn(c), NEW st \in StoredColumns, dense_values(c, st).ok
    PROVE  Filled(dense_values(c, st).values, c, st.dense_count)
<1> DEFINE n == st.dense_count
<1>0. n \in Nat /\ st.layout \in {"plain", "constant", "dictionary", "run_length"}
  BY DEF StoredColumns, AllowedKinds
<1>1. CASE n = 0
  <2>1. dense_values(c, st).values = <<>>
    BY <1>1 DEF dense_values, all_null, Decoded, Corrupt
  <2> QED
    BY <1>1, <2>1 DEF Filled
<1>2. CASE n # 0 /\ st.layout = "plain"
  <2>1. dense_values(c, st) = plain(c, st, n)
    BY <1>2 DEF dense_values
  <2> HIDE DEF n
  <2> QED
    BY <1>0, <2>1, PlainValues DEF n
<1>3. CASE n # 0 /\ st.layout = "constant"
  <2>1. dense_values(c, st) = constant(c, st, n)
    BY <1>3 DEF dense_values
  <2> QED
    BY <1>0, <2>1, ConstantValues
<1>4. CASE n # 0 /\ st.layout = "dictionary"
  <2>1. dense_values(c, st) = dictionary(c, st, n)
    BY <1>4 DEF dense_values
  <2> QED
    BY <1>0, <2>1, DictionaryValues
<1>5. CASE n # 0 /\ st.layout = "run_length"
  <2>1. dense_values(c, st) = run_length(c, st, n)
    BY <1>5 DEF dense_values
  <2> QED
    BY <1>0, <2>1, RunLengthValues
<1> QED
  BY <1>0, <1>1, <1>2, <1>3, <1>4, <1>5

-----------------------------------------------------------------------------
(* Rows                                                                    *)

TruePlaces(bits) == {k \in 1..Len(bits) : bits[k]}

LEMMA TruesAndFalses ==
    ASSUME NEW bits \in Seq(BOOLEAN), NEW n, n = Len(bits)
    PROVE  /\ Cardinality(TruePlaces(bits)) \in Nat
           /\ Cardinality({k \in 1..n : ~bits[k]}) \in Nat
           /\ Cardinality(TruePlaces(bits)) + Cardinality({k \in 1..n : ~bits[k]}) = n
<1> DEFINE A == {k \in 1..n : bits[k]}
           B == {k \in 1..n : ~bits[k]}
<1>1. n \in Nat /\ A = TruePlaces(bits)
  BY DEF TruePlaces
<1>2. IsFiniteSet(1..n) /\ Cardinality(1..n) = n
  <2> HIDE DEF A
  <2> QED
    BY ONLY <1>1, FS_Interval
<1>3. A \cup B = 1..n /\ A \cap B = {} /\ A \subseteq 1..n /\ B \subseteq 1..n
  BY Zenon
<1> HIDE DEF A, B
<1>4. IsFiniteSet(A) /\ IsFiniteSet(B) /\ Cardinality(A) \in Nat /\ Cardinality(B) \in Nat
  BY <1>2, <1>3, FS_Subset, FS_CardinalityType
<1>5. Cardinality(A \cup B) = Cardinality(A) + Cardinality(B) - Cardinality(A \cap B)
  BY <1>4, FS_Union
<1>6. Cardinality({}) = 0
  BY FS_EmptySet
<1>7. Cardinality(A) + Cardinality(B) = n
  <2>1. Cardinality(A \cup B) = n /\ Cardinality(A \cap B) = 0
    BY <1>2, <1>3, <1>6, Zenon
  <2> QED
    BY <1>4, <1>5, <2>1
<1> QED
  BY <1>1, <1>4, <1>7, Zenon DEF B

\* The validity a reader accepts has one bit per row, and as many rows without a
\* value as were declared.
LEMMA ValidityAccepted ==
    ASSUME NEW c, NEW st \in StoredColumns, NEW n \in Nat, validity(c, st, n).ok
    PROVE  LET bits == validity(c, st, n).values
           IN  /\ bits \in Seq(BOOLEAN) /\ Len(bits) = n
               /\ Cardinality({k \in 1..n : ~bits[k]}) = st.null_count
<1> DEFINE streams == StreamsOf(st, "validity")
           bits == booleans(streams[1].bytes, streams[1].elements, streams[1].transform)
           Falses(v) == {k \in 1..n : ~v[k]}
<1>0. streams \in Seq(StreamRecords) /\ st.null_count \in Nat
  BY StreamsOfKind DEF StoredColumns
<1>1. \/ validity(c, st, n) = AllRows(TRUE, n) /\ st.null_count = 0
      \/ validity(c, st, n) = AllRows(FALSE, n) /\ st.null_count = n
      \/ /\ streams # <<>> /\ Len(streams) <= 1
         /\ streams[1].elements = n /\ bits.ok
         /\ Cardinality(Falses(bits.values)) = st.null_count
         /\ validity(c, st, n) = bits
  <2>1. \/ validity(c, st, n) = AllRows(TRUE, n) /\ st.null_count = 0
        \/ validity(c, st, n) = implicit_validity(st, n)
        \/ /\ streams # <<>> /\ ~(Len(streams) > 1)
           /\ streams[1].elements = n /\ bits.ok
           /\ Cardinality(Falses(bits.values)) = st.null_count
           /\ validity(c, st, n) = bits
    BY DEF validity, Corrupt
  <2>2. implicit_validity(st, n).ok =>
            \/ implicit_validity(st, n) = AllRows(TRUE, n) /\ st.null_count = 0
            \/ implicit_validity(st, n) = AllRows(FALSE, n) /\ st.null_count = n
    BY DEF implicit_validity, Corrupt
  <2>3. Len(streams) \in Nat
    BY <1>0
  <2>4. ~(Len(streams) > 1) => Len(streams) <= 1
    BY <2>3
  <2> HIDE DEF streams, bits, Falses
  <2>5. CASE validity(c, st, n) = implicit_validity(st, n)
    BY <2>2, <2>5, Zenon
  <2> QED
    BY <2>1, <2>4, <2>5, Zenon
<1>2. CASE validity(c, st, n) = AllRows(TRUE, n) /\ st.null_count = 0
  <2> DEFINE v == [k \in 1..n |-> TRUE]
  <2>1. validity(c, st, n).values = v
    BY <1>2 DEF AllRows, Decoded
  <2>2. v \in Seq(BOOLEAN) /\ Len(v) = n
    OBVIOUS
  <2>3. {k \in 1..n : ~v[k]} = {}
    OBVIOUS
  <2> HIDE DEF v
  <2> QED
    BY <1>2, <2>1, <2>2, <2>3, FS_EmptySet
<1>3. CASE validity(c, st, n) = AllRows(FALSE, n) /\ st.null_count = n
  <2> DEFINE v == [k \in 1..n |-> FALSE]
  <2>1. validity(c, st, n).values = v
    BY <1>3 DEF AllRows, Decoded
  <2>2. v \in Seq(BOOLEAN) /\ Len(v) = n
    OBVIOUS
  <2>3. {k \in 1..n : ~v[k]} = 1..n
    OBVIOUS
  <2>4. Cardinality(1..n) = n
    BY FS_Interval
  <2> HIDE DEF v
  <2> QED
    BY <1>3, <2>1, <2>2, <2>3, <2>4
<1>4. CASE /\ streams # <<>> /\ Len(streams) <= 1
           /\ streams[1].elements = n /\ bits.ok
           /\ Cardinality(Falses(bits.values)) = st.null_count
           /\ validity(c, st, n) = bits
  <2> HIDE DEF streams
  <2>1. streams[1] \in StreamRecords
    BY <1>0, <1>4
  <2>2. streams[1].bytes \in Seq(Bytes)
    BY <2>1 DEF StreamRecords
  <2>3. bits.values \in Seq(BOOLEAN) /\ Len(bits.values) = n
    BY <1>4, <2>2, ColumnBooleans
  <2> QED
    BY <1>4, <2>3
<1> QED
  BY <1>1, <1>2, <1>3, <1>4

\* Each dense value lands on the row of its rank, and the rows have no others.
LEMMA Scattered ==
    ASSUME NEW T, Null \notin T, NEW vs \in Seq(T), NEW bits \in Seq(BOOLEAN),
           scatter(vs, bits).ok
    PROVE  LET out == scatter(vs, bits).values
           IN  /\ DOMAIN out = 1..Len(bits) /\ Len(out) = Len(bits)
               /\ \A k \in 1..Len(bits) : IF bits[k] THEN out[k] \in T ELSE out[k] = Null
               /\ Dense(out) = vs
               /\ Len(vs) = Cardinality(TruePlaces(bits))
<1> DEFINE n == Len(bits)
           S == TruePlaces(bits)
           place(row) == Cardinality({k \in 1..row : bits[k]})
           out == [k \in 1..n |-> IF bits[k] THEN vs[place(k)] ELSE Null]
<1>0. n \in Nat /\ S \in SUBSET (1..n) /\ DOMAIN bits = 1..n
  BY DEF TruePlaces
<1>1. /\ Len(vs) = place(n)
      /\ scatter(vs, bits).values = [k \in DOMAIN bits |-> IF bits[k] THEN vs[place(k)] ELSE Null]
  BY DEF scatter, Decoded, Corrupt
<1>2. scatter(vs, bits).values = out
  BY <1>0, <1>1, Zenon
<1>3. ASSUME NEW k \in 0..n PROVE place(k) = Rank(S, k)
  <2>1. {j \in 1..k : bits[j]} = {j \in S : j <= k}
    BY <1>0 DEF TruePlaces
  <2> QED
    BY <2>1 DEF Rank
<1>4. Len(vs) = Cardinality(S)
  <2>1. place(n) = Rank(S, n)
    BY <1>0, <1>3, n \in 0..n
  <2> QED
    BY <1>0, <1>1, <2>1, RankStep
<1> HIDE DEF place
<1>5. ASSUME NEW k \in 1..n, bits[k] PROVE Rank(S, k) \in 1..Len(vs) /\ out[k] = vs[Rank(S, k)]
  <2>1. k \in S /\ k \in 0..n /\ k - 1 \in 0..n
    BY <1>0, <1>5 DEF TruePlaces
  <2>2. /\ Rank(S, k) = Rank(S, k - 1) + 1 /\ Rank(S, k - 1) \in Nat /\ Rank(S, n) = Cardinality(S)
        /\ Rank(S, k) \in Nat
    BY <1>0, <2>1, RankStep
  <2>3. Rank(S, k) <= Rank(S, n)
    BY <1>0, <2>1, RankMonotone, n \in k..n
  <2>4. Rank(S, k) \in 1..Len(vs)
    BY <1>4, <2>2, <2>3
  <2> QED
    BY <1>3, <1>5, <2>1, <2>4
<1>6. ASSUME NEW k \in 1..n PROVE IF bits[k] THEN out[k] \in T ELSE out[k] = Null
  BY <1>5
<1>7. DOMAIN out = 1..n /\ Len(out) = n
  BY <1>0
<1> HIDE DEF out
<1>8. {k \in DOMAIN out : out[k] # Null} = S
  BY <1>0, <1>6, <1>7 DEF TruePlaces
<1>9. Dense(out) = [r \in 1..Cardinality(S) |-> out[Nth(S, r)]]
  BY <1>8 DEF Dense, ElementsAt
<1>10. ASSUME NEW r \in 1..Cardinality(S) PROVE out[Nth(S, r)] = vs[r]
  <2>1. Nth(S, r) \in S /\ Nth(S, r) \in 1..n /\ Rank(S, Nth(S, r)) = r
    BY <1>0, NthOf
  <2>2. bits[Nth(S, r)]
    BY <2>1 DEF TruePlaces
  <2> QED
    BY <1>5, <2>1, <2>2
<1>11. Dense(out) = vs
  <2>1. vs = [r \in 1..Cardinality(S) |-> vs[r]]
    BY <1>4
  <2> HIDE DEF S
  <2> QED
    BY <1>9, <1>10, <2>1
<1> QED
  BY <1>0, <1>2, <1>4, <1>6, <1>7, <1>11

-----------------------------------------------------------------------------
(* Statistics                                                              *)

LEMMA NumericColumn ==
    ASSUME NEW c, IsColumn(c), IsNumeric(c)
    PROVE  /\ AsType(c) \in IntegerTypes /\ c.width \in Nat \ {0} /\ c.signed \in BOOLEAN
           /\ Values(c) = Values(AsType(c)) /\ Values(c) \subseteq Int
<1>1. c.width \in Nat \ {0} /\ c.signed \in BOOLEAN
  BY DEF IsColumn, IsNumeric, IsVariable
<1>2. AsType(c) \in IntegerTypes
  BY <1>1 DEF AsType, IntegerTypes
<1>3. Values(c) = Values(AsType(c))
  BY IntegerOfType
<1> QED
  BY <1>1, <1>2, <1>3, TypeOf

LEMMA NullIsNoValue ==
    ASSUME NEW c, IsColumn(c)
    PROVE  Null \notin Domain(c)
<1>1. IsNumeric(c) => Values(c) \subseteq Int
  BY NumericColumn
<1> QED
  BY <1>1, NullAssumption DEF Domain, CountedBytes, WideBytes

LEMMA FloatMagnitudeType ==
    ASSUME NEW w \in Nat \ {0}, NEW v \in WideBytes(w), NEW c, c.width = w
    PROVE  /\ FloatMagnitude(c, v) \in Nat /\ read_integer(v, TRUE) \in Int
           /\ read_integer(v, FALSE) \in Int
<1>1. v \in Seq(Bytes) /\ Len(v) = w
  BY DEF WideBytes
<1>2. read_integer(v, TRUE) \in Int /\ read_integer(v, FALSE) \in Int
  BY <1>1, ReadInteger
<1> DEFINE e == ByteBits * w - 1
           m == 2^e
<1>3. ByteBits * w \in Nat \ {0}
  BY Widths
<1>4. e \in Nat
  BY <1>3
<1>5. m \in Nat \ {0}
  <2> HIDE DEF e
  <2> QED
    BY <1>4, PowerType
<1>6. FloatMagnitude(c, v) = read_integer(v, FALSE) % m
  BY DEF FloatMagnitude
<1> DEFINE x == read_integer(v, FALSE)
<1>8. x \in Int /\ FloatMagnitude(c, v) = x % m
  BY <1>2, <1>6
<1> HIDE DEF m, x
<1>7. x % m \in 0..(m - 1)
  BY <1>5, <1>8, Quotients
<1>9. FloatMagnitude(c, v) \in Nat
  BY <1>5, <1>7, <1>8
<1> QED
  BY <1>2, <1>9

LEMMA StatisticKeyType ==
    ASSUME NEW c, IsColumn(c), ~IsVariable(c), NEW v \in Domain(c)
    PROVE  StatisticKey(c, v) \in Int
<1>1. CASE c.family = "bool"
  BY <1>1 DEF StatisticKey, IsNumeric
<1>2. CASE c.family = "float"
  <2>1. c.width \in Nat \ {0} /\ v \in WideBytes(c.width)
    BY <1>2 DEF IsColumn, Domain, IsNumeric, IsVariable
  <2>2. FloatMagnitude(c, v) \in Nat
    BY <2>1, FloatMagnitudeType
  <2>3. StatisticKey(c, v) \in {-FloatMagnitude(c, v), FloatMagnitude(c, v)}
    BY <1>2 DEF StatisticKey, IsNumeric
  <2> QED
    BY <2>2, <2>3
<1>3. CASE c.family = "fixed_binary"
  <2>1. v \in Seq(Bytes)
    BY <1>3 DEF Domain, IsNumeric, IsVariable, WideBytes
  <2> DEFINE f == [k \in DOMAIN v |-> v[k] * 2^(ByteBits * (Len(v) - k))]
  <2>2. StatisticKey(c, v) = SumFunction(f)
    BY <1>3 DEF StatisticKey, IsNumeric
  <2>3. ASSUME NEW k \in DOMAIN v PROVE f[k] \in Nat
    <3> DEFINE e == ByteBits * (Len(v) - k)
    <3>1. e \in Nat
      BY <2>1, Widths
    <3>2. 2^e \in Nat
      <4> HIDE DEF e
      <4> QED
        BY <3>1, PowerType
    <3>3. v[k] \in Nat
      BY <2>1, Widths
    <3> DEFINE x == 2^e
               y == v[k]
    <3>4. f[k] = y * x /\ x \in Nat /\ y \in Nat
      BY <3>2, <3>3
    <3> HIDE DEF x, y
    <3> QED
      BY <3>4
  <2>4. DOMAIN f = 1..Len(v) /\ IsFiniteSet(1..Len(v))
    <3>1. Len(v) \in Nat /\ DOMAIN v = 1..Len(v)
      BY <2>1
    <3> QED
      BY <3>1, FS_Interval
  <2>5. \A k \in DOMAIN f : f[k] \in Nat
    BY <2>3
  <2> HIDE DEF f
  <2> QED
    BY <2>2, <2>4, <2>5, SumType
<1>4. CASE IsNumeric(c)
  <2>1. v \in Int
    BY <1>4, NumericColumn DEF Domain, IsNumeric
  <2> QED
    BY <1>4, <2>1 DEF StatisticKey, IsNumeric
<1> QED
  BY <1>1, <1>2, <1>3, <1>4 DEF IsColumn, IsNumeric, IsVariable, Families

\* No counted value lies outside the pair of statistics a reader accepts.
LEMMA StatisticsBound ==
    ASSUME NEW c, IsColumn(c), NEW stats, stats # <<>>, NEW out, NEW n \in Nat, DOMAIN out = 1..n,
           \A k \in 1..n : out[k] # Null => out[k] \in Domain(c),
           verify_column_statistics(c, stats, out)
    PROVE  LET w == statistic_width(c)
           IN  \A k \in 1..n : out[k] # Null /\ ~IsNaN(c, out[k]) =>
                  /\ StatisticOf(c, SubSeq(stats, 1, w)) <= StatisticKey(c, out[k])
                  /\ StatisticKey(c, out[k]) <= StatisticOf(c, SubSeq(stats, w + 1, 2 * w))
<1> DEFINE w == statistic_width(c)
           low == StatisticOf(c, SubSeq(stats, 1, w))
           high == StatisticOf(c, SubSeq(stats, w + 1, 2 * w))
           K == {k \in 1..n : out[k] # Null /\ ~IsNaN(c, out[k])}
           keys == {StatisticKey(c, out[k]) : k \in K}
<1>1. reduce_decoded_values(c, out) = keys
  BY Zenon DEF reduce_decoded_values
<1>2. w # 0 /\ keys # {} /\ low = Min(keys) /\ high = Max(keys)
  BY <1>1 DEF verify_column_statistics, classify, verify_matches
<1>3. ~IsVariable(c)
  BY <1>2 DEF statistic_width
<1>4. keys \in SUBSET Int
  BY <1>3, StatisticKeyType
<1>5. IsFiniteSet(keys)
  <2>1. IsFiniteSet(1..n) /\ K \subseteq 1..n
    BY FS_Interval
  <2>2. IsFiniteSet(K)
    BY <2>1, FS_Subset
  <2> DEFINE f == [k \in K |-> StatisticKey(c, out[k])]
  <2>3. f \in [K -> keys]
    BY Zenon
  <2>4. \A t \in keys : \E s \in K : f[s] = t
    BY Zenon
  <2>5. f \in Surjection(K, keys)
    BY <2>3, <2>4, Zenon DEF Surjection
  <2> HIDE DEF f, K, keys
  <2> QED
    BY <2>2, <2>5, FS_Surjection
<1>6. \A k \in K : StatisticKey(c, out[k]) \in keys
  OBVIOUS
<1> HIDE DEF keys
<1>7. \A x \in keys : low <= x /\ x <= high
  BY <1>2, <1>4, <1>5, ExtremesOfFinite
<1> QED
  BY <1>6, <1>7

LEMMA DenseFrom ==
    ASSUME NEW out, NEW n \in Nat, DOMAIN out = 1..n
    PROVE  /\ Len(Dense(out)) \in Nat /\ DOMAIN Dense(out) = 1..Len(Dense(out))
           /\ Len(Dense(out)) = Cardinality({k \in 1..n : out[k] # Null})
           /\ \A r \in DOMAIN Dense(out) : \E k \in 1..n : out[k] # Null /\ Dense(out)[r] = out[k]
<1> DEFINE S == {k \in 1..n : out[k] # Null}
<1>1. S \in SUBSET (1..n)
  OBVIOUS
<1>2. Dense(out) = [r \in 1..Cardinality(S) |-> out[Nth(S, r)]]
  BY DEF Dense, ElementsAt
<1>3. Cardinality(S) \in Nat
  BY <1>1, RankStep
<1>4. \A r \in 1..Cardinality(S) : Nth(S, r) \in S
  <2> HIDE DEF S
  <2> QED
    BY <1>1, NthOf
<1> DEFINE R == Cardinality(S)
           D == Dense(out)
<1>5. \A r \in 1..R : Nth(S, r) \in 1..n /\ out[Nth(S, r)] # Null
  BY <1>4
<1>6. D = [r \in 1..R |-> out[Nth(S, r)]] /\ R \in Nat
  BY <1>2, <1>3
<1> HIDE DEF S, R, D
<1>7. /\ Len(D) \in Nat /\ DOMAIN D = 1..Len(D) /\ Len(D) = R
      /\ \A r \in DOMAIN D : \E k \in 1..n : out[k] # Null /\ D[r] = out[k]
  BY <1>5, <1>6
<1> QED
  BY <1>7 DEF D, R, S

-----------------------------------------------------------------------------
(* What a reader accepts                                                   *)

LEMMA DecodeSteps ==
    ASSUME NEW c, NEW st, NEW n, decode_column(c, st, n).ok
    PROVE  LET valid == validity(c, st, n)
               values == dense_values(c, st)
               array == into_array(c, values.values, valid.values)
           IN  /\ validate_column_descriptor(c, st, n) /\ check_stream_kinds(st)
               /\ valid.ok /\ values.ok /\ array.ok
               /\ verify_column_statistics(c, st.statistics, array.values)
               /\ decode_column(c, st, n) = Decoded(array.values)
  BY DEF decode_column, AndThen, Corrupt

LEMMA AcceptedColumn ==
    ASSUME NEW c, IsColumn(c), NEW st \in StoredColumns, NEW n \in Nat, decode_column(c, st, n).ok
    PROVE  LET out == decode_column(c, st, n).values
               w == statistic_width(c)
           IN  /\ DOMAIN out = 1..n /\ Len(out) = n
               /\ Len(Dense(out)) = n - st.null_count
               /\ \A k \in DOMAIN Dense(out) : IsValueOf(c, Dense(out)[k])
               /\ st.statistics # <<>> =>
                    \A k \in DOMAIN Dense(out) :
                       \/ IsNaN(c, Dense(out)[k])
                       \/ /\ StatisticOf(c, SubSeq(st.statistics, 1, w)) <= StatisticKey(c, Dense(out)[k])
                          /\ StatisticKey(c, Dense(out)[k])
                                <= StatisticOf(c, SubSeq(st.statistics, w + 1, 2 * w))
<1> DEFINE bits == validity(c, st, n).values
           vs == dense_values(c, st).values
           array == into_array(c, vs, bits)
           out == array.values
<1>1. /\ validate_column_descriptor(c, st, n)
      /\ validity(c, st, n).ok /\ dense_values(c, st).ok /\ array.ok
      /\ verify_column_statistics(c, st.statistics, out)
      /\ decode_column(c, st, n).values = out
  BY DecodeSteps DEF Decoded
<1>2. bits \in Seq(BOOLEAN) /\ Len(bits) = n
  BY <1>1, ValidityAccepted
<1>3. vs \in Seq(Domain(c)) /\ Len(vs) = st.dense_count
  BY <1>1, DenseValues DEF Filled
<1>4. /\ array = scatter(vs, bits)
      /\ c.family = "text" => \A k \in DOMAIN vs : is_utf8(vs[k])
  BY <1>1 DEF into_array, Corrupt
<1>5. st.dense_count = n - st.null_count
  BY <1>1 DEF validate_column_descriptor
<1> HIDE DEF bits, vs, array
<1>6. /\ DOMAIN out = 1..n /\ Len(out) = n
      /\ \A k \in 1..n : IF bits[k] THEN out[k] \in Domain(c) ELSE out[k] = Null
      /\ Dense(out) = vs
  <2>1. Null \notin Domain(c)
    BY NullIsNoValue
  <2>2. scatter(vs, bits).ok
    BY <1>1, <1>4
  <2> QED
    BY <1>2, <1>3, <1>4, <2>1, <2>2, Scattered
<1> HIDE DEF out
<1>7. ASSUME NEW k \in DOMAIN vs PROVE IsValueOf(c, vs[k])
  <2>1. vs[k] \in Domain(c)
    BY <1>3
  <2> QED
    BY <1>4, <2>1 DEF IsValueOf, Domain, IsNumeric, IsVariable, CountedBytes, WideBytes
<1>8. ASSUME st.statistics # <<>>, NEW k \in DOMAIN vs, ~IsNaN(c, vs[k])
      PROVE  LET w == statistic_width(c)
             IN  /\ StatisticOf(c, SubSeq(st.statistics, 1, w)) <= StatisticKey(c, vs[k])
                 /\ StatisticKey(c, vs[k]) <= StatisticOf(c, SubSeq(st.statistics, w + 1, 2 * w))
  <2>1. PICK j \in 1..n : out[j] # Null /\ vs[k] = out[j]
    BY <1>6, DenseFrom
  <2>2. \A i \in 1..n : out[i] # Null => out[i] \in Domain(c)
    BY <1>6
  <2> DEFINE stats == st.statistics
  <2>3. stats # <<>> /\ verify_column_statistics(c, stats, out)
    BY <1>1, <1>8
  <2> HIDE DEF stats
  <2>4. LET w == statistic_width(c)
        IN  \A i \in 1..n : out[i] # Null /\ ~IsNaN(c, out[i]) =>
              /\ StatisticOf(c, SubSeq(stats, 1, w)) <= StatisticKey(c, out[i])
              /\ StatisticKey(c, out[i]) <= StatisticOf(c, SubSeq(stats, w + 1, 2 * w))
    BY ONLY <1>6, <2>2, <2>3, IsColumn(c), n \in Nat, StatisticsBound
  <2> QED
    BY <1>8, <2>1, <2>4 DEF stats
<1> QED
  BY <1>1, <1>3, <1>5, <1>6, <1>7, <1>8

-----------------------------------------------------------------------------
(* What the transforms store is read back                                  *)

\* A type of integers, whatever else its record says.
Wide(c) == c.width \in Nat \ {0} /\ c.signed \in BOOLEAN

LEMMA WideType ==
    ASSUME NEW c, Wide(c)
    PROVE  /\ Values(c) = Values([width |-> c.width, signed |-> c.signed]) /\ Values(c) \subseteq Int
           /\ \A v \in Values(c) :
                /\ v \in Int
                /\ to_le_bytes(v, c.width) \in Seq(Bytes) /\ Len(to_le_bytes(v, c.width)) = c.width
                /\ read_integer(to_le_bytes(v, c.width), c.signed) = v
<1>1. c.width \in Nat \ {0} /\ c.signed \in BOOLEAN
  BY DEF Wide
<1>2. Values(c) = Values([width |-> c.width, signed |-> c.signed])
  BY IntegerOfType DEF AsType
<1>3. Values(c) \subseteq Int
  BY <1>1, <1>2, ValuesOf
<1>4. ASSUME NEW v \in Values(c)
      PROVE  /\ v \in Int
             /\ to_le_bytes(v, c.width) \in Seq(Bytes) /\ Len(to_le_bytes(v, c.width)) = c.width
             /\ read_integer(to_le_bytes(v, c.width), c.signed) = v
  <2>1. v \in Int /\ v \in Values([width |-> c.width, signed |-> c.signed])
    BY <1>2, <1>3
  <2> QED
    BY <1>1, <2>1, WrittenInteger
<1> QED
  BY <1>2, <1>3, <1>4

LEMMA TwoParts ==
    ASSUME NEW T, NEW a \in Seq(T), NEW b \in Seq(T), NEW p, p = a \o b
    PROVE  /\ p \in Seq(T) /\ Len(p) = Len(a) + Len(b)
           /\ SubSeq(p, 1, Len(a)) = a /\ SubSeq(p, Len(a) + 1, Len(p)) = b
<1> DEFINE e == <<>>
           at == Len(a) + Len(e)
<1>1. e \in Seq(T) /\ Len(e) = 0 /\ e \o b = b
  OBVIOUS
<1> HIDE DEF e
<1>2. p = a \o (e \o b)
  BY <1>1
<1>3. /\ p \in Seq(T) /\ Len(p) = at + Len(b) /\ Len(a) \in Nat
      /\ SubSeq(p, 1, Len(a)) = a /\ SubSeq(p, at + 1, Len(p)) = b
  BY ONLY <1>1, <1>2, a \in Seq(T), b \in Seq(T), ThreeParts
<1>4. at = Len(a)
  BY <1>1, <1>3
<1> QED
  BY <1>3, <1>4

\* The parts of a sequence that lie one width apart.
Cuts(p, w, s) == \A k \in 1..Len(s) : SubSeq(p, (k - 1) * w + 1, k * w) = s[k]

\* Sequences of one length, end to end.
LEMMA FlattenEqual ==
    ASSUME NEW T, NEW s \in Seq(Seq(T)), NEW w \in Nat, \A i \in 1..Len(s) : Len(s[i]) = w,
           NEW p, p = FlattenSeq(s)
    PROVE  p \in Seq(T) /\ Len(p) = Len(s) * w /\ Cuts(p, w, s)
<1> DEFINE n == Len(s)
           lens == [i \in 1..n |-> w]
           P(k) == SumFunctionOnSet(lens, 1..k)
<1>0. n \in Nat
  OBVIOUS
<1>1. \A i \in 1..n : lens[i] = Len(s[i]) /\ lens[i] = w
  OBVIOUS
<1> HIDE DEF lens
<1>2. /\ p \in Seq(T) /\ Len(p) = P(n)
      /\ \A i \in 1..n : \A j \in 1..Len(s[i]) : p[P(i - 1) + j] = s[i][j]
  BY <1>1, FlattenAt
<1>3. ASSUME NEW k \in 0..n PROVE P(k) = k * w
  <2>1. IsFiniteSet(1..k) /\ Cardinality(1..k) = k
    BY FS_Interval
  <2>2. \A x \in 1..k : lens[x] = w
    BY <1>1
  <2>3. SumOver(lens, 1..k) = w * k
    BY <2>1, <2>2, SumConstant
  <2>4. w * k = k * w
    OBVIOUS
  <2> QED
    BY <2>3, <2>4, SumOnSetIsSum
<1> HIDE DEF P
<1>4. Len(p) = n * w
  BY <1>0, <1>2, <1>3, n \in 0..n
<1>5. ASSUME NEW k \in 1..n PROVE SubSeq(p, (k - 1) * w + 1, k * w) = s[k]
  <2> DEFINE a == (k - 1) * w
  <2>1. a \in Nat /\ k * w = a + w /\ P(k - 1) = a
    <3>1. k - 1 \in 0..n
      BY <1>0
    <3>2. P(k - 1) = a
      BY <1>3, <3>1
    <3>3. a \in Nat /\ k * w = a + w
      OBVIOUS
    <3> QED
      BY <3>2, <3>3
  <2>2. SubSeq(p, a + 1, a + w) = [b \in 1..w |-> p[a + b]]
    <3> HIDE DEF a
    <3> QED
      BY <2>1, Slice
  <2>3. s[k] \in Seq(T) /\ Len(s[k]) = w
    OBVIOUS
  <2>4. \A b \in 1..w : p[a + b] = s[k][b]
    BY <1>2, <2>1, <2>3
  <2>5. s[k] = [b \in 1..w |-> s[k][b]]
    <3> DEFINE x == s[k]
    <3>1. x \in Seq(T) /\ Len(x) = w
      BY <2>3
    <3> HIDE DEF x
    <3>2. x = [b \in 1..w |-> x[b]]
      BY ONLY <3>1
    <3> QED
      BY <3>2 DEF x
  <2> HIDE DEF a
  <2>6. SubSeq(p, a + 1, a + w) = s[k]
    BY <2>2, <2>4, <2>5
  <2> QED
    BY <2>1, <2>6, Zenon DEF a
<1> QED
  BY <1>2, <1>4, <1>5 DEF Cuts

LEMMA RawIntegersBack ==
    ASSUME NEW c, Wide(c), NEW vs \in Seq(Values(c)), NEW n, n = Len(vs), NEW p, p = raw_bytes(vs, c)
    PROVE  /\ p \in Seq(Bytes) /\ Len(p) = n * c.width
           /\ raw_integers(p, n, c) = Decoded(vs)
<1> DEFINE w == c.width
           s == [k \in DOMAIN vs |-> to_le_bytes(vs[k], w)]
<1>0. w \in Nat \ {0} /\ n \in Nat /\ DOMAIN vs = 1..n /\ \A k \in 1..n : vs[k] \in Values(c)
  BY DEF Wide
<1>1. \A k \in 1..n : /\ s[k] \in Seq(Bytes) /\ Len(s[k]) = w
                      /\ read_integer(s[k], c.signed) = vs[k]
  BY <1>0, WideType
<1>2. s = [k \in 1..n |-> s[k]]
  BY <1>0
<1>3. p = FlattenSeq(s)
  BY DEF raw_bytes
<1> HIDE DEF s, w
<1>4. s \in Seq(Seq(Bytes)) /\ Len(s) = n
  BY <1>0, <1>1, <1>2
<1>5. /\ p \in Seq(Bytes) /\ Len(p) = n * w
      /\ \A k \in 1..n : SubSeq(p, (k - 1) * w + 1, k * w) = s[k]
  <2>1. /\ s \in Seq(Seq(Bytes)) /\ w \in Nat /\ \A i \in 1..Len(s) : Len(s[i]) = w
        /\ p = FlattenSeq(s)
    BY <1>0, <1>1, <1>3, <1>4
  <2>2. p \in Seq(Bytes) /\ Len(p) = Len(s) * w /\ Cuts(p, w, s)
    BY ONLY <2>1, FlattenEqual
  <2> QED
    BY <1>4, <2>2 DEF Cuts
<1>6. \A k \in 1..n : Chunks(p, w)[k] = s[k]
  BY <1>0, <1>5, ChunksOf
<1> DEFINE xs == [k \in 1..n |-> read_integer(Chunks(p, w)[k], c.signed)]
<1>7. \A k \in 1..n : read_integer(Chunks(p, w)[k], c.signed) = vs[k]
  BY <1>1, <1>6
<1>8. xs = vs
  <2>1. vs = [k \in 1..n |-> vs[k]]
    BY <1>0
  <2> QED
    BY <1>7, <2>1
<1>9. raw_integers(p, n, c) = narrowed(xs, c)
  BY <1>5 DEF raw_integers, w
<1>10. narrowed(vs, c) = Decoded(vs)
  BY <1>0 DEF narrowed
<1> HIDE DEF xs
<1> QED
  BY <1>5, <1>8, <1>9, <1>10 DEF w

LEMMA NarrowedBack ==
    ASSUME NEW c, NEW vs \in Seq(Values(c))
    PROVE  narrowed(vs, c) = Decoded(vs)
<1>1. \A k \in DOMAIN vs : vs[k] \in Values(c)
  OBVIOUS
<1> QED
  BY <1>1 DEF narrowed

\* An integer in front of packed numbers.
Fronted(p, c, v, w, packed) ==
    /\ p \in Seq(Bytes) /\ Len(p) = c.width + packed_length(Len(packed), w)
    /\ Len(p) >= c.width
    /\ read_integer(SubSeq(p, 1, c.width), c.signed) = v
    /\ bit_unpack(SubSeq(p, c.width + 1, Len(p)), Len(packed)) = Decoded(packed)

LEMMA FrontBack ==
    ASSUME NEW c, Wide(c), NEW v \in Values(c), NEW w \in 0..WordBits,
           NEW packed \in Seq(0..(2^w - 1)),
           NEW p, p = to_le_bytes(v, c.width) \o pack_from(w, packed)
    PROVE  Fronted(p, c, v, w, packed)
<1> DEFINE a == to_le_bytes(v, c.width)
           b == pack_from(w, packed)
<1>1. /\ a \in Seq(Bytes) /\ Len(a) = c.width /\ read_integer(a, c.signed) = v
      /\ c.width \in Nat
  BY WideType DEF Wide
<1>2. /\ b \in Seq(Bytes) /\ Len(b) = packed_length(Len(packed), w)
      /\ bit_unpack(b, Len(packed)) = Decoded(packed)
  BY Packed
<1>3. p = a \o b
  OBVIOUS
<1> HIDE DEF a, b
<1>4. /\ p \in Seq(Bytes) /\ Len(p) = Len(a) + Len(b)
      /\ SubSeq(p, 1, Len(a)) = a /\ SubSeq(p, Len(a) + 1, Len(p)) = b
  <2>1. a \in Seq(Bytes) /\ b \in Seq(Bytes) /\ p = a \o b
    BY <1>1, <1>2, <1>3
  <2> QED
    BY ONLY <2>1, TwoParts
<1>5. Len(b) \in Nat
  BY <1>2
<1>6. Len(p) >= c.width
  BY <1>1, <1>4, <1>5
<1> QED
  BY <1>1, <1>2, <1>4, <1>6 DEF Fronted

\* Values that many bits hold the distance from the base of.
Within(vs, base, w) == \A k \in 1..Len(vs) : vs[k] - base \in 0..(2^w - 1)

LEMMA FrameOfReferenceBack ==
    ASSUME NEW c, Wide(c), NEW vs \in Seq(Values(c)), NEW n, n = Len(vs), n # 0,
           NEW base \in Values(c), NEW w \in 0..WordBits,
           Within(vs, base, w), NEW p, p = frame_of_reference_bytes(base, w, vs, c)
    PROVE  /\ p \in Seq(Bytes) /\ Len(p) = c.width + packed_length(n, w)
           /\ frame_of_reference(p, n, c) = Decoded(vs)
<1> DEFINE U == 0..(2^w - 1)
           packed == [k \in DOMAIN vs |-> vs[k] - base]
<1>0. n \in Nat /\ DOMAIN vs = 1..n /\ base \in Int /\ \A k \in 1..n : vs[k] \in Int
  <2> DEFINE V == Values(c)
  <2>1. V \subseteq Int /\ base \in V /\ vs \in Seq(V)
    BY WideType
  <2> HIDE DEF V
  <2>2. n \in Nat /\ DOMAIN vs = 1..n /\ \A k \in 1..n : vs[k] \in V
    BY <2>1
  <2> QED
    BY <2>1, <2>2
<1>1. packed = [k \in 1..n |-> vs[k] - base]
  BY <1>0
<1>2. packed \in Seq(U) /\ Len(packed) = n
  <2>1. \A k \in 1..n : vs[k] - base \in U
    BY DEF Within
  <2> HIDE DEF U
  <2> QED
    BY <1>0, <1>1, <2>1
<1>3. p = to_le_bytes(base, c.width) \o pack_from(w, packed)
  BY DEF frame_of_reference_bytes
<1> HIDE DEF packed
<1>4. /\ p \in Seq(Bytes) /\ Len(p) = c.width + packed_length(Len(packed), w) /\ Len(p) >= c.width
      /\ read_integer(SubSeq(p, 1, c.width), c.signed) = base
      /\ bit_unpack(SubSeq(p, c.width + 1, Len(p)), Len(packed)) = Decoded(packed)
  <2>1. /\ Wide(c) /\ base \in Values(c) /\ w \in 0..WordBits /\ packed \in Seq(0..(2^w - 1))
        /\ p = to_le_bytes(base, c.width) \o pack_from(w, packed)
    BY <1>2, <1>3
  <2>2. Fronted(p, c, base, w, packed)
    BY ONLY <2>1, FrontBack
  <2> QED
    BY <2>2 DEF Fronted
<1>5. ~(Len(p) < c.width) /\ Len(p) \in Nat /\ c.width \in Nat
  BY <1>4 DEF Wide
<1> DEFINE xs == [k \in 1..n |-> base + packed[k]]
<1>6. frame_of_reference(p, n, c) = narrowed(xs, c)
  <2> DEFINE offsets == bit_unpack(SubSeq(p, c.width + 1, Len(p)), n)
             b == read_integer(SubSeq(p, 1, c.width), c.signed)
  <2>1. frame_of_reference(p, n, c) =
            IF n = 0 THEN empty(p) ELSE IF Len(p) < c.width \/ ~offsets.ok THEN Corrupt
            ELSE narrowed([k \in 1..n |-> b + offsets.values[k]], c)
    BY Zenon DEF frame_of_reference
  <2>2. offsets.ok /\ offsets.values = packed /\ b = base
    BY <1>2, <1>4 DEF Decoded
  <2> HIDE DEF offsets, b
  <2> QED
    BY <1>5, <2>1, <2>2
<1>7. xs = vs
  <2>1. \A k \in 1..n : base + packed[k] = vs[k]
    BY <1>0, <1>1
  <2>2. vs = [k \in 1..n |-> vs[k]]
    BY <1>0
  <2> QED
    BY <2>1, <2>2
<1> HIDE DEF xs
<1> QED
  BY <1>2, <1>4, <1>6, <1>7, NarrowedBack

-----------------------------------------------------------------------------
(* The encoders of integers                                                *)

\* A sequence, from its elements.
LEMMA Listed ==
    ASSUME NEW T, NEW n \in Nat, NEW s, s = [k \in 1..n |-> s[k]], \A k \in 1..n : s[k] \in T
    PROVE  s \in Seq(T) /\ Len(s) = n
  OBVIOUS

\* What a sequence is made of.
LEMMA Elements ==
    ASSUME NEW T, NEW s \in Seq(T)
    PROVE  /\ Len(s) \in Nat /\ DOMAIN s = 1..Len(s) /\ s = [k \in 1..Len(s) |-> s[k]]
           /\ \A k \in 1..Len(s) : s[k] \in T
  OBVIOUS

LEMMA Widened ==
    ASSUME NEW T, NEW U, T \subseteq U, NEW s \in Seq(T)
    PROVE  s \in Seq(U)
<1>1. Len(s) \in Nat /\ s = [k \in 1..Len(s) |-> s[k]] /\ \A k \in 1..Len(s) : s[k] \in U
  BY Elements
<1> QED
  BY ONLY <1>1, Listed

\* The width of the widest holds every number.
LEMMA Widest ==
    ASSUME NEW vs \in Seq(Nat), \A k \in 1..Len(vs) : vs[k] < 2^WordBits, NEW w, w = WidestOf(vs)
    PROVE  w \in 0..WordBits /\ vs \in Seq(0..(2^w - 1))
<1> DEFINE n == Len(vs)
           ws == [k \in DOMAIN vs |-> bit_width(vs[k])]
<1>0. n \in Nat /\ DOMAIN vs = 1..n /\ \A k \in 1..n : vs[k] \in Nat /\ vs[k] < 2^WordBits
  OBVIOUS
<1>1. vs = [k \in 1..n |-> vs[k]]
  BY <1>0
<1>2. w = MaxOf(ws)
  BY DEF WidestOf
<1>3. \A k \in 1..n : ws[k] \in 0..WordBits /\ vs[k] < 2^ws[k]
  BY <1>0, BitWidth
<1>4. DOMAIN ws = 1..n
  BY <1>0
<1>5. WordBits \in Nat
  BY Widths
<1>6. w \in 0..WordBits /\ \A k \in 1..n : ws[k] <= w
  <2>1. CASE n = 0
    <3>1. ws = <<>>
      BY <1>4, <2>1
    <3>2. w = 0
      BY <1>2, <3>1 DEF MaxOf
    <3> QED
      BY <1>5, <2>1, <3>2
  <2>2. CASE n # 0
    <3> HIDE DEF ws
    <3>0. 1 \in 1..n
      BY <1>0, <2>2
    <3>1. ws # <<>> /\ 1 \in 1..n
      BY <1>4, <3>0
    <3>2. w = Max(ToSet(ws)) /\ ToSet(ws) = {ws[k] : k \in 1..n}
      BY <1>2, <1>4, <3>1 DEF MaxOf, ToSet
    <3>3. ToSet(ws) \in SUBSET (0..WordBits) /\ ToSet(ws) # {}
      BY <1>3, <3>1, <3>2
    <3>4. Max(ToSet(ws)) \in ToSet(ws) /\ \A x \in ToSet(ws) : x <= Max(ToSet(ws))
      BY <1>5, <3>3, MaxOfBounded
    <3> QED
      BY <3>2, <3>3, <3>4
  <2> QED
    BY <2>1, <2>2
<1> HIDE DEF ws
<1> DEFINE U == 0..(2^w - 1)
<1>7. ASSUME NEW k \in 1..n PROVE vs[k] \in U
  <2>1. ws[k] \in Nat /\ w \in Nat /\ ws[k] <= w
    BY <1>3, <1>5, <1>6
  <2>2. 2^ws[k] <= 2^w /\ 2^w \in Nat /\ 2^ws[k] \in Nat
    BY <2>1, PowerMonotone, PowerType
  <2> QED
    BY <1>0, <1>3, <2>2
<1> HIDE DEF U, n
<1>8. vs \in Seq(U)
  BY ONLY <1>0, <1>1, <1>7, Listed
<1> QED
  BY <1>6, <1>8 DEF U

LEMMA ZigZag ==
    ASSUME NEW v \in Int64
    PROVE  zigzag(v) \in Nat /\ zigzag(v) < 2^WordBits /\ unzigzag(zigzag(v)) = v /\ v \in Int
<1> DEFINE H == 2^(ByteBits * WordBytes - 1)
<1>0. WordBytes \in Nat \ {0}
  BY Widths
<1>1. H \in Nat /\ 2^WordBits = 2 * H /\ Int64 = -H .. H - 1
  BY <1>0, ValuesOf DEF Int64, WordBits
<1> HIDE DEF H
<1>2. v \in Int /\ -H <= v /\ v <= H - 1
  BY <1>1
<1>3. CASE v >= 0
  <2>1. zigzag(v) = 2 * v
    BY <1>3 DEF zigzag
  <2>2. (2 * v) % 2 = 0 /\ (2 * v) \div 2 = v
    BY <1>2, <1>3
  <2> QED
    BY <1>1, <1>2, <1>3, <2>1, <2>2 DEF unzigzag
<1>4. CASE v < 0
  <2> DEFINE u == -v - 1
  <2>1. zigzag(v) = 2 * u + 1 /\ u \in Nat /\ v = -u - 1
    BY <1>2, <1>4 DEF zigzag
  <2> HIDE DEF u
  <2>2. (2 * u + 1) % 2 = 1 /\ (2 * u + 1) \div 2 = u
    BY <2>1
  <2> QED
    BY <1>1, <1>2, <2>1, <2>2 DEF unzigzag
<1> QED
  BY <1>2, <1>3, <1>4

LEMMA ZigZagged ==
    ASSUME NEW d \in Seq(Int64)
    PROVE  /\ ZigZags(d) \in Seq(Nat) /\ Len(ZigZags(d)) = Len(d)
           /\ \A k \in 1..Len(d) : ZigZags(d)[k] < 2^WordBits
           /\ UnZigZags(ZigZags(d)) = d /\ d \in Seq(Int)
<1> DEFINE z == ZigZags(d)
           n == Len(d)
<1>1. n \in Nat /\ DOMAIN d = 1..n /\ d = [k \in 1..n |-> d[k]] /\ \A k \in 1..n : d[k] \in Int64
  OBVIOUS
<1>2. z = [k \in 1..n |-> zigzag(d[k])]
  BY <1>1 DEF ZigZags
<1>3. \A k \in 1..n : z[k] \in Nat /\ z[k] < 2^WordBits /\ unzigzag(z[k]) = d[k] /\ d[k] \in Int
  BY <1>1, <1>2, ZigZag
<1>4. DOMAIN z = 1..n /\ z = [k \in 1..n |-> z[k]]
  BY <1>2
<1> HIDE DEF z, n
<1>5. z \in Seq(Nat) /\ Len(z) = n /\ d \in Seq(Int)
  BY ONLY <1>1, <1>3, <1>4, Listed
<1>6. UnZigZags(z) = [k \in 1..n |-> unzigzag(z[k])]
  BY <1>4 DEF UnZigZags
<1>7. UnZigZags(z) = d
  BY <1>1, <1>3, <1>6
<1> QED
  BY <1>3, <1>5, <1>7 DEF z, n

LEMMA DeltaType ==
    ASSUME NEW vs \in Seq(Int), NEW n, n = Len(vs), n # 0
    PROVE  /\ adjacent_deltas(vs) \in Seq(Int) /\ Len(adjacent_deltas(vs)) = n - 1
           /\ \A k \in 1..(n - 1) : adjacent_deltas(vs)[k] = vs[k + 1] - vs[k]
<1> DEFINE d == adjacent_deltas(vs)
<1>0. n \in Nat \ {0} /\ \A k \in 1..n : vs[k] \in Int
  OBVIOUS
<1>1. d = [k \in 1..(n - 1) |-> vs[k + 1] - vs[k]]
  BY DEF adjacent_deltas
<1>2. \A k \in 1..(n - 1) : vs[k + 1] - vs[k] \in Int
  BY <1>0
<1>3. n - 1 \in Nat
  BY <1>0
<1> QED
  BY <1>1, <1>2, <1>3

\* The sums of its differences are the sequence.
LEMMA SumsOfDeltas ==
    ASSUME NEW vs \in Seq(Int), Len(vs) # 0
    PROVE  PartialSums(vs[1], adjacent_deltas(vs)) = vs
<1> DEFINE n == Len(vs)
           d == adjacent_deltas(vs)
           p == PartialSums(vs[1], d)
<1>0. n \in Nat \ {0} /\ vs[1] \in Int /\ \A k \in 1..n : vs[k] \in Int
  OBVIOUS
<1>1. d \in Seq(Int) /\ Len(d) = n - 1 /\ \A k \in 1..(n - 1) : d[k] = vs[k + 1] - vs[k]
  BY DeltaType
<1> HIDE DEF d
<1>2. /\ p \in Seq(Int) /\ Len(p) = Len(d) + 1 /\ p[1] = vs[1]
      /\ \A k \in 1..Len(d) : p[k + 1] = p[k] + d[k]
  BY <1>0, <1>1, PartialSumsAt
<1> HIDE DEF p
<1> DEFINE Same == {k \in Nat : p[k] = vs[k]}
<1>3. 1 \in Same
  BY <1>2
<1>4. \A k \in 1..(n - 1) : k \in Same => k + 1 \in Same
  BY <1>0, <1>1, <1>2
<1>5. \A k \in 1..n : k \in Same
  <2> HIDE DEF Same
  <2> QED
    BY <1>0, <1>3, <1>4, SetInduction
<1>6. Len(p) = n
  BY <1>0, <1>1, <1>2
<1>7. p = [k \in 1..n |-> p[k]] /\ vs = [k \in 1..n |-> vs[k]]
  BY <1>2, <1>6
<1> QED
  BY <1>5, <1>7 DEF p, d

LEMMA PackedIntegersBack ==
    ASSUME NEW c, NEW vs \in Seq(Values(c)), NEW n, n = Len(vs), NEW w \in 0..WordBits,
           vs \in Seq(0..(2^w - 1)), NEW p, p = pack_from(w, vs)
    PROVE  /\ p \in Seq(Bytes) /\ Len(p) = packed_length(n, w)
           /\ packed_integers(p, n, c) = Decoded(vs)
<1>1. p \in Seq(Bytes) /\ Len(p) = packed_length(n, w) /\ bit_unpack(p, n) = Decoded(vs)
  BY Packed
<1>2. bit_unpack(p, n).ok /\ bit_unpack(p, n).values = vs
  BY <1>1 DEF Decoded
<1>3. packed_integers(p, n, c) = narrowed(vs, c)
  BY <1>2 DEF packed_integers
<1> QED
  BY <1>1, <1>3, NarrowedBack

LEMMA DeltaBack ==
    ASSUME NEW c, Wide(c), NEW vs \in Seq(Values(c)), NEW n, n = Len(vs), n # 0,
           NEW d, d = adjacent_deltas(vs), d \in Seq(Int64),
           NEW w \in 0..WordBits, ZigZags(d) \in Seq(0..(2^w - 1)),
           NEW p, p = delta_bytes(w, vs, c)
    PROVE  /\ p \in Seq(Bytes)
           /\ Len(p) = c.width + (IF n <= 1 THEN 0 ELSE packed_length(n - 1, w))
           /\ delta(p, n, c) = Decoded(vs)
<1> DEFINE z == ZigZags(d)
           v == vs[1]
           a == to_le_bytes(v, c.width)
<1>0. n \in Nat \ {0} /\ v \in Values(c) /\ vs \in Seq(Int) /\ c.width \in Nat
  <2> DEFINE V == Values(c)
  <2>1. V \subseteq Int /\ vs \in Seq(V)
    BY WideType
  <2> HIDE DEF V
  <2>2. vs \in Seq(Int) /\ Len(vs) \in Nat /\ \A k \in 1..Len(vs) : vs[k] \in V
    BY ONLY <2>1, Widened, Elements
  <2>3. n \in Nat \ {0} /\ v \in V /\ vs \in Seq(Int)
    BY <2>2
  <2> QED
    BY <2>3 DEF V, Wide
<1>1. Len(d) = n - 1 /\ PartialSums(v, d) = vs
  BY <1>0, DeltaType, SumsOfDeltas
<1>2. a \in Seq(Bytes) /\ Len(a) = c.width /\ read_integer(a, c.signed) = v
  BY <1>0, WideType
<1>3. UnZigZags(z) = d /\ Len(z) = Len(d)
  BY ZigZagged
<1>4. CASE n = 1
  <2>1. p = a \o <<>>
    BY <1>4 DEF delta_bytes
  <2> HIDE DEF a
  <2>2. p = a
    BY <1>2, <2>1
  <2>3. SubSeq(p, 1, c.width) = a
    BY <1>0, <1>2, <2>2
  <2>4. delta(p, n, c) = narrowed(<<read_integer(SubSeq(p, 1, c.width), c.signed)>>, c)
    BY <1>0, <1>2, <1>4, <2>2 DEF delta
  <2>5. <<v>> = vs
    <3>1. vs \in Seq(Int) /\ Len(vs) = 1
      BY <1>0, <1>4
    <3> QED
      BY ONLY <3>1 DEF v
  <2>6. read_integer(SubSeq(p, 1, c.width), c.signed) = v
    BY <1>2, <2>3
  <2>7. narrowed(vs, c) = Decoded(vs)
    BY NarrowedBack
  <2>8. delta(p, n, c) = Decoded(vs)
    BY <2>4, <2>5, <2>6, <2>7, Zenon
  <2>9. Len(p) = c.width + (IF n <= 1 THEN 0 ELSE packed_length(n - 1, w))
    BY <1>0, <1>2, <1>4, <2>2
  <2> QED
    BY <1>2, <2>2, <2>8, <2>9
<1>5. CASE n # 1
  <2>1. p = a \o pack_from(w, z)
    BY <1>5 DEF delta_bytes
  <2>2. Fronted(p, c, v, w, z)
    <3>1. /\ Wide(c) /\ v \in Values(c) /\ w \in 0..WordBits /\ z \in Seq(0..(2^w - 1))
          /\ p = to_le_bytes(v, c.width) \o pack_from(w, z)
      BY <1>0, <2>1
    <3> HIDE DEF z, v
    <3> QED
      BY ONLY <3>1, FrontBack
  <2>3. Len(z) = n - 1
    BY <1>1, <1>3
  <2> HIDE DEF z, v, a
  <2>4. /\ p \in Seq(Bytes) /\ Len(p) = c.width + packed_length(n - 1, w) /\ Len(p) >= c.width
        /\ read_integer(SubSeq(p, 1, c.width), c.signed) = v
        /\ bit_unpack(SubSeq(p, c.width + 1, Len(p)), n - 1) = Decoded(z)
    BY <2>2, <2>3 DEF Fronted
  <2> DEFINE deltas == bit_unpack(SubSeq(p, c.width + 1, Len(p)), n - 1)
             first == read_integer(SubSeq(p, 1, c.width), c.signed)
  <2>5. deltas.ok /\ deltas.values = z /\ first = v
    BY <2>4 DEF Decoded
  <2>6. delta(p, n, c) =
            IF n = 0 THEN empty(p) ELSE IF Len(p) < c.width THEN Corrupt
            ELSE IF n = 1 THEN IF Len(p) = c.width THEN narrowed(<<first>>, c) ELSE Corrupt
            ELSE IF ~deltas.ok THEN Corrupt
            ELSE narrowed(PartialSums(first, UnZigZags(deltas.values)), c)
    BY Zenon DEF delta
  <2> HIDE DEF deltas, first
  <2>7. ~(Len(p) < c.width) /\ ~(n <= 1)
    BY <1>0, <1>5, <2>4
  <2>8. delta(p, n, c) = narrowed(PartialSums(first, UnZigZags(deltas.values)), c)
    BY <1>5, <2>5, <2>6, <2>7
  <2>9. delta(p, n, c) = narrowed(vs, c)
    BY <1>1, <1>3, <2>5, <2>8 DEF z
  <2> QED
    BY <2>4, <2>7, <2>9, NarrowedBack
<1> QED
  BY <1>4, <1>5

\* A payload of two integers and packed numbers is taken apart as it was made.
LEMMA DeltaOfDeltaTaken ==
    ASSUME NEW p, NEW count, NEW type, NEW at, NEW packed, NEW step, NEW deltas,
           Parts(p, count, type, at, packed, step, deltas),
           ~(count < 2), ~(Len(p) < at - 1), packed.ok, ToSet(deltas) \subseteq Int64
    PROVE  delta_of_delta(p, count, type) =
             narrowed(PartialSums(read_integer(SubSeq(p, 1, type.width), type.signed), deltas), type)
  BY DEF delta_of_delta, Parts

LEMMA DeltaOfDeltaBack ==
    ASSUME NEW c, Wide(c), NEW vs \in Seq(Values(c)), NEW n, n = Len(vs), n >= 2,
           NEW d, d = adjacent_deltas(vs), d \in Seq(Int64),
           NEW e, e = adjacent_deltas(d), e \in Seq(Int64),
           NEW w \in 0..WordBits, ZigZags(e) \in Seq(0..(2^w - 1)),
           NEW p, p = delta_of_delta_bytes(w, vs, c)
    PROVE  /\ p \in Seq(Bytes) /\ Len(p) = c.width + WordBytes + packed_length(n - 2, w)
           /\ delta_of_delta(p, n, c) = Decoded(vs)
<1> DEFINE z == ZigZags(e)
           v == vs[1]
           m == d[1]
           a == to_le_bytes(v, c.width)
           b == to_le_bytes(m, WordBytes)
           g == pack_from(w, z)
<1>0. /\ n \in Nat /\ n >= 2 /\ v \in Values(c) /\ vs \in Seq(Int) /\ c.width \in Nat
      /\ WordBytes \in Nat \ {0}
  <2> DEFINE V == Values(c)
  <2>1. V \subseteq Int /\ vs \in Seq(V)
    BY WideType
  <2> HIDE DEF V
  <2>2. vs \in Seq(Int) /\ Len(vs) \in Nat /\ \A k \in 1..Len(vs) : vs[k] \in V
    BY ONLY <2>1, Widened, Elements
  <2>3. n \in Nat /\ n >= 2 /\ v \in V /\ vs \in Seq(Int)
    BY <2>2
  <2> QED
    BY <2>3, Widths DEF V, Wide
<1>1. Len(d) = n - 1 /\ PartialSums(v, d) = vs
  <2>1. n # 0 /\ Len(vs) # 0
    BY <1>0
  <2> QED
    BY <1>0, <2>1, DeltaType, SumsOfDeltas
<1>2. m \in Int64 /\ d \in Seq(Int) /\ \A k \in 1..Len(d) : d[k] \in Int64
  <2>1. Int64 \subseteq Int
    BY ZigZag
  <2>2. 1 \in 1..Len(d)
    BY <1>0, <1>1
  <2>3. d \in Seq(Int64)
    OBVIOUS
  <2>4. d \in Seq(Int) /\ \A k \in 1..Len(d) : d[k] \in Int64
    BY ONLY <2>1, <2>3, Widened, Elements
  <2> QED
    BY <2>2, <2>4
<1>3. Len(e) = n - 2 /\ PartialSums(m, e) = d
  <2>1. Len(d) # 0 /\ Len(d) - 1 = n - 2
    <3>1. Len(d) = n - 1 /\ n \in Nat /\ n >= 2
      BY <1>0, <1>1
    <3> QED
      BY ONLY <3>1
  <2> QED
    BY <1>2, <2>1, DeltaType, SumsOfDeltas
<1>4. UnZigZags(z) = e /\ Len(z) = Len(e)
  BY ZigZagged
<1>5. a \in Seq(Bytes) /\ Len(a) = c.width /\ read_integer(a, c.signed) = v
  BY <1>0, WideType
<1>6. b \in Seq(Bytes) /\ Len(b) = WordBytes /\ read_integer(b, TRUE) = m
  <2>1. m \in Values([width |-> WordBytes, signed |-> TRUE]) /\ m \in Int /\ TRUE \in BOOLEAN
    BY <1>2, ZigZag DEF Int64
  <2> QED
    BY <1>0, <2>1, WrittenInteger
<1>7. g \in Seq(Bytes) /\ Len(g) = packed_length(n - 2, w) /\ bit_unpack(g, n - 2) = Decoded(z)
  BY <1>3, <1>4, Packed
<1>8. p = (a \o b) \o g
  BY Zenon DEF delta_of_delta_bytes
<1> HIDE DEF a, b, g
<1>9. (a \o b) \o g = a \o (b \o g)
  <2>1. a \in Seq(Bytes) /\ b \in Seq(Bytes) /\ g \in Seq(Bytes)
    BY <1>5, <1>6, <1>7
  <2> QED
    BY ONLY <2>1
<1> DEFINE at == Len(a) + Len(b)
<1>10. /\ p \in Seq(Bytes) /\ Len(p) = at + Len(g) /\ at \in Nat
       /\ SubSeq(p, 1, Len(a)) = a /\ SubSeq(p, Len(a) + 1, at) = b
       /\ SubSeq(p, at + 1, Len(p)) = g
  <2>1. a \in Seq(Bytes) /\ b \in Seq(Bytes) /\ g \in Seq(Bytes) /\ p = a \o (b \o g)
    BY <1>5, <1>6, <1>7, <1>8, <1>9
  <2> QED
    BY ONLY <2>1, ThreeParts
<1>11. at = c.width + WordBytes /\ (c.width + 1) + WordBytes = at + 1 /\ Len(g) \in Nat
       /\ ((c.width + 1) + WordBytes) - 1 = at
  BY <1>0, <1>5, <1>6, <1>7
<1> HIDE DEF at
<1> DEFINE cut == (c.width + 1) + WordBytes
           packed == bit_unpack(SubSeq(p, cut, Len(p)), n - 2)
           step == read_integer(SubSeq(p, c.width + 1, cut - 1), TRUE)
           deltas == PartialSums(step, UnZigZags(packed.values))
<1>12. Parts(p, n, c, cut, packed, step, deltas)
  BY <1>0, <1>10, Zenon DEF Parts
<1>13. cut = at + 1 /\ cut - 1 = at
  BY <1>11
<1> HIDE DEF cut
<1>14. packed = Decoded(z) /\ step = m
  BY <1>5, <1>6, <1>7, <1>10, <1>13
<1>15. packed.ok /\ packed.values = z
  BY <1>14 DEF Decoded
<1> HIDE DEF packed, step
<1>16. deltas = d
  BY <1>3, <1>4, <1>14, <1>15
<1> HIDE DEF deltas
<1>17. ToSet(deltas) \subseteq Int64
  BY <1>2, <1>16 DEF ToSet
<1>18. ~(n < 2) /\ ~(Len(p) < cut - 1)
  <2>1. Len(p) = at + Len(g) /\ at \in Nat /\ Len(g) \in Nat /\ cut - 1 = at /\ n \in Nat /\ n >= 2
    BY <1>0, <1>10, <1>11, <1>13
  <2> QED
    BY ONLY <2>1
<1>19. delta_of_delta(p, n, c) =
         narrowed(PartialSums(read_integer(SubSeq(p, 1, c.width), c.signed), deltas), c)
  BY ONLY <1>12, <1>15, <1>17, <1>18, DeltaOfDeltaTaken
<1>20. delta_of_delta(p, n, c) = narrowed(vs, c)
  BY <1>1, <1>5, <1>10, <1>16, <1>19
<1>21. Len(p) = c.width + WordBytes + packed_length(n - 2, w)
  BY <1>7, <1>10, <1>11
<1> QED
  BY <1>10, <1>20, <1>21, NarrowedBack

-----------------------------------------------------------------------------
(* The encoders of booleans, runs and bytes                                *)

\* The runs of a sequence: their values, their lengths and the lengths packed.
RunsOfSeq(T, v, V, L, w) ==
    /\ V \in Seq(T) /\ L \in Seq(Nat) /\ Len(V) = Len(L) /\ Len(L) \in 1..Len(v)
    /\ 0 \notin ToSet(L) /\ SumSeq(L) = Len(v) /\ Expand(V, L) = v
    /\ pack_from(w, L) \in Seq(Bytes) /\ Len(pack_from(w, L)) = packed_length(Len(L), w)
    /\ bit_unpack(pack_from(w, L), Len(L)) = Decoded(L)

LEMMA RunsStored ==
    ASSUME NEW T, NEW v \in Seq(T), Len(v) # 0, Len(v) < 2^WordBits,
           NEW V, V = RunValues(v), NEW L, L = RunLengths(v), NEW w, w = bit_width(MaxOf(L))
    PROVE  RunsOfSeq(T, v, V, L, w)
<1> DEFINE n == Len(v)
           S == RunStarts(v)
           R == Cardinality(S)
<1>1. /\ n \in Nat /\ S \in SUBSET (1..n) /\ R \in Nat /\ (n = 0 <=> R = 0)
      /\ L \in Seq(Nat) /\ Len(L) = R /\ SumSeq(L) = n /\ \A r \in 1..R : L[r] \in 1..n
  BY RunsOf
<1>2. V \in Seq(T) /\ Len(V) = R /\ Expand(V, L) = v
  BY RunsExpand
<1>3. R <= n
  <2>1. IsFiniteSet(1..n) /\ Cardinality(1..n) = n
    <3>1. 1 \in Int /\ n \in Int
      BY <1>1
    <3>2. IsFiniteSet(1..n) /\ Cardinality(1..n) = IF 1 > n THEN 0 ELSE n - 1 + 1
      BY ONLY <3>1, FS_Interval
    <3> QED
      BY ONLY <1>1, <3>2
  <2> HIDE DEF S
  <2> QED
    BY <1>1, <2>1, FS_Subset
<1> HIDE DEF S, R
<1>4. Len(L) \in 1..n
  BY <1>1, <1>3
<1>5. 0 \notin ToSet(L)
  <2>1. \A r \in 1..Len(L) : L[r] # 0
    BY <1>1
  <2> QED
    BY <1>1, <2>1 DEF ToSet
<1>6. /\ pack_from(w, L) \in Seq(Bytes) /\ Len(pack_from(w, L)) = packed_length(Len(L), w)
      /\ bit_unpack(pack_from(w, L), Len(L)) = Decoded(L)
  <2>1. /\ L \in Seq(Nat) /\ n \in Nat /\ n < 2^WordBits /\ Len(L) # 0
        /\ \A r \in 1..Len(L) : L[r] \in 1..n /\ w = bit_width(MaxOf(L))
    BY <1>1, <1>4
  <2> HIDE DEF n
  <2>2. /\ \A r \in 1..Len(L) : L[r] \in 1..n
        /\ w = bit_width(MaxOf(L))
    BY <2>1
  <2> QED
    BY ONLY <2>1, <2>2, LengthsPacked
<1> QED
  BY <1>1, <1>2, <1>4, <1>5, <1>6 DEF RunsOfSeq

LEMMA BooleanRleStored ==
    ASSUME NEW v \in Seq(BOOLEAN), NEW n, n = Len(v), n # 0,
           n < 2^(ByteBits * CountBytes), n < 2^WordBits,
           NEW p, p = boolean_rle(v), NEW R, R = Len(RunValues(v))
    PROVE  /\ p \in Seq(Bytes)
           /\ Len(p) = CountBytes + CeilDiv(R, ByteBits)
                         + packed_length(R, bit_width(MaxOf(RunLengths(v))))
           /\ boolean_rle_values(p, n) = Decoded(v)
<1> DEFINE V == RunValues(v)
           L == RunLengths(v)
           w == bit_width(MaxOf(L))
           C == to_le_bytes(R, CountBytes)
           B == pack_booleans(V)
           K == pack_from(w, L)
<1>1. RunsOfSeq(BOOLEAN, v, V, L, w)
  BY RunsStored
<1>2. /\ V \in Seq(BOOLEAN) /\ Len(V) = R /\ R \in Nat /\ Len(L) = R
      /\ K \in Seq(Bytes) /\ Len(K) = packed_length(R, w)
  <2> HIDE DEF V, L, w
  <2> QED
    BY <1>1 DEF RunsOfSeq, V
<1>3. B \in Seq(Bytes) /\ Len(B) = CeilDiv(R, ByteBits)
  BY <1>2, Bitmap
<1>4. C \in Seq(Bytes) /\ Len(C) = CountBytes
  <2>1. R \in Int /\ CountBytes \in Nat
    BY <1>2, Widths
  <2> QED
    BY ONLY <2>1, WrittenInteger
<1>5. p = C \o (B \o K)
  <2>1. v # <<>>
    OBVIOUS
  <2> QED
    BY <2>1, Zenon DEF boolean_rle
<1> HIDE DEF C, B, K
<1> DEFINE end == Len(C) + Len(B)
<1>6. p \in Seq(Bytes) /\ Len(p) = end + Len(K)
  <2>1. C \in Seq(Bytes) /\ B \in Seq(Bytes) /\ K \in Seq(Bytes) /\ p = C \o (B \o K)
    BY <1>2, <1>3, <1>4, <1>5
  <2> QED
    BY ONLY <2>1, ThreeParts
<1> HIDE DEF w
<1>7. Len(p) = CountBytes + CeilDiv(R, ByteBits) + packed_length(R, w)
  BY <1>2, <1>3, <1>4, <1>6
<1> QED
  BY <1>6, <1>7, RunsReadBack DEF w

LEMMA PackedBooleansBack ==
    ASSUME NEW v \in Seq(BOOLEAN), NEW n, n = Len(v),
           NEW bits, bits = [k \in DOMAIN v |-> IF v[k] THEN 1 ELSE 0],
           NEW w, w = (IF 1 \in ToSet(bits) THEN 1 ELSE 0), NEW p, p = pack_from(w, bits)
    PROVE  /\ p \in Seq(Bytes) /\ Len(p) = packed_length(n, w)
           /\ packed_booleans(p, n) = Decoded(v)
<1>0. /\ n \in Nat /\ DOMAIN v = 1..n /\ v = [k \in 1..n |-> v[k]]
      /\ \A k \in 1..n : v[k] \in BOOLEAN
  BY Elements
<1>1. /\ bits = [k \in 1..n |-> bits[k]] /\ DOMAIN bits = 1..n
      /\ \A k \in 1..n : bits[k] \in {0, 1} /\ ((bits[k] = 1) = v[k])
  BY <1>0
<1>2. ToSet(bits) = {bits[k] : k \in 1..n}
  BY <1>1 DEF ToSet
<1>3. w \in 0..WordBits /\ 2^w = w + 1 /\ \A k \in 1..n : bits[k] \in 0..w
  <2>1. 2^0 = 1 /\ 2^1 = 2 /\ WordBits \in Nat \ {0}
    BY PowerType, Widths
  <2>2. CASE w = 0
    BY <1>1, <1>2, <2>1, <2>2
  <2>3. CASE w = 1
    BY <1>1, <2>1, <2>3
  <2> QED
    BY <2>2, <2>3
<1>4. bits \in Seq(0..(2^w - 1)) /\ Len(bits) = n
  <2> DEFINE U == 0..(2^w - 1)
  <2>0. U = 0..w
    BY <1>3
  <2>1. \A k \in 1..n : bits[k] \in U
    BY <1>3, <2>0
  <2>2. n \in Nat /\ bits = [k \in 1..n |-> bits[k]]
    BY <1>0, <1>1
  <2> HIDE DEF U
  <2>3. bits \in Seq(U) /\ Len(bits) = n
    BY ONLY <2>1, <2>2, Listed
  <2> QED
    BY <2>3 DEF U
<1>5. p \in Seq(Bytes) /\ Len(p) = packed_length(n, w) /\ bit_unpack(p, n) = Decoded(bits)
  BY <1>3, <1>4, Packed
<1>6. bit_unpack(p, n).ok /\ bit_unpack(p, n).values = bits
  BY ONLY <1>5 DEF Decoded
<1>7. ToSet(bits) \subseteq {0, 1}
  BY <1>1, <1>2
<1>8. packed_booleans(p, n) = Decoded([k \in 1..n |-> bits[k] = 1])
  BY <1>6, <1>7 DEF packed_booleans
<1>9. [k \in 1..n |-> bits[k] = 1] = v
  <2>1. [k \in 1..n |-> bits[k] = 1] = [k \in 1..n |-> v[k]]
    BY <1>1, Zenon
  <2> QED
    BY <1>0, <2>1, Zenon
<1> QED
  BY <1>5, <1>8, <1>9

\* Values of one width, end to end, are cut into the same values.
LEMMA ChunksBack ==
    ASSUME NEW w \in Nat \ {0}, NEW vs \in Seq(WideBytes(w)), NEW n, n = Len(vs),
           NEW p, p = FlattenSeq(vs)
    PROVE  p \in Seq(Bytes) /\ Len(p) = n * w /\ Chunks(p, w) = vs
<1> DEFINE W == WideBytes(w)
<1>0. /\ n \in Nat /\ vs = [k \in 1..n |-> vs[k]]
      /\ \A k \in 1..n : vs[k] \in Seq(Bytes) /\ Len(vs[k]) = w
  <2>1. vs \in Seq(W)
    OBVIOUS
  <2> HIDE DEF W
  <2>2. n \in Nat /\ vs = [k \in 1..n |-> vs[k]] /\ \A k \in 1..n : vs[k] \in W
    BY <2>1, Elements
  <2> QED
    BY <2>2 DEF W, WideBytes
<1>1. vs \in Seq(Seq(Bytes))
  <2> DEFINE B == Seq(Bytes)
  <2>1. \A k \in 1..n : vs[k] \in B
    BY <1>0
  <2> HIDE DEF B
  <2>2. vs \in Seq(B)
    BY <1>0, <2>1, Listed
  <2> QED
    BY <2>2 DEF B
<1>2. p \in Seq(Bytes) /\ Len(p) = n * w /\ Cuts(p, w, vs)
  <2>1. vs \in Seq(Seq(Bytes)) /\ w \in Nat /\ (\A i \in 1..Len(vs) : Len(vs[i]) = w)
        /\ p = FlattenSeq(vs)
    BY <1>0, <1>1
  <2>2. p \in Seq(Bytes) /\ Len(p) = Len(vs) * w /\ Cuts(p, w, vs)
    BY ONLY <2>1, FlattenEqual
  <2> QED
    BY <2>2
<1>3. /\ Chunks(p, w) \in Seq(W) /\ Len(Chunks(p, w)) = n
      /\ \A k \in 1..n : Chunks(p, w)[k] = SubSeq(p, (k - 1) * w + 1, k * w)
  <2>1. p \in Seq(Bytes) /\ w \in Nat \ {0} /\ n \in Nat /\ Len(p) = n * w
    BY <1>0, <1>2
  <2> QED
    BY ONLY <2>1, ChunksOf
<1> DEFINE C == Chunks(p, w)
<1>5. C = [k \in 1..n |-> C[k]]
  <2> HIDE DEF C, W
  <2> QED
    BY <1>3, Elements DEF C
<1>6. \A k \in 1..n : C[k] = vs[k]
  BY <1>2, <1>3 DEF Cuts
<1> HIDE DEF C
<1>7. C = vs
  BY <1>0, <1>5, <1>6
<1> QED
  BY <1>2, <1>7 DEF C

\* What is split into planes of bytes is put together again.
LEMMA SplitBack ==
    ASSUME NEW p \in Seq(Bytes), NEW w \in Nat \ {0}, NEW count \in Nat \ {0}, Len(p) = count * w,
           NEW q, q = split_bytes(p, w)
    PROVE  q \in Seq(Bytes) /\ Len(q) = count * w /\ byte_stream_split(q, count, w) = Decoded(p)
<1> DEFINE N == count * w
<1>0. N \in Nat /\ N = w * count
  OBVIOUS
<1>1. Len(p) \div w = count
  <2>1. 0 \in 0..(w - 1) /\ Len(p) = count * w + 0 /\ count \in Int
    OBVIOUS
  <2> QED
    BY <2>1, Euclid
<1> DEFINE at(k) == ((k - 1) % count) * w + (k - 1) \div count + 1
           from(k) == ((k - 1) % w) * count + (k - 1) \div w + 1
<1>2. q = [k \in 1..N |-> p[at(k)]]
  BY <1>1 DEF split_bytes
<1>3. \A k \in 1..N : at(k) \in 1..N
  <2>1. \A k \in 1..(w * count) :
           ((k - 1) % count) * w + (k - 1) \div count + 1 \in 1..(w * count)
    BY SplitPlace
  <2> QED
    BY <1>0, <2>1
<1>4. \A k \in 1..N : from(k) \in 1..N
  BY SplitPlace
<1>5. ASSUME NEW k \in 1..N PROVE at(from(k)) = k
  <2> DEFINE r == (k - 1) % w
             d == (k - 1) \div w
             x == r * count + d
  <2>1. r \in 0..(w - 1) /\ d \in 0..(count - 1) /\ k - 1 = d * w + r
    BY SplitPlace
  <2>2. r \in Int /\ d \in Nat /\ k \in Int
    BY <2>1
  <2> HIDE DEF r, d
  <2>3. r * count \in Int
    BY <2>2
  <2>4. from(k) = x + 1 /\ x \in Int
    BY <2>2, <2>3 DEF r, d
  <2>5. (from(k) - 1) = x
    BY <2>4
  <2>6. x \div count = r /\ x % count = d
    <3>1. count \in Nat \ {0} /\ r \in Int /\ d \in 0..(count - 1) /\ x = r * count + d
      BY <2>1, <2>2
    <3> HIDE DEF x
    <3> QED
      BY ONLY <3>1, Euclid
  <2> HIDE DEF x
  <2> DEFINE f == from(k)
  <2>7. f - 1 = x
    BY <2>5
  <2> HIDE DEF f
  <2>8. at(f) = d * w + r + 1
    BY <2>6, <2>7
  <2>9. d * w \in Int
    BY <2>2
  <2>10. d * w + r + 1 = k
    BY <2>1, <2>2, <2>9
  <2> QED
    BY <2>8, <2>10 DEF f
<1> HIDE DEF at, from, N
<1>6. p = [k \in 1..N |-> p[k]] /\ \A k \in 1..N : p[k] \in Bytes
  BY Elements DEF N
<1>7. q = [k \in 1..N |-> q[k]] /\ \A k \in 1..N : q[k] \in Bytes
  BY <1>2, <1>3, <1>6
<1>8. q \in Seq(Bytes) /\ Len(q) = N
  BY ONLY <1>0, <1>7, Listed
<1>9. \A k \in 1..N : q[from(k)] = p[k]
  BY <1>2, <1>4, <1>5
<1>10. byte_stream_split(q, count, w) = Decoded([k \in 1..N |-> q[from(k)]])
  BY <1>8 DEF byte_stream_split, N, from
<1>11. [k \in 1..N |-> q[from(k)]] = p
  BY <1>6, <1>9
<1> QED
  BY <1>8, <1>10, <1>11 DEF N

\* Values of their own lengths, end to end, are cut into the same values.
LEMMA SplitValuesBack ==
    ASSUME NEW vs \in Seq(Seq(Bytes)), NEW p, p = FlattenSeq(vs)
    PROVE  p \in Seq(Bytes) /\ split_values(p, Lengths(vs)) = Decoded(vs)
<1> DEFINE n == Len(vs)
           d == Lengths(vs)
           s == PartialSums(0, d)
           P(k) == SumFunctionOnSet(d, 1..(k - 1))
<1>0. /\ n \in Nat /\ DOMAIN vs = 1..n /\ vs = [k \in 1..n |-> vs[k]]
      /\ \A k \in 1..n : vs[k] \in Seq(Bytes)
  BY Elements
<1>1. d = [k \in 1..n |-> Len(vs[k])]
  BY <1>0 DEF Lengths
<1>2. \A k \in 1..n : d[k] \in Nat /\ d[k] = Len(vs[k])
  BY <1>0, <1>1
<1>3. d = [k \in 1..n |-> d[k]] /\ DOMAIN d = 1..n
  BY <1>1
<1> HIDE DEF d, n
<1>4. d \in Seq(Nat) /\ Len(d) = n
  BY ONLY <1>0, <1>2, <1>3, Listed
<1>5. /\ s[n + 1] = Last(s)
      /\ \A k \in 1..n : s[k] \in Nat /\ s[k + 1] = s[k] + d[k]
      /\ \A k \in 1..(n + 1) : s[k] = P(k)
  <2> DEFINE t == s
  <2>0. d \in Seq(Nat) /\ t = PartialSums(0, d)
    BY <1>4
  <2> HIDE DEF t
  <2>1. /\ t \in Seq(Nat) /\ Len(t) = Len(d) + 1 /\ Last(t) = t[Len(d) + 1]
        /\ \A k \in 1..Len(d) : t[k + 1] = t[k] + d[k]
        /\ \A k \in 1..(Len(d) + 1) : t[k] = SumFunctionOnSet(d, 1..(k - 1))
    BY ONLY <2>0, RunningSums
  <2>2. \A k \in 1..n : t[k] \in Nat
    BY <1>0, <1>4, <2>1
  <2> QED
    BY <1>4, <2>1, <2>2 DEF t
<1>6. /\ p \in Seq(Bytes) /\ Len(p) = P(n + 1)
      /\ \A k \in 1..n : \A j \in 1..d[k] : p[P(k) + j] = vs[k][j]
  <2>1. vs \in Seq(Seq(Bytes)) /\ p = FlattenSeq(vs) /\ \A i \in 1..Len(vs) : d[i] = Len(vs[i])
    BY <1>2 DEF n
  <2>2. /\ p \in Seq(Bytes) /\ Len(p) = SumFunctionOnSet(d, 1..Len(vs))
        /\ \A i \in 1..Len(vs) : \A j \in 1..Len(vs[i]) :
             p[SumFunctionOnSet(d, 1..(i - 1)) + j] = vs[i][j]
    BY <2>1, FlattenAt
  <2>3. (n + 1) - 1 = n
    BY <1>0
  <2> QED
    BY <1>2, <2>2, <2>3 DEF n
<1> HIDE DEF P, s
<1>7. ASSUME NEW k \in 1..n PROVE SubSeq(p, s[k] + 1, s[k + 1]) = vs[k]
  <2> DEFINE a == s[k]
             l == d[k]
             x == vs[k]
  <2>1. a \in Nat /\ l \in Nat /\ s[k + 1] = a + l /\ x \in Seq(Bytes) /\ Len(x) = l /\ a = P(k)
    BY <1>0, <1>2, <1>5
  <2>2. \A j \in 1..l : p[a + j] = x[j]
    BY <1>6, <2>1
  <2> HIDE DEF a, l, x
  <2>3. SubSeq(p, a + 1, a + l) = [j \in 1..l |-> p[a + j]]
    <3>1. a \in Nat /\ l \in Nat
      BY <2>1
    <3> QED
      BY ONLY <3>1, Slice
  <2>4. x = [j \in 1..l |-> x[j]]
    BY ONLY <2>1, Elements
  <2>5. SubSeq(p, a + 1, a + l) = x
    BY <2>2, <2>3, <2>4
  <2> QED
    BY <2>1, <2>5 DEF a, x
<1>8. Last(s) = Len(p)
  BY <1>0, <1>5, <1>6, n + 1 \in 1..(n + 1)
<1>9. split_values(p, d) = Decoded([k \in 1..n |-> SubSeq(p, s[k] + 1, s[k + 1])])
  BY <1>3, <1>8, Zenon DEF split_values, s
<1>10. [k \in 1..n |-> SubSeq(p, s[k] + 1, s[k + 1])] = [k \in 1..n |-> vs[k]]
  BY <1>7, Zenon
<1> QED
  BY <1>0, <1>6, <1>9, <1>10 DEF d

-----------------------------------------------------------------------------
(* The streams of values                                                   *)

\* A column for whose values there are bytes, and values it may hold.
Holding(c, vs) == IsColumn(c) /\ vs \in Seq(Domain(c))

\* The bytes the values are stored as they are in, and how many these are.
PlainBytes(c, vs) == IF c.family = "bool" THEN pack_booleans(vs) ELSE AllBytes(c, vs)
PlainPrice(c, vs) ==
    IF c.family = "bool" THEN CeilDiv(Len(vs), ByteBits)
    ELSE IF IsVariable(c) THEN Len(FlattenSeq(vs))
    ELSE Len(vs) * c.width

PlainBack(c, vs, p, lens, q) ==
    /\ p \in Seq(Bytes) /\ Len(p) = PlainPrice(c, vs)
    /\ ~IsVariable(c) => \A kind : stored_values(c, Stream(kind, "raw", Len(vs), p)) = Decoded(vs)
    /\ IsVariable(c) =>
         /\ q \in Seq(Bytes) /\ Len(q) = Len(vs) * CountBytes
         /\ decoded_lengths(q, Len(vs), "raw") = Decoded(lens)
         /\ split_values(p, lens) = Decoded(vs)

LEMMA StreamFields ==
    ASSUME NEW kind, NEW transform, NEW elements, NEW bytes, NEW s,
           s = Stream(kind, transform, elements, bytes)
    PROVE  /\ s.kind = kind /\ s.transform = transform /\ s.elements = elements /\ s.bytes = bytes
           /\ kind \in Kinds /\ transform \in Transforms /\ elements \in Nat /\ bytes \in Seq(Bytes)
                => s \in StreamRecords
  BY DEF Stream, StreamRecords

\* The bytes of the canonical values of a column.
CanonicalRead(c, vs, p, n) ==
    /\ p \in Seq(Bytes) /\ Len(p) = n * c.width
    /\ \A kind : canonical_values(Stream(kind, "raw", n, p), c.width) = Decoded(vs)
    /\ n # 0 => /\ split_bytes(p, c.width) \in Seq(Bytes)
                /\ Len(split_bytes(p, c.width)) = n * c.width
                /\ \A kind : canonical_values(Stream(kind, "byte_stream_split", n,
                                 split_bytes(p, c.width)), c.width) = Decoded(vs)

LEMMA CanonicalBack ==
    ASSUME NEW c, IsColumn(c), c.family \in {"float", "fixed_binary"},
           NEW vs \in Seq(WideBytes(c.width)), NEW p, p = AllBytes(c, vs), NEW n, n = Len(vs)
    PROVE  CanonicalRead(c, vs, p, n)
<1> DEFINE w == c.width
           W == WideBytes(w)
<1>0. w \in Nat \ {0} /\ ~IsNumeric(c) /\ c.family # "bool"
  BY DEF IsColumn, IsVariable, IsNumeric
<1>1. n \in Nat /\ DOMAIN vs = 1..n /\ vs = [k \in 1..n |-> vs[k]]
  <2>1. vs \in Seq(W)
    OBVIOUS
  <2> HIDE DEF W
  <2> QED
    BY <2>1, Elements
<1>2. AllBytes(c, vs) = FlattenSeq([k \in 1..n |-> vs[k]])
  BY <1>0, <1>1 DEF AllBytes, ValueBytes
<1>3. p = FlattenSeq(vs)
  BY <1>1, <1>2
<1>4. p \in Seq(Bytes) /\ Len(p) = n * w /\ Chunks(p, w) = vs
  <2>1. w \in Nat \ {0} /\ vs \in Seq(WideBytes(w)) /\ p = FlattenSeq(vs)
    BY <1>0, <1>3
  <2> HIDE DEF w
  <2> QED
    BY ONLY <2>1, n = Len(vs), ChunksBack
<1> HIDE DEF w
<1>5. ASSUME NEW kind PROVE canonical_values(Stream(kind, "raw", n, p), w) = Decoded(vs)
  <2> DEFINE s == Stream(kind, "raw", n, p)
  <2>1. s.transform = "raw" /\ s.bytes = p /\ s.elements = n
    BY StreamFields
  <2> HIDE DEF s
  <2>2. canonical_values(s, w) = Decoded(Chunks(p, w))
    BY <1>4, <2>1 DEF canonical_values
  <2> QED
    BY <1>4, <2>2 DEF s
<1>6. ASSUME n # 0
      PROVE  /\ split_bytes(p, w) \in Seq(Bytes) /\ Len(split_bytes(p, w)) = n * w
             /\ \A kind : canonical_values(Stream(kind, "byte_stream_split", n, split_bytes(p, w)), w)
                            = Decoded(vs)
  <2> DEFINE q == split_bytes(p, w)
  <2>1. q \in Seq(Bytes) /\ Len(q) = n * w /\ byte_stream_split(q, n, w) = Decoded(p)
    <3>1. n \in Nat \ {0} /\ p \in Seq(Bytes) /\ w \in Nat \ {0} /\ Len(p) = n * w
      BY <1>0, <1>1, <1>4, <1>6
    <3> QED
      BY ONLY <3>1, SplitBack
  <2> HIDE DEF q
  <2>2. ASSUME NEW kind
        PROVE  canonical_values(Stream(kind, "byte_stream_split", n, q), w) = Decoded(vs)
    <3> DEFINE s == Stream(kind, "byte_stream_split", n, q)
    <3>1. s.transform = "byte_stream_split" /\ s.bytes = q /\ s.elements = n
      BY StreamFields
    <3> HIDE DEF s
    <3>2. byte_stream_split(q, n, w).ok /\ byte_stream_split(q, n, w).values = p
      BY ONLY <2>1 DEF Decoded
    <3>3. canonical_values(s, w) = Decoded(Chunks(p, w))
      BY <1>4, <3>1, <3>2 DEF canonical_values
    <3> QED
      BY <1>4, <3>3 DEF s
  <2> QED
    BY <2>1, <2>2 DEF q
<1> QED
  BY <1>4, <1>5, <1>6 DEF w, CanonicalRead

LEMMA DomainOf ==
    ASSUME NEW c, IsColumn(c)
    PROVE  /\ c.family = "bool" => Domain(c) = BOOLEAN /\ ~IsVariable(c) /\ ~IsNumeric(c)
           /\ IsNumeric(c) => /\ Domain(c) = Values(c) /\ ~IsVariable(c) /\ c.family # "bool"
                              /\ Wide(c) /\ c.width <= WordBytes
           /\ IsVariable(c) => Domain(c) = CountedBytes /\ ~IsNumeric(c) /\ c.family # "bool"
           /\ c.family \in {"float", "fixed_binary"} =>
                /\ Domain(c) = WideBytes(c.width) /\ ~IsVariable(c) /\ ~IsNumeric(c)
                /\ c.family # "bool"
           /\ \/ c.family = "bool" \/ IsNumeric(c) \/ IsVariable(c)
              \/ c.family \in {"float", "fixed_binary"}
           /\ c.width \in Nat /\ (IsVariable(c) \/ c.width # 0)
  BY DEF IsColumn, Domain, IsNumeric, IsVariable, Families, Wide

LEMMA PlainBytesBack ==
    ASSUME NEW c, NEW vs, Holding(c, vs)
    PROVE  PlainBack(c, vs, PlainBytes(c, vs), Lengths(vs), length_bytes(Lengths(vs)))
<1> DEFINE n == Len(vs)
           p == PlainBytes(c, vs)
<1>0. IsColumn(c) /\ vs \in Seq(Domain(c))
  BY DEF Holding
<1>1. CASE c.family = "bool"
  <2>1. vs \in Seq(BOOLEAN) /\ ~IsVariable(c) /\ p = pack_booleans(vs)
    BY <1>0, <1>1, DomainOf DEF PlainBytes
  <2>2. p \in Seq(Bytes) /\ Len(p) = CeilDiv(n, ByteBits) /\ raw_booleans(p, n) = Decoded(vs)
    BY <2>1, Bitmap
  <2> HIDE DEF n, p
  <2>3. ASSUME NEW kind PROVE stored_values(c, Stream(kind, "raw", n, p)) = Decoded(vs)
    <3> DEFINE s == Stream(kind, "raw", n, p)
    <3>1. s.transform = "raw" /\ s.bytes = p /\ s.elements = n
      BY StreamFields
    <3> HIDE DEF s
    <3>2. stored_values(c, s) = raw_booleans(p, n)
      BY <1>1, <3>1 DEF stored_values, booleans, IsNumeric
    <3> QED
      BY <2>2, <3>2 DEF s
  <2>4. PlainPrice(c, vs) = CeilDiv(n, ByteBits)
    BY <1>1 DEF PlainPrice, n
  <2> QED
    BY <2>1, <2>2, <2>3, <2>4 DEF PlainBack, n, p
<1>2. CASE IsNumeric(c)
  <2>1. vs \in Seq(Values(c)) /\ ~IsVariable(c) /\ c.family # "bool" /\ Wide(c)
    BY <1>0, <1>2, DomainOf
  <2>2. p = raw_bytes(vs, c)
    BY <1>2, <2>1 DEF PlainBytes, AllBytes, ValueBytes, raw_bytes
  <2>3. p \in Seq(Bytes) /\ Len(p) = n * c.width /\ raw_integers(p, n, c) = Decoded(vs)
    BY <2>1, <2>2, RawIntegersBack
  <2> HIDE DEF n, p
  <2>4. ASSUME NEW kind PROVE stored_values(c, Stream(kind, "raw", n, p)) = Decoded(vs)
    <3> DEFINE s == Stream(kind, "raw", n, p)
    <3>1. s.transform = "raw" /\ s.bytes = p /\ s.elements = n
      BY StreamFields
    <3> HIDE DEF s
    <3>2. stored_values(c, s) = raw_integers(p, n, c)
      BY <1>2, <2>1, <3>1 DEF stored_values, integer, IsNumeric
    <3> QED
      BY <2>3, <3>2 DEF s
  <2>5. PlainPrice(c, vs) = n * c.width
    BY <2>1 DEF PlainPrice, n
  <2> QED
    BY <2>1, <2>3, <2>4, <2>5 DEF PlainBack, n, p
<1>3. CASE IsVariable(c)
  <2> DEFINE lens == Lengths(vs)
             q == length_bytes(lens)
             C == CountedBytes
  <2>1. vs \in Seq(C) /\ ~IsNumeric(c) /\ c.family # "bool"
    BY <1>0, <1>3, DomainOf
  <2>2. /\ n \in Nat /\ DOMAIN vs = 1..n /\ vs = [k \in 1..n |-> vs[k]]
        /\ \A k \in 1..n : vs[k] \in C
    <3> HIDE DEF C
    <3> QED
      BY <2>1, Elements
  <2>3. \A k \in 1..n : vs[k] \in Seq(Bytes) /\ Len(vs[k]) \in Values(CountType)
    BY <2>2 DEF CountedBytes
  <2>4. vs \in Seq(Seq(Bytes))
    <3> DEFINE B == Seq(Bytes)
    <3>1. \A k \in 1..n : vs[k] \in B
      BY <2>3
    <3> HIDE DEF B, n, C
    <3>2. vs \in Seq(B)
      BY ONLY <2>2, <3>1, Listed
    <3> QED
      BY <3>2 DEF B
  <2>5. p = FlattenSeq(vs)
    <3>1. p = FlattenSeq([k \in 1..n |-> vs[k]])
      BY <2>1, <2>2 DEF PlainBytes, AllBytes, ValueBytes
    <3> QED
      BY <2>2, <3>1
  <2>6. p \in Seq(Bytes) /\ split_values(p, lens) = Decoded(vs)
    BY <2>4, <2>5, SplitValuesBack
  <2>7. lens \in Seq(Values(CountType)) /\ Len(lens) = n
    <3> DEFINE V == Values(CountType)
    <3>1. lens = [k \in 1..n |-> Len(vs[k])]
      BY <2>2 DEF Lengths
    <3>2. lens = [k \in 1..n |-> lens[k]] /\ \A k \in 1..n : lens[k] \in V
      BY <2>3, <3>1
    <3> HIDE DEF lens, V, n
    <3>3. lens \in Seq(V) /\ Len(lens) = n
      BY ONLY <2>2, <3>2, Listed
    <3> QED
      BY <3>3 DEF V
  <2>8. Wide(CountType) /\ CountType.width = CountBytes
    BY CountTypeColumn, Widths DEF Wide
  <2>9. q = raw_bytes(lens, CountType)
    BY DEF length_bytes
  <2> HIDE DEF lens, q, n, p
  <2>10. q \in Seq(Bytes) /\ Len(q) = n * CountBytes /\ raw_integers(q, n, CountType) = Decoded(lens)
    BY <2>7, <2>8, <2>9, RawIntegersBack
  <2>11. decoded_lengths(q, n, "raw") = Decoded(lens)
    BY <2>10 DEF decoded_lengths, integer
  <2>12. PlainPrice(c, vs) = Len(p)
    BY <1>3, <2>1, <2>5 DEF PlainPrice
  <2> QED
    BY <1>3, <2>6, <2>10, <2>11, <2>12 DEF PlainBack, n, p, lens, q
<1>4. CASE c.family \in {"float", "fixed_binary"}
  <2>1. /\ vs \in Seq(WideBytes(c.width)) /\ ~IsVariable(c) /\ ~IsNumeric(c) /\ c.family # "bool"
        /\ p = AllBytes(c, vs)
    BY <1>0, <1>4, DomainOf DEF PlainBytes
  <2>2. /\ p \in Seq(Bytes) /\ Len(p) = n * c.width
        /\ \A kind : canonical_values(Stream(kind, "raw", n, p), c.width) = Decoded(vs)
    <3>1. /\ IsColumn(c) /\ c.family \in {"float", "fixed_binary"} /\ vs \in Seq(WideBytes(c.width))
          /\ p = AllBytes(c, vs) /\ n = Len(vs)
      BY <1>0, <1>4, <2>1
    <3> HIDE DEF n, p
    <3>2. CanonicalRead(c, vs, p, n)
      BY ONLY <3>1, CanonicalBack
    <3> QED
      BY <3>2 DEF CanonicalRead
  <2> HIDE DEF n, p
  <2>3. ASSUME NEW kind PROVE stored_values(c, Stream(kind, "raw", n, p)) = Decoded(vs)
    BY <1>4, <2>1, <2>2 DEF stored_values
  <2>4. PlainPrice(c, vs) = n * c.width
    BY <2>1 DEF PlainPrice, n
  <2> QED
    BY <2>1, <2>2, <2>3, <2>4 DEF PlainBack, n, p
<1> QED
  BY <1>0, <1>1, <1>2, <1>3, <1>4, DomainOf

\* Streams of different kinds, the lengths of their bytes and their kinds.
Laid(streams, prices, kinds) ==
    /\ streams \in Seq(StreamRecords)
    /\ \A i, j \in 1..Len(streams) : i # j => streams[i].kind # streams[j].kind
    /\ \A i \in 1..Len(streams) : streams[i].kind \in kinds
    /\ prices = [s \in 1..Len(streams) |-> Len(streams[s].bytes)]

\* A stream that is the only one of its kind among those stored.
Carries(st, s) == Len(StreamsOf(st, s.kind)) = 1 /\ StreamsOf(st, s.kind)[1] = s
CarriesAll(st, streams) == \A i \in 1..Len(streams) : Carries(st, streams[i])

LEMMA LaidOne ==
    ASSUME NEW s \in StreamRecords, NEW x, x = Len(s.bytes)
    PROVE  /\ Laid(<<s>>, <<x>>, {s.kind})
           /\ \A st : CarriesAll(st, <<s>>) => Carries(st, s)
<1> DEFINE ss == <<s>>
<1>1. ss \in Seq(StreamRecords) /\ Len(ss) = 1 /\ ss[1] = s /\ 1 \in 1..Len(ss)
  OBVIOUS
<1>2. <<x>> = [k \in 1..1 |-> Len(ss[k].bytes)]
  OBVIOUS
<1> HIDE DEF ss
<1>3. \A i \in 1..Len(ss) : i = 1
  BY <1>1
<1>4. Laid(ss, <<x>>, {s.kind})
  BY <1>1, <1>2, <1>3 DEF Laid
<1>5. \A st : CarriesAll(st, ss) => Carries(st, s)
  BY <1>1 DEF CarriesAll
<1> QED
  BY <1>4, <1>5 DEF ss

LEMMA LaidNext ==
    ASSUME NEW ss, NEW prices, NEW kinds, Laid(ss, prices, kinds),
           NEW s \in StreamRecords, s.kind \notin kinds, NEW x, x = Len(s.bytes)
    PROVE  /\ Laid(ss \o <<s>>, prices \o <<x>>, kinds \cup {s.kind})
           /\ \A st : CarriesAll(st, ss \o <<s>>) => CarriesAll(st, ss) /\ Carries(st, s)
<1> DEFINE n == Len(ss)
           tt == ss \o <<s>>
           pp == prices \o <<x>>
<1>0. ss \in Seq(StreamRecords) /\ n \in Nat
  BY DEF Laid
<1>1. /\ tt \in Seq(StreamRecords) /\ Len(tt) = n + 1 /\ tt[n + 1] = s
      /\ \A i \in 1..n : tt[i] = ss[i]
  BY <1>0
<1>2. \A i \in 1..n : ss[i].kind \in kinds /\ ss[i].kind # s.kind
  BY DEF Laid
<1>3. \A i, j \in 1..n : i # j => ss[i].kind # ss[j].kind
  BY DEF Laid
<1>4. /\ Len(prices) = n /\ prices \in Seq(Nat) /\ \A i \in 1..n : prices[i] = Len(ss[i].bytes)
  <2>1. \A i \in 1..n : Len(ss[i].bytes) \in Nat
    BY <1>0 DEF StreamRecords
  <2>2. prices = [i \in 1..n |-> Len(ss[i].bytes)]
    BY DEF Laid
  <2> HIDE DEF n
  <2> QED
    BY <1>0, <2>1, <2>2
<1>5. x \in Nat
  BY DEF StreamRecords
<1>6. Len(pp) = n + 1 /\ pp[n + 1] = x /\ (\A i \in 1..n : pp[i] = prices[i]) /\ pp \in Seq(Nat)
  BY <1>0, <1>4, <1>5
<1> HIDE DEF tt, pp, n
<1>7. \A i \in 1..(n + 1) : i \in 1..n \/ i = n + 1
  BY <1>0
<1>8. \A i, j \in 1..(n + 1) : i # j => tt[i].kind # tt[j].kind
  BY <1>1, <1>2, <1>3, <1>7
<1>9. \A i \in 1..(n + 1) : tt[i].kind \in kinds \cup {s.kind}
  BY <1>1, <1>2, <1>7
<1>10. pp = [i \in 1..(n + 1) |-> Len(tt[i].bytes)]
  <2>1. \A i \in 1..(n + 1) : pp[i] = Len(tt[i].bytes)
    BY <1>1, <1>4, <1>6, <1>7
  <2>2. pp = [i \in 1..(n + 1) |-> pp[i]]
    BY <1>6, Elements
  <2> QED
    BY <2>1, <2>2
<1>11. Laid(tt, pp, kinds \cup {s.kind})
  BY <1>1, <1>8, <1>9, <1>10 DEF Laid
<1>12. ASSUME NEW st, CarriesAll(st, tt) PROVE CarriesAll(st, ss) /\ Carries(st, s)
  <2>1. \A i \in 1..(n + 1) : Carries(st, tt[i])
    BY <1>1, <1>12 DEF CarriesAll
  <2>2. n + 1 \in 1..(n + 1) /\ \A i \in 1..n : i \in 1..(n + 1)
    BY <1>0
  <2> QED
    BY <1>1, <2>1, <2>2 DEF CarriesAll, n
<1> QED
  BY <1>11, <1>12 DEF tt, pp

LEMMA Carried ==
    ASSUME NEW st, NEW s, Carries(st, s)
    PROVE  /\ Has(st, s.kind, s.elements) /\ The(st, s.kind) = s
           /\ Len(StreamsOf(st, s.kind)) = 1
  BY DEF Carries, Has, The

PlainPrices(c, vs) ==
    <<PlainPrice(c, vs)>> \o (IF IsVariable(c) THEN <<Len(vs) * CountBytes>> ELSE <<>>)
PlainKinds(c, kind, lengths_kind) == IF IsVariable(c) THEN {kind, lengths_kind} ELSE {kind}

LEMMA PlainStreamsBack ==
    ASSUME NEW c, NEW vs, Holding(c, vs), NEW kind \in Kinds, NEW lk \in Kinds, kind # lk,
           NEW ss, ss = PlainStreams(c, vs, kind, lk), NEW n, n = Len(vs)
    PROVE  /\ Laid(ss, PlainPrices(c, vs), PlainKinds(c, kind, lk)) /\ n \in Nat
           /\ \A st : CarriesAll(st, ss) =>
                /\ values_of(c, st, kind, lk, n) = Decoded(vs)
                /\ Len(StreamsOf(st, kind)) = 1 /\ The(st, kind).elements = n
<1> DEFINE p == PlainBytes(c, vs)
           lens == Lengths(vs)
           q == length_bytes(lens)
           A == Stream(kind, "raw", n, p)
           B == Stream(lk, "raw", n, q)
<1>0. n \in Nat
  BY Elements DEF Holding
<1>1. /\ p \in Seq(Bytes) /\ Len(p) = PlainPrice(c, vs)
      /\ ~IsVariable(c) => stored_values(c, A) = Decoded(vs)
      /\ IsVariable(c) =>
           /\ q \in Seq(Bytes) /\ Len(q) = n * CountBytes
           /\ decoded_lengths(q, n, "raw") = Decoded(lens)
           /\ split_values(p, lens) = Decoded(vs)
  <2> HIDE DEF p, lens, q
  <2>1. PlainBack(c, vs, p, lens, q)
    BY PlainBytesBack DEF p, lens, q
  <2> QED
    BY <2>1 DEF PlainBack
<1>2. ss = <<A>> \o (IF IsVariable(c) THEN <<B>> ELSE <<>>)
  BY DEF PlainStreams, PlainBytes
<1>3. /\ A.kind = kind /\ A.transform = "raw" /\ A.elements = n /\ A.bytes = p
      /\ B.kind = lk /\ B.transform = "raw" /\ B.elements = n /\ B.bytes = q
  BY StreamFields
<1>4. A \in StreamRecords /\ (IsVariable(c) => B \in StreamRecords)
  <2>0. kind \in Kinds /\ lk \in Kinds /\ "raw" \in Transforms
    BY DEF Transforms
  <2> HIDE DEF p, q
  <2>1. n \in Nat /\ p \in Seq(Bytes)
    BY <1>0, <1>1
  <2>2. IsVariable(c) => q \in Seq(Bytes)
    BY <1>1
  <2>3. A \in StreamRecords
    BY ONLY <2>0, <2>1 DEF Stream, StreamRecords
  <2>4. q \in Seq(Bytes) => B \in StreamRecords
    BY ONLY <2>0, <2>1 DEF Stream, StreamRecords
  <2> QED
    BY <2>2, <2>3, <2>4
<1> HIDE DEF p, lens, q, A, B
<1>5. Laid(<<A>>, <<PlainPrice(c, vs)>>, {kind}) /\ \A st : CarriesAll(st, <<A>>) => Carries(st, A)
  BY <1>1, <1>3, <1>4, LaidOne
<1>6. CASE ~IsVariable(c)
  <2>1. ss = <<A>> /\ PlainPrices(c, vs) = <<PlainPrice(c, vs)>> /\ PlainKinds(c, kind, lk) = {kind}
    <3>1. ss = <<A>> \o <<>> /\ PlainPrices(c, vs) = <<PlainPrice(c, vs)>> \o <<>>
      BY <1>2, <1>6 DEF PlainPrices
    <3> QED
      BY <1>6, <3>1 DEF PlainKinds
  <2>2. ASSUME NEW st, CarriesAll(st, ss)
        PROVE  /\ values_of(c, st, kind, lk, n) = Decoded(vs)
               /\ Len(StreamsOf(st, kind)) = 1 /\ The(st, kind).elements = n
    <3>1. Carries(st, A)
      BY <1>5, <2>1, <2>2
    <3>2. Has(st, kind, n) /\ The(st, kind) = A /\ Len(StreamsOf(st, kind)) = 1
      BY <1>3, <3>1, Carried
    <3> QED
      BY <1>1, <1>3, <1>6, <3>2 DEF values_of
  <2> QED
    BY <1>0, <1>5, <2>1, <2>2
<1>7. CASE IsVariable(c)
  <2>1. ss = <<A>> \o <<B>> /\ PlainPrices(c, vs) = <<PlainPrice(c, vs)>> \o <<n * CountBytes>>
        /\ PlainKinds(c, kind, lk) = {kind} \cup {lk}
    BY <1>2, <1>7 DEF PlainPrices, PlainKinds
  <2>2. /\ Laid(ss, PlainPrices(c, vs), PlainKinds(c, kind, lk))
        /\ \A st : CarriesAll(st, ss) => CarriesAll(st, <<A>>) /\ Carries(st, B)
    <3> DEFINE x == n * CountBytes
    <3>1. /\ Laid(<<A>>, <<PlainPrice(c, vs)>>, {kind}) /\ B \in StreamRecords
          /\ B.kind \notin {kind} /\ x = Len(B.bytes)
      BY <1>1, <1>3, <1>4, <1>5, <1>7
    <3> HIDE DEF x
    <3>2. /\ Laid(<<A>> \o <<B>>, <<PlainPrice(c, vs)>> \o <<x>>, {kind} \cup {B.kind})
          /\ \A st : CarriesAll(st, <<A>> \o <<B>>) => CarriesAll(st, <<A>>) /\ Carries(st, B)
      BY ONLY <3>1, LaidNext
    <3> QED
      BY <1>3, <2>1, <3>2 DEF x
  <2>3. ASSUME NEW st, CarriesAll(st, ss)
        PROVE  /\ values_of(c, st, kind, lk, n) = Decoded(vs)
               /\ Len(StreamsOf(st, kind)) = 1 /\ The(st, kind).elements = n
    <3>1. Carries(st, A) /\ Carries(st, B)
      BY <1>5, <2>2, <2>3
    <3>2. /\ Has(st, kind, n) /\ The(st, kind) = A /\ Len(StreamsOf(st, kind)) = 1
          /\ Has(st, lk, n) /\ The(st, lk) = B
      BY <1>3, <3>1, Carried
    <3>3. Decoded(lens).ok /\ Decoded(lens).values = lens
      BY DEF Decoded
    <3>4. decoded_lengths(q, n, "raw").ok /\ decoded_lengths(q, n, "raw").values = lens
      BY <1>1, <1>7, <3>3
    <3>5. values_of(c, st, kind, lk, n) = split_values(p, lens)
      BY <1>3, <1>7, <3>2, <3>4 DEF values_of, AndThen
    <3> QED
      BY <1>1, <1>3, <1>7, <3>2, <3>5
  <2> QED
    BY <1>0, <2>2, <2>3
<1> QED
  BY <1>6, <1>7

-----------------------------------------------------------------------------
(* The profile                                                             *)

\* The extremes of a sequence of integers.
LEMMA Extremes ==
    ASSUME NEW vs \in Seq(Int), Len(vs) # 0
    PROVE  /\ Min(ToSet(vs)) \in Int /\ Max(ToSet(vs)) \in Int
           /\ \E k \in 1..Len(vs) : Min(ToSet(vs)) = vs[k]
           /\ \E k \in 1..Len(vs) : Max(ToSet(vs)) = vs[k]
           /\ \A k \in 1..Len(vs) : Min(ToSet(vs)) <= vs[k] /\ vs[k] <= Max(ToSet(vs))
<1> DEFINE n == Len(vs)
           S == ToSet(vs)
<1>1. n \in Nat /\ n # 0 /\ DOMAIN vs = 1..n /\ \A k \in 1..n : vs[k] \in Int
  OBVIOUS
<1>2. S = {vs[k] : k \in 1..n}
  BY <1>1 DEF ToSet
<1>3. IsFiniteSet(S) /\ S \in SUBSET Int /\ S # {}
  <2>1. IsFiniteSet(1..n)
    BY <1>1, FS_Interval
  <2>2. S \in SUBSET Int /\ 1 \in 1..n
    BY <1>1, <1>2
  <2>3. IsFiniteSet(S)
    <3>1. vs \in Surjection(1..n, S)
      BY <1>1, <1>2 DEF Surjection
    <3> QED
      BY <2>1, <3>1, FS_Surjection
  <2> QED
    BY <1>2, <2>2, <2>3
<1> HIDE DEF S, n
<1>4. /\ Min(S) \in S /\ \A k \in S : Min(S) <= k
      /\ Max(S) \in S /\ \A k \in S : k <= Max(S)
  BY ONLY <1>3, ExtremesOfFinite
<1> QED
  BY <1>1, <1>2, <1>4 DEF S, n

LEMMA Span64 ==
    ASSUME NEW c, IsColumn(c), IsNumeric(c), NEW a \in Values(c), NEW b \in Values(c)
    PROVE  a \in Int /\ b \in Int /\ b - a < 2^WordBits /\ b < 2^WordBits /\ 2^WordBits \in Nat
<1> DEFINE H == 2^(ByteBits * c.width - 1)
           F == 2^(ByteBits * c.width)
<1>0. c.width \in Nat \ {0} /\ c.signed \in BOOLEAN /\ c.width <= WordBytes
  BY DomainOf DEF Wide
<1>1. /\ H \in Nat /\ F = 2 * H /\ Values(c) = IF c.signed THEN -H .. H - 1 ELSE 0 .. F - 1
  BY <1>0, ValuesOf, WideType, DomainOf
<1>2. F <= 2^WordBits /\ 2^WordBits \in Nat /\ F \in Nat
  <2> DEFINE x == ByteBits * c.width
             y == ByteBits * WordBytes
  <2>1. ByteBits \in Nat /\ WordBytes \in Nat
    BY Widths
  <2>2. x \in Nat /\ y \in Nat /\ x <= y
    BY <1>0, <2>1
  <2> HIDE DEF x, y
  <2>3. 2^x <= 2^y /\ 2^x \in Nat /\ 2^y \in Nat
    BY <2>2, PowerMonotone, PowerType
  <2> QED
    BY <2>3 DEF x, y, WordBits
<1> HIDE DEF H, F
<1> QED
  BY <1>0, <1>1, <1>2

ProfileFits(c, vs, d, e, num) ==
    /\ num.minimum \in Values(c)
    /\ num.frame_of_reference_bits \in 0..WordBits
    /\ \A k \in 1..Len(vs) : vs[k] - num.minimum \in 0..(2^num.frame_of_reference_bits - 1)
    /\ num.bit_packed_bits # NoWidth =>
         num.bit_packed_bits \in 0..WordBits /\ vs \in Seq(0..(2^num.bit_packed_bits - 1))
    /\ num.delta_bits # NoWidth =>
         /\ d \in Seq(Int64) /\ num.delta_bits \in 0..WordBits
         /\ ZigZags(d) \in Seq(0..(2^num.delta_bits - 1))
    /\ num.delta_of_delta_bits # NoWidth =>
         /\ Len(vs) >= 2 /\ d \in Seq(Int64) /\ e \in Seq(Int64)
         /\ num.delta_of_delta_bits \in 0..WordBits
         /\ ZigZags(e) \in Seq(0..(2^num.delta_of_delta_bits - 1))

\* Differences of a word, packed at the width of the widest.
LEMMA DeltasPacked ==
    ASSUME NEW d \in Seq(Int), ToSet(d) \subseteq Int64, NEW w, w = WidestOf(ZigZags(d))
    PROVE  d \in Seq(Int64) /\ w \in 0..WordBits /\ ZigZags(d) \in Seq(0..(2^w - 1))
<1> DEFINE z == ZigZags(d)
<1>1. Len(d) \in Nat /\ d = [k \in 1..Len(d) |-> d[k]] /\ \A k \in 1..Len(d) : d[k] \in Int64
  BY Elements DEF ToSet
<1>2. d \in Seq(Int64)
  BY ONLY <1>1, Listed
<1>3. z \in Seq(Nat) /\ Len(z) = Len(d) /\ \A k \in 1..Len(d) : z[k] < 2^WordBits
  BY ONLY <1>2, ZigZagged
<1> HIDE DEF z
<1>4. z \in Seq(Nat) /\ (\A k \in 1..Len(z) : z[k] < 2^WordBits) /\ w = WidestOf(z)
  BY <1>3 DEF z
<1>5. w \in 0..WordBits /\ z \in Seq(0..(2^w - 1))
  BY ONLY <1>4, Widest
<1> QED
  BY <1>2, <1>5 DEF z

LEMMA Profile ==
    ASSUME NEW c, IsColumn(c), IsNumeric(c), NEW vs \in Seq(Values(c)), Len(vs) # 0,
           NEW d, d = adjacent_deltas(vs), NEW e, e = adjacent_deltas(d),
           NEW num, num = numeric_profile(vs)
    PROVE  ProfileFits(c, vs, d, e, num)
<1> DEFINE n == Len(vs)
           lo == Min(ToSet(vs))
           hi == Max(ToSet(vs))
           V == Values(c)
<1>0. V \subseteq Int
  BY DomainOf, WideType
<1>1. vs \in Seq(Int) /\ n \in Nat /\ n # 0 /\ \A k \in 1..n : vs[k] \in V
  <2>1. vs \in Seq(V)
    OBVIOUS
  <2> HIDE DEF V
  <2> QED
    BY <1>0, <2>1, Widened, Elements
<1>2. /\ lo \in V /\ hi \in V /\ lo \in Int /\ hi \in Int
      /\ \A k \in 1..n : lo <= vs[k] /\ vs[k] <= hi
  BY <1>1, Extremes
<1>3. /\ num.minimum = lo /\ num.frame_of_reference_bits = bit_width(hi - lo)
      /\ num.bit_packed_bits = IF lo < 0 THEN NoWidth ELSE WidestOf(vs)
      /\ num.delta_bits = IF ToSet(d) \subseteq Int64 THEN WidestOf(ZigZags(d)) ELSE NoWidth
      /\ num.delta_of_delta_bits = IF n >= 2 /\ ToSet(d) \cup ToSet(e) \subseteq Int64
                                   THEN WidestOf(ZigZags(e)) ELSE NoWidth
  BY DEF numeric_profile
<1> HIDE DEF lo, hi, V, n
<1>4. /\ num.frame_of_reference_bits \in 0..WordBits
      /\ \A k \in 1..n : vs[k] - lo \in 0..(2^num.frame_of_reference_bits - 1)
  <2> DEFINE x == hi - lo
             w == bit_width(x)
  <2>1. x \in Nat
    BY <1>1, <1>2
  <2>2. x < 2^WordBits
    BY <1>2, Span64 DEF V
  <2> HIDE DEF x
  <2>3. w \in 0..WordBits /\ x < 2^w
    BY <2>1, <2>2, BitWidth
  <2>4. 2^w \in Nat
    BY <2>3, Widths, PowerType
  <2> HIDE DEF w
  <2>5. \A k \in 1..n : vs[k] \in Int
    BY <1>0, <1>1
  <2>6. \A k \in 1..n : vs[k] - lo \in 0..(2^w - 1)
    BY <1>2, <2>3, <2>4, <2>5 DEF x
  <2> QED
    BY <1>3, <2>3, <2>6 DEF w, x
<1>5. ASSUME num.bit_packed_bits # NoWidth
      PROVE  num.bit_packed_bits \in 0..WordBits /\ vs \in Seq(0..(2^num.bit_packed_bits - 1))
  <2>1. ~(lo < 0) /\ num.bit_packed_bits = WidestOf(vs)
    BY <1>3, <1>5
  <2>2. \A k \in 1..n : vs[k] \in Nat /\ vs[k] < 2^WordBits
    <3> SUFFICES ASSUME NEW k \in 1..n PROVE vs[k] \in Nat /\ vs[k] < 2^WordBits
      OBVIOUS
    <3>1. vs[k] \in V
      BY <1>1
    <3>2. vs[k] \in Int /\ vs[k] < 2^WordBits
      BY <3>1, Span64 DEF V
    <3> QED
      BY <1>2, <2>1, <3>2
  <2>3. n \in Nat /\ vs = [k \in 1..n |-> vs[k]]
    BY <1>1, Elements DEF n
  <2>4. vs \in Seq(Nat) /\ Len(vs) = n
    BY ONLY <2>2, <2>3, Listed
  <2>5. vs \in Seq(Nat) /\ (\A k \in 1..Len(vs) : vs[k] < 2^WordBits)
        /\ num.bit_packed_bits = WidestOf(vs)
    BY <2>1, <2>2, <2>4
  <2> QED
    BY ONLY <2>5, Widest
<1>6. d \in Seq(Int) /\ Len(d) = n - 1
  BY <1>1, DeltaType DEF n
<1>7. ASSUME num.delta_bits # NoWidth
      PROVE  /\ d \in Seq(Int64) /\ num.delta_bits \in 0..WordBits
             /\ ZigZags(d) \in Seq(0..(2^num.delta_bits - 1))
  <2>1. d \in Seq(Int) /\ ToSet(d) \subseteq Int64 /\ num.delta_bits = WidestOf(ZigZags(d))
    BY <1>3, <1>6, <1>7
  <2> QED
    BY ONLY <2>1, DeltasPacked
<1>8. ASSUME num.delta_of_delta_bits # NoWidth
      PROVE  /\ n >= 2 /\ d \in Seq(Int64) /\ e \in Seq(Int64)
             /\ num.delta_of_delta_bits \in 0..WordBits
             /\ ZigZags(e) \in Seq(0..(2^num.delta_of_delta_bits - 1))
  <2>1. /\ n >= 2 /\ ToSet(d) \subseteq Int64 /\ ToSet(e) \subseteq Int64
        /\ num.delta_of_delta_bits = WidestOf(ZigZags(e))
    BY <1>3, <1>8
  <2>2. Len(d) # 0
    BY <1>1, <1>6, <2>1
  <2>3. e \in Seq(Int)
    BY <1>6, <2>2, DeltaType
  <2>4. e \in Seq(Int64) /\ num.delta_of_delta_bits \in 0..WordBits
        /\ ZigZags(e) \in Seq(0..(2^num.delta_of_delta_bits - 1))
    BY ONLY <2>1, <2>3, DeltasPacked
  <2>5. d \in Seq(Int64)
    BY <1>6, <2>1, DeltasPacked
  <2> QED
    BY <2>1, <2>4, <2>5
<1> QED
  BY <1>2, <1>3, <1>4, <1>5, <1>7, <1>8 DEF ProfileFits, V, n

-----------------------------------------------------------------------------
(* The candidates                                                          *)

LEMMA EstimateOf ==
    ASSUME NEW c, NEW vs
    PROVE  LET n == Len(vs)
               num == numeric_profile(vs)
               entries == Distinct(vs)
               runs == Len(RunValues(vs))
               bits == bit_width(MaxOf(RunLengths(vs)))
           IN  /\ estimate(c, vs, "Raw") = PlainPrices(c, vs)
               /\ estimate(c, vs, "Constant") = PlainPrices(c, <<vs[1]>>)
               /\ estimate(c, vs, "BitPacked") =
                     <<packed_length(n, IF IsNumeric(c) THEN num.bit_packed_bits ELSE 1)>>
               /\ estimate(c, vs, "BooleanRle") =
                     <<CountBytes + CeilDiv(runs, ByteBits) + packed_length(runs, bits)>>
               /\ estimate(c, vs, "FrameOfReference") =
                     <<c.width + packed_length(n, num.frame_of_reference_bits)>>
               /\ estimate(c, vs, "Delta") =
                     <<c.width + (IF n <= 1 THEN 0 ELSE packed_length(n - 1, num.delta_bits))>>
               /\ estimate(c, vs, "DeltaOfDelta") =
                     <<c.width + WordBytes + packed_length(n - 2, num.delta_of_delta_bits)>>
               /\ estimate(c, vs, "ByteStreamSplit") = <<n * c.width>>
               /\ estimate(c, vs, "Dictionary") =
                     PlainPrices(c, entries) \o <<packed_length(n, bit_width(Len(entries) - 1))>>
               /\ estimate(c, vs, "RunLength") =
                     PlainPrices(c, RunValues(vs)) \o <<packed_length(runs, bits)>>
  BY DEF estimate, PlainPrices, PlainPrice

LEMMA ValidOf ==
    ASSUME NEW c, IsColumn(c), NEW vs
    PROVE  LET num == numeric_profile(vs)
           IN  /\ "Constant" \in candidates(c, vs) => Len(RunValues(vs)) <= 1
               /\ "BitPacked" \in candidates(c, vs) =>
                    (c.family = "bool" \/ (IsNumeric(c) /\ num.bit_packed_bits # NoWidth))
               /\ "BooleanRle" \in candidates(c, vs) => c.family = "bool"
               /\ "FrameOfReference" \in candidates(c, vs) => IsNumeric(c)
               /\ "Delta" \in candidates(c, vs) => IsNumeric(c) /\ num.delta_bits # NoWidth
               /\ "DeltaOfDelta" \in candidates(c, vs) =>
                    IsNumeric(c) /\ num.delta_of_delta_bits # NoWidth
               /\ "ByteStreamSplit" \in candidates(c, vs) => c.family \in {"float", "fixed_binary"}
               /\ candidates(c, vs) \subseteq DOMAIN rank
               /\ vs # <<>> => "Raw" \in candidates(c, vs)
<1>1. \A encoding \in candidates(c, vs) : is_valid(encoding, c, vs)
  BY DEF candidates
<1>2. candidates(c, vs) \subseteq supported_candidates(c)
  BY DEF candidates
<1>3. /\ supported_candidates(c) \subseteq DOMAIN rank /\ "Raw" \in supported_candidates(c)
      /\ "ByteStreamSplit" \in supported_candidates(c) => c.family \in {"float", "fixed_binary"}
  <2>1. c.family \in Families
    BY DEF IsColumn
  <2> QED
    BY <2>1 DEF supported_candidates, Families, IsVariable, rank
<1>4. "Constant" \in candidates(c, vs) => Len(RunValues(vs)) <= 1
  BY <1>1 DEF is_valid
<1>5. "BitPacked" \in candidates(c, vs) =>
         (c.family = "bool" \/ (IsNumeric(c) /\ numeric_profile(vs).bit_packed_bits # NoWidth))
  BY <1>1 DEF is_valid
<1>6. "BooleanRle" \in candidates(c, vs) => c.family = "bool"
  BY <1>1 DEF is_valid
<1>7. "FrameOfReference" \in candidates(c, vs) => IsNumeric(c)
  BY <1>1 DEF is_valid
<1>8. "Delta" \in candidates(c, vs) => IsNumeric(c) /\ numeric_profile(vs).delta_bits # NoWidth
  BY <1>1 DEF is_valid
<1>9. "DeltaOfDelta" \in candidates(c, vs) =>
         IsNumeric(c) /\ numeric_profile(vs).delta_of_delta_bits # NoWidth
  BY <1>1 DEF is_valid
<1>10. vs # <<>> => "Raw" \in candidates(c, vs)
  BY <1>3 DEF candidates, is_valid
<1> QED
  BY <1>2, <1>3, <1>4, <1>5, <1>6, <1>7, <1>8, <1>9, <1>10

\* Values a block may hold of a column: some, and as many as a uint32 counts.
Sized(c, vs) == Holding(c, vs) /\ Len(vs) # 0 /\ Len(vs) < 2^(ByteBits * CountBytes)

LEMMA SizedOf ==
    ASSUME NEW c, NEW vs, Sized(c, vs)
    PROVE  /\ IsColumn(c) /\ vs \in Seq(Domain(c)) /\ Len(vs) \in Nat \ {0}
           /\ Len(vs) < 2^(ByteBits * CountBytes) /\ Len(vs) < 2^WordBits /\ Holding(c, vs)
<1>1. IsColumn(c) /\ vs \in Seq(Domain(c)) /\ Len(vs) # 0 /\ Holding(c, vs)
      /\ Len(vs) < 2^(ByteBits * CountBytes)
  BY DEF Sized, Holding
<1>2. Len(vs) \in Nat
  BY <1>1, Elements
<1> DEFINE x == ByteBits * CountBytes
<1>3. x \in Nat /\ x <= WordBits /\ WordBits \in Nat
  <2>1. ByteBits \in Nat /\ CountBytes \in Nat /\ WordBytes \in Nat /\ CountBytes <= WordBytes
    BY Widths, WidthAssumption
  <2> QED
    BY <2>1 DEF WordBits
<1> HIDE DEF x
<1>4. 2^x <= 2^WordBits /\ 2^x \in Nat /\ 2^WordBits \in Nat
  BY <1>3, PowerMonotone, PowerType
<1>5. Len(vs) < 2^x
  BY <1>1 DEF x
<1>6. Len(vs) < 2^WordBits
  BY <1>2, <1>4, <1>5
<1> QED
  BY <1>1, <1>2, <1>6

\* A stream of transformed values, its estimated length and what it is read as.
Transformed(c, vs, encoding, p) ==
    /\ p \in Seq(Bytes) /\ ~IsVariable(c)
    /\ stored_values(c, Stream("values", TransformOf[encoding], Len(vs), p)) = Decoded(vs)
    /\ IF encoding = "BitPacked" /\ c.family = "bool" /\ ToSet(vs) = {FALSE}
       THEN Len(p) <= estimate(c, vs, encoding)[1]
       ELSE estimate(c, vs, encoding) = <<Len(p)>>

\* A number column reads a transformed stream through the transform's decoder.
LEMMA NumericStream ==
    ASSUME NEW c, IsColumn(c), IsNumeric(c), NEW transform, NEW n, NEW p, NEW kind
    PROVE  stored_values(c, Stream(kind, transform, n, p)) = integer(p, n, c, transform)
<1> DEFINE s == Stream(kind, transform, n, p)
<1>1. s.transform = transform /\ s.elements = n /\ s.bytes = p
  BY StreamFields
<1> HIDE DEF s
<1>2. c.family # "bool"
  BY DEF IsNumeric
<1>3. stored_values(c, s) = integer(p, n, c, transform)
  BY <1>1, <1>2 DEF stored_values, IsNumeric
<1> QED
  BY <1>3 DEF s

LEMMA BooleanStream ==
    ASSUME NEW c, c.family = "bool", NEW transform, NEW n, NEW p, NEW kind
    PROVE  stored_values(c, Stream(kind, transform, n, p)) = booleans(p, n, transform)
<1> DEFINE s == Stream(kind, transform, n, p)
<1>1. s.transform = transform /\ s.elements = n /\ s.bytes = p
  BY StreamFields
<1> HIDE DEF s
<1>2. stored_values(c, s) = booleans(p, n, transform)
  BY <1>1 DEF stored_values, IsNumeric
<1> QED
  BY <1>2 DEF s

LEMMA TransformedBack ==
    ASSUME NEW c, NEW vs, Sized(c, vs), NEW encoding \in candidates(c, vs),
           encoding \in DOMAIN TransformOf, NEW p, p = TransformedBytes(c, vs, encoding)
    PROVE  Transformed(c, vs, encoding, p)
<1> DEFINE n == Len(vs)
           num == numeric_profile(vs)
           d == adjacent_deltas(vs)
           e == adjacent_deltas(d)
<1>0. /\ IsColumn(c) /\ vs \in Seq(Domain(c)) /\ n \in Nat \ {0}
      /\ n < 2^(ByteBits * CountBytes) /\ n < 2^WordBits
  BY SizedOf
<1>1. ASSUME IsNumeric(c)
      PROVE  /\ ProfileFits(c, vs, d, e, num) /\ vs \in Seq(Values(c)) /\ Wide(c)
             /\ ~IsVariable(c) /\ c.family # "bool"
  <2>1. vs \in Seq(Values(c)) /\ Wide(c) /\ ~IsVariable(c) /\ c.family # "bool"
    BY <1>0, <1>1, DomainOf
  <2> QED
    BY <1>0, <1>1, <2>1, Profile
<1>2. ASSUME c.family = "bool" PROVE vs \in Seq(BOOLEAN) /\ ~IsVariable(c) /\ ~IsNumeric(c)
  BY <1>0, <1>2, DomainOf
<1>E. /\ IsNumeric(c) => estimate(c, vs, "BitPacked") = <<packed_length(n, num.bit_packed_bits)>>
      /\ estimate(c, vs, "FrameOfReference") =
            <<c.width + packed_length(n, num.frame_of_reference_bits)>>
      /\ estimate(c, vs, "Delta") =
            <<c.width + (IF n <= 1 THEN 0 ELSE packed_length(n - 1, num.delta_bits))>>
      /\ estimate(c, vs, "DeltaOfDelta") =
            <<c.width + WordBytes + packed_length(n - 2, num.delta_of_delta_bits)>>
      /\ estimate(c, vs, "ByteStreamSplit") = <<n * c.width>>
  BY EstimateOf
<1> HIDE DEF num, d, e, n
<1>3. encoding \in {"BitPacked", "BooleanRle", "FrameOfReference", "Delta", "DeltaOfDelta",
                    "ByteStreamSplit"}
  BY DEF TransformOf
<1>4. CASE encoding = "BitPacked"
  <2>0. "BitPacked" \in candidates(c, vs)
    BY <1>4
  <2>1. TransformOf[encoding] = "bit_packed"
    BY <1>4 DEF TransformOf
  <2>2. c.family = "bool" \/ (IsNumeric(c) /\ num.bit_packed_bits # NoWidth)
    BY <1>0, <2>0, ValidOf DEF num
  <2>3. CASE c.family = "bool"
    <3> DEFINE bits == [k \in DOMAIN vs |-> IF vs[k] THEN 1 ELSE 0]
               w == IF 1 \in ToSet(bits) THEN 1 ELSE 0
    <3>1. vs \in Seq(BOOLEAN) /\ ~IsVariable(c) /\ ~IsNumeric(c)
      BY <1>2, <2>3
    <3>2. p = pack_from(w, bits)
      BY <1>4, <2>3, <3>1 DEF TransformedBytes
    <3>3. /\ p \in Seq(Bytes) /\ Len(p) = packed_length(n, w)
          /\ packed_booleans(p, n) = Decoded(vs)
      BY <3>1, <3>2, PackedBooleansBack DEF n
    <3>4. stored_values(c, Stream("values", TransformOf[encoding], n, p)) = Decoded(vs)
      BY <2>1, <2>3, <3>3, BooleanStream DEF booleans
    <3>5. estimate(c, vs, encoding) = <<packed_length(n, 1)>>
      BY <1>4, <3>1, EstimateOf DEF n
    <3>6. w = (IF ToSet(vs) = {FALSE} THEN 0 ELSE 1)
      <4>1. DOMAIN vs = 1..n /\ DOMAIN bits = 1..n /\ 1 \in 1..n /\ \A k \in 1..n : vs[k] \in BOOLEAN
        BY <1>0, <3>1, Elements DEF n
      <4>2. ToSet(vs) = {vs[k] : k \in 1..n} /\ ToSet(bits) = {bits[k] : k \in 1..n}
        BY <4>1 DEF ToSet
      <4>3. \A k \in 1..n : bits[k] = 1 <=> vs[k] = TRUE
        BY <4>1
      <4> HIDE DEF bits
      <4>4. 1 \in ToSet(bits) <=> \E k \in 1..n : vs[k] = TRUE
        BY <4>2, <4>3
      <4>5. (\E k \in 1..n : vs[k] = TRUE) <=> ToSet(vs) # {FALSE}
        BY <4>1, <4>2, Zenon
      <4> QED
        BY <4>4, <4>5
    <3>7. packed_length(n, 0) <= packed_length(n, 1)
      <4>1. ByteBits \in Nat \ {0}
        BY Widths
      <4>2. CeilDiv(n * 0, ByteBits) = 0
        <5>1. n * 0 = 0 /\ 0 \in 0..(ByteBits - 1)
          BY <1>0, <4>1
        <5>2. 0 \div ByteBits = 0 /\ 0 % ByteBits = 0
          BY <4>1, <5>1, Remainder
        <5> QED
          BY <4>1, <5>1, <5>2, Ceiling
      <4>3. CeilDiv(n * 1, ByteBits) \in Nat
        BY <1>0, <4>1, Ceiling
      <4> QED
        BY <4>2, <4>3 DEF packed_length
    <3> HIDE DEF w, bits
    <3>8. CASE ToSet(vs) = {FALSE}
      <4>1. Len(p) <= estimate(c, vs, encoding)[1]
        BY <3>3, <3>5, <3>6, <3>7, <3>8
      <4> QED
        BY <1>4, <2>3, <3>1, <3>3, <3>4, <3>8, <4>1 DEF Transformed, n
    <3>9. CASE ToSet(vs) # {FALSE}
      <4>1. estimate(c, vs, encoding) = <<Len(p)>>
        BY <3>3, <3>5, <3>6, <3>9
      <4> QED
        BY <3>1, <3>3, <3>4, <3>9, <4>1 DEF Transformed, n
    <3> QED
      BY <3>8, <3>9
  <2>4. CASE IsNumeric(c) /\ num.bit_packed_bits # NoWidth
    <3> DEFINE w == num.bit_packed_bits
    <3>1. /\ w \in 0..WordBits /\ vs \in Seq(0..(2^w - 1)) /\ vs \in Seq(Values(c))
          /\ ~IsVariable(c) /\ c.family # "bool"
      BY <1>1, <2>4 DEF ProfileFits
    <3>2. p = pack_from(w, vs)
      BY <1>4, <2>4, <3>1 DEF TransformedBytes, num
    <3> HIDE DEF w
    <3>3. p \in Seq(Bytes) /\ Len(p) = packed_length(n, w) /\ packed_integers(p, n, c) = Decoded(vs)
      BY <3>1, <3>2, PackedIntegersBack DEF n
    <3>4. stored_values(c, Stream("values", TransformOf[encoding], n, p)) = Decoded(vs)
      BY <1>0, <2>1, <2>4, <3>3, NumericStream DEF integer
    <3>5. estimate(c, vs, encoding) = <<Len(p)>>
      BY <1>4, <1>E, <2>4, <3>3 DEF w
    <3> QED
      BY <3>1, <3>3, <3>4, <3>5 DEF Transformed, n
  <2> QED
    BY <2>2, <2>3, <2>4
<1>5. CASE encoding = "BooleanRle"
  <2>0. c.family = "bool"
    BY <1>0, <1>5, ValidOf
  <2>1. TransformOf[encoding] = "boolean_rle" /\ vs \in Seq(BOOLEAN) /\ ~IsVariable(c)
    BY <1>2, <1>5, <2>0 DEF TransformOf
  <2>2. p = boolean_rle(vs)
    BY <1>5 DEF TransformedBytes
  <2> DEFINE R == Len(RunValues(vs))
             b == bit_width(MaxOf(RunLengths(vs)))
  <2>3. /\ p \in Seq(Bytes) /\ Len(p) = CountBytes + CeilDiv(R, ByteBits) + packed_length(R, b)
        /\ boolean_rle_values(p, n) = Decoded(vs)
    <3>1. /\ vs \in Seq(BOOLEAN) /\ n = Len(vs) /\ n # 0 /\ n < 2^(ByteBits * CountBytes)
          /\ n < 2^WordBits /\ p = boolean_rle(vs) /\ R = Len(RunValues(vs))
      BY <1>0, <2>1, <2>2 DEF n
    <3> HIDE DEF R
    <3> QED
      BY ONLY <3>1, BooleanRleStored
  <2>4. stored_values(c, Stream("values", TransformOf[encoding], n, p)) = Decoded(vs)
    BY <2>0, <2>1, <2>3, BooleanStream DEF booleans
  <2>5. estimate(c, vs, encoding) = <<Len(p)>>
    BY <1>5, <2>3, EstimateOf DEF n
  <2> QED
    BY <1>5, <2>1, <2>3, <2>4, <2>5 DEF Transformed, n
<1>6. CASE encoding = "FrameOfReference"
  <2>0. IsNumeric(c)
    BY <1>0, <1>6, ValidOf
  <2> DEFINE w == num.frame_of_reference_bits
             base == num.minimum
  <2>1. /\ w \in 0..WordBits /\ base \in Values(c) /\ vs \in Seq(Values(c)) /\ Wide(c)
        /\ \A k \in 1..n : vs[k] - base \in 0..(2^w - 1)
        /\ ~IsVariable(c) /\ c.family # "bool"
    BY <1>1, <2>0 DEF ProfileFits, n
  <2>2. p = frame_of_reference_bytes(base, w, vs, c)
    BY <1>6 DEF TransformedBytes, num
  <2> HIDE DEF w, base
  <2>3. /\ p \in Seq(Bytes) /\ Len(p) = c.width + packed_length(n, w)
        /\ frame_of_reference(p, n, c) = Decoded(vs)
    <3>1. /\ Wide(c) /\ vs \in Seq(Values(c)) /\ n = Len(vs) /\ n # 0 /\ base \in Values(c)
          /\ w \in 0..WordBits /\ p = frame_of_reference_bytes(base, w, vs, c)
      BY <1>0, <2>1, <2>2 DEF n
    <3>2. Within(vs, base, w)
      BY <2>1 DEF Within, n
    <3> QED
      BY ONLY <3>1, <3>2, FrameOfReferenceBack
  <2>4. TransformOf[encoding] = "frame_of_reference"
    BY <1>6 DEF TransformOf
  <2>5. stored_values(c, Stream("values", TransformOf[encoding], n, p)) = Decoded(vs)
    BY <1>0, <2>0, <2>3, <2>4, NumericStream DEF integer
  <2>6. estimate(c, vs, encoding) = <<Len(p)>>
    BY <1>6, <1>E, <2>3 DEF w
  <2> QED
    BY <1>6, <2>1, <2>3, <2>5, <2>6 DEF Transformed, n
<1>7. CASE encoding = "Delta"
  <2>0. IsNumeric(c) /\ num.delta_bits # NoWidth
    BY <1>0, <1>7, ValidOf DEF num
  <2> DEFINE w == num.delta_bits
  <2>1. /\ w \in 0..WordBits /\ vs \in Seq(Values(c)) /\ Wide(c) /\ d \in Seq(Int64)
        /\ ZigZags(d) \in Seq(0..(2^w - 1)) /\ ~IsVariable(c) /\ c.family # "bool"
    BY <1>1, <2>0 DEF ProfileFits
  <2>2. p = delta_bytes(w, vs, c) /\ d = adjacent_deltas(vs)
    BY <1>7 DEF TransformedBytes, num, d
  <2> HIDE DEF w
  <2>3. /\ p \in Seq(Bytes)
        /\ Len(p) = c.width + (IF n <= 1 THEN 0 ELSE packed_length(n - 1, w))
        /\ delta(p, n, c) = Decoded(vs)
    <3>1. n = Len(vs) /\ n # 0
      BY <1>0 DEF n
    <3> QED
      BY ONLY <2>1, <2>2, <3>1, DeltaBack
  <2>4. TransformOf[encoding] = "delta"
    BY <1>7 DEF TransformOf
  <2>5. stored_values(c, Stream("values", TransformOf[encoding], n, p)) = Decoded(vs)
    BY <1>0, <2>0, <2>3, <2>4, NumericStream DEF integer
  <2>6. estimate(c, vs, encoding) = <<Len(p)>>
    BY <1>7, <1>E, <2>3 DEF w
  <2> QED
    BY <1>7, <2>1, <2>3, <2>5, <2>6 DEF Transformed, n
<1>8. CASE encoding = "DeltaOfDelta"
  <2>0. IsNumeric(c) /\ num.delta_of_delta_bits # NoWidth
    BY <1>0, <1>8, ValidOf DEF num
  <2> DEFINE w == num.delta_of_delta_bits
  <2>1. /\ w \in 0..WordBits /\ vs \in Seq(Values(c)) /\ Wide(c) /\ d \in Seq(Int64)
        /\ e \in Seq(Int64) /\ n >= 2
        /\ ZigZags(e) \in Seq(0..(2^w - 1)) /\ ~IsVariable(c) /\ c.family # "bool"
    BY <1>1, <2>0 DEF ProfileFits, n
  <2>2. p = delta_of_delta_bytes(w, vs, c) /\ d = adjacent_deltas(vs) /\ e = adjacent_deltas(d)
    BY <1>8 DEF TransformedBytes, num, d, e
  <2> HIDE DEF w
  <2>3. /\ p \in Seq(Bytes) /\ Len(p) = c.width + WordBytes + packed_length(n - 2, w)
        /\ delta_of_delta(p, n, c) = Decoded(vs)
    <3>1. n = Len(vs)
      BY DEF n
    <3> QED
      BY ONLY <2>1, <2>2, <3>1, DeltaOfDeltaBack
  <2>4. TransformOf[encoding] = "delta_of_delta"
    BY <1>8 DEF TransformOf
  <2>5. stored_values(c, Stream("values", TransformOf[encoding], n, p)) = Decoded(vs)
    BY <1>0, <2>0, <2>3, <2>4, NumericStream DEF integer
  <2>6. estimate(c, vs, encoding) = <<Len(p)>>
    BY <1>8, <1>E, <2>3 DEF w
  <2> QED
    BY <1>8, <2>1, <2>3, <2>5, <2>6 DEF Transformed, n
<1>9. CASE encoding = "ByteStreamSplit"
  <2>0. c.family \in {"float", "fixed_binary"}
    BY <1>0, <1>9, ValidOf
  <2>1. /\ vs \in Seq(WideBytes(c.width)) /\ ~IsVariable(c) /\ ~IsNumeric(c) /\ c.family # "bool"
        /\ TransformOf[encoding] = "byte_stream_split"
    BY <1>0, <1>9, <2>0, DomainOf DEF TransformOf
  <2> DEFINE a == AllBytes(c, vs)
  <2>2. p = split_bytes(a, c.width)
    BY <1>9 DEF TransformedBytes
  <2>3. /\ p \in Seq(Bytes) /\ Len(p) = n * c.width
        /\ canonical_values(Stream("values", "byte_stream_split", n, p), c.width) = Decoded(vs)
    <3>1. /\ IsColumn(c) /\ c.family \in {"float", "fixed_binary"} /\ vs \in Seq(WideBytes(c.width))
          /\ a = AllBytes(c, vs) /\ n = Len(vs)
      BY <1>0, <2>0, <2>1 DEF n
    <3> HIDE DEF a
    <3>2. CanonicalRead(c, vs, a, n)
      BY ONLY <3>1, CanonicalBack
    <3>3. n # 0
      BY <1>0
    <3> QED
      BY <2>2, <3>2, <3>3 DEF CanonicalRead
  <2>4. stored_values(c, Stream("values", TransformOf[encoding], n, p)) = Decoded(vs)
    BY <2>0, <2>1, <2>3 DEF stored_values
  <2>5. estimate(c, vs, encoding) = <<Len(p)>>
    BY <1>9, <1>E, <2>3
  <2> QED
    BY <1>9, <2>1, <2>3, <2>4, <2>5 DEF Transformed, n
<1> QED
  BY <1>3, <1>4, <1>5, <1>6, <1>7, <1>8, <1>9

LEMMA NthOfRank ==
    ASSUME NEW n \in Nat, NEW S \in SUBSET (1..n), NEW j \in S, NEW r, r = Rank(S, j)
    PROVE  r \in 1..Cardinality(S) /\ Nth(S, r) = j
<1>1. /\ \A k \in 0..n : Rank(S, k) \in Nat
      /\ \A k \in 1..n : Rank(S, k) = IF k \in S THEN Rank(S, k - 1) + 1 ELSE Rank(S, k - 1)
  BY RankStep
<1>2. j \in 1..n /\ j - 1 \in 0..n
  OBVIOUS
<1>3. r = Rank(S, j - 1) + 1 /\ Rank(S, j - 1) \in Nat /\ r # 0
  BY <1>1, <1>2
<1>4. r \in 1..Cardinality(S) /\ Nth(S, r) <= j
  BY <1>2, <1>3, NthAround
<1>5. Nth(S, r) \in 1..n /\ Rank(S, Nth(S, r)) = r
  BY <1>4, NthOf
<1>6. ~(Nth(S, r) < j)
  <2> SUFFICES ASSUME Nth(S, r) < j PROVE FALSE
    OBVIOUS
  <2>1. Nth(S, r) \in 0..n /\ j - 1 \in Nth(S, r)..n
    BY <1>2, <1>5
  <2>2. Rank(S, Nth(S, r)) <= Rank(S, j - 1)
    BY <2>1, RankMonotone
  <2> QED
    BY <1>3, <1>5, <2>2
<1> QED
  BY <1>2, <1>4, <1>5, <1>6

\* The entries of a dictionary, and every value among them.
LEMMA Entries ==
    ASSUME NEW T, NEW vs \in Seq(T), Len(vs) # 0, NEW E, E = Distinct(vs)
    PROVE  /\ E \in Seq(T) /\ Len(E) \in 1..Len(vs)
           /\ \A k \in 1..Len(vs) : \E i \in 1..Len(E) : E[i] = vs[k]
<1> DEFINE n == Len(vs)
           F == {k \in DOMAIN vs : \A j \in 1..(k - 1) : vs[j] # vs[k]}
<1>0. n \in Nat \ {0} /\ DOMAIN vs = 1..n
  OBVIOUS
<1>1. E = ElementsAt(vs, F)
  BY DEF Distinct
<1>2. F \in SUBSET (1..n) /\ 1 \in F
  BY <1>0
<1>F. \A k \in 1..n : (\A j \in 1..(k - 1) : vs[j] # vs[k]) => k \in F
  BY <1>0
<1> HIDE DEF F
<1>3. /\ E \in Seq(T) /\ Len(E) = Cardinality(F)
      /\ \A r \in 1..Cardinality(F) : E[r] = vs[Nth(F, r)]
  BY <1>1, <1>2, ElementsOf
<1>4. Cardinality(F) \in 1..n
  <2>1. IsFiniteSet(1..n) /\ Cardinality(1..n) = n
    BY <1>0, FS_Interval
  <2>2. Cardinality(F) <= n /\ Cardinality(F) \in Nat /\ IsFiniteSet(F)
    BY <1>2, <2>1, FS_Subset, FS_CardinalityType
  <2>3. Rank(F, 1) \in 1..Cardinality(F)
    BY <1>0, <1>2, NthOfRank
  <2> QED
    BY <1>0, <2>2, <2>3
<1>5. ASSUME NEW k \in 1..n PROVE \E i \in 1..Len(E) : E[i] = vs[k]
  <2> DEFINE Same == {j \in 1..n : vs[j] = vs[k]}
  <2>1. Same \in SUBSET Nat /\ Same # {}
    OBVIOUS
  <2>2. PICK j \in Same : \A i \in Same : j <= i
    BY <2>1, LeastElement
  <2>3. j \in 1..n /\ vs[j] = vs[k] /\ \A i \in 1..(j - 1) : vs[i] # vs[j]
    BY <1>0, <2>2
  <2>4. j \in F
    BY <1>F, <2>3
  <2>5. Rank(F, j) \in 1..Cardinality(F) /\ Nth(F, Rank(F, j)) = j
    BY <1>0, <1>2, <2>4, NthOfRank
  <2>6. Rank(F, j) \in 1..Len(E) /\ E[Rank(F, j)] = vs[k]
    BY <1>3, <2>3, <2>5
  <2> QED
    BY <2>6
<1> QED
  BY <1>3, <1>4, <1>5

\* The indices of the values among the entries, packed.
IndicesBack(vs, E, I, w) ==
    /\ Len(I) = Len(vs) /\ \A k \in 1..Len(vs) : I[k] \in 0..(Len(E) - 1) /\ E[I[k] + 1] = vs[k]
    /\ pack_from(w, I) \in Seq(Bytes) /\ Len(pack_from(w, I)) = packed_length(Len(vs), w)
    /\ bit_unpack(pack_from(w, I), Len(vs)) = Decoded(I)

LEMMA IndicesPacked ==
    ASSUME NEW T, NEW vs \in Seq(T), NEW E \in Seq(T), Len(E) # 0, Len(E) < 2^WordBits,
           \A k \in 1..Len(vs) : \E i \in 1..Len(E) : E[i] = vs[k],
           NEW I, I = IndicesIn(E, vs), NEW w, w = bit_width(Len(E) - 1)
    PROVE  IndicesBack(vs, E, I, w)
<1> DEFINE n == Len(vs)
           m == Len(E) - 1
           at(k) == CHOOSE i \in DOMAIN E : E[i] = vs[k]
           U == 0..(2^w - 1)
<1>0. n \in Nat /\ DOMAIN vs = 1..n /\ m \in Nat /\ DOMAIN E = 1..Len(E) /\ Len(E) = m + 1
  OBVIOUS
<1>1. I = [k \in 1..n |-> at(k) - 1]
  BY <1>0 DEF IndicesIn
<1>2. \A k \in 1..n : at(k) \in 1..Len(E) /\ E[at(k)] = vs[k]
  BY <1>0
<1>3. m < 2^WordBits
  <2>1. 2^WordBits \in Nat
    BY Widths, PowerType
  <2> QED
    BY <1>0, <2>1
<1> HIDE DEF at, m, n
<1>4. w \in 0..WordBits /\ m < 2^w
  BY <1>0, <1>3, BitWidth DEF m
<1>5. 2^w \in Nat
  BY <1>4, Widths, PowerType
<1>6. \A k \in 1..n : I[k] \in 0..m /\ E[I[k] + 1] = vs[k]
  <2> SUFFICES ASSUME NEW k \in 1..n PROVE I[k] \in 0..m /\ E[I[k] + 1] = vs[k]
    OBVIOUS
  <2> DEFINE x == at(k)
  <2>1. x \in 1..(m + 1) /\ E[x] = vs[k] /\ I[k] = x - 1
    BY <1>0, <1>1, <1>2
  <2> HIDE DEF x
  <2>2. x - 1 \in 0..m /\ (x - 1) + 1 = x
    BY <1>0, <2>1
  <2> QED
    BY <2>1, <2>2
<1>7. \A k \in 1..n : I[k] \in U
  <2>1. \A i \in 0..m : i \in U
    BY <1>0, <1>4, <1>5
  <2> QED
    BY <1>6, <2>1
<1>8. n \in Nat /\ I = [k \in 1..n |-> I[k]]
  BY <1>0, <1>1
<1>9. I \in Seq(U) /\ Len(I) = n
  <2> HIDE DEF U
  <2> QED
    BY ONLY <1>7, <1>8, Listed
<1>10. /\ pack_from(w, I) \in Seq(Bytes) /\ Len(pack_from(w, I)) = packed_length(n, w)
       /\ bit_unpack(pack_from(w, I), n) = Decoded(I)
  <2>1. w \in 0..WordBits /\ I \in Seq(0..(2^w - 1)) /\ n = Len(I)
    BY <1>4, <1>9
  <2> QED
    BY ONLY <2>1, Packed
<1> QED
  BY <1>6, <1>9, <1>10 DEF IndicesBack, n, m

-----------------------------------------------------------------------------
(* What a candidate stores, and how it is read                             *)

\* Streams of the kinds the layout allows, of these lengths, which are read back.
EncodedAs(c, vs, e, prices) ==
    /\ e = [layout |-> e.layout, streams |-> e.streams] /\ e.layout \in DOMAIN AllowedKinds
    /\ Laid(e.streams, prices, AllowedKinds[e.layout] \ {"validity"})
    /\ \A st : st.layout = e.layout /\ st.dense_count = Len(vs) /\ CarriesAll(st, e.streams)
                 => dense_values(c, st) = Decoded(vs)

LEMMA LaidWithin ==
    ASSUME NEW ss, NEW prices, NEW kinds, Laid(ss, prices, kinds), NEW more, kinds \subseteq more
    PROVE  Laid(ss, prices, more)
  BY DEF Laid

LEMMA KindsOfLayout ==
    /\ DOMAIN AllowedKinds = {"plain", "constant", "dictionary", "run_length"}
    /\ AllowedKinds["plain"] \ {"validity"} = {"values", "lengths"}
    /\ AllowedKinds["constant"] \ {"validity"} = {"values", "lengths"}
    /\ AllowedKinds["dictionary"] \ {"validity"} =
         {"dictionary_values", "dictionary_lengths", "indices"}
    /\ AllowedKinds["run_length"] \ {"validity"} = {"run_values", "run_lengths", "lengths"}
  BY DEF AllowedKinds

LEMMA EncodedRecord ==
    ASSUME NEW e, NEW layout, NEW streams, e = [layout |-> layout, streams |-> streams]
    PROVE  e.layout = layout /\ e.streams = streams /\ e = [layout |-> e.layout, streams |-> e.streams]
  OBVIOUS

LEMMA RawEncoded ==
    ASSUME NEW c, NEW vs, Sized(c, vs), NEW e, e = encode(c, vs, "Raw")
    PROVE  EncodedAs(c, vs, e, estimate(c, vs, "Raw"))
<1> DEFINE ss == PlainStreams(c, vs, "values", "lengths")
           n == Len(vs)
           prices == PlainPrices(c, vs)
<1>1. e = [layout |-> "plain", streams |-> ss]
  BY DEF encode
<1>2. Holding(c, vs) /\ n # 0
  BY SizedOf
<1>3. /\ Laid(ss, prices, PlainKinds(c, "values", "lengths"))
      /\ \A st : CarriesAll(st, ss) => values_of(c, st, "values", "lengths", n) = Decoded(vs)
  <2>1. "values" \in Kinds /\ "lengths" \in Kinds /\ "values" # "lengths"
    BY DEF Kinds
  <2> QED
    BY <1>2, <2>1, PlainStreamsBack
<1>4. estimate(c, vs, "Raw") = prices
  BY EstimateOf
<1> HIDE DEF ss, n, prices
<1>5. e.layout = "plain" /\ e.streams = ss /\ e = [layout |-> e.layout, streams |-> e.streams]
  BY <1>1, EncodedRecord
<1>6. Laid(ss, prices, AllowedKinds["plain"] \ {"validity"})
  BY <1>3, LaidWithin, KindsOfLayout DEF PlainKinds
<1>7. ASSUME NEW st, st.layout = "plain", st.dense_count = n, CarriesAll(st, ss)
      PROVE  dense_values(c, st) = Decoded(vs)
  BY <1>2, <1>3, <1>7 DEF dense_values, plain
<1> QED
  BY <1>4, <1>5, <1>6, <1>7, KindsOfLayout DEF EncodedAs, n

\* Values of a single run are all alike.
LEMMA OneRun ==
    ASSUME NEW T, NEW vs \in Seq(T), Len(vs) # 0, Len(vs) < 2^WordBits, Len(RunValues(vs)) <= 1
    PROVE  \A k \in 1..Len(vs) : vs[k] = vs[1]
<1> DEFINE V == RunValues(vs)
           L == RunLengths(vs)
           w == bit_width(MaxOf(L))
<1>1. RunsOfSeq(T, vs, V, L, w)
  BY RunsStored
<1> HIDE DEF V, L, w
<1>2. V \in Seq(T) /\ L \in Seq(Nat) /\ Len(V) = Len(L) /\ Len(L) \in 1..Len(vs) /\ Expand(V, L) = vs
  BY <1>1 DEF RunsOfSeq
<1>3. Len(V) = 1 /\ Len(L) = 1
  <2>1. Len(V) <= 1
    BY DEF V
  <2> QED
    BY <1>2, <2>1
<1>4. L[1] \in Nat /\ L = <<L[1]>>
  <2>1. L = [k \in 1..Len(L) |-> L[k]] /\ L[1] \in Nat
    <3>1. L \in Seq(Nat) /\ Len(L) = 1
      BY <1>2, <1>3
    <3>2. L = [k \in 1..Len(L) |-> L[k]] /\ \A k \in 1..Len(L) : L[k] \in Nat
      BY ONLY <3>1, Elements
    <3>3. 1 \in 1..Len(L)
      BY ONLY <3>1
    <3> QED
      BY ONLY <3>2, <3>3
  <2> QED
    BY <1>3, <2>1
<1> DEFINE x == L[1]
<1>5. x \in Nat /\ Expand(V, <<x>>) = vs
  BY <1>2, <1>4
<1> HIDE DEF x
<1>6. Len(vs) = x /\ \A k \in 1..x : vs[k] = V[1]
  <2>1. Len(Expand(V, <<x>>)) = x /\ \A k \in 1..x : Expand(V, <<x>>)[k] = V[1]
    BY <1>2, <1>3, <1>5, ExpandOne
  <2> QED
    BY <1>5, <2>1
<1> QED
  BY <1>5, <1>6

LEMMA ConstantEncoded ==
    ASSUME NEW c, NEW vs, Sized(c, vs), "Constant" \in candidates(c, vs),
           NEW e, e = encode(c, vs, "Constant")
    PROVE  EncodedAs(c, vs, e, estimate(c, vs, "Constant"))
<1> DEFINE one == <<vs[1]>>
           ss == PlainStreams(c, one, "values", "lengths")
           n == Len(vs)
           prices == PlainPrices(c, one)
           T == Domain(c)
<1>1. e = [layout |-> "constant", streams |-> ss]
  BY DEF encode
<1>2. IsColumn(c) /\ vs \in Seq(T) /\ n \in Nat /\ n # 0 /\ n < 2^WordBits
  BY SizedOf
<1>3. \A k \in 1..n : vs[k] = vs[1]
  <2>1. Len(RunValues(vs)) <= 1
    BY <1>2, ValidOf
  <2> HIDE DEF T
  <2> QED
    BY <1>2, <2>1, OneRun
<1>4. one \in Seq(T) /\ Len(one) = 1 /\ one[1] = vs[1]
  <2> HIDE DEF T
  <2>1. vs[1] \in T
    BY <1>2
  <2> QED
    BY <2>1
<1>5. estimate(c, vs, "Constant") = prices
  BY EstimateOf
<1>6. Holding(c, one)
  BY <1>2, <1>4 DEF Holding
<1> HIDE DEF one, n, T, ss, prices
<1>7. /\ Laid(ss, prices, PlainKinds(c, "values", "lengths"))
      /\ \A st : CarriesAll(st, ss) => values_of(c, st, "values", "lengths", 1) = Decoded(one)
  <2>1. "values" \in Kinds /\ "lengths" \in Kinds /\ "values" # "lengths"
    BY DEF Kinds
  <2>2. /\ Laid(ss, prices, PlainKinds(c, "values", "lengths"))
        /\ \A st : CarriesAll(st, ss) => values_of(c, st, "values", "lengths", Len(one)) = Decoded(one)
    BY <1>6, <2>1, PlainStreamsBack DEF ss, prices
  <2> QED
    BY <1>4, <2>2
<1>8. e.layout = "constant" /\ e.streams = ss /\ e = [layout |-> e.layout, streams |-> e.streams]
  BY <1>1, EncodedRecord
<1>9. Laid(ss, prices, AllowedKinds["constant"] \ {"validity"})
  BY <1>7, LaidWithin, KindsOfLayout DEF PlainKinds
<1>10. Expand(one, <<n>>) = vs
  <2> DEFINE out == Expand(one, <<n>>)
  <2>1. out \in Seq(T) /\ Len(out) = n /\ \A k \in 1..n : out[k] = one[1]
    BY <1>2, <1>4, ExpandOne
  <2> HIDE DEF out
  <2>2. out = [k \in 1..n |-> out[k]] /\ vs = [k \in 1..n |-> vs[k]]
    BY <1>2, <2>1, Elements DEF n
  <2>3. \A k \in 1..n : out[k] = vs[k]
    BY <1>3, <1>4, <2>1
  <2> QED
    BY <2>2, <2>3 DEF out
<1>11. ASSUME NEW st, st.layout = "constant", st.dense_count = n, CarriesAll(st, ss)
       PROVE  dense_values(c, st) = Decoded(vs)
  <2>1. Decoded(one).ok /\ Decoded(one).values = one
    BY DEF Decoded
  <2>2. plain(c, st, 1) = Decoded(one)
    BY <1>7, <1>11 DEF plain
  <2>3. constant(c, st, n) = Decoded(Expand(one, <<n>>))
    BY <2>1, <2>2 DEF constant, AndThen
  <2>4. dense_values(c, st) = constant(c, st, n)
    BY <1>2, <1>11 DEF dense_values
  <2> QED
    BY <1>10, <2>3, <2>4
<1> QED
  BY <1>5, <1>8, <1>9, <1>11, KindsOfLayout DEF EncodedAs, n

LEMMA DictionaryEncoded ==
    ASSUME NEW c, NEW vs, Sized(c, vs), NEW e, e = encode(c, vs, "Dictionary")
    PROVE  EncodedAs(c, vs, e, estimate(c, vs, "Dictionary"))
<1> DEFINE E == Distinct(vs)
           I == IndicesIn(E, vs)
           w == bit_width(Len(E) - 1)
           n == Len(vs)
           p == pack_from(w, I)
           ss == PlainStreams(c, E, "dictionary_values", "dictionary_lengths")
           s == Stream("indices", "bit_packed", n, p)
           prices == PlainPrices(c, E)
           kinds == PlainKinds(c, "dictionary_values", "dictionary_lengths")
           T == Domain(c)
<1>1. e = [layout |-> "dictionary", streams |-> ss \o <<s>>]
  BY DEF encode, dictionary_streams
<1>2. IsColumn(c) /\ vs \in Seq(T) /\ n \in Nat \ {0} /\ n < 2^WordBits
  BY SizedOf
<1>3. estimate(c, vs, "Dictionary") = prices \o <<packed_length(n, w)>>
  BY EstimateOf
<1>4. s.kind = "indices" /\ s.transform = "bit_packed" /\ s.elements = n /\ s.bytes = p
  BY StreamFields
<1> HIDE DEF T
<1>5. /\ E \in Seq(T) /\ Len(E) \in 1..n
      /\ \A k \in 1..n : \E i \in 1..Len(E) : E[i] = vs[k]
  BY <1>2, Entries
<1>6. Holding(c, E)
  BY <1>2, <1>5 DEF Holding, T
<1> HIDE DEF E
<1>7. Len(E) \in Nat \ {0} /\ Len(E) < 2^WordBits
  <2>1. 2^WordBits \in Nat
    BY Widths, PowerType
  <2> QED
    BY <1>2, <1>5, <2>1
<1>8. IndicesBack(vs, E, I, w)
  <2>1. /\ vs \in Seq(T) /\ E \in Seq(T) /\ Len(E) # 0 /\ Len(E) < 2^WordBits
        /\ \A k \in 1..Len(vs) : \E i \in 1..Len(E) : E[i] = vs[k]
        /\ I = IndicesIn(E, vs) /\ w = bit_width(Len(E) - 1)
    BY <1>2, <1>5, <1>7
  <2> HIDE DEF I, w
  <2> QED
    BY ONLY <2>1, IndicesPacked
<1> HIDE DEF I, w
<1>9. /\ p \in Seq(Bytes) /\ Len(p) = packed_length(n, w) /\ bit_unpack(p, n) = Decoded(I)
      /\ \A k \in 1..n : I[k] \in 0..(Len(E) - 1) /\ E[I[k] + 1] = vs[k]
  BY <1>8 DEF IndicesBack
<1> HIDE DEF p
<1>10. s \in StreamRecords
  <2>1. "indices" \in Kinds /\ "bit_packed" \in Transforms /\ n \in Nat
    BY <1>2 DEF Kinds, Transforms
  <2> QED
    BY <1>9, <2>1, StreamFields
<1> HIDE DEF s, ss, prices, n, kinds
<1>11. /\ Laid(ss, prices, kinds)
       /\ \A st : CarriesAll(st, ss) =>
            /\ values_of(c, st, "dictionary_values", "dictionary_lengths", Len(E)) = Decoded(E)
            /\ Len(StreamsOf(st, "dictionary_values")) = 1
            /\ The(st, "dictionary_values").elements = Len(E)
  <2>1. /\ "dictionary_values" \in Kinds /\ "dictionary_lengths" \in Kinds
        /\ "dictionary_values" # "dictionary_lengths"
    BY DEF Kinds
  <2> QED
    BY <1>6, <2>1, PlainStreamsBack DEF ss, prices, kinds
<1> DEFINE x == packed_length(n, w)
           tt == ss \o <<s>>
<1>12. /\ Laid(tt, prices \o <<x>>, kinds \cup {s.kind})
       /\ \A st : CarriesAll(st, tt) => CarriesAll(st, ss) /\ Carries(st, s)
  <2>1. Laid(ss, prices, kinds) /\ s \in StreamRecords /\ s.kind \notin kinds /\ x = Len(s.bytes)
    BY <1>4, <1>9, <1>10, <1>11 DEF kinds, PlainKinds
  <2> HIDE DEF x
  <2> QED
    BY ONLY <2>1, LaidNext
<1> HIDE DEF tt, x
<1>13. e.layout = "dictionary" /\ e.streams = tt /\ e = [layout |-> e.layout, streams |-> e.streams]
  BY <1>1, EncodedRecord DEF tt
<1>14. Laid(tt, prices \o <<x>>, AllowedKinds["dictionary"] \ {"validity"})
  <2>1. kinds \cup {s.kind} \subseteq AllowedKinds["dictionary"] \ {"validity"}
    BY <1>4, KindsOfLayout DEF PlainKinds, kinds
  <2> QED
    BY <1>12, <2>1, LaidWithin
<1>15. ASSUME NEW st, st.layout = "dictionary", st.dense_count = n, CarriesAll(st, tt)
       PROVE  dense_values(c, st) = Decoded(vs)
  <2>1. CarriesAll(st, ss) /\ Carries(st, s)
    BY <1>12, <1>15
  <2>2. unpack(st, "indices", n) = Decoded(I)
    <3>1. Has(st, "indices", n) /\ The(st, "indices") = s
      BY <1>4, <2>1, Carried
    <3> QED
      BY <1>4, <1>9, <3>1 DEF unpack
  <2>3. /\ values_of(c, st, "dictionary_values", "dictionary_lengths", Len(E)) = Decoded(E)
        /\ Len(StreamsOf(st, "dictionary_values")) = 1
        /\ The(st, "dictionary_values").elements = Len(E)
    BY <1>11, <2>1
  <2>4. Decoded(E).ok /\ Decoded(E).values = E /\ Decoded(I).ok /\ Decoded(I).values = I
    BY DEF Decoded
  <2>5. ~\E k \in 1..n : I[k] >= Len(E)
    BY <1>7, <1>9
  <2>6. [k \in 1..n |-> E[I[k] + 1]] = vs
    <3>1. vs = [k \in 1..n |-> vs[k]]
      BY <1>2, Elements DEF n
    <3> QED
      BY <1>9, <3>1
  <2>7. dictionary(c, st, n) = Decoded(vs)
    BY <1>7, <2>2, <2>3, <2>4, <2>5, <2>6 DEF dictionary, AndThen
  <2> QED
    BY <1>2, <1>15, <2>7 DEF dense_values
<1> QED
  BY <1>3, <1>13, <1>14, <1>15, KindsOfLayout DEF EncodedAs, n, x

LEMMA RunLengthEncoded ==
    ASSUME NEW c, NEW vs, Sized(c, vs), NEW e, e = encode(c, vs, "RunLength")
    PROVE  EncodedAs(c, vs, e, estimate(c, vs, "RunLength"))
<1> DEFINE V == RunValues(vs)
           L == RunLengths(vs)
           w == bit_width(MaxOf(L))
           n == Len(vs)
           m == Len(L)
           p == pack_from(w, L)
           ss == PlainStreams(c, V, "run_values", "lengths")
           s == Stream("run_lengths", "bit_packed", m, p)
           prices == PlainPrices(c, V)
           kinds == PlainKinds(c, "run_values", "lengths")
           T == Domain(c)
<1>1. e = [layout |-> "run_length", streams |-> ss \o <<s>>]
  BY DEF encode, run_length_streams
<1>2. IsColumn(c) /\ vs \in Seq(T) /\ n \in Nat \ {0} /\ n < 2^WordBits
  BY SizedOf
<1>3. estimate(c, vs, "RunLength") = prices \o <<packed_length(Len(V), w)>>
  BY EstimateOf
<1>4. s.kind = "run_lengths" /\ s.transform = "bit_packed" /\ s.elements = m /\ s.bytes = p
  BY StreamFields
<1> HIDE DEF T
<1>5. RunsOfSeq(T, vs, V, L, w)
  BY <1>2, RunsStored
<1> HIDE DEF V, L, w
<1>6. /\ V \in Seq(T) /\ L \in Seq(Nat) /\ Len(V) = m /\ m \in 1..n
      /\ 0 \notin ToSet(L) /\ SumSeq(L) = n /\ Expand(V, L) = vs
      /\ p \in Seq(Bytes) /\ Len(p) = packed_length(m, w) /\ bit_unpack(p, m) = Decoded(L)
  BY <1>5 DEF RunsOfSeq
<1>7. Holding(c, V)
  BY <1>2, <1>6 DEF Holding, T
<1> HIDE DEF p, m, n
<1>10. s \in StreamRecords
  <2>1. "run_lengths" \in Kinds /\ "bit_packed" \in Transforms /\ m \in Nat
    BY <1>2, <1>6 DEF Kinds, Transforms
  <2> QED
    BY <1>6, <2>1, StreamFields
<1> HIDE DEF s, ss, prices, kinds
<1>11. /\ Laid(ss, prices, kinds)
       /\ \A st : CarriesAll(st, ss) => values_of(c, st, "run_values", "lengths", m) = Decoded(V)
  <2>1. "run_values" \in Kinds /\ "lengths" \in Kinds /\ "run_values" # "lengths"
    BY DEF Kinds
  <2>2. /\ Laid(ss, prices, kinds)
        /\ \A st : CarriesAll(st, ss) => values_of(c, st, "run_values", "lengths", Len(V)) = Decoded(V)
    BY <1>7, <2>1, PlainStreamsBack DEF ss, prices, kinds
  <2> QED
    BY <1>6, <2>2
<1> DEFINE x == packed_length(Len(V), w)
           tt == ss \o <<s>>
<1>12. /\ Laid(tt, prices \o <<x>>, kinds \cup {s.kind})
       /\ \A st : CarriesAll(st, tt) => CarriesAll(st, ss) /\ Carries(st, s)
  <2>1. Laid(ss, prices, kinds) /\ s \in StreamRecords /\ s.kind \notin kinds /\ x = Len(s.bytes)
    BY <1>4, <1>6, <1>10, <1>11 DEF kinds, PlainKinds
  <2> HIDE DEF x
  <2> QED
    BY ONLY <2>1, LaidNext
<1> HIDE DEF tt, x
<1>13. e.layout = "run_length" /\ e.streams = tt /\ e = [layout |-> e.layout, streams |-> e.streams]
  BY <1>1, EncodedRecord DEF tt
<1>14. Laid(tt, prices \o <<x>>, AllowedKinds["run_length"] \ {"validity"})
  <2>1. kinds \cup {s.kind} \subseteq AllowedKinds["run_length"] \ {"validity"}
    BY <1>4, KindsOfLayout DEF PlainKinds, kinds
  <2> QED
    BY <1>12, <2>1, LaidWithin
<1>15. ASSUME NEW st, st.layout = "run_length", st.dense_count = n, CarriesAll(st, tt)
       PROVE  dense_values(c, st) = Decoded(vs)
  <2>1. CarriesAll(st, ss) /\ Carries(st, s)
    BY <1>12, <1>15
  <2>2. /\ unpack(st, "run_lengths", m) = Decoded(L) /\ Len(StreamsOf(st, "run_lengths")) = 1
        /\ The(st, "run_lengths").elements = m
    <3>1. /\ Has(st, "run_lengths", m) /\ The(st, "run_lengths") = s
          /\ Len(StreamsOf(st, "run_lengths")) = 1
      BY <1>4, <2>1, Carried
    <3> QED
      BY <1>4, <1>6, <3>1 DEF unpack
  <2>3. values_of(c, st, "run_values", "lengths", m) = Decoded(V)
    BY <1>11, <2>1
  <2>4. Decoded(V).ok /\ Decoded(V).values = V /\ Decoded(L).ok /\ Decoded(L).values = L
    BY DEF Decoded
  <2>5. run_length(c, st, n) = Decoded(vs)
    BY <1>6, <2>2, <2>3, <2>4 DEF run_length, AndThen
  <2> QED
    BY <1>2, <1>15, <2>5 DEF dense_values
<1> QED
  BY <1>3, <1>13, <1>14, <1>15, KindsOfLayout DEF EncodedAs, n, x

\* The price of a bit-packed stream of nothing but false is the only one that is
\* not exact.
Overpriced(c, vs, encoding) ==
    encoding = "BitPacked" /\ c.family = "bool" /\ ToSet(vs) = {FALSE}

PricedAs(c, vs, encoding, prices) ==
    IF Overpriced(c, vs, encoding)
    THEN Len(prices) = 1 /\ prices[1] <= estimate(c, vs, encoding)[1]
    ELSE prices = estimate(c, vs, encoding)

LEMMA TransformEncoded ==
    ASSUME NEW c, NEW vs, Sized(c, vs), NEW encoding \in candidates(c, vs),
           encoding \in DOMAIN TransformOf, NEW e, e = encode(c, vs, encoding)
    PROVE  \E prices : EncodedAs(c, vs, e, prices) /\ PricedAs(c, vs, encoding, prices)
<1> DEFINE p == TransformedBytes(c, vs, encoding)
           n == Len(vs)
           s == Stream("values", TransformOf[encoding], n, p)
           ss == <<s>>
           prices == <<Len(p)>>
<1>1. e = [layout |-> "plain", streams |-> ss]
  BY DEF encode, TransformOf
<1>2. n \in Nat \ {0}
  BY SizedOf
<1>3. Transformed(c, vs, encoding, p)
  BY TransformedBack
<1>4. s.kind = "values" /\ s.elements = n /\ s.bytes = p
  BY StreamFields
<1> HIDE DEF p
<1>5. /\ p \in Seq(Bytes) /\ ~IsVariable(c) /\ stored_values(c, s) = Decoded(vs)
      /\ IF Overpriced(c, vs, encoding) THEN Len(p) <= estimate(c, vs, encoding)[1]
         ELSE estimate(c, vs, encoding) = <<Len(p)>>
  BY <1>3 DEF Transformed, Overpriced
<1>6. s \in StreamRecords
  <2>1. "values" \in Kinds /\ TransformOf[encoding] \in Transforms /\ n \in Nat
    BY <1>2 DEF Kinds, Transforms, TransformOf
  <2> QED
    BY <1>5, <2>1, StreamFields
<1> HIDE DEF s
<1>7. Laid(ss, prices, {s.kind}) /\ \A st : CarriesAll(st, ss) => Carries(st, s)
  <2>1. s \in StreamRecords /\ Len(p) = Len(s.bytes)
    BY <1>4, <1>6
  <2> QED
    BY ONLY <2>1, LaidOne
<1>8. PricedAs(c, vs, encoding, prices)
  <2>1. Len(prices) = 1 /\ prices[1] = Len(p)
    OBVIOUS
  <2> QED
    BY <1>5, <2>1 DEF PricedAs
<1> HIDE DEF ss, prices, n
<1>9. e.layout = "plain" /\ e.streams = ss /\ e = [layout |-> e.layout, streams |-> e.streams]
  BY <1>1, EncodedRecord
<1>10. Laid(ss, prices, AllowedKinds["plain"] \ {"validity"})
  <2>1. {s.kind} \subseteq AllowedKinds["plain"] \ {"validity"}
    BY <1>4, KindsOfLayout
  <2> QED
    BY <1>7, <2>1, LaidWithin
<1>11. ASSUME NEW st, st.layout = "plain", st.dense_count = n, CarriesAll(st, ss)
       PROVE  dense_values(c, st) = Decoded(vs)
  <2>1. Has(st, "values", n) /\ The(st, "values") = s
    BY <1>4, <1>7, <1>11, Carried
  <2>2. plain(c, st, n) = Decoded(vs)
    BY <1>5, <2>1 DEF plain, values_of
  <2> QED
    BY <1>2, <1>11, <2>2 DEF dense_values
<1>12. EncodedAs(c, vs, e, prices)
  BY <1>9, <1>10, <1>11, KindsOfLayout DEF EncodedAs, n
<1> QED
  BY <1>8, <1>12

\* Every candidate is read back, and costs what it was estimated at.
LEMMA Encoded ==
    ASSUME NEW c, NEW vs, Sized(c, vs), NEW encoding \in candidates(c, vs),
           NEW e, e = encode(c, vs, encoding)
    PROVE  \E prices : EncodedAs(c, vs, e, prices) /\ PricedAs(c, vs, encoding, prices)
<1>0. IsColumn(c)
  BY SizedOf
<1>1. encoding \in DOMAIN rank
  BY <1>0, ValidOf
<1>2. encoding \in {"Raw", "Constant", "Dictionary", "RunLength"} \/ encoding \in DOMAIN TransformOf
  BY <1>1 DEF rank, TransformOf
<1>3. CASE encoding \in DOMAIN TransformOf
  BY <1>3, TransformEncoded
<1>4. CASE encoding \in {"Raw", "Constant", "Dictionary", "RunLength"}
  <2>1. ~Overpriced(c, vs, encoding)
    BY <1>4 DEF Overpriced
  <2>2. EncodedAs(c, vs, e, estimate(c, vs, encoding))
    BY <1>4, RawEncoded, ConstantEncoded, DictionaryEncoded, RunLengthEncoded
  <2> QED
    BY <2>1, <2>2 DEF PricedAs
<1> QED
  BY <1>2, <1>3, <1>4

-----------------------------------------------------------------------------
(* The rows of a column                                                    *)

\* Rows a block may hold of a column.
RowsFit(c, rs) ==
    /\ IsColumn(c) /\ rs \in Seq(Domain(c) \cup {Null}) /\ Len(rs) < 2^(ByteBits * CountBytes)
    /\ \A k \in 1..Len(rs) : IF rs[k] = Null THEN c.nullable ELSE IsValueOf(c, rs[k])

LEMMA ValueInDomain ==
    ASSUME NEW c, IsColumn(c), NEW v, IsValueOf(c, v)
    PROVE  v \in Domain(c)
  BY DEF IsColumn, IsValueOf, Domain, IsNumeric, IsVariable, CountedBytes, WideBytes, Families

LEMMA ColumnOfType ==
    ASSUME NEW c \in ColumnTypes
    PROVE  /\ IsColumn(c) /\ MaxRows(c) \in Nat /\ MaxRows(c) < 2^(ByteBits * CountBytes)
           /\ c.primary \in BOOLEAN
           /\ \A cell \in Cells(c) : IsValueOf(c, cell)
           /\ BatchSizes(c) \subseteq Nat \ {0}
<1>1. /\ c.family \in Families /\ {c.signed, c.nullable, c.primary} \subseteq BOOLEAN
      /\ c.width \in Nat /\ (IsVariable(c) \/ c.width # 0)
      /\ IsNumeric(c) => c.width <= WordBytes
      /\ \A cell \in Cells(c) : IsValueOf(c, cell)
      /\ BatchSizes(c) \subseteq Nat \ {0}
      /\ {MaxRows(c), MaxAlterations(c)} \subseteq Nat
      /\ MaxRows(c) \in Values(CountType)
  BY ColumnAssumption
<1>2. IsColumn(c)
  BY <1>1 DEF IsColumn
<1> DEFINE m == 2^(ByteBits * CountBytes)
<1>3. MaxRows(c) \in 0..(m - 1) /\ m \in Nat
  BY <1>1, CountTypeColumn
<1> HIDE DEF m
<1>4. MaxRows(c) < m
  BY <1>3
<1> QED
  BY <1>1, <1>2, <1>4 DEF m

\* The valid bits of the rows, and the values left when the nulls are dropped.
LEMMA DenseRows ==
    ASSUME NEW c, NEW rs, RowsFit(c, rs), NEW n, n = Len(rs), NEW vs, vs = Dense(rs),
           NEW bits, bits = ValidBits(rs)
    PROVE  /\ n \in Nat /\ DOMAIN rs = 1..n
           /\ bits \in Seq(BOOLEAN) /\ Len(bits) = n /\ \A k \in 1..n : bits[k] = (rs[k] # Null)
           /\ TruePlaces(bits) = {k \in 1..n : rs[k] # Null}
           /\ Holding(c, vs) /\ Len(vs) = Cardinality(TruePlaces(bits)) /\ Len(vs) \in 0..n
           /\ vs = ElementsAt(rs, TruePlaces(bits))
           /\ \A k \in 1..Len(vs) : IsValueOf(c, vs[k])
           /\ vs # <<>> => Sized(c, vs)
<1> DEFINE T == Domain(c)
           U == T \cup {Null}
           S == {k \in 1..n : rs[k] # Null}
           M == 2^(ByteBits * CountBytes)
<1>0. IsColumn(c) /\ rs \in Seq(U) /\ n < M
      /\ \A k \in 1..n : rs[k] # Null => IsValueOf(c, rs[k])
  BY DEF RowsFit
<1>M. M \in Nat
  BY CountTypeColumn
<1> HIDE DEF M
<1>1. n \in Nat /\ DOMAIN rs = 1..n
  <2> HIDE DEF U
  <2> QED
    BY <1>0, Elements
<1>2. bits = [k \in 1..n |-> rs[k] # Null]
  BY <1>1 DEF ValidBits
<1>3. bits \in Seq(BOOLEAN) /\ Len(bits) = n /\ \A k \in 1..n : bits[k] = (rs[k] # Null)
  <2>1. bits = [k \in 1..n |-> bits[k]] /\ \A k \in 1..n : bits[k] \in BOOLEAN
    BY <1>2
  <2>2. bits \in Seq(BOOLEAN) /\ Len(bits) = n
    BY ONLY <1>1, <2>1, Listed
  <2> QED
    BY <1>2, <2>2
<1>4. TruePlaces(bits) = S
  BY <1>3, Zenon DEF TruePlaces
<1>5. vs = ElementsAt(rs, S) /\ S \in SUBSET (1..n)
  BY <1>1 DEF Dense
<1>6. \A k \in S : k \in 1..n /\ rs[k] # Null /\ IsValueOf(c, rs[k]) /\ rs[k] \in T
  BY <1>0, ValueInDomain
<1> HIDE DEF S, T, U
<1> DEFINE R == Cardinality(S)
<1>7. R \in Nat /\ vs \in Seq(U) /\ Len(vs) = R /\ \A r \in 1..R : vs[r] = rs[Nth(S, r)]
  BY <1>0, <1>5, ElementsOf
<1>8. \A r \in 1..R : Nth(S, r) \in S
  BY <1>1, <1>5, NthOf
<1>9. R <= n
  <2>1. IsFiniteSet(1..n) /\ Cardinality(1..n) = n
    BY ONLY <1>1, FS_Interval
  <2> QED
    BY <1>5, <2>1, FS_Subset
<1> HIDE DEF R
<1>10. \A r \in 1..R : vs[r] \in T /\ IsValueOf(c, vs[r])
  BY <1>6, <1>7, <1>8
<1>11. vs \in Seq(T)
  <2>1. R \in Nat /\ vs = [r \in 1..R |-> vs[r]] /\ \A r \in 1..R : vs[r] \in T
    BY <1>7, <1>10, Elements
  <2> QED
    BY ONLY <2>1, Listed
<1>12. Holding(c, vs)
  BY <1>0, <1>11 DEF Holding, T
<1>13. Len(vs) \in 0..n
  BY <1>1, <1>7, <1>9
<1>14. vs # <<>> => Sized(c, vs)
  <2>1. vs # <<>> => Len(vs) # 0
    BY <1>11
  <2>2. Len(vs) < M
    BY <1>0, <1>1, <1>13, <1>M
  <2> QED
    BY <1>12, <2>1, <2>2 DEF Sized, M
<1> QED
  BY <1>1, <1>3, <1>4, <1>5, <1>7, <1>10, <1>12, <1>13, <1>14 DEF R, S

\* The part of the state the rows are in.
ColumnRows ==
    /\ column \in ColumnTypes
    /\ RowsFit(column, rows) /\ Len(rows) <= MaxRows(column)

LEMMA AppendRowFits ==
    ASSUME ColumnRows, AppendRow
    PROVE  ColumnRows'
<1>1. PICK cell \in Cells(column) \cup (IF column.nullable THEN {Null} ELSE {}),
           size \in BatchSizes(column) :
         Len(rows) + size <= MaxRows(column) /\ rows' = rows \o [k \in 1..size |-> cell]
  BY DEF AppendRow
<1>2. column' = column
  BY DEF AppendRow
<1> DEFINE c == column
           T == Domain(c) \cup {Null}
           n == Len(rows)
           fresh == [k \in 1..size |-> cell]
           M == 2^(ByteBits * CountBytes)
<1>3. /\ c \in ColumnTypes /\ IsColumn(c) /\ rows \in Seq(T)
      /\ \A k \in 1..n : IF rows[k] = Null THEN c.nullable ELSE IsValueOf(c, rows[k])
  BY DEF ColumnRows, RowsFit
<1>4. /\ MaxRows(c) \in Nat /\ MaxRows(c) < M /\ size \in Nat
      /\ \A value \in Cells(c) : IsValueOf(c, value)
  BY <1>3, ColumnOfType
<1>M. M \in Nat
  BY CountTypeColumn
<1> HIDE DEF M
<1>5. IF cell = Null THEN c.nullable ELSE IsValueOf(c, cell)
  <2>1. CASE cell \in Cells(c)
    <3>1. IsValueOf(c, cell) /\ cell \in Domain(c)
      BY <1>3, <1>4, <2>1, ValueInDomain
    <3>2. cell # Null
      BY <1>3, <3>1, NullIsNoValue
    <3> QED
      BY <3>1, <3>2
  <2> QED
    BY <1>1, <2>1
<1>6. cell \in T
  BY <1>3, <1>5, ValueInDomain
<1> HIDE DEF T
<1>7. n \in Nat /\ fresh \in Seq(T) /\ Len(fresh) = size /\ \A k \in 1..size : fresh[k] = cell
  BY <1>3, <1>4, <1>6
<1> HIDE DEF fresh
<1>8. /\ rows' \in Seq(T) /\ Len(rows') = n + size
      /\ \A k \in 1..(n + size) : IF k <= n THEN rows'[k] = rows[k] ELSE rows'[k] = cell
  <2>1. rows' = rows \o fresh
    BY <1>1 DEF fresh
  <2>2. /\ rows \o fresh \in Seq(T) /\ Len(rows \o fresh) = n + size
        /\ \A k \in 1..(n + size) :
              (rows \o fresh)[k] = IF k <= n THEN rows[k] ELSE fresh[k - n]
    BY <1>3, <1>4, <1>7
  <2>3. \A k \in 1..(n + size) : ~(k <= n) => k - n \in 1..size
    BY <1>4, <1>7
  <2> QED
    BY <1>7, <2>1, <2>2, <2>3
<1>9. \A k \in 1..Len(rows') : IF rows'[k] = Null THEN c.nullable ELSE IsValueOf(c, rows'[k])
  <2> SUFFICES ASSUME NEW k \in 1..(n + size)
               PROVE IF rows'[k] = Null THEN c.nullable ELSE IsValueOf(c, rows'[k])
    BY <1>8
  <2>1. CASE k <= n
    <3>1. k \in 1..n
      BY <1>7, <2>1
    <3> QED
      BY <1>3, <1>8, <2>1, <3>1
  <2>2. CASE ~(k <= n)
    BY <1>5, <1>8, <2>2
  <2> QED
    BY <2>1, <2>2
<1>10. Len(rows') <= MaxRows(c) /\ Len(rows') < M
  BY <1>1, <1>4, <1>7, <1>8, <1>M
<1> QED
  BY <1>2, <1>3, <1>8, <1>9, <1>10 DEF ColumnRows, RowsFit, T, M

LEMMA NoRowsFit ==
    ASSUME column \in ColumnTypes, rows = <<>>
    PROVE  ColumnRows
<1>1. IsColumn(column) /\ MaxRows(column) \in Nat /\ MaxRows(column) < 2^(ByteBits * CountBytes)
  BY ColumnOfType
<1> DEFINE M == 2^(ByteBits * CountBytes)
<1>2. M \in Nat /\ MaxRows(column) < M
  BY <1>1, CountTypeColumn
<1> HIDE DEF M
<1>3. Len(rows) = 0 /\ rows \in Seq(Domain(column) \cup {Null}) /\ 0 < M /\ 0 <= MaxRows(column)
  BY <1>1, <1>2
<1> QED
  BY <1>1, <1>3 DEF ColumnRows, RowsFit, M

\* The rows are of the column's type and no more than a block holds.
LEMMA ColumnRowsHold == ColumnSpec => []ColumnRows
<1>1. ColumnInit => ColumnRows
  BY NoRowsFit DEF ColumnInit
<1>2. ColumnRows /\ [ColumnNext]_columnVars => ColumnRows'
  <2> SUFFICES ASSUME ColumnRows, [ColumnNext]_columnVars PROVE ColumnRows'
    OBVIOUS
  <2>1. CASE AppendRow
    BY <2>1, AppendRowFits
  <2>2. CASE EncodeColumn \/ Alter \/ DecodeColumn \/ UNCHANGED columnVars
    <3>1. column' = column /\ rows' = rows
      BY <2>2 DEF EncodeColumn, Alter, DecodeColumn, columnVars
    <3> QED
      BY <3>1 DEF ColumnRows
  <2> QED
    BY <2>1, <2>2 DEF ColumnNext
<1> QED
  BY <1>1, <1>2, PTL DEF ColumnSpec

-----------------------------------------------------------------------------
(* The estimates                                                           *)

LEMMA EstimatesExact ==
    ASSUME ColumnRows
    PROVE  EstimatesArePrices
<1> DEFINE vs == Dense(rows)
<1> SUFFICES ASSUME NEW encoding \in candidates(column, vs)
             PROVE  LET streams == encode(column, vs, encoding).streams
                        actual == [s \in DOMAIN streams |-> Len(streams[s].bytes)]
                        priced == estimate(column, vs, encoding)
                    IN  IF encoding = "BitPacked" /\ column.family = "bool" /\ ToSet(vs) = {FALSE}
                        THEN actual[1] <= priced[1]
                        ELSE actual = priced
  BY DEF EstimatesArePrices
<1>1. vs # <<>>
  BY DEF candidates, is_valid
<1>2. Sized(column, vs)
  BY <1>1, DenseRows DEF ColumnRows
<1> HIDE DEF vs
<1> DEFINE e == encode(column, vs, encoding)
<1>3. PICK prices : EncodedAs(column, vs, e, prices) /\ PricedAs(column, vs, encoding, prices)
  BY <1>2, Encoded
<1> HIDE DEF e
<1>4. /\ e.streams \in Seq(StreamRecords)
      /\ prices = [s \in 1..Len(e.streams) |-> Len(e.streams[s].bytes)]
  BY <1>3 DEF EncodedAs, Laid
<1>5. DOMAIN e.streams = 1..Len(e.streams)
  BY <1>4
<1>6. prices = [s \in DOMAIN e.streams |-> Len(e.streams[s].bytes)]
  BY <1>4, <1>5
<1>7. IF encoding = "BitPacked" /\ column.family = "bool" /\ ToSet(vs) = {FALSE}
      THEN prices[1] <= estimate(column, vs, encoding)[1]
      ELSE prices = estimate(column, vs, encoding)
  BY <1>3 DEF PricedAs, Overpriced
<1> QED
  BY <1>6, <1>7 DEF e

\* The price a candidate encoding of a column is shortlisted at is the length of
\* the streams it stores, except that nothing but false, bit-packed, is stored in
\* no more than its price (estimate against encode of candidates.rs).
THEOREM EstimatesArePricesHolds == ColumnSpec => []EstimatesArePrices
<1>1. ColumnRows => EstimatesArePrices
  BY EstimatesExact
<1> QED
  BY <1>1, ColumnRowsHold, PTL

-----------------------------------------------------------------------------
(* Validity, as it is stored                                               *)

\* One stream that is read back as the valid bits, or none where all are alike.
ValidityStored(bits, v) ==
    IF ToSet(bits) = BOOLEAN
    THEN \E s \in StreamRecords :
            /\ v = <<s>> /\ s.kind = "validity" /\ s.elements = Len(bits)
            /\ booleans(s.bytes, Len(bits), s.transform) = Decoded(bits)
    ELSE v = <<>>

LEMMA ValidityStream ==
    ASSUME NEW bits, NEW transform \in Transforms, NEW n \in Nat, n = Len(bits), NEW p \in Seq(Bytes),
           booleans(p, n, transform) = Decoded(bits), ToSet(bits) = BOOLEAN
    PROVE  ValidityStored(bits, <<Stream("validity", transform, n, p)>>)
<1> DEFINE s == Stream("validity", transform, n, p)
<1>1. s.kind = "validity" /\ s.transform = transform /\ s.elements = n /\ s.bytes = p
  BY StreamFields
<1>2. s \in StreamRecords
  BY StreamFields DEF Kinds
<1> HIDE DEF s
<1>3. booleans(s.bytes, n, s.transform) = Decoded(bits)
  BY <1>1
<1> DEFINE v == <<s>>
<1>4. v = <<s>>
  OBVIOUS
<1> HIDE DEF v
<1>5. ValidityStored(bits, v)
  BY <1>1, <1>2, <1>3, <1>4, Zenon DEF ValidityStored
<1> QED
  BY <1>5 DEF v, s

LEMMA ValidityIsStored ==
    ASSUME NEW bits \in Seq(BOOLEAN), Len(bits) < 2^(ByteBits * CountBytes)
    PROVE  ValidityStored(bits, raw_validity(bits)) /\ ValidityStored(bits, plan_validity(bits))
<1> DEFINE n == Len(bits)
           p == pack_booleans(bits)
           q == boolean_rle(bits)
           A == <<Stream("validity", "raw", n, p)>>
           B == <<Stream("validity", "boolean_rle", n, q)>>
<1>0. n \in Nat /\ n < 2^(ByteBits * CountBytes)
  OBVIOUS
<1>1. CASE ToSet(bits) = BOOLEAN
  <2>1. p \in Seq(Bytes) /\ raw_booleans(p, n) = Decoded(bits)
    BY Bitmap
  <2>2. n # 0 /\ n < 2^WordBits
    <3>1. n # 0
      <4>1. PICK k \in DOMAIN bits : bits[k] = TRUE
        BY <1>1 DEF ToSet
      <4> QED
        BY <4>1
    <3> DEFINE x == ByteBits * CountBytes
    <3>2. x \in Nat /\ x <= WordBits /\ WordBits \in Nat
      <4>1. ByteBits \in Nat /\ CountBytes \in Nat /\ WordBytes \in Nat /\ CountBytes <= WordBytes
        BY Widths, WidthAssumption
      <4> QED
        BY <4>1 DEF WordBits
    <3>3. n < 2^x
      BY <1>0
    <3> HIDE DEF x, n
    <3>4. 2^x <= 2^WordBits /\ 2^x \in Nat /\ 2^WordBits \in Nat
      BY <3>2, PowerMonotone, PowerType
    <3>5. n < 2^WordBits
      BY <1>0, <3>3, <3>4
    <3> QED
      BY <3>1, <3>5
  <2>3. q \in Seq(Bytes) /\ boolean_rle_values(q, n) = Decoded(bits)
    BY <1>0, <2>2, BooleanRleStored
  <2>4. "raw" \in Transforms /\ "boolean_rle" \in Transforms
    BY DEF Transforms
  <2> HIDE DEF p, q, n
  <2>5. booleans(p, n, "raw") = Decoded(bits) /\ booleans(q, n, "boolean_rle") = Decoded(bits)
    BY <2>1, <2>3 DEF booleans
  <2>6. ValidityStored(bits, A) /\ ValidityStored(bits, B)
    BY <1>0, <1>1, <2>1, <2>3, <2>4, <2>5, ValidityStream DEF n
  <2>7. raw_validity(bits) = A
    BY <1>1 DEF raw_validity, n, p
  <2>8. plan_validity(bits) \in {A, B}
    BY <2>7 DEF plan_validity, n, q
  <2> QED
    BY <2>6, <2>7, <2>8
<1>2. CASE ToSet(bits) # BOOLEAN
  <2>1. raw_validity(bits) = <<>>
    BY <1>2 DEF raw_validity
  <2>2. plan_validity(bits) = <<>>
    BY <2>1 DEF plan_validity
  <2> QED
    BY <1>2, <2>1, <2>2 DEF ValidityStored
<1> QED
  BY <1>1, <1>2

-----------------------------------------------------------------------------
(* A column, as it is stored                                               *)

\* The value streams of some values, or none where there are no values.
ValuesStored(c, vs, e) ==
    IF vs = <<>> THEN e = [layout |-> "plain", streams |-> <<>>]
    ELSE \E prices : EncodedAs(c, vs, e, prices)

\* What a policy selects: streams for the valid bits and for the values.
Selects(c, bits, vs, sel) ==
    \E v, e : ValidityStored(bits, v) /\ ValuesStored(c, vs, e) /\ sel = WithValidity(v, e)

LEMMA SelectsRaw ==
    ASSUME NEW c, NEW bits \in Seq(BOOLEAN), Len(bits) < 2^(ByteBits * CountBytes),
           NEW vs, vs = <<>> \/ Sized(c, vs)
    PROVE  Selects(c, bits, vs, raw_column_candidate(c, bits, vs))
<1> DEFINE v == raw_validity(bits)
           e == IF vs = <<>> THEN [layout |-> "plain", streams |-> <<>>] ELSE encode(c, vs, "Raw")
<1>1. ValidityStored(bits, v)
  BY ValidityIsStored
<1>2. ValuesStored(c, vs, e)
  <2>1. CASE vs = <<>>
    BY <2>1 DEF ValuesStored
  <2>2. CASE vs # <<>>
    <3>1. e = encode(c, vs, "Raw") /\ Sized(c, vs)
      BY <2>2
    <3> HIDE DEF e
    <3> QED
      BY <2>2, <3>1, RawEncoded DEF ValuesStored
  <2> QED
    BY <2>1, <2>2
<1>3. raw_column_candidate(c, bits, vs) = WithValidity(v, e)
  BY DEF raw_column_candidate
<1> HIDE DEF v, e
<1> QED
  BY <1>1, <1>2, <1>3 DEF Selects

LEMMA SelectsEncoding ==
    ASSUME NEW c, NEW bits, NEW v, ValidityStored(bits, v),
           NEW vs, Sized(c, vs), NEW encoding \in candidates(c, vs)
    PROVE  Selects(c, bits, vs, WithValidity(v, encode(c, vs, encoding)))
<1> DEFINE e == encode(c, vs, encoding)
<1>1. \E prices : EncodedAs(c, vs, e, prices)
  BY Encoded
<1>2. vs # <<>>
  <2>1. Len(vs) # 0
    BY SizedOf
  <2> QED
    BY <2>1
<1> HIDE DEF e
<1>3. ValuesStored(c, vs, e)
  BY <1>1, <1>2 DEF ValuesStored
<1>4. Selects(c, bits, vs, WithValidity(v, e))
  BY <1>3, Zenon DEF Selects
<1> QED
  BY <1>4 DEF e

-----------------------------------------------------------------------------
(* The shortlist                                                           *)

\* The candidates that come before one in order of price and rank.
Before(cost, e) ==
    {o \in DOMAIN cost : cost[o] < cost[e] \/ (cost[o] = cost[e] /\ rank[o] < rank[e])}

LEMMA Ranks ==
    /\ \A e \in DOMAIN rank : rank[e] \in 0..9
    /\ \A e, o \in DOMAIN rank : rank[e] = rank[o] => e = o
    /\ IsFiniteSet(DOMAIN rank)
<1>1. \A e \in DOMAIN rank : rank[e] \in 0..9
  BY DEF rank
<1>2. \A e, o \in DOMAIN rank : rank[e] = rank[o] => e = o
  BY DEF rank
<1> DEFINE D == DOMAIN rank
           f == [e \in D |-> rank[e]]
           T == 0..9
<1>3. f \in Injection(D, T)
  <2>1. f \in [D -> T] /\ \A e, o \in D : f[e] = f[o] => e = o
    BY <1>1, <1>2
  <2> QED
    BY <2>1 DEF Injection, IsInjective
<1>4. IsFiniteSet(T)
  BY FS_Interval, 0 \in Int, 9 \in Int
<1> HIDE DEF f, T
<1>5. IsFiniteSet(D)
  BY <1>3, <1>4, FS_Injection
<1> QED
  BY <1>1, <1>2, <1>5

\* The two cheapest, the cheapest first.
LEMMA Cheapest ==
    ASSUME NEW cost, NEW K, K = DOMAIN cost, K \subseteq DOMAIN rank, \A e \in K : cost[e] \in Nat,
           NEW sl, sl = FirstTwo(cost)
    PROVE  /\ sl \in Seq(K)
           /\ K # {} => Len(sl) # 0 /\ \A e \in K : cost[sl[1]] <= cost[e]
<1> DEFINE key(e) == cost[e] * 10 + rank[e]
           at(r) == CHOOSE e \in K : Cardinality(Before(cost, e)) = r
<1>0. (\A e \in K : rank[e] \in 0..9 /\ key(e) \in Nat) /\ IsFiniteSet(K)
      /\ \A e, o \in K : rank[e] = rank[o] => e = o
  BY Ranks, FS_Subset
<1>1. sl = IF Cardinality(K) = 0 THEN <<>> ELSE IF Cardinality(K) = 1 THEN <<at(0)>>
           ELSE <<at(0), at(1)>>
  BY DEF FirstTwo, Before
<1>2. \A e, o \in K : o \in Before(cost, e) <=> key(o) < key(e)
  BY <1>0 DEF Before
<1>3. \A e, o \in K : key(o) = key(e) => o = e
  BY <1>0
<1>4. \A e \in K : Before(cost, e) \subseteq K
  BY DEF Before
<1>5. \A e, o \in K : ~(key(o) < key(e)) => cost[e] <= cost[o]
  BY <1>0
<1>K. \A e \in K : key(e) \in Nat
  BY <1>0
<1> HIDE DEF key
<1>6. CASE K = {}
  <2>1. Cardinality(K) = 0
    BY <1>6, FS_EmptySet
  <2>2. sl = <<>>
    BY <1>1, <2>1
  <2> QED
    BY <1>6, <2>2
<1>7. CASE K # {}
  <2> DEFINE A == {key(e) : e \in K}
  <2>1. A \in SUBSET Nat /\ A # {}
    BY <1>7, <1>K
  <2>2. PICK x \in A : \A y \in A : x <= y
    BY <2>1, LeastElement
  <2>3. PICK a \in K : x = key(a)
    BY <2>2
  <2>4. \A o \in K : key(a) <= key(o)
    BY <2>2, <2>3
  <2>5. Before(cost, a) = {}
    BY <1>2, <1>4, <1>K, <2>4
  <2>6. Cardinality(Before(cost, a)) = 0
    BY <2>5, FS_EmptySet
  <2>7. at(0) \in K /\ Cardinality(Before(cost, at(0))) = 0
    BY <2>6
  <2> DEFINE first == at(0)
  <2>8. first \in K /\ Cardinality(Before(cost, first)) = 0
    BY <2>7
  <2> HIDE DEF first
  <2>9. Before(cost, first) = {}
    <3>1. IsFiniteSet(Before(cost, first))
      BY <1>0, <1>4, <2>8, FS_Subset
    <3> QED
      BY <2>8, <3>1, FS_EmptySet
  <2>10. \A e \in K : cost[first] <= cost[e]
    BY <1>2, <1>5, <2>8, <2>9
  <2>11. Cardinality(K) # 0
    BY <1>0, <1>7, FS_EmptySet
  <2>12. CASE Cardinality(K) = 1
    <3>1. sl = <<first>>
      BY <1>1, <2>11, <2>12 DEF first
    <3> QED
      BY <2>8, <2>10, <3>1
  <2>13. CASE Cardinality(K) # 1
    <3>1. K # {a}
      BY <2>13, FS_Singleton
    <3> DEFINE B == {key(e) : e \in K \ {a}}
    <3>2. B \in SUBSET Nat /\ B # {}
      BY <1>K, <2>3, <3>1
    <3>3. PICK y \in B : \A z \in B : y <= z
      BY <3>2, LeastElement
    <3>4. PICK b \in K \ {a} : y = key(b)
      BY <3>3
    <3>5. \A o \in K \ {a} : key(b) <= key(o)
      BY <3>3, <3>4
    <3>6. key(a) < key(b)
      BY <1>3, <1>K, <2>3, <2>4, <3>4
    <3>7. Before(cost, b) = {a}
      <4>1. a \in Before(cost, b)
        BY <1>2, <2>3, <3>4, <3>6
      <4>2. \A o \in K : o # a => o \notin Before(cost, b)
        BY <1>2, <1>K, <3>4, <3>5
      <4> QED
        BY <1>4, <3>4, <4>1, <4>2
    <3>8. Cardinality(Before(cost, b)) = 1
      BY <3>7, FS_Singleton
    <3>9. at(1) \in K
      BY <3>4, <3>8
    <3> DEFINE second == at(1)
    <3>10. second \in K
      BY <3>9
    <3>11. sl = <<first, second>>
      BY <1>1, <2>11, <2>13 DEF first
    <3> HIDE DEF second
    <3> QED
      BY <2>8, <2>10, <3>10, <3>11
  <2> QED
    BY <2>12, <2>13
<1> QED
  BY <1>6, <1>7

-----------------------------------------------------------------------------
(* What streams cost                                                       *)

LEMMA SumFront ==
    ASSUME NEW x \in Nat, NEW d \in Seq(Nat), NEW e, e = <<x>> \o d
    PROVE  SumSeq(e) = x + SumSeq(d) /\ SumSeq(d) \in Nat /\ e \in Seq(Nat)
<1> DEFINE n == Len(d)
           P(k) == SumFunctionOnSet(d, 1..k)
           Q(k) == SumFunctionOnSet(e, 1..k)
<1>0. /\ n \in Nat /\ e \in Seq(Nat) /\ Len(e) = n + 1 /\ e[1] = x
      /\ \A k \in 1..n : e[k + 1] = d[k] /\ d[k] \in Nat
  OBVIOUS
<1>1. P(0) = 0 /\ (\A k \in 0..n : P(k) \in Nat) /\ \A k \in 1..n : P(k) = P(k - 1) + d[k]
  BY <1>0, PrefixSum
<1>2. Q(0) = 0 /\ \A k \in 1..(n + 1) : Q(k) = Q(k - 1) + e[k]
  <2>1. n + 1 \in Nat /\ \A i \in 1..(n + 1) : e[i] \in Nat
    BY <1>0
  <2> DEFINE m == n + 1
  <2>2. m \in Nat /\ \A i \in 1..m : e[i] \in Nat
    BY <2>1
  <2> HIDE DEF m
  <2>3. Q(0) = 0 /\ \A k \in 1..m : Q(k) = Q(k - 1) + e[k]
    BY <2>2, PrefixSum
  <2> QED
    BY <2>3 DEF m
<1>3. SumSeq(d) = P(n) /\ SumSeq(d) \in Nat
  BY SumOfSeq
<1>4. SumSeq(e) = Q(n + 1)
  BY <1>0, SumOfSeq
<1> HIDE DEF P, Q, n
<1> DEFINE Good == {k \in Nat : Q(k + 1) = x + P(k)}
<1>5. 0 \in Good
  <2>1. 1 \in 1..(n + 1) /\ 1 - 1 = 0 /\ 0 + 1 = 1
    BY <1>0
  <2>2. Q(1) = Q(0) + e[1]
    BY <1>2, <2>1
  <2> QED
    BY <1>0, <1>1, <1>2, <2>1, <2>2
<1>6. ASSUME NEW k \in 0..(n - 1), k \in Good PROVE k + 1 \in Good
  <2>1. /\ k + 1 \in 1..n /\ (k + 1) - 1 = k /\ k + 1 \in Nat /\ k \in 0..n
        /\ (k + 1) + 1 \in 1..(n + 1) /\ ((k + 1) + 1) - 1 = k + 1
    BY <1>0
  <2>2. P(k + 1) = P(k) + d[k + 1]
    BY <1>1, <2>1
  <2>3. Q((k + 1) + 1) = Q(k + 1) + e[(k + 1) + 1]
    BY <1>2, <2>1
  <2>4. e[(k + 1) + 1] = d[k + 1] /\ d[k + 1] \in Nat /\ P(k) \in Nat /\ Q(k + 1) = x + P(k)
    BY <1>0, <1>1, <1>6, <2>1
  <2> DEFINE p == P(k)
             y == d[k + 1]
  <2>5. p \in Nat /\ y \in Nat /\ P(k + 1) = p + y /\ Q((k + 1) + 1) = (x + p) + y
    BY <2>2, <2>3, <2>4
  <2> HIDE DEF p, y
  <2>6. (x + p) + y = x + (p + y)
    BY <2>5
  <2>7. Q((k + 1) + 1) = x + P(k + 1)
    BY <2>5, <2>6
  <2> QED
    BY <2>1, <2>7
<1>7. \A k \in 0..n : k \in Good
  <2> HIDE DEF Good
  <2> QED
    BY <1>0, <1>5, <1>6, SetInduction
<1>8. n \in Good
  BY <1>0, <1>7, n \in 0..n
<1> QED
  BY <1>0, <1>3, <1>4, <1>8

LEMMA Aligned ==
    ASSUME NEW d \in Nat \ {0}, NEW n \in Nat
    PROVE  LET r == ((n + d - 1) \div d) * d
           IN  /\ r \in Nat /\ r >= n /\ r % d = 0
               /\ \A m \in Nat : m >= n /\ m % d = 0 => r <= m
<1> DEFINE r == ((n + d - 1) \div d) * d
<1>1. r = ((n + d - 1) \div d) * d
  OBVIOUS
<1> HIDE DEF r
<1>2. /\ r \in Nat /\ r >= n /\ r % d = 0
      /\ \A m \in Nat : m >= n /\ m % d = 0 => r <= m
  BY <1>1, RoundedUp
<1> QED
  BY <1>2 DEF r

\* A longer stream takes no less, and every stream takes as much as one of a byte.
LEMMA Payload ==
    ASSUME NEW x \in Nat
    PROVE  /\ stream_payload_bytes(x) \in Nat
           /\ \A y \in Nat : x <= y => stream_payload_bytes(x) <= stream_payload_bytes(y)
           /\ stream_payload_bytes(1) <= stream_payload_bytes(x)
<1> DEFINE d == FRAME_ALIGNMENT
           up(l) == ((l + d - 1) \div d) * d
<1>0. d \in Nat \ {0} /\ d % d = 0
  <2>1. d \in Nat \ {0}
    BY EncodeAssumption
  <2>2. (1 * d) % d = 0
    BY <2>1, Multiples
  <2> QED
    BY <2>1, <2>2
<1>1. \A l \in Nat : stream_payload_bytes(l) = IF l = 0 THEN d ELSE up(l)
  BY DEF stream_payload_bytes, CeilDiv
<1> HIDE DEF d
<1>2. ASSUME NEW l \in Nat
      PROVE  /\ up(l) \in Nat /\ up(l) >= l /\ up(l) % d = 0
             /\ \A m \in Nat : m >= l /\ m % d = 0 => up(l) <= m
  <2>1. d \in Nat \ {0}
    BY <1>0
  <2> QED
    BY <2>1, Aligned
<1> HIDE DEF up
<1>3. \A l, m \in Nat : l <= m => up(l) <= up(m)
  <2> SUFFICES ASSUME NEW l \in Nat, NEW m \in Nat, l <= m PROVE up(l) <= up(m)
    OBVIOUS
  <2>1. up(m) \in Nat /\ up(m) >= l /\ up(m) % d = 0
    BY <1>2
  <2> QED
    BY <1>2, <2>1
<1>4. \A l \in Nat : l # 0 => d <= up(l)
  <2> SUFFICES ASSUME NEW l \in Nat, l # 0 PROVE d <= up(l)
    OBVIOUS
  <2> DEFINE u == up(l)
  <2>1. u \in Nat /\ u >= 1 /\ u % d = 0
    BY <1>2
  <2> HIDE DEF u
  <2> DEFINE q == u \div d
  <2>2. q \in Int /\ u = q * d + (u % d)
    BY <1>0, <2>1, Quotients
  <2> HIDE DEF q
  <2>3. u = q * d
    BY <1>0, <2>1, <2>2
  <2>4. q >= 1
    <3> SUFFICES ASSUME q <= 0 PROVE FALSE
      BY <2>2
    <3>1. q * d <= 0 * d
      BY <1>0, <2>2
    <3> QED
      BY <1>0, <2>1, <2>3, <3>1
  <2>5. q * d >= 1 * d
    BY <1>0, <2>2, <2>4
  <2> QED
    BY <1>0, <2>1, <2>3, <2>5 DEF u
<1>5. up(1) <= d
  BY <1>0, <1>2
<1>6. \A l \in Nat : up(l) \in Nat
  BY <1>2
<1> QED
  BY <1>0, <1>1, <1>3, <1>4, <1>5, <1>6

StreamCost(length) == BLOCK_STREAM_DESCRIPTOR_SIZE + stream_payload_bytes(length)

LEMMA StreamCosts ==
    ASSUME NEW x \in Nat
    PROVE  /\ StreamCost(x) \in Nat /\ StreamCost(1) <= StreamCost(x)
           /\ \A y \in Nat : x <= y => StreamCost(x) <= StreamCost(y)
<1>1. BLOCK_STREAM_DESCRIPTOR_SIZE \in Nat
  BY EncodeAssumption
<1>2. \A y \in Nat : stream_payload_bytes(y) \in Nat
  BY Payload
<1> QED
  BY <1>1, <1>2, Payload DEF StreamCost

LEMMA CostsOfLengths ==
    ASSUME NEW lens \in Seq(Nat), NEW x \in Nat
    PROVE  /\ CostOfLengths(lens) \in Nat
           /\ CostOfLengths(<<x>> \o lens) = StreamCost(x) + CostOfLengths(lens)
<1> DEFINE d == [s \in DOMAIN lens |-> StreamCost(lens[s])]
           more == <<x>> \o lens
           e == [s \in DOMAIN more |-> StreamCost(more[s])]
           y == StreamCost(x)
           n == Len(lens)
<1>1. CostOfLengths(lens) = SumSeq(d) /\ CostOfLengths(more) = SumSeq(e)
  BY DEF CostOfLengths, StreamCost
<1>2. /\ n \in Nat /\ DOMAIN lens = 1..n /\ DOMAIN more = 1..(n + 1) /\ more[1] = x
      /\ \A k \in 1..n : more[k + 1] = lens[k] /\ lens[k] \in Nat
  OBVIOUS
<1>3. y \in Nat /\ \A k \in 1..n : d[k] \in Nat /\ d[k] = StreamCost(lens[k])
  BY <1>2, StreamCosts
<1>4. d = [k \in 1..n |-> d[k]]
  BY <1>2
<1> HIDE DEF d
<1>5. d \in Seq(Nat) /\ Len(d) = n
  BY ONLY <1>2, <1>3, <1>4, Listed
<1>6. e = <<y>> \o d
  <2> DEFINE f == <<y>> \o d
  <2>1. /\ f \in Seq(Nat) /\ Len(f) = n + 1 /\ f[1] = y
        /\ \A k \in 1..n : f[k + 1] = d[k]
    BY <1>2, <1>3, <1>5
  <2>2. f = [k \in 1..(n + 1) |-> f[k]]
    <3> HIDE DEF f
    <3> QED
      BY <2>1, Elements
  <2> HIDE DEF f
  <2>3. \A k \in 1..(n + 1) : f[k] = StreamCost(more[k])
    <3> SUFFICES ASSUME NEW k \in 1..(n + 1) PROVE f[k] = StreamCost(more[k])
      OBVIOUS
    <3>1. CASE k = 1
      BY <1>2, <2>1, <3>1
    <3>2. CASE k # 1
      <4>1. k - 1 \in 1..n /\ (k - 1) + 1 = k
        BY <1>2, <3>2
      <4>2. f[(k - 1) + 1] = d[k - 1] /\ more[(k - 1) + 1] = lens[k - 1]
        BY <1>2, <2>1, <4>1
      <4> QED
        BY <1>3, <4>1, <4>2
    <3> QED
      BY <3>1, <3>2
  <2> QED
    BY <1>2, <2>2, <2>3 DEF f
<1> HIDE DEF e, y
<1>7. SumSeq(e) = y + SumSeq(d) /\ SumSeq(d) \in Nat
  BY <1>3, <1>5, <1>6, SumFront
<1> QED
  BY <1>1, <1>7 DEF y

LEMMA CostOfFew ==
    /\ CostOfLengths(<<>>) = 0
    /\ \A x \in Nat : CostOfLengths(<<x>>) = StreamCost(x)
<1> DEFINE none == <<>>
<1>1. CostOfLengths(none) = SumSeq(none)
  <2>1. [s \in DOMAIN none |-> BLOCK_STREAM_DESCRIPTOR_SIZE + stream_payload_bytes(none[s])] = none
    OBVIOUS
  <2> QED
    BY <2>1, Zenon DEF CostOfLengths
<1>2. none \in Seq(Nat) /\ Len(none) = 0
  OBVIOUS
<1>3. SumSeq(none) = 0
  <2>1. SumSeq(none) = SumFunctionOnSet(none, 1..0)
    BY <1>2, SumOfSeq
  <2>2. SumFunctionOnSet(none, 1..0) = 0
    BY PrefixSum, 0 \in Nat
  <2> QED
    BY <2>1, <2>2
<1>4. ASSUME NEW x \in Nat PROVE CostOfLengths(<<x>>) = StreamCost(x)
  <2>1. <<x>> \o none = <<x>>
    OBVIOUS
  <2>2. CostOfLengths(<<x>> \o none) = StreamCost(x) + CostOfLengths(none)
    BY <1>2, CostsOfLengths
  <2>3. StreamCost(x) + 0 = StreamCost(x)
    BY StreamCosts
  <2> QED
    BY <1>1, <1>3, <2>1, <2>2, <2>3
<1> QED
  BY <1>1, <1>3, <1>4

\* What a candidate costs beside the validity stream: no more than its estimate.
BuiltCost(c, vs, v, encoding) == stored_column_cost(WithValidity(v, encode(c, vs, encoding)))

LEMMA WithValidityParts ==
    ASSUME NEW v, NEW e, e = [layout |-> e.layout, streams |-> e.streams],
           NEW sel, sel = WithValidity(v, e)
    PROVE  sel.layout = e.layout /\ sel.streams = v \o e.streams
  BY DEF WithValidity

LEMMA ValidityCost ==
    ASSUME NEW bits, NEW v, ValidityStored(bits, v)
    PROVE  /\ v = <<>> => stored_column_cost([streams |-> v]) = 0
           /\ v # <<>> => \E s \in StreamRecords :
                /\ v = <<s>> /\ Len(s.bytes) \in Nat /\ s.kind = "validity"
                /\ stored_column_cost([streams |-> v]) = StreamCost(Len(s.bytes))
           /\ stored_column_cost([streams |-> v]) \in Nat
<1>1. CASE v = <<>>
  <2>1. [s \in DOMAIN v |-> Len(v[s].bytes)] = <<>>
    BY <1>1
  <2>2. stored_column_cost([streams |-> v]) = CostOfLengths(<<>>)
    BY <2>1 DEF stored_column_cost
  <2> QED
    BY <1>1, <2>2, CostOfFew
<1>2. CASE v # <<>>
  <2>1. PICK s \in StreamRecords : v = <<s>> /\ s.kind = "validity"
    BY <1>2 DEF ValidityStored
  <2>2. Len(s.bytes) \in Nat
    BY DEF StreamRecords
  <2> DEFINE x == Len(s.bytes)
  <2>3. [i \in DOMAIN v |-> Len(v[i].bytes)] = <<x>>
    BY <2>1
  <2>4. stored_column_cost([streams |-> v]) = CostOfLengths(<<x>>)
    BY <2>3 DEF stored_column_cost
  <2> HIDE DEF x
  <2>5. CostOfLengths(<<x>>) = StreamCost(x) /\ StreamCost(x) \in Nat
    BY <2>2, CostOfFew, StreamCosts DEF x
  <2> QED
    BY <1>2, <2>1, <2>2, <2>4, <2>5 DEF x
<1> QED
  BY <1>1, <1>2

LEMMA SelectedCost ==
    ASSUME NEW bits, NEW v, ValidityStored(bits, v),
           NEW c, NEW vs, NEW e, NEW prices, EncodedAs(c, vs, e, prices)
    PROVE  /\ prices \in Seq(Nat) /\ CostOfLengths(prices) \in Nat
           /\ stored_column_cost(WithValidity(v, e))
                = CostOfLengths(prices) + stored_column_cost([streams |-> v])
<1> DEFINE sel == WithValidity(v, e)
           ss == e.streams
           n == Len(ss)
<1>1. e = [layout |-> e.layout, streams |-> e.streams] /\ ss \in Seq(StreamRecords)
      /\ prices = [s \in 1..n |-> Len(ss[s].bytes)]
  BY DEF EncodedAs, Laid
<1>2. sel.streams = v \o ss
  BY <1>1, WithValidityParts
<1> HIDE DEF sel, ss
<1>3. n \in Nat /\ DOMAIN ss = 1..n /\ \A s \in 1..n : ss[s] \in StreamRecords
  BY <1>1, Elements
<1>4. \A s \in 1..n : Len(ss[s].bytes) \in Nat
  BY <1>3 DEF StreamRecords
<1>5. \A s \in 1..n : prices[s] = Len(ss[s].bytes) /\ prices[s] \in Nat
  BY <1>1, <1>4
<1>6. prices \in Seq(Nat) /\ Len(prices) = n
  <2>1. n \in Nat /\ prices = [s \in 1..n |-> prices[s]] /\ \A s \in 1..n : prices[s] \in Nat
    BY <1>1, <1>3, <1>5
  <2> QED
    BY ONLY <2>1, Listed
<1>7. CostOfLengths(prices) \in Nat
  BY <1>6, CostsOfLengths, 0 \in Nat
<1>8. CASE v = <<>>
  <2>1. sel.streams = ss
    BY <1>1, <1>2, <1>8
  <2>2. [s \in DOMAIN sel.streams |-> Len(sel.streams[s].bytes)] = prices
    BY <1>1, <1>3, <2>1
  <2>3. stored_column_cost(sel) = CostOfLengths(prices)
    BY <2>2 DEF stored_column_cost
  <2> QED
    BY <1>6, <1>7, <1>8, <2>3, ValidityCost DEF sel
<1>9. CASE v # <<>>
  <2>1. PICK s \in StreamRecords :
          /\ v = <<s>> /\ Len(s.bytes) \in Nat
          /\ stored_column_cost([streams |-> v]) = StreamCost(Len(s.bytes))
    BY <1>9, ValidityCost
  <2> DEFINE x == Len(s.bytes)
             tt == sel.streams
             pp == <<x>> \o prices
  <2>2. /\ tt \in Seq(StreamRecords) /\ Len(tt) = n + 1 /\ tt[1] = s
        /\ \A i \in 1..n : tt[i + 1] = ss[i]
    BY <1>1, <1>2, <1>3, <2>1
  <2>3. pp \in Seq(Nat) /\ Len(pp) = n + 1 /\ pp[1] = x /\ \A i \in 1..n : pp[i + 1] = prices[i]
    BY <1>3, <1>6, <2>1
  <2>X. x \in Nat /\ x = Len(s.bytes)
    BY <2>1
  <2>C. CostOfLengths(pp) = StreamCost(x) + CostOfLengths(prices) /\ StreamCost(x) \in Nat
    <3>1. x \in Nat
      BY <2>1
    <3> HIDE DEF x
    <3> QED
      BY <1>6, <3>1, CostsOfLengths, StreamCosts
  <2> HIDE DEF tt, pp, x
  <2>4. \A i \in 1..(n + 1) : Len(tt[i].bytes) = pp[i]
    <3> SUFFICES ASSUME NEW i \in 1..(n + 1) PROVE Len(tt[i].bytes) = pp[i]
      OBVIOUS
    <3>1. CASE i = 1
      BY <2>2, <2>3, <2>X, <3>1
    <3>2. CASE i # 1
      <4>1. i - 1 \in 1..n /\ (i - 1) + 1 = i
        BY <1>3, <3>2
      <4>2. tt[(i - 1) + 1] = ss[i - 1] /\ pp[(i - 1) + 1] = prices[i - 1]
        BY <2>2, <2>3, <4>1
      <4> QED
        BY <1>5, <4>1, <4>2
    <3> QED
      BY <3>1, <3>2
  <2>5. DOMAIN tt = 1..(n + 1) /\ pp = [i \in 1..(n + 1) |-> pp[i]]
    BY <2>2, <2>3, Elements
  <2>6. [i \in DOMAIN tt |-> Len(tt[i].bytes)] = pp
    BY <2>4, <2>5
  <2>7. stored_column_cost(sel) = CostOfLengths(pp)
    BY <2>6 DEF stored_column_cost, tt
  <2>8. stored_column_cost(sel) = CostOfLengths(prices) + StreamCost(x)
    BY <1>7, <2>7, <2>C
  <2> QED
    BY <1>6, <1>7, <2>1, <2>8 DEF sel, x
<1> QED
  BY <1>8, <1>9

LEMMA CandidateCost ==
    ASSUME NEW bits, NEW v, ValidityStored(bits, v),
           NEW c, NEW vs, Sized(c, vs), NEW encoding \in candidates(c, vs)
    PROVE  /\ BuiltCost(c, vs, v, encoding) \in Nat /\ EstimatedCost(c, vs, encoding, v) \in Nat
           /\ BuiltCost(c, vs, v, encoding) <= EstimatedCost(c, vs, encoding, v)
           /\ ~Overpriced(c, vs, encoding) =>
                BuiltCost(c, vs, v, encoding) = EstimatedCost(c, vs, encoding, v)
           /\ Overpriced(c, vs, encoding) =>
                StreamCost(1) + stored_column_cost([streams |-> v]) <= BuiltCost(c, vs, v, encoding)
<1> DEFINE e == encode(c, vs, encoding)
           est == estimate(c, vs, encoding)
           V == stored_column_cost([streams |-> v])
           built == BuiltCost(c, vs, v, encoding)
           guess == EstimatedCost(c, vs, encoding, v)
<1>1. PICK prices : EncodedAs(c, vs, e, prices) /\ PricedAs(c, vs, encoding, prices)
  BY Encoded
<1>2. prices \in Seq(Nat) /\ CostOfLengths(prices) \in Nat /\ built = CostOfLengths(prices) + V
  <2> HIDE DEF e
  <2>1. /\ prices \in Seq(Nat) /\ CostOfLengths(prices) \in Nat
        /\ stored_column_cost(WithValidity(v, e)) = CostOfLengths(prices) + V
    BY <1>1, SelectedCost
  <2> QED
    BY <2>1 DEF BuiltCost, e
<1>3. V \in Nat
  BY ValidityCost
<1>4. guess = CostOfLengths(est) + V
  BY DEF EstimatedCost
<1> HIDE DEF e, V, built, guess
<1>5. CASE ~Overpriced(c, vs, encoding)
  <2>1. prices = est
    BY <1>1, <1>5 DEF PricedAs
  <2>2. guess = built /\ built \in Nat
    BY <1>2, <1>3, <1>4, <2>1
  <2> QED
    BY <1>5, <2>2 DEF built, guess
<1>6. CASE Overpriced(c, vs, encoding)
  <2>1. Len(prices) = 1 /\ prices[1] <= est[1]
    BY <1>1, <1>6 DEF PricedAs
  <2>2. encoding = "BitPacked" /\ ~IsNumeric(c)
    BY <1>6 DEF Overpriced, IsNumeric
  <2> DEFINE x == packed_length(Len(vs), 1)
             y == prices[1]
  <2>3. est = <<x>>
    <3>1. estimate(c, vs, "BitPacked") = <<packed_length(Len(vs), 1)>>
      BY <2>2, EstimateOf
    <3> QED
      BY <2>2, <3>1
  <2>4. x \in Nat
    <3>1. Len(vs) \in Nat /\ ByteBits \in Nat \ {0}
      BY SizedOf, Widths
    <3>2. CeilDiv(Len(vs) * 1, ByteBits) \in Nat
      <4>1. Len(vs) * 1 \in Nat
        BY <3>1
      <4> QED
        BY <3>1, <4>1, Ceiling
    <3> QED
      BY <3>2 DEF packed_length
  <2> HIDE DEF x
  <2>5. prices = <<y>> /\ y \in Nat
    <3>1. prices = [k \in 1..Len(prices) |-> prices[k]] /\ \A k \in 1..Len(prices) : prices[k] \in Nat
      BY ONLY <1>2, Elements
    <3> QED
      BY <2>1, <3>1
  <2>6. y <= x
    BY <2>1, <2>3
  <2> HIDE DEF y
  <2>7. CostOfLengths(prices) = StreamCost(y) /\ CostOfLengths(est) = StreamCost(x)
    BY <2>3, <2>4, <2>5, CostOfFew
  <2>8. /\ StreamCost(x) \in Nat /\ StreamCost(y) \in Nat /\ StreamCost(1) \in Nat
        /\ StreamCost(y) <= StreamCost(x) /\ StreamCost(1) <= StreamCost(y)
    BY <2>4, <2>5, <2>6, StreamCosts, 1 \in Nat
  <2>9. built \in Nat /\ guess \in Nat /\ built <= guess /\ StreamCost(1) + V <= built
    BY <1>2, <1>3, <1>4, <2>7, <2>8
  <2> QED
    BY <1>6, <2>9 DEF built, guess, V
<1> QED
  BY <1>5, <1>6

\* The candidates that are measured against raw values under raw validity.
Measured(c, vs, v) ==
    candidates(c, vs) \ (IF v = <<>> \/ v[1].transform = "raw" THEN {"Raw"} ELSE {})

LEMMA ShortlistOf ==
    ASSUME NEW bits, NEW v, ValidityStored(bits, v), NEW c, NEW vs, Sized(c, vs),
           NEW sl, sl = Shortlist(c, vs, v)
    PROVE  /\ sl \in Seq(Measured(c, vs, v))
           /\ Measured(c, vs, v) # {} =>
                /\ Len(sl) # 0
                /\ \A e \in Measured(c, vs, v) :
                      EstimatedCost(c, vs, sl[1], v) <= EstimatedCost(c, vs, e, v)
<1> DEFINE K == Measured(c, vs, v)
           cost == [e \in K |-> EstimatedCost(c, vs, e, v)]
<1>0. IsColumn(c)
  BY SizedOf
<1>1. K \subseteq candidates(c, vs) /\ K \subseteq DOMAIN rank
  BY <1>0, ValidOf DEF Measured
<1>2. sl = FirstTwo(cost)
  BY DEF Shortlist, Measured
<1>3. \A e \in K : EstimatedCost(c, vs, e, v) \in Nat
  BY <1>1, CandidateCost
<1>4. K = DOMAIN cost /\ \A e \in K : cost[e] = EstimatedCost(c, vs, e, v)
  OBVIOUS
<1> HIDE DEF K, cost
<1>5. /\ sl \in Seq(K)
      /\ K # {} => Len(sl) # 0 /\ \A e \in K : cost[sl[1]] <= cost[e]
  BY <1>1, <1>2, <1>3, <1>4, Cheapest
<1>6. K # {} => sl[1] \in K
  BY <1>5
<1> QED
  BY <1>4, <1>5, <1>6 DEF K

-----------------------------------------------------------------------------
(* The choice                                                              *)

LEMMA MaxOfTwo ==
    ASSUME NEW x \in Nat, NEW y \in Nat
    PROVE  Max({x, y}) \in Nat
<1>1. \E m \in {x, y} : \A k \in {x, y} : m >= k
  OBVIOUS
<1>2. Max({x, y}) \in {x, y}
  BY <1>1 DEF Max
<1> QED
  BY <1>2

LEMMA MarginType ==
    ASSUME NEW cost \in Nat
    PROVE  Margin(cost) \in Nat
<1>1. MarginShare \in Nat \ {0} /\ MarginFloor \in Nat
  BY EncodeAssumption
<1>2. CeilDiv(cost, MarginShare) \in Nat
  BY <1>1, Ceiling
<1> QED
  BY <1>1, <1>2, MaxOfTwo DEF Margin

\* The best so far, as each shortlisted candidate is laid out.
ChoiceStep(c, vs, v, sl, raw, g, n) ==
    IF n = 0 THEN raw
    ELSE Preferred(WithValidity(v, encode(c, vs, sl[n])), g[n - 1], stored_column_cost(raw))

LEMMA ChoicesExist ==
    ASSUME NEW c, NEW vs, NEW v, NEW sl, NEW raw, NEW N \in Nat
    PROVE  \E g : g = [n \in 0..N |-> ChoiceStep(c, vs, v, sl, raw, g, n)]
<1> DEFINE step(g, n) == ChoiceStep(c, vs, v, sl, raw, g, n)
           Solved == {m \in Nat : \E g : g = [n \in 0..m |-> step(g, n)]}
<1>0. \A g, h : step(g, 0) = step(h, 0)
  BY DEF ChoiceStep
<1>S. \A g, h : \A n \in Nat : n # 0 /\ g[n - 1] = h[n - 1] => step(g, n) = step(h, n)
  BY DEF ChoiceStep
<1> HIDE DEF step
<1>1. 0 \in Solved
  <2> DEFINE g == [n \in 0..0 |-> step(<<>>, 0)]
  <2>1. \A n \in 0..0 : step(g, n) = step(<<>>, 0)
    BY <1>0
  <2>2. g = [n \in 0..0 |-> step(g, n)]
    BY <2>1
  <2> HIDE DEF g
  <2> QED
    BY <2>2
<1>2. ASSUME NEW m \in 0..(N - 1), m \in Solved PROVE m + 1 \in Solved
  <2>1. PICK g : g = [n \in 0..m |-> step(g, n)]
    BY <1>2
  <2> DEFINE h == [n \in 0..(m + 1) |-> step(g, n)]
  <2>2. \A n \in 0..m : h[n] = g[n]
    BY <2>1
  <2>3. \A n \in 0..(m + 1) : step(g, n) = step(h, n)
    <3>1. \A n \in 0..(m + 1) : n # 0 => n - 1 \in 0..m /\ n \in Nat
      OBVIOUS
    <3> HIDE DEF h
    <3> QED
      BY <1>0, <1>S, <2>2, <3>1
  <2>4. h = [n \in 0..(m + 1) |-> step(h, n)]
    BY <2>3
  <2>5. m + 1 \in Nat
    OBVIOUS
  <2> HIDE DEF h
  <2> QED
    BY <2>4, <2>5
<1>3. \A m \in 0..N : m \in Solved
  <2> HIDE DEF Solved
  <2> QED
    BY <1>1, <1>2, SetInduction
<1>4. N \in Solved
  BY <1>3, N \in 0..N
<1> QED
  BY <1>4 DEF step

LEMMA AdaptiveChoice ==
    ASSUME NEW c, NEW bits, NEW vs, vs # <<>>, NEW v, v = plan_validity(bits),
           NEW raw, raw = raw_column_candidate(c, bits, vs),
           NEW sl, sl = Shortlist(c, vs, v), NEW N \in Nat, N = Len(sl)
    PROVE  \E g : /\ g = [n \in 0..N |-> ChoiceStep(c, vs, v, sl, raw, g, n)]
                  /\ adaptive_column_candidate(c, bits, vs) = g[N]
<1> DEFINE g == CHOOSE h : h = [n \in 0..N |-> ChoiceStep(c, vs, v, sl, raw, h, n)]
<1>1. g = [n \in 0..N |-> ChoiceStep(c, vs, v, sl, raw, g, n)]
  BY ChoicesExist
<1>2. adaptive_column_candidate(c, bits, vs) = g[N]
  BY DEF adaptive_column_candidate, ChoiceStep
<1> HIDE DEF g
<1> QED
  BY <1>1, <1>2

\* What is chosen among the shortlisted: raw, or one that undercuts it by the
\* margin, and nothing shortlisted that does is cheaper.
Chosen(c, vs, v, sl, raw, sel, n) ==
    LET raw_cost == stored_column_cost(raw)
        fits(i) == BuiltCost(c, vs, v, sl[i]) + Margin(raw_cost) <= raw_cost
    IN  /\ \/ sel = raw
           \/ \E i \in 1..n : fits(i) /\ sel = WithValidity(v, encode(c, vs, sl[i]))
        /\ stored_column_cost(sel) <= raw_cost
        /\ \A i \in 1..n : fits(i) => stored_column_cost(sel) <= BuiltCost(c, vs, v, sl[i])

LEMMA ChosenNext ==
    ASSUME NEW c, NEW vs, NEW v, NEW sl, NEW raw, NEW n \in Nat, NEW old, NEW new,
           stored_column_cost(raw) \in Nat,
           \A i \in 1..(n + 1) : BuiltCost(c, vs, v, sl[i]) \in Nat,
           Chosen(c, vs, v, sl, raw, old, n),
           new = Preferred(WithValidity(v, encode(c, vs, sl[n + 1])), old, stored_column_cost(raw))
    PROVE  Chosen(c, vs, v, sl, raw, new, n + 1)
<1> DEFINE R == stored_column_cost(raw)
           M == Margin(R)
           made == WithValidity(v, encode(c, vs, sl[n + 1]))
           B(i) == BuiltCost(c, vs, v, sl[i])
           O == stored_column_cost(old)
<1>0. /\ R \in Nat /\ M \in Nat /\ (\A i \in 1..(n + 1) : B(i) \in Nat)
      /\ stored_column_cost(made) = B(n + 1)
  BY MarginType DEF BuiltCost
<1>1. /\ \/ old = raw
         \/ \E i \in 1..n : B(i) + M <= R /\ old = WithValidity(v, encode(c, vs, sl[i]))
      /\ O <= R
      /\ \A i \in 1..n : B(i) + M <= R => O <= B(i)
  BY DEF Chosen
<1>2. O \in Nat
  <2>1. CASE old = raw
    BY <1>0, <2>1
  <2>2. ASSUME NEW i \in 1..n, old = WithValidity(v, encode(c, vs, sl[i])) PROVE O \in Nat
    <3>1. O = B(i)
      BY <2>2 DEF BuiltCost
    <3>2. i \in 1..(n + 1)
      OBVIOUS
    <3> QED
      BY <1>0, <3>1, <3>2
  <2> QED
    BY <1>1, <2>1, <2>2
<1>3. \A i \in 1..(n + 1) : i \in 1..n \/ i = n + 1
  OBVIOUS
<1>4. n + 1 \in 1..(n + 1) /\ \A i \in 1..n : i \in 1..(n + 1)
  OBVIOUS
<1>5. CASE Replaces(made, old, R)
  <2>1. new = made /\ B(n + 1) + M <= R /\ B(n + 1) <= O
    <3>1. stored_column_cost(made) + M <= R /\ (stored_column_cost(made) < O \/ stored_column_cost(made) = O)
      BY <1>5 DEF Replaces
    <3> HIDE DEF B, O, M, R
    <3> DEFINE z == B(n + 1)
    <3>2. z + M <= R /\ (z < O \/ z = O) /\ z \in Nat
      BY <1>0, <1>4, <3>1
    <3> HIDE DEF z
    <3>3. z <= O
      BY <1>2, <3>2
    <3> QED
      BY <1>5, <3>2, <3>3 DEF Preferred, z, R
  <2>2. stored_column_cost(new) = B(n + 1)
    BY <1>0, <2>1
  <2> HIDE DEF B, O, M, R, made
  <2>3. stored_column_cost(new) <= R
    BY <1>0, <1>1, <1>2, <1>4, <2>1, <2>2
  <2>4. ASSUME NEW i \in 1..(n + 1), B(i) + M <= R PROVE stored_column_cost(new) <= B(i)
    <3>1. CASE i = n + 1
      BY <1>0, <1>4, <2>2, <3>1
    <3>2. CASE i \in 1..n
      <4>1. O <= B(i) /\ B(i) \in Nat /\ B(n + 1) \in Nat
        BY <1>0, <1>1, <1>4, <2>4, <3>2
      <4> QED
        BY <1>2, <2>1, <2>2, <4>1
    <3> QED
      BY <1>3, <3>1, <3>2
  <2> QED
    BY <1>4, <2>1, <2>3, <2>4 DEF Chosen, B, M, R, made
<1>6. CASE ~Replaces(made, old, R)
  <2>1. new = old
    BY <1>6 DEF Preferred
  <2>2. B(n + 1) + M <= R => O <= B(n + 1)
    <3>1. ~(stored_column_cost(made) + M <= R /\ stored_column_cost(made) < O)
      BY <1>6 DEF Replaces
    <3> HIDE DEF B, O, M, R
    <3> DEFINE z == B(n + 1)
    <3>2. ~(z + M <= R /\ z < O) /\ z \in Nat
      BY <1>0, <1>4, <3>1
    <3> HIDE DEF z
    <3>3. z + M <= R => O <= z
      BY <1>2, <3>2
    <3> QED
      BY <3>3 DEF z
  <2> HIDE DEF B, M, R, made
  <2>3. \A i \in 1..(n + 1) : B(i) + M <= R => O <= B(i)
    BY <1>1, <1>3, <2>2
  <2> QED
    BY <1>1, <1>4, <2>1, <2>3 DEF Chosen, B, M, R, O
<1> QED
  BY <1>5, <1>6

LEMMA AdaptiveChosen ==
    ASSUME NEW c, NEW bits \in Seq(BOOLEAN), Len(bits) < 2^(ByteBits * CountBytes),
           NEW vs, Sized(c, vs), NEW v, v = plan_validity(bits),
           NEW raw, raw = raw_column_candidate(c, bits, vs), NEW sl, sl = Shortlist(c, vs, v),
           NEW sel, sel = adaptive_column_candidate(c, bits, vs)
    PROVE  Chosen(c, vs, v, sl, raw, sel, Len(sl)) /\ stored_column_cost(raw) \in Nat
           /\ Selects(c, bits, vs, sel)
<1> DEFINE N == Len(sl)
           K == Measured(c, vs, v)
<1>1. ValidityStored(bits, v) /\ ValidityStored(bits, raw_validity(bits))
  BY ValidityIsStored
<1>2. vs # <<>> /\ IsColumn(c)
  <2>1. Len(vs) # 0 /\ IsColumn(c)
    BY SizedOf
  <2> QED
    BY <2>1
<1>3. sl \in Seq(K) /\ K \subseteq candidates(c, vs)
  BY <1>1, ShortlistOf DEF Measured
<1> HIDE DEF K
<1>4. N \in Nat /\ \A i \in 1..N : sl[i] \in candidates(c, vs)
  BY <1>3, Elements
<1> HIDE DEF N
<1>5. \A i \in 1..N : BuiltCost(c, vs, v, sl[i]) \in Nat
  BY <1>1, <1>4, CandidateCost
<1>6. stored_column_cost(raw) \in Nat /\ Selects(c, bits, vs, raw)
  <2> DEFINE e == encode(c, vs, "Raw")
             w == raw_validity(bits)
  <2>1. raw = WithValidity(w, e)
    BY <1>2 DEF raw_column_candidate
  <2>2. EncodedAs(c, vs, e, estimate(c, vs, "Raw"))
    BY RawEncoded
  <2> HIDE DEF e, w
  <2>3. ValidityStored(bits, w)
    BY <1>1 DEF w
  <2>4. /\ stored_column_cost([streams |-> w]) \in Nat /\ CostOfLengths(estimate(c, vs, "Raw")) \in Nat
        /\ stored_column_cost(raw)
             = CostOfLengths(estimate(c, vs, "Raw")) + stored_column_cost([streams |-> w])
    BY <2>1, <2>2, <2>3, SelectedCost, ValidityCost
  <2>5. Selects(c, bits, vs, raw)
    BY SelectsRaw
  <2> QED
    BY <2>4, <2>5
<1>7. PICK g : /\ g = [n \in 0..N |-> ChoiceStep(c, vs, v, sl, raw, g, n)]
               /\ sel = g[N]
  BY <1>2, <1>4, AdaptiveChoice DEF N
<1> DEFINE Good == {n \in Nat : Chosen(c, vs, v, sl, raw, g[n], n)}
<1>8. 0 \in Good
  <2>1. g[0] = raw
    BY <1>4, <1>7, 0 \in 0..N DEF ChoiceStep
  <2>2. Chosen(c, vs, v, sl, raw, raw, 0)
    BY <1>6 DEF Chosen
  <2> QED
    BY <2>1, <2>2
<1>9. ASSUME NEW n \in 0..(N - 1), n \in Good PROVE n + 1 \in Good
  <2>1. n + 1 \in 0..N /\ n \in Nat /\ n + 1 \in Nat /\ n + 1 # 0 /\ (n + 1) - 1 = n
    BY <1>4
  <2>2. g[n + 1] = Preferred(WithValidity(v, encode(c, vs, sl[n + 1])), g[n], stored_column_cost(raw))
    <3>1. g[n + 1] = ChoiceStep(c, vs, v, sl, raw, g, n + 1)
      BY <1>7, <2>1
    <3> QED
      BY <2>1, <3>1 DEF ChoiceStep
  <2>3. \A i \in 1..(n + 1) : BuiltCost(c, vs, v, sl[i]) \in Nat
    BY <1>4, <1>5
  <2>4. Chosen(c, vs, v, sl, raw, g[n], n)
    BY <1>9
  <2>5. Chosen(c, vs, v, sl, raw, g[n + 1], n + 1)
    BY <1>6, <2>1, <2>2, <2>3, <2>4, ChosenNext
  <2> QED
    BY <2>1, <2>5
<1>10. \A n \in 0..N : n \in Good
  <2> HIDE DEF Good
  <2> QED
    BY <1>4, <1>8, <1>9, SetInduction
<1>11. Chosen(c, vs, v, sl, raw, sel, N)
  <2>1. N \in Good
    BY <1>4, <1>10, N \in 0..N
  <2> QED
    BY <1>7, <2>1
<1>12. Selects(c, bits, vs, sel)
  <2>1. sel = raw \/ \E i \in 1..N : sel = WithValidity(v, encode(c, vs, sl[i]))
    BY <1>11 DEF Chosen
  <2> QED
    BY <1>1, <1>4, <1>6, <2>1, SelectsEncoding
<1> QED
  BY <1>6, <1>11, <1>12 DEF N

-----------------------------------------------------------------------------
(* The cheapest of all the candidates                                      *)

LEMMA OneDivided ==
    ASSUME NEW d \in Nat \ {0}
    PROVE  CeilDiv(1, d) = 1
<1> DEFINE q == 1 \div d
           r == 1 % d
<1>1. /\ q \in Nat /\ r \in 0..(d - 1) /\ 1 = q * d + r
      /\ CeilDiv(1, d) = IF r = 0 THEN q ELSE q + 1
  BY Ceiling, 1 \in Nat
<1> HIDE DEF q, r
<1>2. CASE q = 0
  <2>1. q * d = 0
    BY <1>2
  <2> QED
    BY <1>1, <1>2, <2>1
<1>3. CASE q = 1
  <2>1. q * d = d
    BY <1>3
  <2> QED
    BY <1>1, <1>3, <2>1
<1>4. CASE q \notin {0, 1}
  <2>1. PICK p \in Nat : q = p + 2
    <3>1. q - 2 \in Nat /\ q = (q - 2) + 2
      BY <1>1, <1>4
    <3> QED
      BY <3>1
  <2>2. q * d = p * d + 2 * d /\ p * d \in Nat
    BY <2>1
  <2> QED
    BY <1>1, <2>2
<1> QED
  BY <1>2, <1>3, <1>4

\* Where nothing but false is bit-packed, a constant is estimated at no more than
\* the least a stream costs.
LEMMA ConstantInstead ==
    ASSUME NEW bits, NEW v, ValidityStored(bits, v), NEW c, NEW vs, Sized(c, vs),
           c.family = "bool", ToSet(vs) = {FALSE}
    PROVE  /\ "Constant" \in Measured(c, vs, v)
           /\ EstimatedCost(c, vs, "Constant", v)
                = StreamCost(1) + stored_column_cost([streams |-> v])
<1> DEFINE n == Len(vs)
           T == Domain(c)
<1>1. vs \in Seq(T) /\ n \in Nat \ {0}
  BY SizedOf
<1> HIDE DEF T
<1>2. DOMAIN vs = 1..n /\ vs # <<>>
  BY <1>1, Elements
<1>3. \A k \in 1..n : vs[k] = FALSE
  BY <1>2 DEF ToSet
<1>4. RunStarts(vs) = {1}
  <2>1. \A k \in 1..n : k # 1 => k - 1 \in 1..n
    BY <1>1
  <2>2. 1 \in 1..n
    BY <1>1
  <2> HIDE DEF n
  <2>3. \A k \in 1..n : k # 1 => vs[k] = vs[k - 1]
    BY <1>3, <2>1, Zenon
  <2> QED
    BY <1>2, <2>2, <2>3, Zenon DEF RunStarts
<1>5. Len(RunValues(vs)) <= 1
  <2>1. Cardinality({1}) = 1
    BY FS_Singleton
  <2>2. Len(RunValues(vs)) = Cardinality(RunStarts(vs))
    BY <1>1, RunsExpand
  <2> QED
    BY <1>4, <2>1, <2>2
<1>6. "Constant" \in candidates(c, vs)
  <2>1. "Constant" \in supported_candidates(c)
    BY DEF supported_candidates
  <2>2. is_valid("Constant", c, vs)
    BY <1>2, <1>5 DEF is_valid
  <2> QED
    BY <2>1, <2>2 DEF candidates
<1>7. estimate(c, vs, "Constant") = <<1>>
  <2>1. estimate(c, vs, "Constant") = PlainPrices(c, <<vs[1]>>)
    BY EstimateOf
  <2>2. CeilDiv(1, ByteBits) = 1
    BY OneDivided, Widths
  <2>3. Len(<<vs[1]>>) = 1
    OBVIOUS
  <2>4. PlainPrice(c, <<vs[1]>>) = 1
    BY <2>2, <2>3 DEF PlainPrice
  <2>5. PlainPrices(c, <<vs[1]>>) = <<1>> \o <<>>
    BY <2>4 DEF PlainPrices, IsVariable
  <2> QED
    BY <2>1, <2>5
<1>8. CostOfLengths(<<1>>) = StreamCost(1)
  BY CostOfFew, 1 \in Nat
<1> QED
  BY <1>6, <1>7, <1>8 DEF Measured, EstimatedCost

LEMMA LeastIs ==
    ASSUME NEW S \in SUBSET Nat, NEW x \in S, \A y \in S : x <= y
    PROVE  Min(S) = x
<1> DEFINE m == Min(S)
<1>1. m \in S /\ \A y \in S : m <= y
  BY DEF Min
<1>2. m <= x /\ x <= m /\ m \in Nat /\ x \in Nat
  BY <1>1
<1> QED
  BY <1>2

\* What the adaptive choice is compared with: raw, and every candidate that
\* undercuts it by the margin.
Rivals(c, vs, v, R) ==
    {R} \cup {cost \in {BuiltCost(c, vs, v, m) : m \in candidates(c, vs)} : cost + Margin(R) <= R}

\* Raw validity under the planned one is the same stream.
LEMMA PlannedRaw ==
    ASSUME NEW bits, NEW v, v = plan_validity(bits), v = <<>> \/ v[1].transform = "raw"
    PROVE  v = raw_validity(bits)
<1>1. CASE raw_validity(bits) = <<>>
  BY <1>1 DEF plan_validity
<1>2. CASE raw_validity(bits) # <<>>
  <2> DEFINE n == Len(bits)
             q == boolean_rle(bits)
             s == Stream("validity", "boolean_rle", n, q)
  <2>1. v = <<s>> \/ v = raw_validity(bits)
    BY <1>2 DEF plan_validity
  <2>2. s.transform = "boolean_rle"
    BY DEF Stream
  <2> HIDE DEF s
  <2>3. v # <<s>>
    <3> SUFFICES ASSUME v = <<s>> PROVE FALSE
      OBVIOUS
    <3>1. v # <<>> /\ v[1] = s
      OBVIOUS
    <3> QED
      BY <2>2, <3>1
  <2> QED
    BY <2>1, <2>3
<1> QED
  BY <1>1, <1>2

\* A candidate that was not shortlisted is no cheaper than the first that was.
LEMMA FirstIsCheapest ==
    ASSUME NEW bits, NEW v, ValidityStored(bits, v), NEW c, NEW vs, Sized(c, vs),
           NEW sl, sl = Shortlist(c, vs, v), NEW m \in Measured(c, vs, v)
    PROVE  /\ Len(sl) \in Nat \ {0} /\ sl[1] \in candidates(c, vs)
           /\ BuiltCost(c, vs, v, sl[1]) <= BuiltCost(c, vs, v, m)
<1> DEFINE K == Measured(c, vs, v)
           B(e) == BuiltCost(c, vs, v, e)
           E(e) == EstimatedCost(c, vs, e, v)
           f == sl[1]
           least == StreamCost(1) + stored_column_cost([streams |-> v])
<1>1. /\ sl \in Seq(K) /\ Len(sl) # 0 /\ \A e \in K : E(f) <= E(e)
  BY ShortlistOf
<1>2. K \subseteq candidates(c, vs) /\ m \in K
  BY DEF Measured
<1>3. \A e \in K : /\ B(e) \in Nat /\ E(e) \in Nat /\ B(e) <= E(e)
                   /\ ~Overpriced(c, vs, e) => B(e) = E(e)
                   /\ Overpriced(c, vs, e) => least <= B(e)
  BY <1>2, CandidateCost
<1>4. Overpriced(c, vs, m) => "Constant" \in K /\ E("Constant") = least
  BY ConstantInstead DEF Overpriced
<1> HIDE DEF K, B, E, least
<1>5. Len(sl) \in Nat /\ f \in K
  BY <1>1
<1> HIDE DEF f
<1>6. CASE ~Overpriced(c, vs, m)
  <2>1. B(f) \in Nat /\ E(f) \in Nat /\ B(f) <= E(f) /\ E(f) <= E(m) /\ B(m) = E(m) /\ E(m) \in Nat
    BY <1>1, <1>2, <1>3, <1>5, <1>6
  <2>2. B(f) <= B(m)
    BY <2>1
  <2> QED
    BY <1>1, <1>2, <1>5, <2>2 DEF B, f
<1>7. CASE Overpriced(c, vs, m)
  <2>1. B(f) \in Nat /\ E(f) \in Nat /\ B(f) <= E(f) /\ E(f) <= E("Constant") /\ B(m) \in Nat
        /\ E("Constant") \in Nat
    BY <1>1, <1>2, <1>3, <1>4, <1>5, <1>7
  <2>2. E("Constant") <= B(m)
    BY <1>2, <1>3, <1>4, <1>7
  <2>3. B(f) <= B(m)
    BY <2>1, <2>2
  <2> QED
    BY <1>1, <1>2, <1>5, <2>3 DEF B, f
<1> QED
  BY <1>6, <1>7

LEMMA AdaptiveCheapest ==
    ASSUME NEW c, NEW bits \in Seq(BOOLEAN), Len(bits) < 2^(ByteBits * CountBytes),
           NEW vs, Sized(c, vs), NEW v, v = plan_validity(bits),
           NEW raw, raw = raw_column_candidate(c, bits, vs),
           NEW sel, sel = adaptive_column_candidate(c, bits, vs)
    PROVE  stored_column_cost(sel) = Min(Rivals(c, vs, v, stored_column_cost(raw)))
<1> DEFINE R == stored_column_cost(raw)
           X == stored_column_cost(sel)
           sl == Shortlist(c, vs, v)
           N == Len(sl)
           B(e) == BuiltCost(c, vs, v, e)
           S == Rivals(c, vs, v, R)
           M == Margin(R)
<1>1. Chosen(c, vs, v, sl, raw, sel, N) /\ R \in Nat
  BY AdaptiveChosen
<1>2. /\ \/ sel = raw
         \/ \E i \in 1..N : B(sl[i]) + M <= R /\ sel = WithValidity(v, encode(c, vs, sl[i]))
      /\ X <= R
      /\ \A i \in 1..N : B(sl[i]) + M <= R => X <= B(sl[i])
  BY <1>1 DEF Chosen
<1>3. ValidityStored(bits, v)
  BY ValidityIsStored
<1>4. \A m \in candidates(c, vs) : B(m) \in Nat
  BY <1>3, CandidateCost
<1>5. sl \in Seq(Measured(c, vs, v)) /\ Measured(c, vs, v) \subseteq candidates(c, vs)
  BY <1>3, ShortlistOf DEF Measured
<1>6. N \in Nat /\ \A i \in 1..N : sl[i] \in candidates(c, vs)
  <2> DEFINE K == Measured(c, vs, v)
  <2>1. sl \in Seq(K) /\ K \subseteq candidates(c, vs)
    BY <1>5
  <2> HIDE DEF K, sl
  <2> QED
    BY <2>1, Elements
<1>7. S = {R} \cup {x \in {B(m) : m \in candidates(c, vs)} : x + M <= R}
  BY DEF Rivals
<1>8. ASSUME NEW m \in candidates(c, vs), B(m) + M <= R PROVE X <= B(m)
  <2>1. CASE m \in Measured(c, vs, v)
    <3>1. N \in Nat \ {0} /\ sl[1] \in candidates(c, vs) /\ B(sl[1]) <= B(m)
      BY <1>3, <2>1, FirstIsCheapest
    <3> DEFINE f == B(sl[1])
    <3> HIDE DEF N, sl
    <3>2. f \in Nat /\ f <= B(m) /\ B(m) \in Nat /\ 1 \in 1..N /\ M \in Nat
      <4>1. f \in Nat /\ f <= B(m) /\ B(m) \in Nat
        BY <1>4, <3>1
      <4>2. 1 \in 1..N
        BY <3>1
      <4>3. M \in Nat
        BY <1>1, MarginType
      <4> QED
        BY <4>1, <4>2, <4>3
    <3>3. f + M <= R => X <= f
      BY <1>2, <3>2
    <3>4. X \in Nat
      <4>1. CASE sel = raw
        BY <1>1, <4>1
      <4>2. ASSUME NEW i \in 1..N, sel = WithValidity(v, encode(c, vs, sl[i])) PROVE X \in Nat
        BY <1>4, <1>6, <4>2 DEF BuiltCost
      <4> QED
        BY <1>2, <4>1, <4>2
    <3> HIDE DEF f, B, M, R, X
    <3> QED
      BY <1>1, <1>8, <3>2, <3>3, <3>4
  <2>2. CASE m \notin Measured(c, vs, v)
    <3>1. m = "Raw" /\ (v = <<>> \/ v[1].transform = "raw")
      BY <2>2 DEF Measured
    <3>2. v = raw_validity(bits)
      BY <3>1, PlannedRaw
    <3>3. vs # <<>>
      <4>1. Len(vs) # 0
        BY SizedOf
      <4> QED
        BY <4>1
    <3>4. raw = WithValidity(v, encode(c, vs, m))
      BY <3>1, <3>2, <3>3 DEF raw_column_candidate
    <3>5. B(m) = R
      BY <3>4 DEF BuiltCost
    <3> QED
      BY <1>2, <3>5
  <2> QED
    BY <2>1, <2>2
<1> HIDE DEF N, sl, M, R, X
<1>9. X \in S
  <2>1. CASE sel = raw
    BY <1>7, <2>1 DEF R, X
  <2>2. ASSUME NEW i \in 1..N, B(sl[i]) + M <= R, sel = WithValidity(v, encode(c, vs, sl[i]))
        PROVE  X \in S
    <3>1. X = B(sl[i])
      BY <2>2 DEF BuiltCost, X
    <3> QED
      BY <1>6, <1>7, <2>2, <3>1
  <2> QED
    BY <1>2, <2>1, <2>2
<1> HIDE DEF B
<1>10. S \in SUBSET Nat /\ \A y \in S : X <= y
  <2>1. \A y \in S : y = R \/ \E m \in candidates(c, vs) : y = B(m) /\ B(m) + M <= R
    BY <1>7
  <2> HIDE DEF S
  <2> QED
    BY <1>1, <1>2, <1>4, <1>8, <2>1
<1> HIDE DEF S
<1>11. Min(S) = X
  BY <1>9, <1>10, LeastIs
<1> QED
  BY <1>11 DEF S, X, R

-----------------------------------------------------------------------------
(* Statistics, as they are stored                                          *)

\* The elements at some places are the elements at those places.
LEMMA ElementsReached ==
    ASSUME NEW T, NEW v \in Seq(T), NEW S \in SUBSET (1..Len(v)), NEW e, e = ElementsAt(v, S)
    PROVE  /\ e \in Seq(T)
           /\ \A r \in 1..Len(e) : \E k \in S : e[r] = v[k]
           /\ \A k \in S : \E r \in 1..Len(e) : e[r] = v[k]
<1> DEFINE n == Len(v)
           R == Cardinality(S)
<1>0. n \in Nat
  BY Elements
<1>1. R \in Nat /\ e \in Seq(T) /\ Len(e) = R /\ \A r \in 1..R : e[r] = v[Nth(S, r)]
  BY ElementsOf
<1>2. \A r \in 1..R : Nth(S, r) \in S
  BY <1>0, NthOf
<1>3. \A k \in S : Rank(S, k) \in 1..R /\ Nth(S, Rank(S, k)) = k
  BY <1>0, NthOfRank
<1> HIDE DEF R
<1>4. ASSUME NEW k \in S PROVE \E r \in 1..Len(e) : e[r] = v[k]
  <2> DEFINE r == Rank(S, k)
  <2>1. r \in 1..R /\ Nth(S, r) = k
    BY <1>3
  <2> HIDE DEF r
  <2>2. r \in 1..Len(e) /\ e[r] = v[k]
    BY <1>1, <2>1
  <2> QED
    BY <2>2
<1>5. ASSUME NEW r \in 1..Len(e) PROVE \E k \in S : e[r] = v[k]
  <2>1. r \in 1..R
    BY <1>1
  <2>2. e[r] = v[Nth(S, r)] /\ Nth(S, r) \in S
    BY <1>1, <1>2, <2>1
  <2> QED
    BY <2>2
<1> QED
  BY <1>1, <1>4, <1>5

\* The bytes of one value that counts, which are read as that value.
Bound(c, v, a) ==
    /\ a \in Seq(Bytes) /\ Len(a) = statistic_width(c)
    /\ Canonical(c, a) /\ StatisticOf(c, a) = StatisticKey(c, v)

LEMMA BoundOf ==
    ASSUME NEW c, IsColumn(c), ~IsVariable(c), NEW v \in Domain(c), ~IsNaN(c, v),
           NEW a, a = ValueBytes(c, v)
    PROVE  Bound(c, v, a)
<1>1. CASE c.family = "bool"
  <2>1. v \in BOOLEAN /\ a = IF v THEN <<1>> ELSE <<0>>
    BY <1>1 DEF Domain, ValueBytes, IsNumeric
  <2>2. 1 \in Bytes /\ 0 \in Bytes
    <3>1. ByteBits \in Nat \ {0}
      BY Widths
    <3>2. 2 <= 2^ByteBits /\ 2^ByteBits \in Nat
      <4>1. 2^1 <= 2^ByteBits /\ 2^1 = 2 /\ 2^ByteBits \in Nat
        <5>1. 1 \in Nat /\ ByteBits \in Nat /\ 1 <= ByteBits
          BY <3>1
        <5>2. 2^1 <= 2^ByteBits /\ 2^ByteBits \in Nat
          BY <5>1, PowerMonotone, PowerType
        <5>3. 2^1 = 2
          OBVIOUS
        <5> QED
          BY <5>2, <5>3
      <4> QED
        BY <4>1
    <3> DEFINE x == 2^ByteBits
    <3>3. 2 <= x /\ x \in Nat /\ Bytes = 0..(x - 1)
      BY <3>2 DEF Bytes
    <3> HIDE DEF x
    <3> QED
      BY <3>3
  <2>3. a \in Seq(Bytes) /\ Len(a) = 1 /\ a \in {<<0>>, <<1>>}
    BY <2>1, <2>2
  <2>4. ParseStatistic(c, a) = v
    <3> DEFINE one == a = <<1>>
    <3>1. <<0>> # <<1>>
      OBVIOUS
    <3>2. one = v
      BY <2>1, <3>1, Zenon
    <3>3. ParseStatistic(c, a) = one
      BY <1>1 DEF ParseStatistic, IsNumeric
    <3> QED
      BY <3>2, <3>3, Zenon
  <2>5. statistic_width(c) = 1
    BY <1>1 DEF statistic_width, IsVariable
  <2>6. Canonical(c, a)
    BY <1>1, <2>3 DEF Canonical, IsNaN
  <2> QED
    BY <2>3, <2>4, <2>5, <2>6 DEF Bound, StatisticOf
<1>2. CASE IsNumeric(c)
  <2>1. v \in Values(c) /\ a = to_le_bytes(v, c.width)
    BY <1>2 DEF Domain, ValueBytes, IsNumeric
  <2>2. Wide(c)
    BY <1>2, NumericColumn DEF Wide
  <2>3. a \in Seq(Bytes) /\ Len(a) = c.width /\ read_integer(a, c.signed) = v
    BY <2>1, <2>2, WideType
  <2>4. ParseStatistic(c, a) = v /\ statistic_width(c) = c.width /\ Canonical(c, a)
    BY <1>2, <2>3 DEF ParseStatistic, statistic_width, Canonical, IsNaN, IsNumeric, IsVariable
  <2> QED
    BY <2>3, <2>4 DEF Bound, StatisticOf
<1>3. CASE c.family \in {"float", "fixed_binary"}
  <2>1. v \in Seq(Bytes) /\ Len(v) = c.width /\ a = v
    BY <1>3 DEF Domain, ValueBytes, IsNumeric, IsVariable, WideBytes
  <2>2. ParseStatistic(c, a) = v /\ statistic_width(c) = c.width /\ Canonical(c, a)
    BY <1>3, <2>1 DEF ParseStatistic, statistic_width, Canonical, IsNumeric, IsVariable
  <2> QED
    BY <2>1, <2>2 DEF Bound, StatisticOf
<1> QED
  BY <1>1, <1>2, <1>3 DEF IsColumn, IsNumeric, IsVariable, Families

\* The keys of the values that count, whether of the rows or of the dense values.
Counted(c, vs) == ElementsAt(vs, {k \in DOMAIN vs : ~IsNaN(c, vs[k])})

CountedKeys(c, rs, counted) ==
    /\ counted \in Seq(Domain(c)) /\ \A r \in 1..Len(counted) : ~IsNaN(c, counted[r])
    /\ reduce_decoded_values(c, rs) = {StatisticKey(c, value) : value \in ToSet(counted)}
    /\ reduce_decoded_values(c, rs) = {StatisticKey(c, counted[r]) : r \in 1..Len(counted)}

LEMMA KeysOfRows ==
    ASSUME NEW c, NEW rs, RowsFit(c, rs), NEW counted, counted = Counted(c, Dense(rs))
    PROVE  CountedKeys(c, rs, counted)
<1> DEFINE n == Len(rs)
           vs == Dense(rs)
           S == {k \in DOMAIN rs : rs[k] # Null}
           m == Len(vs)
           C == {k \in DOMAIN vs : ~IsNaN(c, vs[k])}
           q == Len(counted)
           T == Domain(c)
           U == T \cup {Null}
           K == {k \in DOMAIN rs : rs[k] # Null /\ ~IsNaN(c, rs[k])}
<1>1. rs \in Seq(U) /\ vs \in Seq(T)
  BY DenseRows DEF RowsFit, Holding
<1>V. vs = Dense(rs)
  OBVIOUS
<1> HIDE DEF T, U, vs
<1>2. DOMAIN rs = 1..n /\ DOMAIN vs = 1..m
  BY <1>1, Elements
<1>3. vs = ElementsAt(rs, S) /\ S \in SUBSET (1..Len(rs)) /\ C \in SUBSET (1..Len(vs))
  BY <1>2, <1>V DEF Dense
<1>S. \A k : k \in S <=> k \in DOMAIN rs /\ rs[k] # Null
  OBVIOUS
<1>C. \A k : k \in C <=> k \in DOMAIN vs /\ ~IsNaN(c, vs[k])
  OBVIOUS
<1>K. reduce_decoded_values(c, rs) = {StatisticKey(c, rs[k]) : k \in K}
  BY Zenon DEF reduce_decoded_values
<1>4. counted = ElementsAt(vs, C)
  BY <1>V DEF Counted
<1> HIDE DEF S, C
<1>5. /\ \A r \in 1..m : \E k \in S : vs[r] = rs[k]
      /\ \A k \in S : \E r \in 1..m : vs[r] = rs[k]
  <2>1. rs \in Seq(U) /\ S \in SUBSET (1..Len(rs)) /\ vs = ElementsAt(rs, S)
    BY <1>1, <1>3
  <2> QED
    BY ONLY <2>1, ElementsReached
<1>6. /\ counted \in Seq(T)
      /\ \A r \in 1..q : \E k \in C : counted[r] = vs[k]
      /\ \A k \in C : \E r \in 1..q : counted[r] = vs[k]
  <2>1. vs \in Seq(T) /\ C \in SUBSET (1..Len(vs)) /\ counted = ElementsAt(vs, C)
    BY <1>1, <1>3, <1>4
  <2>2. counted \in Seq(T)
    BY ONLY <2>1, ElementsOf
  <2>3. /\ \A r \in 1..q : \E k \in C : counted[r] = vs[k]
        /\ \A k \in C : \E r \in 1..q : counted[r] = vs[k]
    BY ONLY <2>1, ElementsReached
  <2> QED
    BY <2>2, <2>3
<1>7. \A r \in 1..q : ~IsNaN(c, counted[r]) /\ \E k \in K : counted[r] = rs[k]
  <2> SUFFICES ASSUME NEW r \in 1..q PROVE ~IsNaN(c, counted[r]) /\ \E k \in K : counted[r] = rs[k]
    OBVIOUS
  <2>1. PICK i \in C : counted[r] = vs[i]
    BY ONLY <1>6, r \in 1..q
  <2>2. i \in 1..m /\ ~IsNaN(c, vs[i])
    BY ONLY <1>2, <1>C, <2>1, i \in C
  <2>3. PICK k \in S : vs[i] = rs[k]
    BY ONLY <1>5, <2>2
  <2>4. k \in K
    BY <1>S, <2>2, <2>3
  <2> QED
    BY <2>1, <2>2, <2>3, <2>4
<1>8. \A k \in K : \E r \in 1..q : counted[r] = rs[k]
  <2> SUFFICES ASSUME NEW k \in K PROVE \E r \in 1..q : counted[r] = rs[k]
    OBVIOUS
  <2>1. k \in S /\ ~IsNaN(c, rs[k])
    BY <1>S
  <2>2. PICK i \in 1..m : vs[i] = rs[k]
    BY <1>5, <2>1
  <2>3. i \in C
    BY <1>2, <1>C, <2>1, <2>2
  <2>4. PICK r \in 1..q : counted[r] = vs[i]
    BY ONLY <1>6, <2>3
  <2> QED
    BY <2>2, <2>4
<1> HIDE DEF K
<1>9. {StatisticKey(c, rs[k]) : k \in K} = {StatisticKey(c, counted[r]) : r \in 1..q}
  BY ONLY <1>7, <1>8
<1>10. ToSet(counted) = {counted[r] : r \in 1..q}
  <2>1. DOMAIN counted = 1..q
    BY <1>6, Elements
  <2> QED
    BY <2>1 DEF ToSet
<1>11. {StatisticKey(c, value) : value \in ToSet(counted)} = {StatisticKey(c, counted[r]) : r \in 1..q}
  BY ONLY <1>10
<1> QED
  BY <1>6, <1>7, <1>9, <1>11, <1>K DEF T, CountedKeys

\* The value that an extreme of the keys is the key of.
LEMMA ExtremeValue ==
    ASSUME NEW c, NEW T, NEW vs \in Seq(T), NEW x, x \in {StatisticKey(c, vs[r]) : r \in 1..Len(vs)}
    PROVE  \E r \in 1..Len(vs) : FirstExtreme(c, vs, x) = vs[r] /\ StatisticKey(c, vs[r]) = x
<1> DEFINE S == {k \in DOMAIN vs : StatisticKey(c, vs[k]) = x}
           n == Len(vs)
<1>1. DOMAIN vs = 1..n /\ n \in Nat
  BY Elements
<1>2. S \in SUBSET Nat /\ S # {}
  BY <1>1
<1>3. PICK j \in S : \A i \in S : j <= i
  BY <1>2, LeastElement
<1>4. Min(S) = j
  BY <1>2, <1>3, LeastIs
<1>5. j \in 1..n /\ StatisticKey(c, vs[j]) = x
  BY <1>1
<1>6. FirstExtreme(c, vs, x) = vs[Min(S)]
  BY DEF FirstExtreme
<1> QED
  BY <1>4, <1>5, <1>6

\* The statistics the writer stores are those the reader verifies.
LEMMA StatisticsStored ==
    ASSUME NEW c, NEW rs, RowsFit(c, rs), NEW stats, stats = generate_statistics(c, Dense(rs))
    PROVE  stats \in Seq(Bytes) /\ verify_column_statistics(c, stats, rs)
<1> DEFINE vs == Dense(rs)
           counted == Counted(c, vs)
           keys == {StatisticKey(c, value) : value \in ToSet(counted)}
           lo == FirstExtreme(c, counted, Min(keys))
           hi == FirstExtreme(c, counted, Max(keys))
           w == statistic_width(c)
           a == ValueBytes(c, lo)
           b == ValueBytes(c, hi)
           q == Len(counted)
           T == Domain(c)
<1>1. stats = <<>> \/ (w # 0 /\ counted # <<>> /\ stats = a \o b)
  BY DEF generate_statistics, Counted
<1>2. CASE stats = <<>>
  BY <1>2 DEF verify_column_statistics
<1>3. CASE stats # <<>>
  <2>1. w # 0 /\ counted # <<>> /\ stats = a \o b
    BY <1>1, <1>3
  <2>2. /\ counted \in Seq(T) /\ (\A r \in 1..q : ~IsNaN(c, counted[r]))
        /\ reduce_decoded_values(c, rs) = keys /\ keys = {StatisticKey(c, counted[r]) : r \in 1..q}
    <3>1. CountedKeys(c, rs, counted)
      BY KeysOfRows
    <3> HIDE DEF counted
    <3> QED
      BY <3>1 DEF CountedKeys
  <2>3. ~IsVariable(c) /\ IsColumn(c)
    BY <2>1 DEF statistic_width, RowsFit
  <2> HIDE DEF counted, vs
  <2>4. q \in Nat /\ q # 0 /\ \A r \in 1..q : counted[r] \in T
    <3> HIDE DEF T
    <3> QED
      BY <2>1, <2>2
  <2>5. keys \in SUBSET Int /\ keys # {} /\ IsFiniteSet(keys)
    <3>1. \A r \in 1..q : StatisticKey(c, counted[r]) \in Int
      BY <2>3, <2>4, StatisticKeyType
    <3>2. keys = {StatisticKey(c, counted[r]) : r \in 1..q}
      BY <2>2
    <3> DEFINE f == [r \in 1..q |-> StatisticKey(c, counted[r])]
    <3> HIDE DEF keys
    <3>3. f \in Surjection(1..q, keys)
      <4>1. f \in [1..q -> keys]
        BY <3>2, Zenon
      <4>2. \A t \in keys : \E s \in 1..q : f[s] = t
        BY <3>2, Zenon
      <4> QED
        BY <4>1, <4>2, Zenon DEF Surjection
    <3>4. IsFiniteSet(1..q)
      BY <2>4, FS_Interval
    <3>5. IsFiniteSet(keys)
      <4> HIDE DEF f
      <4> QED
        BY <3>3, <3>4, FS_Surjection
    <3>6. 1 \in 1..q
      BY <2>4
    <3>7. keys # {} /\ keys \in SUBSET Int
      BY <3>1, <3>2, <3>6
    <3> QED
      BY <3>5, <3>7
  <2> DEFINE x == Min(keys)
             y == Max(keys)
  <2>6. x \in keys /\ y \in keys /\ x <= y
    <3> HIDE DEF keys
    <3>1. x \in keys /\ y \in keys /\ \A k \in keys : k <= y
      BY <2>5, ExtremesOfFinite
    <3> QED
      BY <3>1
  <2>7. x \in {StatisticKey(c, counted[r]) : r \in 1..q} /\ y \in {StatisticKey(c, counted[r]) : r \in 1..q}
    BY <2>2, <2>6
  <2> HIDE DEF x, y
  <2>8. ASSUME NEW z, z \in {StatisticKey(c, counted[r]) : r \in 1..q}
        PROVE  LET e == ValueBytes(c, FirstExtreme(c, counted, z))
               IN  /\ e \in Seq(Bytes) /\ Len(e) = w /\ Canonical(c, e) /\ StatisticOf(c, e) = z
    <3>1. PICK r \in 1..q : FirstExtreme(c, counted, z) = counted[r] /\ StatisticKey(c, counted[r]) = z
      BY <2>2, <2>8, ExtremeValue
    <3> DEFINE u == counted[r]
               e == ValueBytes(c, u)
    <3>2. u \in Domain(c) /\ ~IsNaN(c, u)
      BY <2>2, <2>4
    <3>3. e = ValueBytes(c, u)
      OBVIOUS
    <3> HIDE DEF u, e
    <3>4. Bound(c, u, e)
      BY <2>3, <3>2, <3>3, BoundOf
    <3> QED
      BY <3>1, <3>4 DEF Bound, u, e
  <2>9. /\ a \in Seq(Bytes) /\ Len(a) = w /\ Canonical(c, a) /\ StatisticOf(c, a) = x
        /\ b \in Seq(Bytes) /\ Len(b) = w /\ Canonical(c, b) /\ StatisticOf(c, b) = y
    BY <2>7, <2>8 DEF x, y
  <2> HIDE DEF a, b, keys
  <2>10. /\ stats \in Seq(Bytes) /\ Len(stats) = w + w
         /\ SubSeq(stats, 1, w) = a /\ SubSeq(stats, w + 1, w + w) = b
    <3>1. /\ stats \in Seq(Bytes) /\ Len(stats) = Len(a) + Len(b)
          /\ SubSeq(stats, 1, Len(a)) = a /\ SubSeq(stats, Len(a) + 1, Len(stats)) = b
      <4>1. a \in Seq(Bytes) /\ b \in Seq(Bytes) /\ stats = a \o b
        BY <2>1, <2>9
      <4> QED
        BY ONLY <4>1, TwoParts
    <3> QED
      BY <2>9, <3>1
  <2>11. w \in Nat
    BY <2>9
  <2>12. w + w = 2 * w
    BY <2>11
  <2>13. classify(c, stats)
    BY <2>1, <2>10, <2>12 DEF classify
  <2>14. verify_matches(x, y, keys)
    BY DEF verify_matches, x, y
  <2>15. SubSeq(stats, w + 1, 2 * w) = b
    BY <2>10, <2>12
  <2> HIDE DEF w
  <2>16. verify_column_statistics(c, stats, rs)
    BY <2>2, <2>5, <2>6, <2>9, <2>10, <2>13, <2>14, <2>15 DEF verify_column_statistics, w
  <2> QED
    BY <2>10, <2>16
<1> QED
  BY <1>2, <1>3

-----------------------------------------------------------------------------
(* The streams of a column, taken apart                                    *)

Apart(streams) ==
    /\ streams \in Seq(StreamRecords)
    /\ \A i, j \in 1..Len(streams) : i # j => streams[i].kind # streams[j].kind

LEMMA OneOfKind ==
    ASSUME NEW ss, Apart(ss), NEW i \in 1..Len(ss), NEW st, st.streams = ss
    PROVE  Carries(st, ss[i])
<1> DEFINE n == Len(ss)
           kind == ss[i].kind
           S == {s \in DOMAIN ss : ss[s].kind = kind}
<1>1. ss \in Seq(StreamRecords) /\ \A a, b \in 1..n : a # b => ss[a].kind # ss[b].kind
  BY DEF Apart
<1>2. n \in Nat /\ DOMAIN ss = 1..n
  BY <1>1, Elements
<1>3. S = {i}
  BY <1>1, <1>2
<1>4. S \in SUBSET (1..n)
  BY <1>3
<1>5. StreamsOf(st, kind) = ElementsAt(ss, S)
  BY DEF StreamsOf
<1> HIDE DEF S
<1>6. Cardinality(S) = 1
  BY <1>3, FS_Singleton
<1>7. Len(ElementsAt(ss, S)) = Cardinality(S) /\ ElementsAt(ss, S)[1] = ss[Nth(S, 1)]
  <2>1. 1 \in 1..Cardinality(S)
    BY <1>6
  <2>2. ss \in Seq(StreamRecords) /\ S \in SUBSET (1..Len(ss))
    BY <1>1, <1>4
  <2> QED
    BY <2>1, <2>2, ElementsOf
<1>8. Nth(S, 1) = i
  <2>1. Nth(S, 1) \in S
    BY <1>2, <1>4, <1>6, NthOf
  <2> QED
    BY <1>3, <2>1
<1>9. StreamsOf(st, kind)[1] = ss[i] /\ Len(StreamsOf(st, kind)) = 1
  BY <1>5, <1>6, <1>7, <1>8
<1> QED
  BY <1>9 DEF Carries

LEMMA NoneOfKind ==
    ASSUME NEW ss \in Seq(StreamRecords), NEW kind, \A i \in 1..Len(ss) : ss[i].kind # kind,
           NEW st, st.streams = ss
    PROVE  StreamsOf(st, kind) = <<>>
<1> DEFINE S == {s \in DOMAIN ss : ss[s].kind = kind}
<1>1. DOMAIN ss = 1..Len(ss)
  BY Elements
<1>2. S = {}
  BY <1>1
<1>3. StreamsOf(st, kind) = ElementsAt(ss, S)
  BY DEF StreamsOf
<1> HIDE DEF S
<1>4. Cardinality(S) = 0
  BY <1>2, FS_EmptySet
<1>5. S \in SUBSET (1..Len(ss))
  BY <1>2
<1> DEFINE e == ElementsAt(ss, S)
<1>6. e \in Seq(StreamRecords) /\ Len(e) = 0
  BY <1>4, <1>5, ElementsOf
<1> HIDE DEF e
<1>7. e = <<>>
  BY <1>6
<1> QED
  BY <1>3, <1>7 DEF e

\* A validity stream, or none, and then the streams of the values.
Joined(c, bits, vs, sel, v, e) ==
    /\ ValidityStored(bits, v) /\ ValuesStored(c, vs, e)
    /\ sel.layout = e.layout /\ sel.streams = v \o e.streams
    /\ e.layout \in DOMAIN AllowedKinds
    /\ e.streams \in Seq(StreamRecords) /\ Apart(sel.streams)
    /\ \A i \in 1..Len(e.streams) : e.streams[i].kind # "validity"
    /\ \A i \in 1..Len(sel.streams) : sel.streams[i].kind \in AllowedKinds[e.layout]

LEMMA Selected ==
    ASSUME NEW c, NEW bits, NEW vs, NEW sel, Selects(c, bits, vs, sel)
    PROVE  \E v, e : Joined(c, bits, vs, sel, v, e)
<1>1. PICK v, e : ValidityStored(bits, v) /\ ValuesStored(c, vs, e) /\ sel = WithValidity(v, e)
  BY DEF Selects
<1>2. \E prices : /\ e = [layout |-> e.layout, streams |-> e.streams]
                  /\ e.layout \in DOMAIN AllowedKinds
                  /\ Laid(e.streams, prices, AllowedKinds[e.layout] \ {"validity"})
  <2>1. CASE vs = <<>>
    <3>1. e = [layout |-> "plain", streams |-> <<>>]
      BY <1>1, <2>1 DEF ValuesStored
    <3>2. e.layout = "plain" /\ e.streams = <<>> /\ e = [layout |-> e.layout, streams |-> e.streams]
      BY <3>1
    <3> DEFINE none == <<>>
    <3>3. none \in Seq(StreamRecords) /\ Len(none) = 0 /\ none = [s \in 1..0 |-> Len(none[s].bytes)]
      OBVIOUS
    <3> HIDE DEF none
    <3>4. Laid(none, none, AllowedKinds["plain"] \ {"validity"})
      BY <3>3 DEF Laid
    <3> QED
      BY <3>2, <3>4, KindsOfLayout DEF none
  <2>2. CASE vs # <<>>
    <3>1. \E prices : EncodedAs(c, vs, e, prices)
      BY <1>1, <2>2 DEF ValuesStored
    <3> QED
      BY <3>1 DEF EncodedAs
  <2> QED
    BY <2>1, <2>2
<1>3. PICK prices : /\ e = [layout |-> e.layout, streams |-> e.streams]
                    /\ e.layout \in DOMAIN AllowedKinds
                    /\ Laid(e.streams, prices, AllowedKinds[e.layout] \ {"validity"})
  BY <1>2
<1> DEFINE ss == e.streams
           n == Len(ss)
           tt == sel.streams
           kinds == AllowedKinds[e.layout]
<1>4. sel.layout = e.layout /\ tt = v \o ss
  BY <1>1, <1>3, WithValidityParts
<1>5. /\ ss \in Seq(StreamRecords) /\ n \in Nat
      /\ \A i, j \in 1..n : i # j => ss[i].kind # ss[j].kind
      /\ \A i \in 1..n : ss[i].kind \in kinds /\ ss[i].kind # "validity"
  BY <1>3 DEF Laid
<1>6. "validity" \in kinds
  BY <1>3, KindsOfLayout DEF AllowedKinds
<1>7. e.layout \in DOMAIN AllowedKinds
  BY <1>3
<1> HIDE DEF ss, tt, n, kinds
<1>8. Apart(tt) /\ \A i \in 1..Len(tt) : tt[i].kind \in kinds
  <2>1. CASE v = <<>>
    <3>1. tt = ss
      BY <1>4, <1>5, <2>1
    <3> QED
      BY <1>5, <3>1 DEF Apart, n
  <2>2. CASE v # <<>>
    <3>1. PICK s \in StreamRecords : v = <<s>> /\ s.kind = "validity"
      BY <1>1, <2>2 DEF ValidityStored
    <3>2. /\ tt \in Seq(StreamRecords) /\ Len(tt) = n + 1 /\ tt[1] = s
          /\ \A i \in 1..n : tt[i + 1] = ss[i]
      BY <1>4, <1>5, <3>1 DEF n
    <3>3. \A i \in 1..(n + 1) : i = 1 \/ (i - 1 \in 1..n /\ tt[i] = ss[i - 1])
      <4> SUFFICES ASSUME NEW i \in 1..(n + 1), i # 1 PROVE i - 1 \in 1..n /\ tt[i] = ss[i - 1]
        OBVIOUS
      <4>1. i - 1 \in 1..n /\ (i - 1) + 1 = i
        BY <1>5
      <4> QED
        BY <3>2, <4>1
    <3>4. \A i \in 1..(n + 1) : tt[i].kind \in kinds
      BY <1>5, <1>6, <3>1, <3>2, <3>3
    <3>5. \A i, j \in 1..(n + 1) : i # j => tt[i].kind # tt[j].kind
      <4> SUFFICES ASSUME NEW i \in 1..(n + 1), NEW j \in 1..(n + 1), i # j
                   PROVE tt[i].kind # tt[j].kind
        OBVIOUS
      <4>1. CASE i = 1
        BY <1>5, <3>1, <3>2, <3>3, <4>1
      <4>2. CASE j = 1
        BY <1>5, <3>1, <3>2, <3>3, <4>2
      <4>3. CASE i # 1 /\ j # 1
        <5>1. i - 1 \in 1..n /\ tt[i] = ss[i - 1] /\ j - 1 \in 1..n /\ tt[j] = ss[j - 1]
          BY <3>3, <4>3
        <5>2. i - 1 # j - 1
          BY <1>5
        <5> QED
          BY <1>5, <5>1, <5>2
      <4> QED
        BY <4>1, <4>2, <4>3
    <3> QED
      BY <3>2, <3>4, <3>5 DEF Apart
  <2> QED
    BY <2>1, <2>2
<1>9. Joined(c, bits, vs, sel, v, e)
  BY <1>1, <1>4, <1>5, <1>7, <1>8 DEF Joined, ss, tt, n, kinds
<1> QED
  BY <1>9

\* A column whose streams were joined is read apart again.
LEMMA TakenApart ==
    ASSUME NEW c, NEW bits, NEW vs, NEW sel, NEW v, NEW e, Joined(c, bits, vs, sel, v, e),
           NEW st, st.streams = sel.streams, st.layout = sel.layout
    PROVE  /\ StreamsOf(st, "validity") = v
           /\ CarriesAll(st, e.streams) /\ check_stream_kinds(st)
<1> DEFINE ss == e.streams
           tt == sel.streams
           n == Len(ss)
<1>1. /\ ValidityStored(bits, v) /\ sel.layout = e.layout /\ tt = v \o ss
      /\ ss \in Seq(StreamRecords) /\ Apart(tt)
      /\ \A i \in 1..n : ss[i].kind # "validity"
      /\ \A i \in 1..Len(tt) : tt[i].kind \in AllowedKinds[e.layout]
  BY DEF Joined
<1>2. tt \in Seq(StreamRecords) /\ n \in Nat
  BY <1>1 DEF Apart
<1> HIDE DEF ss, tt, n
<1>3. check_stream_kinds(st)
  <2>1. DOMAIN tt = 1..Len(tt)
    BY <1>2, Elements
  <2>2. st.streams = tt /\ st.layout = e.layout
    BY <1>1 DEF tt
  <2> QED
    BY <1>1, <2>1, <2>2 DEF check_stream_kinds
<1>4. CASE v = <<>>
  <2>1. tt = ss
    BY <1>1, <1>4
  <2>2. StreamsOf(st, "validity") = <<>>
    <3>1. tt \in Seq(StreamRecords) /\ (\A i \in 1..Len(tt) : tt[i].kind # "validity") /\ st.streams = tt
      BY <1>1, <1>2, <2>1 DEF n, tt
    <3> QED
      BY ONLY <3>1, NoneOfKind
  <2>3. \A i \in 1..Len(tt) : Carries(st, tt[i])
    <3>1. Apart(tt) /\ st.streams = tt
      BY <1>1 DEF tt
    <3> QED
      BY ONLY <3>1, OneOfKind
  <2> QED
    BY <1>3, <1>4, <2>1, <2>2, <2>3 DEF CarriesAll, ss
<1>5. CASE v # <<>>
  <2>1. PICK s \in StreamRecords : v = <<s>> /\ s.kind = "validity"
    BY <1>1, <1>5 DEF ValidityStored
  <2>2. Len(tt) = n + 1 /\ tt[1] = s /\ \A i \in 1..n : tt[i + 1] = ss[i]
    BY <1>1, <1>2, <2>1 DEF n
  <2>3. \A i \in 1..Len(tt) : Carries(st, tt[i])
    <3>1. Apart(tt) /\ st.streams = tt
      BY <1>1 DEF tt
    <3> QED
      BY ONLY <3>1, OneOfKind
  <2>4. \A i \in 1..n : i + 1 \in 1..Len(tt)
    BY <1>2, <2>2
  <2>5. 1 \in 1..Len(tt)
    BY <1>2, <2>2
  <2>6. \A i \in 1..n : Carries(st, ss[i])
    BY <2>2, <2>3, <2>4
  <2>7. Carries(st, s)
    BY <2>2, <2>3, <2>5
  <2> DEFINE u == StreamsOf(st, "validity")
  <2>8. Len(u) = 1 /\ u[1] = s
    BY <2>1, <2>7 DEF Carries
  <2>9. u \in Seq(StreamRecords)
    <3> DEFINE S == {i \in DOMAIN tt : tt[i].kind = "validity"}
    <3>1. S \in SUBSET (1..Len(tt)) /\ u = ElementsAt(tt, S)
      <4>1. DOMAIN tt = 1..Len(tt) /\ st.streams = tt
        BY <1>2, Elements DEF tt
      <4> QED
        BY <4>1 DEF StreamsOf
    <3> HIDE DEF S, u
    <3> QED
      BY <1>2, <3>1, ElementsOf
  <2> HIDE DEF u
  <2>10. u = <<s>>
    BY <2>8, <2>9
  <2> QED
    BY <1>3, <2>1, <2>6, <2>10 DEF CarriesAll, ss, u, n
<1> QED
  BY <1>4, <1>5

-----------------------------------------------------------------------------
(* What was stored of the rows is the rows that are read                   *)

FalsePlaces(bits) == {k \in 1..Len(bits) : ~bits[k]}

\* The nulls of rows that are alike, and the rows that are read without a stream.
LEMMA RowsAlike ==
    ASSUME NEW bits \in Seq(BOOLEAN), NEW n, n = Len(bits), NEW x \in BOOLEAN,
           \A k \in 1..n : bits[k] = x
    PROVE  /\ AllRows(x, n) = Decoded(bits)
           /\ Cardinality(FalsePlaces(bits)) = IF x THEN 0 ELSE n
<1>1. n \in Nat /\ bits = [k \in 1..n |-> bits[k]]
  BY Elements
<1>2. bits = [k \in 1..n |-> x]
  BY <1>1
<1>3. AllRows(x, n) = Decoded(bits)
  BY <1>2, Zenon DEF AllRows
<1> DEFINE F == FalsePlaces(bits)
<1>4. CASE x = TRUE
  <2>1. F = {}
    BY <1>4 DEF FalsePlaces
  <2>2. Cardinality(F) = 0
    BY <2>1, FS_EmptySet
  <2> QED
    BY <1>3, <1>4, <2>2
<1>5. CASE x = FALSE
  <2>1. F = 1..n
    BY <1>5 DEF FalsePlaces
  <2>2. Cardinality(1..n) = n
    BY <1>1, FS_Interval
  <2>3. Cardinality(F) = n
    BY <2>1, <2>2, Zenon
  <2> QED
    BY <1>3, <1>5, <2>3
<1> QED
  BY <1>4, <1>5

LEMMA ValidityRead ==
    ASSUME NEW c, NEW bits \in Seq(BOOLEAN), NEW n, n = Len(bits), c.nullable \in BOOLEAN,
           ~c.nullable => \A k \in 1..n : bits[k] = TRUE,
           NEW v, ValidityStored(bits, v), NEW st, StreamsOf(st, "validity") = v,
           st.implicit = (c.nullable /\ ToSet(bits) # BOOLEAN),
           st.null_count = Cardinality(FalsePlaces(bits))
    PROVE  validity(c, st, n) = Decoded(bits)
<1>0. n \in Nat /\ DOMAIN bits = 1..n /\ \A k \in 1..n : bits[k] \in BOOLEAN
  BY Elements
<1>A. ToSet(bits) = {bits[k] : k \in 1..n}
  BY <1>0 DEF ToSet
<1>1. CASE ToSet(bits) # BOOLEAN
  <2>0. v = <<>>
    BY <1>1 DEF ValidityStored
  <2>1. v = <<>> /\ ~(Len(v) > 1) /\ (st.implicit <=> c.nullable)
    BY <1>1, <2>0
  <2>2. (\A k \in 1..n : bits[k] = TRUE) \/ (\A k \in 1..n : bits[k] = FALSE)
    <3> SUFFICES ASSUME NEW i \in 1..n, bits[i] # TRUE, NEW j \in 1..n, bits[j] # FALSE PROVE FALSE
      OBVIOUS
    <3>1. bits[i] = FALSE /\ bits[j] = TRUE
      BY <1>0
    <3>2. TRUE \in ToSet(bits) /\ FALSE \in ToSet(bits)
      BY <1>A, <3>1
    <3>3. ToSet(bits) \subseteq BOOLEAN
      BY <1>0, <1>A
    <3> QED
      BY <1>1, <3>2, <3>3
  <2>3. CASE \A k \in 1..n : bits[k] = TRUE
    <3>1. AllRows(TRUE, n) = Decoded(bits) /\ st.null_count = 0
      BY <2>3, RowsAlike
    <3> QED
      BY <2>1, <3>1, Zenon DEF validity, implicit_validity
  <2>4. CASE ~(\A k \in 1..n : bits[k] = TRUE)
    <3>1. AllRows(FALSE, n) = Decoded(bits) /\ st.null_count = n
      <4>1. \A k \in 1..n : bits[k] = FALSE
        BY <2>2, <2>4
      <4> QED
        BY <4>1, RowsAlike
    <3>2. c.nullable /\ n # 0
      BY <1>0, <2>4
    <3>3. st.null_count # 0
      BY <3>1, <3>2
    <3> QED
      BY <2>1, <3>1, <3>2, <3>3, Zenon DEF validity, implicit_validity
  <2> QED
    BY <2>3, <2>4
<1>2. CASE ToSet(bits) = BOOLEAN
  <2>1. PICK s \in StreamRecords :
           /\ v = <<s>> /\ s.elements = n
           /\ booleans(s.bytes, n, s.transform) = Decoded(bits)
    BY <1>2 DEF ValidityStored
  <2>2. c.nullable /\ ~st.implicit
    <3>1. PICK k \in 1..n : bits[k] = FALSE
      BY <1>2, <1>A
    <3> QED
      BY <1>2, <3>1
  <2>3. Decoded(bits).ok /\ Decoded(bits).values = bits
    BY DEF Decoded
  <2>4. v # <<>> /\ ~(Len(v) > 1) /\ v[1] = s
    BY <2>1
  <2>5. FalsePlaces(bits) = {k \in 1..n : ~bits[k]}
    BY DEF FalsePlaces
  <2>6. Cardinality({k \in 1..n : ~bits[k]}) = st.null_count
    BY <2>5, Zenon
  <2>7. booleans(v[1].bytes, v[1].elements, v[1].transform) = Decoded(bits) /\ v[1].elements = n
    BY <2>1, <2>4
  <2> DEFINE d == booleans(v[1].bytes, v[1].elements, v[1].transform)
  <2>8. d.ok /\ d.values = bits /\ d = Decoded(bits)
    BY <2>3, <2>7
  <2>9. Cardinality({k \in 1..n : ~d.values[k]}) = st.null_count
    BY <2>6, <2>8, Zenon
  <2> QED
    BY <2>2, <2>4, <2>7, <2>8, <2>9, Zenon DEF validity
<1> QED
  BY <1>1, <1>2

\* Dense values go back to the rows they came from.
LEMMA ScatteredBack ==
    ASSUME NEW T, NEW rs \in Seq(T), NEW bits \in Seq(BOOLEAN), Len(bits) = Len(rs),
           \A k \in 1..Len(rs) : bits[k] = (rs[k] # Null),
           NEW vs, vs = ElementsAt(rs, TruePlaces(bits))
    PROVE  scatter(vs, bits) = Decoded(rs)
<1> DEFINE n == Len(bits)
           S == TruePlaces(bits)
           place(row) == Cardinality({k \in 1..row : bits[k]})
<1>0. n \in Nat /\ S \in SUBSET (1..n) /\ DOMAIN bits = 1..n /\ S \in SUBSET (1..Len(rs))
  BY DEF TruePlaces
<1>1. ASSUME NEW k \in 0..n PROVE place(k) = Rank(S, k)
  <2>1. {j \in 1..k : bits[j]} = {j \in S : j <= k}
    BY <1>0 DEF TruePlaces
  <2> QED
    BY <2>1 DEF Rank
<1>2. place(n) = Cardinality(S)
  <2>1. place(n) = Rank(S, n)
    BY <1>0, <1>1, n \in 0..n
  <2> QED
    BY <1>0, <2>1, RankStep
<1>S. \A k \in 1..n : k \in S <=> bits[k]
  BY DEF TruePlaces
<1>V. vs = ElementsAt(rs, S)
  OBVIOUS
<1>3. Len(vs) = Cardinality(S) /\ \A r \in 1..Cardinality(S) : vs[r] = rs[Nth(S, r)]
  <2> HIDE DEF S
  <2> QED
    BY <1>0, <1>V, ElementsOf
<1>4. ASSUME NEW k \in 1..n PROVE rs[k] = IF bits[k] THEN vs[place(k)] ELSE Null
  <2>1. CASE bits[k]
    <3>1. k \in S /\ k \in 0..n
      BY <1>S, <2>1
    <3>2. Rank(S, k) \in 1..Cardinality(S) /\ Nth(S, Rank(S, k)) = k
      <4> HIDE DEF S
      <4> QED
        BY <1>0, <3>1, NthOfRank
    <3>3. place(k) = Rank(S, k)
      BY <1>1, <3>1
    <3> HIDE DEF S, place
    <3> QED
      BY <1>3, <2>1, <3>2, <3>3
  <2>2. CASE ~bits[k]
    BY <2>2
  <2> QED
    BY <2>1, <2>2
<1>5. rs = [k \in 1..n |-> rs[k]]
  BY Elements
<1>6. rs = [k \in DOMAIN bits |-> IF bits[k] THEN vs[place(k)] ELSE Null]
  <2> HIDE DEF place
  <2> QED
    BY <1>0, <1>4, <1>5
<1>7. Len(vs) = place(n)
  BY <1>2, <1>3
<1> QED
  BY <1>6, <1>7, Zenon DEF scatter

LEMMA DecodeFollows ==
    ASSUME NEW c, NEW st, NEW n, NEW bits, NEW vs, NEW rs,
           validate_column_descriptor(c, st, n), check_stream_kinds(st),
           validity(c, st, n) = Decoded(bits), dense_values(c, st) = Decoded(vs),
           into_array(c, vs, bits) = Decoded(rs), verify_column_statistics(c, st.statistics, rs)
    PROVE  decode_column(c, st, n) = Decoded(rs)
<1>1. \A x : Decoded(x).ok /\ Decoded(x).values = x
  BY DEF Decoded
<1> QED
  BY <1>1 DEF decode_column, AndThen

LEMMA DenseRead ==
    ASSUME NEW c, NEW bits, NEW vs, NEW sel, NEW v, NEW e, Joined(c, bits, vs, sel, v, e),
           NEW st, st.streams = sel.streams, st.layout = sel.layout,
           NEW m \in Nat, st.dense_count = m, m = Len(vs), vs = <<>> <=> m = 0
    PROVE  dense_values(c, st) = Decoded(vs)
<1>1. /\ ValidityStored(bits, v) /\ ValuesStored(c, vs, e) /\ sel.layout = e.layout
      /\ sel.streams = v \o e.streams /\ Apart(sel.streams)
  BY DEF Joined
<1>2. CASE m = 0
  <2>1. vs = <<>> /\ e = [layout |-> "plain", streams |-> <<>>]
    BY <1>1, <1>2 DEF ValuesStored
  <2>2. e.layout = "plain" /\ e.streams = <<>>
    BY <2>1
  <2>3. st.layout = "plain" /\ st.streams = v
    <3>1. CASE v = <<>>
      BY <1>1, <2>2, <3>1
    <3>2. CASE v # <<>>
      <4>1. PICK s \in StreamRecords : v = <<s>>
        BY <1>1, <3>2 DEF ValidityStored
      <4>2. v \o <<>> = v
        BY <4>1
      <4> QED
        BY <1>1, <2>2, <4>2
    <3> QED
      BY <3>1, <3>2
  <2>4. \A i \in DOMAIN v : v[i].kind = "validity"
    <3>1. CASE v = <<>>
      BY <3>1
    <3>2. CASE v # <<>>
      <4>1. PICK s \in StreamRecords : v = <<s>> /\ s.kind = "validity"
        BY <1>1, <3>2 DEF ValidityStored
      <4>2. \A i \in DOMAIN v : v[i] = s
        BY <4>1
      <4> QED
        BY <4>1, <4>2
    <3> QED
      BY <3>1, <3>2
  <2>5. all_null(st) = Decoded(<<>>)
    BY <2>3, <2>4 DEF all_null
  <2>6. dense_values(c, st) = all_null(st)
    BY <1>2 DEF dense_values
  <2> QED
    BY <2>1, <2>5, <2>6
<1>3. CASE m # 0
  <2>1. PICK prices : EncodedAs(c, vs, e, prices)
    BY <1>1, <1>3 DEF ValuesStored
  <2>2. CarriesAll(st, e.streams)
    BY TakenApart
  <2>3. st.layout = e.layout /\ st.dense_count = Len(vs)
    BY <1>1
  <2> QED
    BY <2>1, <2>2, <2>3 DEF EncodedAs
<1> QED
  BY <1>2, <1>3

LEMMA StoredIsRead ==
    ASSUME NEW c, NEW rs, RowsFit(c, rs), NEW bits, bits = ValidBits(rs), NEW vs, vs = Dense(rs),
           NEW sel, Selects(c, bits, vs, sel), NEW st, st = EncodedColumn(c, bits, vs, sel)
    PROVE  st \in StoredColumns /\ decode_column(c, st, Len(rs)) = Decoded(rs)
<1> DEFINE n == Len(rs)
           m == Len(vs)
           F == FalsePlaces(bits)
           T == Domain(c) \cup {Null}
           S == TruePlaces(bits)
           stats == generate_statistics(c, vs)
<1>1. /\ n \in Nat /\ bits \in Seq(BOOLEAN) /\ Len(bits) = n
      /\ \A k \in 1..n : bits[k] = (rs[k] # Null)
      /\ Holding(c, vs) /\ m = Cardinality(S) /\ m \in 0..n /\ vs = ElementsAt(rs, S)
      /\ \A k \in 1..m : IsValueOf(c, vs[k])
  BY DenseRows
<1>2. /\ IsColumn(c) /\ rs \in Seq(T)
      /\ \A k \in 1..n : rs[k] = Null => c.nullable
  BY DEF RowsFit
<1>3. c.nullable \in BOOLEAN
  BY <1>2 DEF IsColumn
<1>4. PICK v, e : Joined(c, bits, vs, sel, v, e)
  BY Selected
<1>5. /\ ValidityStored(bits, v) /\ sel.layout = e.layout /\ Apart(sel.streams)
      /\ e.layout \in DOMAIN AllowedKinds
  BY <1>4 DEF Joined
<1>6. /\ st.layout = sel.layout /\ st.streams = sel.streams
      /\ st.implicit = (c.nullable /\ ToSet(bits) # BOOLEAN)
      /\ st.null_count = n - m /\ st.dense_count = m /\ st.statistics = stats
  BY <1>1 DEF EncodedColumn
<1>7. stats \in Seq(Bytes) /\ verify_column_statistics(c, stats, rs)
  BY StatisticsStored
<1>R. st = [ layout |-> sel.layout, streams |-> sel.streams,
             implicit |-> c.nullable /\ ToSet(bits) # BOOLEAN,
             null_count |-> n - m, dense_count |-> m, statistics |-> stats ]
  BY <1>1 DEF EncodedColumn
<1> HIDE DEF n, m, stats, S, T
<1>8. st \in StoredColumns
  <2>1. /\ sel.layout \in DOMAIN AllowedKinds /\ sel.streams \in Seq(StreamRecords)
        /\ n - m \in Nat /\ m \in Nat /\ stats \in Seq(Bytes)
    BY <1>1, <1>5, <1>7 DEF Apart
  <2>2. (c.nullable /\ ToSet(bits) # BOOLEAN) \in BOOLEAN
    OBVIOUS
  <2> QED
    BY <1>R, <2>1, <2>2 DEF StoredColumns
<1>9. Cardinality(F) = n - m
  <2>1. F = {k \in 1..n : ~bits[k]}
    BY <1>1 DEF FalsePlaces
  <2>2. Cardinality(S) + Cardinality(F) = n /\ Cardinality(F) \in Nat /\ Cardinality(S) \in Nat
    BY <1>1, <2>1, TruesAndFalses DEF S
  <2> HIDE DEF F
  <2> QED
    BY <1>1, <2>2
<1>10. StreamsOf(st, "validity") = v /\ check_stream_kinds(st)
  BY <1>4, <1>6, TakenApart
<1>11. ~c.nullable => \A k \in 1..n : bits[k] = TRUE
  BY <1>1, <1>2
<1>12. validity(c, st, n) = Decoded(bits)
  <2>1. /\ bits \in Seq(BOOLEAN) /\ n = Len(bits) /\ c.nullable \in BOOLEAN
        /\ ~c.nullable => \A k \in 1..n : bits[k] = TRUE
        /\ ValidityStored(bits, v) /\ StreamsOf(st, "validity") = v
        /\ st.implicit = (c.nullable /\ ToSet(bits) # BOOLEAN)
        /\ st.null_count = Cardinality(FalsePlaces(bits))
    BY <1>1, <1>3, <1>5, <1>6, <1>9, <1>10, <1>11
  <2> QED
    BY ONLY <2>1, ValidityRead
<1>13. validate_column_descriptor(c, st, n)
  <2>1. ~c.nullable => n - m = 0
    <3> SUFFICES ASSUME ~c.nullable PROVE Cardinality(F) = 0
      BY <1>9
    <3>1. \A k \in 1..n : bits[k] = TRUE
      BY <1>11
    <3> QED
      BY <1>1, <3>1, RowsAlike
  <2>2. n - m <= n /\ m = n - (n - m)
    BY <1>1
  <2> QED
    BY <1>3, <1>6, <2>1, <2>2 DEF validate_column_descriptor
<1>14. dense_values(c, st) = Decoded(vs)
  <2>1. m \in Nat /\ (vs = <<>> <=> m = 0)
    <3>1. vs \in Seq(Domain(c))
      BY <1>1 DEF Holding
    <3> QED
      BY <3>1 DEF m
  <2> QED
    BY <1>4, <1>6, <2>1, DenseRead DEF m
<1>15. into_array(c, vs, bits) = Decoded(rs)
  <2>1. scatter(vs, bits) = Decoded(rs)
    <3>1. /\ rs \in Seq(T) /\ bits \in Seq(BOOLEAN) /\ Len(bits) = Len(rs)
          /\ \A k \in 1..Len(rs) : bits[k] = (rs[k] # Null)
          /\ vs = ElementsAt(rs, TruePlaces(bits))
      BY <1>1, <1>2 DEF S, n
    <3> QED
      BY ONLY <3>1, ScatteredBack
  <2>2. c.family = "text" => \A k \in DOMAIN vs : is_utf8(vs[k])
    <3> SUFFICES ASSUME c.family = "text", NEW k \in DOMAIN vs PROVE is_utf8(vs[k])
      OBVIOUS
    <3>1. k \in 1..m
      <4>1. vs \in Seq(Domain(c))
        BY <1>1 DEF Holding
      <4> QED
        BY <4>1, Elements DEF m
    <3>2. IsValueOf(c, vs[k])
      BY <1>1, <3>1
    <3> QED
      BY <3>2 DEF IsValueOf, IsNumeric, IsVariable
  <2> QED
    BY <2>1, <2>2 DEF into_array
<1>16. decode_column(c, st, n) = Decoded(rs)
  <2>1. verify_column_statistics(c, st.statistics, rs)
    BY <1>6, <1>7
  <2> QED
    BY <1>10, <1>12, <1>13, <1>14, <1>15, <2>1, DecodeFollows
<1> QED
  BY <1>8, <1>16 DEF n

LEMMA RowsSized ==
    ASSUME NEW c, NEW rs, RowsFit(c, rs)
    PROVE  /\ ValidBits(rs) \in Seq(BOOLEAN) /\ Len(ValidBits(rs)) < 2^(ByteBits * CountBytes)
           /\ Dense(rs) = <<>> \/ Sized(c, Dense(rs))
<1>1. ASSUME NEW n, n = Len(rs), NEW bits, bits = ValidBits(rs), NEW vs, vs = Dense(rs)
      PROVE  bits \in Seq(BOOLEAN) /\ Len(bits) = n /\ (vs # <<>> => Sized(c, vs))
  <2>1. RowsFit(c, rs) /\ n = Len(rs) /\ bits = ValidBits(rs) /\ vs = Dense(rs)
    BY <1>1
  <2> QED
    BY ONLY <2>1, DenseRows
<1>2. Len(rs) < 2^(ByteBits * CountBytes)
  BY DEF RowsFit
<1> QED
  BY <1>1, <1>2

\* A policy the writer goes through with: adaptive, or an encoding the column
\* offers and these values fit.
PolicyFits(c, vs, chosen) ==
    chosen # "Adaptive" => chosen \in supported_candidates(c) /\ ~FixedRefuses(c, vs, chosen)

LEMMA PolicySelects ==
    ASSUME NEW c, NEW rs, RowsFit(c, rs), NEW bits, bits = ValidBits(rs), NEW vs, vs = Dense(rs),
           NEW chosen, PolicyFits(c, vs, chosen)
    PROVE  \E sel : /\ Selects(c, bits, vs, sel)
                    /\ encode_column(c, bits, vs, chosen) = EncodedColumn(c, bits, vs, sel)
                    /\ chosen = "Adaptive" => sel = adaptive_column_candidate(c, bits, vs)
<1> DEFINE raw == raw_column_candidate(c, bits, vs)
           fixed == fixed_column_candidate(c, bits, vs, chosen)
           adaptive == adaptive_column_candidate(c, bits, vs)
<1>1. /\ bits \in Seq(BOOLEAN) /\ Len(bits) < 2^(ByteBits * CountBytes)
      /\ vs = <<>> \/ Sized(c, vs)
  BY RowsSized
<1>2. Selects(c, bits, vs, raw)
  BY <1>1, SelectsRaw
<1>3. CASE chosen = "Adaptive"
  <2>1. Selects(c, bits, vs, adaptive)
    <3>1. CASE vs = <<>>
      <4>1. adaptive = raw
        BY <3>1 DEF adaptive_column_candidate
      <4> QED
        BY <1>2, <4>1
    <3>2. CASE vs # <<>>
      <4>1. Sized(c, vs)
        BY <1>1, <3>2
      <4> QED
        BY <1>1, <4>1, AdaptiveChosen
    <3> QED
      BY <3>1, <3>2
  <2>2. encode_column(c, bits, vs, chosen) = EncodedColumn(c, bits, vs, adaptive)
    BY <1>3, Zenon DEF encode_column
  <2> QED
    BY <2>1, <2>2
<1>4. CASE chosen # "Adaptive"
  <2>1. Selects(c, bits, vs, fixed)
    <3>1. CASE vs = <<>> \/ chosen = "Raw"
      <4>1. fixed = raw
        BY <3>1 DEF fixed_column_candidate
      <4> QED
        BY <1>2, <4>1
    <3>2. CASE vs # <<>> /\ chosen # "Raw"
      <4>1. Sized(c, vs)
        BY <1>1, <3>2
      <4>2. chosen \in candidates(c, vs)
        BY <1>4, <3>2 DEF PolicyFits, FixedRefuses, candidates
      <4>3. ValidityStored(bits, raw_validity(bits))
        BY <1>1, ValidityIsStored
      <4>4. fixed = WithValidity(raw_validity(bits), encode(c, vs, chosen))
        BY <3>2 DEF fixed_column_candidate
      <4> QED
        BY <4>1, <4>2, <4>3, <4>4, SelectsEncoding
    <3> QED
      BY <3>1, <3>2
  <2>2. encode_column(c, bits, vs, chosen) = EncodedColumn(c, bits, vs, fixed)
    BY <1>4, Zenon DEF encode_column
  <2> QED
    BY <1>4, <2>1, <2>2
<1> QED
  BY <1>3, <1>4

-----------------------------------------------------------------------------
(* What another writer may have stored is still a column                   *)

LEMMA RemovedType ==
    ASSUME NEW T, NEW v \in Seq(T), NEW k \in 1..Len(v)
    PROVE  RemoveAt(v, k) \in Seq(T)
<1> DEFINE a == SubSeq(v, 1, k - 1)
           b == SubSeq(v, k + 1, Len(v))
<1>1. a \in Seq(T) /\ b \in Seq(T)
  OBVIOUS
<1>2. RemoveAt(v, k) = a \o b
  BY DEF RemoveAt
<1> HIDE DEF a, b
<1> QED
  BY <1>1, <1>2

LEMMA AlteredStreamType ==
    ASSUME ColumnRows, NEW s \in StreamRecords, NEW t \in AlteredStream(s)
    PROVE  t \in StreamRecords
<1>0. /\ s.kind \in Kinds /\ s.transform \in Transforms /\ s.elements \in Nat
      /\ s.bytes \in Seq(Bytes)
      /\ s = [kind |-> s.kind, transform |-> s.transform, elements |-> s.elements, bytes |-> s.bytes]
  BY DEF StreamRecords
<1>1. ASSUME NEW kind \in UNION {AllowedKinds[l] : l \in DOMAIN AllowedKinds},
             t = [s EXCEPT !.kind = kind]
      PROVE  t \in StreamRecords
  <2>1. kind \in Kinds
    BY DEF AllowedKinds, Kinds
  <2> QED
    BY <1>1, <2>1 DEF StreamRecords
<1>2. ASSUME NEW transform \in {"raw", "bit_packed", "frame_of_reference", "delta", "delta_of_delta",
                                "byte_stream_split", "boolean_rle"},
             t = [s EXCEPT !.transform = transform]
      PROVE  t \in StreamRecords
  <2>1. transform \in Transforms
    BY DEF Transforms
  <2> QED
    BY <1>2, <2>1 DEF StreamRecords
<1>3. ASSUME NEW elements \in 0..(MaxRows(column) + 1), t = [s EXCEPT !.elements = elements]
      PROVE  t \in StreamRecords
  <2>1. MaxRows(column) \in Nat
    BY ColumnOfType DEF ColumnRows
  <2>2. elements \in Nat
    BY <2>1
  <2> QED
    BY <1>3, <2>2 DEF StreamRecords
<1>4. ASSUME NEW byte \in Bytes, t = [s EXCEPT !.bytes = Append(@, byte)]
      PROVE  t \in StreamRecords
  <2>1. Append(s.bytes, byte) \in Seq(Bytes)
    BY <1>0
  <2> QED
    BY <1>4, <2>1 DEF StreamRecords
<1>5. ASSUME NEW k \in DOMAIN s.bytes, NEW byte \in Bytes, t = [s EXCEPT !.bytes[k] = byte]
      PROVE  t \in StreamRecords
  <2>1. [s.bytes EXCEPT ![k] = byte] \in Seq(Bytes)
    BY <1>0
  <2>2. t = [s EXCEPT !.bytes = [s.bytes EXCEPT ![k] = byte]]
    BY <1>5
  <2> QED
    BY <2>1, <2>2 DEF StreamRecords
<1> QED
  BY <1>1, <1>2, <1>3, <1>4, <1>5 DEF AlteredStream

LEMMA AlteredColumnType ==
    ASSUME ColumnRows, stored \in StoredColumns, NEW t \in AlteredColumn
    PROVE  t \in StoredColumns
<1>0. /\ stored.layout \in DOMAIN AllowedKinds /\ stored.streams \in Seq(StreamRecords)
      /\ stored.implicit \in BOOLEAN /\ stored.null_count \in Nat /\ stored.dense_count \in Nat
      /\ stored.statistics \in Seq(Bytes)
  BY DEF StoredColumns
<1>N. Len(rows) \in Nat
  BY DenseRows DEF ColumnRows
<1>1. ASSUME NEW layout \in DOMAIN AllowedKinds, t = [stored EXCEPT !.layout = layout]
      PROVE  t \in StoredColumns
  BY <1>1 DEF StoredColumns
<1>2. ASSUME NEW nulls \in 0..Len(rows),
             t = [stored EXCEPT !.null_count = nulls, !.dense_count = Len(rows) - nulls]
      PROVE  t \in StoredColumns
  <2>1. nulls \in Nat /\ Len(rows) - nulls \in Nat
    BY <1>N
  <2> QED
    BY <1>2, <2>1 DEF StoredColumns
<1>3. ASSUME NEW dense \in 0..Len(rows), t = [stored EXCEPT !.dense_count = dense]
      PROVE  t \in StoredColumns
  BY <1>3, <1>N DEF StoredColumns
<1>4. ASSUME t = [stored EXCEPT !.implicit = ~@]
      PROVE  t \in StoredColumns
  BY <1>0, <1>4 DEF StoredColumns
<1>5. ASSUME NEW s \in DOMAIN stored.streams, t = [stored EXCEPT !.streams = RemoveAt(@, s)]
      PROVE  t \in StoredColumns
  <2>1. RemoveAt(stored.streams, s) \in Seq(StreamRecords)
    BY <1>0, RemovedType
  <2> QED
    BY <1>5, <2>1 DEF StoredColumns
<1>6. ASSUME NEW s \in DOMAIN stored.streams, t = [stored EXCEPT !.streams = Append(@, @[s])]
      PROVE  t \in StoredColumns
  <2>1. Append(stored.streams, stored.streams[s]) \in Seq(StreamRecords)
    BY <1>0
  <2> QED
    BY <1>6, <2>1 DEF StoredColumns
<1>7. ASSUME NEW k \in DOMAIN stored.statistics, NEW byte \in Bytes,
             t = [stored EXCEPT !.statistics[k] = byte]
      PROVE  t \in StoredColumns
  <2>1. [stored.statistics EXCEPT ![k] = byte] \in Seq(Bytes)
    BY <1>0
  <2>2. t = [stored EXCEPT !.statistics = [stored.statistics EXCEPT ![k] = byte]]
    BY <1>7
  <2> QED
    BY <2>1, <2>2 DEF StoredColumns
<1>8. ASSUME NEW s \in DOMAIN stored.streams, NEW new \in AlteredStream(stored.streams[s]),
             t = [stored EXCEPT !.streams[s] = new]
      PROVE  t \in StoredColumns
  <2>1. stored.streams[s] \in StreamRecords
    BY <1>0
  <2>2. new \in StreamRecords
    BY <2>1, AlteredStreamType
  <2>3. [stored.streams EXCEPT ![s] = new] \in Seq(StreamRecords)
    BY <1>0, <2>2
  <2>4. t = [stored EXCEPT !.streams = [stored.streams EXCEPT ![s] = new]]
    BY <1>8
  <2> QED
    BY <2>3, <2>4 DEF StoredColumns
<1> QED
  <2> DEFINE
        Layouts == { [stored EXCEPT !.layout = layout] : layout \in DOMAIN AllowedKinds }
        Flags == { [stored EXCEPT !.implicit = ~@] }
        Fewer == { [stored EXCEPT !.streams = RemoveAt(@, s)] : s \in DOMAIN stored.streams }
        Twice == { [stored EXCEPT !.streams = Append(@, @[s])] : s \in DOMAIN stored.streams }
        Bounds == { [stored EXCEPT !.statistics[k] = byte] : k \in DOMAIN stored.statistics, byte \in Bytes }
  <2>1. AlteredColumn = Layouts \cup AlteredCounts \cup Flags \cup Fewer \cup Twice \cup Bounds \cup AlteredStreams
    BY DEF AlteredColumn
  <2>2. t \in Layouts => t \in StoredColumns
    BY <1>1
  <2>3. t \in AlteredCounts => t \in StoredColumns
    BY <1>2, <1>3 DEF AlteredCounts
  <2>4. t \in Flags => t \in StoredColumns
    BY <1>4
  <2>5. t \in Fewer => t \in StoredColumns
    BY <1>5
  <2>6. t \in Twice => t \in StoredColumns
    BY <1>6
  <2>7. t \in Bounds => t \in StoredColumns
    BY <1>7
  <2>8. t \in AlteredStreams => t \in StoredColumns
    BY <1>8 DEF AlteredStreams
  <2> HIDE DEF Layouts, Flags, Fewer, Twice, Bounds
  <2> QED
    BY <2>1, <2>2, <2>3, <2>4, <2>5, <2>6, <2>7, <2>8

\* Without values there is nothing to choose between.
LEMMA NothingToChoose ==
    ASSUME NEW c, NEW bits \in Seq(BOOLEAN), Len(bits) < 2^(ByteBits * CountBytes),
           NEW vs, vs = <<>>, NEW v, NEW raw, raw = raw_column_candidate(c, bits, vs),
           NEW sel, sel = adaptive_column_candidate(c, bits, vs)
    PROVE  stored_column_cost(sel) = Min(Rivals(c, vs, v, stored_column_cost(raw)))
<1> DEFINE R == stored_column_cost(raw)
           w == raw_validity(bits)
<1>1. sel = raw
  BY DEF adaptive_column_candidate
<1>2. candidates(c, vs) = {}
  BY DEF candidates, is_valid
<1>3. Rivals(c, vs, v, R) = {R}
  BY <1>2 DEF Rivals
<1>4. R \in Nat
  <2> DEFINE e == [layout |-> "plain", streams |-> <<>>]
  <2>1. raw = WithValidity(w, e)
    BY DEF raw_column_candidate
  <2>2. raw.streams = w \o <<>>
    BY <2>1, WithValidityParts
  <2>3. ValidityStored(bits, w)
    BY ValidityIsStored
  <2> HIDE DEF w
  <2>4. w \o <<>> = w
    <3>1. CASE w = <<>>
      BY <3>1
    <3>2. CASE w # <<>>
      <4>1. PICK s \in StreamRecords : w = <<s>>
        BY <2>3, <3>2 DEF ValidityStored
      <4> QED
        BY <4>1
    <3> QED
      BY <3>1, <3>2
  <2>5. R = stored_column_cost([streams |-> w])
    BY <2>2, <2>4 DEF stored_column_cost
  <2> QED
    BY <2>3, <2>5, ValidityCost
<1> HIDE DEF R
<1>5. Min({R}) = R
  BY <1>4, LeastIs
<1> QED
  BY <1>1, <1>3, <1>5 DEF R

-----------------------------------------------------------------------------
(* The invariant, and what follows from it                                 *)

\* A column nobody altered is what the policy stores of the rows, any column is
\* one, and what was returned is what is decoded of it.
ColumnInv ==
    /\ ColumnRows /\ altered \in Nat /\ stored \in StoredColumns
    /\ phase \in {"stored", "read"} /\ altered = 0 =>
          /\ PolicyFits(column, Dense(rows), policy)
          /\ stored = encode_column(column, ValidBits(rows), Dense(rows), policy)
    /\ phase = "read" => result = decode_column(column, stored, Len(rows))

\* What the writer stores is a column, and is read as the rows.
LEMMA EncodedIsRead ==
    ASSUME NEW c, NEW rs, RowsFit(c, rs), NEW chosen, PolicyFits(c, Dense(rs), chosen),
           NEW st, st = encode_column(c, ValidBits(rs), Dense(rs), chosen)
    PROVE  st \in StoredColumns /\ decode_column(c, st, Len(rs)) = Decoded(rs)
<1> DEFINE bits == ValidBits(rs)
           vs == Dense(rs)
<1>1. PICK sel : Selects(c, bits, vs, sel) /\ st = EncodedColumn(c, bits, vs, sel)
  BY PolicySelects
<1> QED
  BY <1>1, StoredIsRead

LEMMA ColumnInvInit ==
    ASSUME ColumnInit
    PROVE  ColumnInv
<1>1. ColumnRows
  <2>1. column \in ColumnTypes /\ rows = <<>>
    BY DEF ColumnInit
  <2> QED
    BY <2>1, NoRowsFit
<1>2. stored = Nothing /\ altered = 0 /\ phase = "filling"
  BY DEF ColumnInit
<1>3. Nothing \in StoredColumns
  <2>1. "plain" \in DOMAIN AllowedKinds
    BY KindsOfLayout
  <2> QED
    BY <2>1 DEF Nothing, StoredColumns
<1> QED
  BY <1>1, <1>2, <1>3 DEF ColumnInv

LEMMA EncodeColumnInv ==
    ASSUME ColumnInv, EncodeColumn
    PROVE  ColumnInv'
<1> DEFINE vs == Dense(rows)
           bits == ValidBits(rows)
<1>1. ColumnRows /\ altered \in Nat /\ stored \in StoredColumns
  BY DEF ColumnInv
<1>2. column' = column /\ rows' = rows /\ altered' = altered /\ result' = result
  BY DEF EncodeColumn
<1>3. ColumnRows'
  BY <1>1, <1>2 DEF ColumnRows
<1>4. PICK chosen \in Policies :
         /\ chosen # "Adaptive" => chosen \in supported_candidates(column)
         /\ policy' = chosen
         /\ IF chosen # "Adaptive" /\ FixedRefuses(column, vs, chosen)
            THEN phase' = "refused" /\ UNCHANGED stored
            ELSE stored' = encode_column(column, bits, vs, chosen) /\ phase' = "stored"
  BY DEF EncodeColumn
<1> HIDE DEF vs, bits
<1>5. CASE chosen # "Adaptive" /\ FixedRefuses(column, vs, chosen)
  <2>1. phase' = "refused" /\ stored' = stored
    BY <1>4, <1>5
  <2> QED
    BY <1>1, <1>2, <1>3, <2>1 DEF ColumnInv
<1>6. CASE ~(chosen # "Adaptive" /\ FixedRefuses(column, vs, chosen))
  <2>1. stored' = encode_column(column, bits, vs, chosen) /\ phase' = "stored" /\ policy' = chosen
    BY <1>4, <1>6
  <2>2. PolicyFits(column, vs, chosen)
    BY <1>4, <1>6 DEF PolicyFits
  <2>3. stored' \in StoredColumns
    <3>1. RowsFit(column, rows)
      BY <1>1 DEF ColumnRows
    <3> QED
      BY <2>1, <2>2, <3>1, EncodedIsRead DEF vs, bits
  <2>4. PolicyFits(column', Dense(rows'), policy')
        /\ stored' = encode_column(column', ValidBits(rows'), Dense(rows'), policy')
    BY <1>2, <2>1, <2>2, Zenon DEF vs, bits
  <2> QED
    BY <1>1, <1>2, <1>3, <2>1, <2>3, <2>4 DEF ColumnInv
<1> QED
  BY <1>5, <1>6

LEMMA ColumnInvNext ==
    ASSUME ColumnInv, [ColumnNext]_columnVars
    PROVE  ColumnInv'
<1>1. CASE AppendRow
  <2>1. ColumnRows'
    BY <1>1, AppendRowFits DEF ColumnInv
  <2>2. phase' = "filling" /\ altered' = altered /\ stored' = stored
    BY <1>1 DEF AppendRow
  <2> QED
    BY <2>1, <2>2 DEF ColumnInv
<1>2. CASE EncodeColumn
  BY <1>2, EncodeColumnInv
<1>3. CASE Alter
  <2>1. /\ stored' \in AlteredColumn /\ altered' = altered + 1 /\ phase' = "stored"
        /\ column' = column /\ rows' = rows
    BY <1>3 DEF Alter
  <2>2. stored' \in StoredColumns
    BY <2>1, AlteredColumnType DEF ColumnInv
  <2>3. altered' \in Nat /\ altered' # 0
    BY <2>1 DEF ColumnInv
  <2>4. ColumnRows'
    BY <2>1 DEF ColumnInv, ColumnRows
  <2> QED
    BY <2>1, <2>2, <2>3, <2>4 DEF ColumnInv
<1>4. CASE DecodeColumn
  <2>1. /\ result' = decode_column(column, stored, Len(rows)) /\ phase = "stored"
        /\ UNCHANGED <<column, rows, policy, stored, altered>>
    BY <1>4 DEF DecodeColumn
  <2>2. ColumnRows'
    BY <2>1 DEF ColumnInv, ColumnRows
  <2> QED
    BY <2>1, <2>2 DEF ColumnInv
<1>5. CASE UNCHANGED columnVars
  BY <1>5 DEF columnVars, ColumnInv, ColumnRows
<1> QED
  BY <1>1, <1>2, <1>3, <1>4, <1>5 DEF ColumnNext

LEMMA ColumnInvHolds == ColumnSpec => []ColumnInv
<1>1. ColumnInit => ColumnInv
  BY ColumnInvInit
<1>2. ColumnInv /\ [ColumnNext]_columnVars => ColumnInv'
  BY ColumnInvNext
<1> QED
  BY <1>1, <1>2, PTL DEF ColumnSpec

\* The rows that were appended are the rows that are read, whatever the column's
\* type, the policy, the sizes of a byte, a word and a count, and the limits of
\* the dictionary and of the choice (encode_column against BlockDecoder::column).
THEOREM RowsSurviveEncodingHolds == ColumnSpec => []RowsSurviveEncoding
<1>1. ColumnInv => RowsSurviveEncoding
  <2> SUFFICES ASSUME ColumnInv, phase = "read", altered = 0 PROVE result = Decoded(rows)
    BY DEF RowsSurviveEncoding
  <2>1. /\ RowsFit(column, rows) /\ PolicyFits(column, Dense(rows), policy)
        /\ stored = encode_column(column, ValidBits(rows), Dense(rows), policy)
        /\ result = decode_column(column, stored, Len(rows))
    BY DEF ColumnInv, ColumnRows
  <2>2. decode_column(column, stored, Len(rows)) = Decoded(rows)
    BY ONLY <2>1, EncodedIsRead
  <2> QED
    BY <2>1, <2>2
<1> QED
  BY <1>1, ColumnInvHolds, PTL

\* The adaptive policy stores the cheapest of raw and all the candidates that beat
\* it by the margin, whatever the sizes of a stream's descriptor and alignment, of
\* the margin and of the dictionary's limits (adaptive_column_candidate).
THEOREM AdaptiveIsCheapestHolds == ColumnSpec => []AdaptiveIsCheapest
<1>1. ColumnInv => AdaptiveIsCheapest
  <2> SUFFICES ASSUME ColumnInv, phase = "stored", policy = "Adaptive", altered = 0
               PROVE  LET values == Dense(rows)
                          validity_streams == plan_validity(ValidBits(rows))
                          raw_cost == stored_column_cost(
                                        raw_column_candidate(column, ValidBits(rows), values))
                          costs == { stored_column_cost(WithValidity(validity_streams,
                                                                     encode(column, values, encoding))) :
                                       encoding \in candidates(column, values) }
                      IN  stored_column_cost(stored)
                            = Min({raw_cost} \cup {cost \in costs : cost + Margin(raw_cost) <= raw_cost})
    BY DEF AdaptiveIsCheapest
  <2> DEFINE vs == Dense(rows)
             bits == ValidBits(rows)
             v == plan_validity(bits)
             raw == raw_column_candidate(column, bits, vs)
             sel == adaptive_column_candidate(column, bits, vs)
             R == stored_column_cost(raw)
  <2>1. /\ RowsFit(column, rows) /\ stored = encode_column(column, bits, vs, "Adaptive")
    BY DEF ColumnInv, ColumnRows
  <2>2. stored_column_cost(stored) = stored_column_cost(sel)
    <3>1. stored = EncodedColumn(column, bits, vs, sel)
      BY <2>1, Zenon DEF encode_column
    <3> HIDE DEF sel
    <3>2. stored.streams = sel.streams
      BY <3>1 DEF EncodedColumn
    <3> QED
      BY <3>2 DEF stored_column_cost
  <2>3. stored_column_cost(sel) = Min(Rivals(column, vs, v, R))
    <3>1. /\ bits \in Seq(BOOLEAN) /\ Len(bits) < 2^(ByteBits * CountBytes)
          /\ vs = <<>> \/ Sized(column, vs)
      BY <2>1, RowsSized
    <3>2. CASE vs = <<>>
      BY <3>1, <3>2, NothingToChoose
    <3>3. CASE vs # <<>>
      <4>1. Sized(column, vs)
        BY <3>1, <3>3
      <4> QED
        BY <3>1, <4>1, AdaptiveCheapest
    <3> QED
      BY <3>2, <3>3
  <2> QED
    BY <2>2, <2>3 DEF Rivals, BuiltCost
<1> QED
  BY <1>1, ColumnInvHolds, PTL

\* What a reader accepts of any writer's column is of the column's type, has a row
\* for every row and the nulls that were declared, and lies within its statistics
\* (BlockDecoder::column).
THEOREM AcceptedColumnIsSoundHolds == ColumnSpec => []AcceptedColumnIsSound
<1>1. ColumnInv => AcceptedColumnIsSound
  <2> SUFFICES ASSUME ColumnInv, phase = "read", result.ok PROVE AcceptedColumnIsSound
    BY DEF AcceptedColumnIsSound
  <2> DEFINE n == Len(rows)
             w == statistic_width(column)
             out == result.values
  <2>1. /\ IsColumn(column) /\ stored \in StoredColumns /\ n \in Nat
        /\ decode_column(column, stored, n).ok /\ out = decode_column(column, stored, n).values
    <3>1. RowsFit(column, rows)
      BY DEF ColumnInv, ColumnRows
    <3>2. n \in Nat /\ IsColumn(column)
      BY <3>1, DenseRows DEF RowsFit
    <3> QED
      BY <3>2 DEF ColumnInv
  <2> HIDE DEF n, out
  <2>2. /\ Len(out) = n /\ Len(Dense(out)) = n - stored.null_count
        /\ \A k \in DOMAIN Dense(out) : IsValueOf(column, Dense(out)[k])
        /\ stored.statistics # <<>> =>
             \A k \in DOMAIN Dense(out) :
                \/ IsNaN(column, Dense(out)[k])
                \/ /\ StatisticOf(column, SubSeq(stored.statistics, 1, w))
                        <= StatisticKey(column, Dense(out)[k])
                   /\ StatisticKey(column, Dense(out)[k])
                        <= StatisticOf(column, SubSeq(stored.statistics, w + 1, 2 * w))
    BY <2>1, AcceptedColumn
  <2>3. w \in Nat
    BY <2>1 DEF statistic_width, IsColumn
  <2>4. 0 + 1 = 1 /\ 0 + w = w /\ w + w = 2 * w
    BY <2>3
  <2> QED
    BY <2>2, <2>4 DEF AcceptedColumnIsSound, StatisticOf, n, out
<1> QED
  BY <1>1, ColumnInvHolds, PTL
=============================================================================
