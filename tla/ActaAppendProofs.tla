-------------------------- MODULE ActaAppendProofs --------------------------
(***************************************************************************)
(* What a block costs, and what a Writer makes of the batches it is given, *)
(* for every schema, every choice of targets and every sequence of calls.  *)
(***************************************************************************)
EXTENDS ActaAppend, ActaFoldProofs

-----------------------------------------------------------------------------
(* Bounded sequences and arithmetic                                        *)

LEMMA SeqOfIs ==
    ASSUME NEW S, NEW n \in Nat, NEW s
    PROVE  s \in SeqOf(S, n) <=> s \in Seq(S) /\ Len(s) <= n
<1>1. ASSUME s \in SeqOf(S, n) PROVE s \in Seq(S) /\ Len(s) <= n
  <2>1. PICK m \in 0..n : s \in [1..m -> S]
    BY <1>1 DEF SeqOf
  <2> QED
    BY <2>1
<1>2. ASSUME s \in Seq(S), Len(s) <= n PROVE s \in SeqOf(S, n)
  <2>1. Len(s) \in 0..n /\ s \in [1..Len(s) -> S]
    BY <1>2
  <2> QED
    BY <2>1 DEF SeqOf
<1> QED
  BY <1>1, <1>2

LEMMA ColumnsFinite ==
    /\ IsFiniteSet(Columns) /\ Columns = 1..Len(Schema) /\ Len(Schema) \in Nat
    /\ \A c \in Columns : Schema[c] \in [kind : Kinds, width : Nat, primary : BOOLEAN]
<1>1. Columns = 1..Len(Schema) /\ Len(Schema) \in Nat
  BY SchemaAssumption DEF Columns
<1>2. IsFiniteSet(1..Len(Schema))
  BY <1>1, FS_Interval
<1>3. \A c \in 1..Len(Schema) : Schema[c] \in [kind : Kinds, width : Nat, primary : BOOLEAN]
  <2> DEFINE R == [kind : Kinds, width : Nat, primary : BOOLEAN]
  <2>1. Schema \in Seq(R)
    BY SchemaAssumption
  <2> HIDE DEF R
  <2>2. \A c \in 1..Len(Schema) : Schema[c] \in R
    BY <2>1
  <2> QED
    BY <2>2 DEF R
<1> QED
  BY <1>1, <1>2, <1>3

LEMMA RowsFinite ==
    ASSUME NEW rows \in Seq(Rows)
    PROVE  /\ IsFiniteSet(DOMAIN rows) /\ Cardinality(DOMAIN rows) = Len(rows)
           /\ \A c \in Columns : \A k \in DOMAIN rows : rows[k][c] \in Cell
<1>1. DOMAIN rows = 1..Len(rows) /\ Len(rows) \in Nat
  OBVIOUS
<1>2. IsFiniteSet(1..Len(rows)) /\ Cardinality(1..Len(rows)) = Len(rows)
  BY <1>1, FS_Interval
<1>3. \A k \in DOMAIN rows : rows[k] \in Rows
  BY <1>1
<1> QED
  BY <1>1, <1>2, <1>3, RowsAssumption

LEMMA BitmapBytes ==
    ASSUME NEW m \in Nat, NEW n \in Nat, m <= n
    PROVE  /\ bitmap_bytes(m) \in Nat /\ bitmap_bytes(n) \in Nat
           /\ bitmap_bytes(m) <= bitmap_bytes(n)
  BY DEF bitmap_bytes

LEMMA AlignedMonotone ==
    ASSUME NEW m \in Nat, NEW n \in Nat, m <= n
    PROVE  Aligned(m) \in Nat /\ Aligned(n) \in Nat /\ Aligned(m) <= Aligned(n)
  BY DEF Aligned, FRAME_ALIGNMENT

LEMMA StreamPayloadType ==
    ASSUME NEW n \in Nat
    PROVE  stream_payload_bytes(n) \in Nat
  BY AlignedMonotone DEF stream_payload_bytes, FRAME_ALIGNMENT

LEMMA TimesMonotone ==
    ASSUME NEW w \in Nat, NEW m \in Nat, NEW n \in Nat, m <= n
    PROVE  m * w \in Nat /\ w * n \in Nat /\ m * w <= w * n
<1>1. PICK d \in Nat : n = m + d
  BY n - m \in Nat, n = m + (n - m)
<1>2. w * n = m * w + w * d /\ w * d \in Nat /\ m * w \in Nat /\ w * n \in Nat
  BY <1>1
<1> QED
  BY <1>2

-----------------------------------------------------------------------------
(* The price of a block                                                    *)

LEMMA FootprintType ==
    ASSUME NEW c \in Columns, NEW rows \in Seq(Rows)
    PROVE  /\ IsFiniteSet(ValidRows(c, rows)) /\ Cardinality(ValidRows(c, rows)) \in Nat
           /\ Cardinality(ValidRows(c, rows)) <= Len(rows) /\ Len(rows) \in Nat
           /\ Footprint(c, rows).dense_count = Cardinality(ValidRows(c, rows))
           /\ Footprint(c, rows).null_count = Len(rows) - Cardinality(ValidRows(c, rows))
           /\ Footprint(c, rows).variable_bytes =
                SumFunction([k \in ValidRows(c, rows) |-> rows[k][c].bytes])
           /\ Footprint(c, rows).variable_bytes \in Nat
<1>1. /\ IsFiniteSet(DOMAIN rows) /\ Cardinality(DOMAIN rows) = Len(rows)
      /\ \A k \in DOMAIN rows : rows[k][c] \in Cell
  BY RowsFinite
<1> DEFINE dense == ValidRows(c, rows)
           bytes == [k \in dense |-> rows[k][c].bytes]
<1>2. dense \subseteq DOMAIN rows
  BY DEF ValidRows
<1>3. IsFiniteSet(dense) /\ Cardinality(dense) <= Len(rows) /\ Cardinality(dense) \in Nat
  BY <1>1, <1>2, FS_Subset, FS_CardinalityType
<1>4. \A k \in DOMAIN bytes : bytes[k] \in Nat
  BY <1>1, <1>2 DEF Cell
<1>5. SumFunction(bytes) \in Nat
  <2> HIDE DEF bytes
  <2>1. DOMAIN bytes = dense
    BY DEF bytes
  <2> QED
    BY <1>3, <1>4, <2>1, SumType
<1>6. Footprint(c, rows) = [ dense_count |-> Cardinality(dense),
                             null_count |-> Len(rows) - Cardinality(dense),
                             variable_bytes |-> SumFunction(bytes) ]
  BY DEF Footprint, ValidRows
<1> HIDE DEF dense, bytes
<1>7. /\ Footprint(c, rows).dense_count = Cardinality(dense)
      /\ Footprint(c, rows).null_count = Len(rows) - Cardinality(dense)
      /\ Footprint(c, rows).variable_bytes = SumFunction(bytes)
  BY <1>6
<1> QED
  BY <1>3, <1>5, <1>7 DEF dense, bytes

LEMMA ValuesBytesType ==
    ASSUME NEW c \in Columns, NEW rows \in Seq(Rows)
    PROVE  values_bytes(c, Footprint(c, rows)) \in Nat
<1> DEFINE f == Footprint(c, rows)
<1>1. f.dense_count \in Nat /\ f.variable_bytes \in Nat
  BY FootprintType
<1>2. Schema[c].kind \in Kinds /\ Schema[c].width \in Nat
  BY ColumnsFinite
<1> HIDE DEF f
<1>3. bitmap_bytes(f.dense_count) \in Nat /\ Schema[c].width * f.dense_count \in Nat
  <2>1. f.dense_count <= f.dense_count
    BY <1>1
  <2>2. bitmap_bytes(f.dense_count) \in Nat
    BY <1>1, <2>1, BitmapBytes
  <2>3. \A i, j \in Nat : i * j \in Nat
    OBVIOUS
  <2> QED
    BY <1>1, <1>2, <2>2, <2>3
<1>4. values_bytes(c, f) \in Nat
  BY <1>1, <1>2, <1>3 DEF values_bytes, Kinds
<1> QED
  BY <1>4 DEF f

LEMMA StreamPricesType ==
    ASSUME NEW c \in Columns, NEW rows \in Seq(Rows)
    PROVE  StreamPrices(c, Footprint(c, rows), Len(rows)) \in Seq(Nat)
<1> DEFINE f == Footprint(c, rows)
           v == values_bytes(c, f)
           b == bitmap_bytes(Len(rows))
<1>1. f.dense_count \in Nat /\ v \in Nat
  BY FootprintType, ValuesBytesType
<1>2. b \in Nat
  BY BitmapBytes
<1>3. LENGTH_ENTRY_BYTES * f.dense_count \in Nat
  BY <1>1 DEF LENGTH_ENTRY_BYTES
<1>4. StreamPrices(c, f, Len(rows)) \in Seq(Nat)
  <2> HIDE DEF f, v, b
  <2>1. /\ <<>> \in Seq(Nat) /\ <<b>> \in Seq(Nat) /\ <<v>> \in Seq(Nat)
        /\ <<v, LENGTH_ENTRY_BYTES * f.dense_count>> \in Seq(Nat)
    BY <1>1, <1>2, <1>3
  <2>2. \A p, q \in Seq(Nat) : p \o q \in Seq(Nat)
    OBVIOUS
  <2> DEFINE p == IF f.null_count = 0 \/ f.dense_count = 0 THEN <<>> ELSE <<b>>
             q == IF f.dense_count = 0 THEN <<>>
                  ELSE IF Schema[c].kind = "variable"
                  THEN <<v, LENGTH_ENTRY_BYTES * f.dense_count>> ELSE <<v>>
  <2>3. p \in Seq(Nat) /\ q \in Seq(Nat)
    BY <2>1
  <2>4. StreamPrices(c, f, Len(rows)) = p \o q
    BY DEF StreamPrices, v, b
  <2> HIDE DEF p, q
  <2> QED
    BY <2>2, <2>3, <2>4
<1> QED
  BY <1>4 DEF f

LEMMA StatisticsBytesType ==
    ASSUME NEW S \in SUBSET Columns
    PROVE  /\ StatisticsBytes(S) \in Nat
           /\ \A T \in SUBSET S : StatisticsBytes(T) <= StatisticsBytes(S)
<1> DEFINE f == [c \in Columns |-> 2 * statistics_width(c)]
           r(T) == [c \in T |-> 2 * statistics_width(c)]
<1>1. \A c \in Columns : f[c] \in Nat
  BY ColumnsFinite DEF statistics_width
<1>2. IsFiniteSet(S) /\ \A x \in S : f[x] \in Nat
  BY <1>1, ColumnsFinite, FS_Subset
<1>3. ASSUME NEW T \in SUBSET S PROVE StatisticsBytes(T) = SumOver(f, T)
  <2>1. IsFiniteSet(T)
    BY <1>2, FS_Subset
  <2>2. \A x \in T : r(T)[x] = f[x]
    OBVIOUS
  <2>3. DOMAIN r(T) = T
    OBVIOUS
  <2>4. StatisticsBytes(T) = SumFunction(r(T))
    BY DEF StatisticsBytes
  <2> HIDE DEF r, f
  <2>5. SumOver(r(T), T) = SumOver(f, T)
    BY <2>1, <2>2, SumAgree
  <2> QED
    BY <2>3, <2>4, <2>5, SumFunctionIsSum
<1> HIDE DEF f
<1>4. SumOver(f, S) \in Nat /\ \A T \in SUBSET S : SumOver(f, T) <= SumOver(f, S)
  BY <1>2, SumRemove, SumSubset
<1> QED
  BY <1>3, <1>4

\* A geometry grows with its statistics only in the header.
LEMMA GeometryType ==
    ASSUME NEW streams \in [Columns -> Seq(Nat)], NEW m \in Nat, NEW n \in Nat, m <= n
    PROVE  /\ Geometry(streams, n) \in [header_bytes : Nat, payload_bytes : Nat, frame_bytes : Nat]
           /\ Geometry(streams, m).payload_bytes = Geometry(streams, n).payload_bytes
           /\ Geometry(streams, m).header_bytes <= Geometry(streams, n).header_bytes
<1> DEFINE bytes(c) == [s \in DOMAIN streams[c] |-> stream_payload_bytes(streams[c][s])]
           stored == [c \in Columns |-> SumFunction(bytes(c))]
           counts == [c \in Columns |-> Len(streams[c])]
           count == SumFunction(counts)
           payload == SumFunction(stored)
           header(k) == DATA_BLOCK_HEADER_SIZE
                          + Len(Schema) * BLOCK_COLUMN_DESCRIPTOR_SIZE
                          + count * BLOCK_STREAM_DESCRIPTOR_SIZE
                          + Aligned(k)
<1>1. ASSUME NEW c \in Columns PROVE SumFunction(bytes(c)) \in Nat
  <2>1. streams[c] \in Seq(Nat) /\ DOMAIN streams[c] = 1..Len(streams[c]) /\ Len(streams[c]) \in Nat
    OBVIOUS
  <2>2. IsFiniteSet(DOMAIN bytes(c))
    BY <2>1, FS_Interval
  <2>3. \A s \in DOMAIN bytes(c) : bytes(c)[s] \in Nat
    BY <2>1, StreamPayloadType
  <2> HIDE DEF bytes
  <2> QED
    BY <2>2, <2>3, SumType
<1>2. count \in Nat
  <2>1. DOMAIN counts = Columns /\ \A c \in Columns : counts[c] \in Nat
    OBVIOUS
  <2> HIDE DEF counts
  <2> QED
    BY <2>1, SumType, ColumnsFinite
<1>3. payload \in Nat
  <2>1. DOMAIN stored = Columns /\ \A c \in Columns : stored[c] \in Nat
    BY <1>1
  <2> HIDE DEF stored
  <2> QED
    BY <2>1, SumType, ColumnsFinite
<1>4. \A k : Geometry(streams, k) =
               [ header_bytes |-> header(k), payload_bytes |-> payload,
                 frame_bytes |-> PREFIX_SIZE + header(k) + payload + TRAILER_SIZE ]
  BY DEF Geometry
<1> HIDE DEF count, payload
<1>5. header(m) \in Nat /\ header(n) \in Nat /\ header(m) <= header(n)
  <2>1. Aligned(m) \in Nat /\ Aligned(n) \in Nat /\ Aligned(m) <= Aligned(n)
    BY AlignedMonotone
  <2>2. Len(Schema) * 32 \in Nat /\ count * 48 \in Nat
    BY <1>2, ColumnsFinite
  <2> QED
    BY <2>1, <2>2
     DEF DATA_BLOCK_HEADER_SIZE, BLOCK_COLUMN_DESCRIPTOR_SIZE, BLOCK_STREAM_DESCRIPTOR_SIZE
<1> HIDE DEF header
<1>6. PREFIX_SIZE + header(n) + payload + TRAILER_SIZE \in Nat
  BY <1>3, <1>5 DEF PREFIX_SIZE, TRAILER_SIZE
<1>7. /\ Geometry(streams, m).payload_bytes = payload
      /\ Geometry(streams, m).header_bytes = header(m)
      /\ Geometry(streams, n).payload_bytes = payload
      /\ Geometry(streams, n).header_bytes = header(n)
  BY <1>4
<1> QED
  BY <1>3, <1>4, <1>5, <1>6, <1>7

PriceStreams(rows) == [c \in Columns |-> StreamPrices(c, Footprint(c, rows), Len(rows))]

Reserved(rows) == {c \in Columns : should_reserve_statistics(c, Footprint(c, rows))}

LEMMA SizeType ==
    ASSUME NEW rows \in Seq(Rows)
    PROVE  /\ block_size_with_statistics(rows) =
                Geometry(PriceStreams(rows), StatisticsBytes(Reserved(rows)))
           /\ PriceStreams(rows) \in [Columns -> Seq(Nat)]
           /\ StatisticsBytes(Reserved(rows)) \in Nat
           /\ block_size_with_statistics(rows) \in
                [header_bytes : Nat, payload_bytes : Nat, frame_bytes : Nat]
<1>1. block_size_with_statistics(rows) =
        Geometry(PriceStreams(rows), StatisticsBytes(Reserved(rows)))
  <2> DEFINE fs == [c \in Columns |-> Footprint(c, rows)]
  <2>1. \A c \in Columns : fs[c] = Footprint(c, rows)
    OBVIOUS
  <2> HIDE DEF fs
  <2>2. PriceStreams(rows) = [c \in Columns |-> StreamPrices(c, fs[c], Len(rows))]
    BY <2>1 DEF PriceStreams
  <2>3. Reserved(rows) = {c \in Columns : should_reserve_statistics(c, fs[c])}
    BY <2>1 DEF Reserved
  <2>4. block_size_with_statistics(rows) =
          Geometry([c \in Columns |-> StreamPrices(c, fs[c], Len(rows))],
                   StatisticsBytes({c \in Columns : should_reserve_statistics(c, fs[c])}))
    BY DEF block_size_with_statistics, fs
  <2> QED
    BY <2>2, <2>3, <2>4
<1>2. PriceStreams(rows) \in [Columns -> Seq(Nat)]
  BY StreamPricesType DEF PriceStreams
<1>3. Reserved(rows) \in SUBSET Columns
  BY DEF Reserved
<1>4. StatisticsBytes(Reserved(rows)) \in Nat
  BY <1>3, StatisticsBytesType
<1>5. StatisticsBytes(Reserved(rows)) <= StatisticsBytes(Reserved(rows))
  BY <1>4
<1> HIDE DEF PriceStreams, Reserved
<1>6. Geometry(PriceStreams(rows), StatisticsBytes(Reserved(rows))) \in
        [header_bytes : Nat, payload_bytes : Nat, frame_bytes : Nat]
  BY <1>2, <1>4, <1>5, GeometryType
<1> QED
  BY <1>1, <1>2, <1>4, <1>6

\* The tables hold what they are tables of.
LEMMA Tables ==
    ASSUME NEW rows \in Seq(Rows), Len(rows) <= RowTarget
    PROVE  /\ Price[rows] = block_size_with_statistics(rows)
           /\ Built[rows] = BuiltFrame(rows)
           /\ FrameBytes(rows) \in Nat
<1>1. RowTarget \in Nat
  BY OptionsAssumption, BlockLimitsAssumption
<1>2. rows \in SeqOf(Rows, RowTarget)
  BY <1>1, SeqOfIs
<1>3. Price[rows] = block_size_with_statistics(rows) /\ Built[rows] = BuiltFrame(rows)
  BY <1>2 DEF Price, Built, Table
<1>4. block_size_with_statistics(rows).frame_bytes \in Nat
  BY SizeType
<1> QED
  BY <1>3, <1>4 DEF FrameBytes

-----------------------------------------------------------------------------
(* The frame that is built                                                 *)

\* Counting and encoding give a column the same values stream.
LEMMA ValuesAgree ==
    ASSUME NEW c \in Columns, NEW rows \in Seq(Rows)
    PROVE  /\ EncodedValues(c, rows) = values_bytes(c, Footprint(c, rows))
           /\ SumFunction([k \in ValidRows(c, rows) |-> LENGTH_ENTRY_BYTES]) =
                LENGTH_ENTRY_BYTES * Footprint(c, rows).dense_count
<1> DEFINE valid == ValidRows(c, rows)
           f == Footprint(c, rows)
           bytes == [k \in valid |-> rows[k][c].bytes]
           same(w) == [k \in valid |-> w]
<1>1. /\ IsFiniteSet(valid) /\ Cardinality(valid) \in Nat
      /\ f.dense_count = Cardinality(valid)
      /\ f.variable_bytes = SumFunction(bytes)
  BY FootprintType
<1>2. ASSUME NEW w \in Nat PROVE SumFunction(same(w)) = w * Cardinality(valid)
  <2>1. DOMAIN same(w) = valid /\ \A k \in valid : same(w)[k] = w
    OBVIOUS
  <2> HIDE DEF same, valid
  <2>2. SumOver(same(w), valid) = w * Cardinality(valid)
    BY <1>1, <2>1, SumConstant
  <2> QED
    BY <2>1, <2>2, SumFunctionIsSum
<1>3. Schema[c].kind \in Kinds /\ Schema[c].width \in Nat
  BY ColumnsFinite
<1>4. SumFunction(same(LENGTH_ENTRY_BYTES)) = LENGTH_ENTRY_BYTES * f.dense_count
  <2>1. LENGTH_ENTRY_BYTES \in Nat
    BY DEF LENGTH_ENTRY_BYTES
  <2> HIDE DEF same, f, valid
  <2> QED
    BY <1>1, <1>2, <2>1
<1>5. EncodedValues(c, rows) = values_bytes(c, f)
  <2>1. CASE Schema[c].kind = "bool"
    BY <1>1, <2>1 DEF EncodedValues, values_bytes
  <2>2. CASE Schema[c].kind = "variable"
    <3>1. EncodedValues(c, rows) = SumFunction(bytes)
      BY <2>2 DEF EncodedValues
    <3>2. values_bytes(c, f) = f.variable_bytes
      BY <2>2 DEF values_bytes
    <3> QED
      BY <1>1, <3>1, <3>2
  <2>3. CASE Schema[c].kind = "fixed"
    <3>1. EncodedValues(c, rows) = SumFunction(same(Schema[c].width))
      BY <2>3 DEF EncodedValues
    <3>2. values_bytes(c, f) = Schema[c].width * f.dense_count
      BY <2>3 DEF values_bytes
    <3>3. SumFunction(same(Schema[c].width)) = Schema[c].width * Cardinality(valid)
      BY <1>2, <1>3
    <3> QED
      BY <1>1, <3>1, <3>2, <3>3
  <2> QED
    BY <1>3, <2>1, <2>2, <2>3 DEF Kinds
<1> QED
  BY <1>4, <1>5

LEMMA PairJoined ==
    ASSUME NEW x, NEW y
    PROVE  <<x>> \o <<y>> = <<x, y>> /\ <<x>> \o <<>> = <<x>> /\ <<>> \o <<>> = <<>>
<1> DEFINE S == {x, y}
<1>1. /\ <<x>> \in Seq(S) /\ <<y>> \in Seq(S) /\ <<x, y>> \in Seq(S) /\ <<>> \in Seq(S)
      /\ Len(<<x>>) = 1 /\ Len(<<y>>) = 1 /\ Len(<<x, y>>) = 2
      /\ <<x>>[1] = x /\ <<y>>[1] = y /\ <<x, y>>[1] = x /\ <<x, y>>[2] = y
  OBVIOUS
<1>2. <<x>> \o <<>> = <<x>> /\ <<>> \o <<>> = <<>>
  BY <1>1, ConcatEmptySeq
<1>3. <<x>> \o <<y>> \in Seq(S) /\ Len(<<x>> \o <<y>>) = 2
  BY <1>1, ConcatProperties
<1>4. \A i \in 1..2 : (<<x>> \o <<y>>)[i] = <<x, y>>[i]
  BY <1>1, ConcatProperties
<1> QED
  BY <1>1, <1>2, <1>3, <1>4, SeqEqual

\* Every column is stored in the streams that were priced for it.
LEMMA StreamsAgree ==
    ASSUME NEW c \in Columns, NEW rows \in Seq(Rows)
    PROVE  EncodedStreams(c, rows) = StreamPrices(c, Footprint(c, rows), Len(rows))
<1> DEFINE valid == ValidRows(c, rows)
           f == Footprint(c, rows)
           v == values_bytes(c, f)
           l == LENGTH_ENTRY_BYTES * f.dense_count
           b == bitmap_bytes(Len(rows))
<1>1. /\ IsFiniteSet(valid) /\ Cardinality(valid) \in Nat /\ Len(rows) \in Nat
      /\ f.dense_count = Cardinality(valid) /\ f.null_count = Len(rows) - Cardinality(valid)
  BY FootprintType
<1>2. valid = {} <=> f.dense_count = 0
  BY <1>1, FS_EmptySet
<1>3. valid = DOMAIN rows <=> f.null_count = 0
  <2>1. IsFiniteSet(DOMAIN rows) /\ Cardinality(DOMAIN rows) = Len(rows)
    BY RowsFinite
  <2>2. valid \in SUBSET DOMAIN rows
    BY DEF ValidRows
  <2>3. valid = DOMAIN rows <=> Cardinality(valid) = Len(rows)
    BY <2>1, <2>2, FS_Subset
  <2> HIDE DEF valid, f
  <2> QED
    BY <1>1, <2>3
<1>4. EncodedValues(c, rows) = v /\ SumFunction([k \in valid |-> LENGTH_ENTRY_BYTES]) = l
  BY ValuesAgree
<1> DEFINE p == IF f.null_count = 0 \/ f.dense_count = 0 THEN <<>> ELSE <<b>>
           q == IF f.dense_count = 0 THEN <<>> ELSE <<v>>
           r == IF f.dense_count = 0 \/ Schema[c].kind # "variable" THEN <<>> ELSE <<l>>
           t == IF f.dense_count = 0 THEN <<>>
                ELSE IF Schema[c].kind = "variable" THEN <<v, l>> ELSE <<v>>
<1>5. EncodedStreams(c, rows) = p \o q \o r
  <2> DEFINE e == SumFunction([k \in valid |-> LENGTH_ENTRY_BYTES])
  <2>1. EncodedStreams(c, rows) =
          (IF valid = DOMAIN rows \/ valid = {} THEN <<>> ELSE <<b>>)
          \o (IF valid = {} THEN <<>> ELSE <<EncodedValues(c, rows)>>)
          \o (IF valid = {} \/ Schema[c].kind # "variable" THEN <<>> ELSE <<e>>)
    BY DEF EncodedStreams
  <2>2. e = l
    BY <1>4
  <2> HIDE DEF valid, f, v, l, b, e
  <2> QED
    BY <1>2, <1>3, <1>4, <2>1, <2>2
<1>6. StreamPrices(c, f, Len(rows)) = p \o t
  BY DEF StreamPrices
<1>7. p \o q \o r = p \o t
  <2> HIDE DEF f, v, l, b
  <2>1. <<v>> \o <<l>> = <<v, l>> /\ <<v>> \o <<>> = <<v>> /\ <<>> \o <<>> = <<>>
    BY PairJoined
  <2>2. q \o r = t
    BY <2>1
  <2>3. p \in Seq({b, v, l}) /\ q \in Seq({b, v, l}) /\ r \in Seq({b, v, l})
    <3>1. /\ <<>> \in Seq({b, v, l}) /\ <<b>> \in Seq({b, v, l})
          /\ <<v>> \in Seq({b, v, l}) /\ <<l>> \in Seq({b, v, l})
      OBVIOUS
    <3> QED
      BY <3>1
  <2> HIDE DEF p, q, r, t
  <2>4. (p \o q) \o r = p \o (q \o r)
    BY <2>3, ConcatAssociative
  <2> QED
    BY <2>2, <2>4
<1> HIDE DEF p, q, r, t
<1> QED
  BY <1>5, <1>6, <1>7

\* A column that gets a pair had room reserved for it.
LEMMA StatisticsReserved ==
    ASSUME NEW c \in Columns, NEW rows \in Seq(Rows), HasStatistics(c, rows)
    PROVE  should_reserve_statistics(c, Footprint(c, rows))
<1> DEFINE valid == ValidRows(c, rows)
           counted == {k \in valid : ~rows[k][c].nan}
           n == Cardinality(counted)
           f == Footprint(c, rows)
           w == statistics_width(c)
           bytes == IF Schema[c].kind = "bool" THEN bitmap_bytes(n) ELSE n * w
<1>1. IsFiniteSet(valid) /\ f.dense_count = Cardinality(valid) /\ f.dense_count \in Nat
  BY FootprintType
<1>2. n \in Nat /\ n <= f.dense_count
  BY <1>1, FS_Subset, FS_CardinalityType
<1>3. /\ w # 0 /\ n # 0
      /\ \/ Statistics = "MinMax"
         \/ /\ Statistics = "Automatic" /\ ~Schema[c].primary
            /\ n >= AUTOMATIC_MIN_DENSE_VALUES
            /\ w * 2 * AUTOMATIC_VALUE_TO_STATISTICS_RATIO <= bytes
  BY DEF HasStatistics
<1>4. Schema[c].kind \in Kinds /\ Schema[c].width \in Nat
  BY ColumnsFinite
<1>5. w \in Nat /\ w = Schema[c].width /\ Schema[c].kind \in {"bool", "fixed"}
  BY <1>3, <1>4 DEF statistics_width, Kinds
<1> HIDE DEF n, f, w
<1>6. bytes \in Nat /\ values_bytes(c, f) \in Nat /\ bytes <= values_bytes(c, f)
  <2>1. CASE Schema[c].kind = "bool"
    <3>1. bytes = bitmap_bytes(n) /\ values_bytes(c, f) = bitmap_bytes(f.dense_count)
      BY <2>1 DEF values_bytes
    <3> QED
      BY <1>1, <1>2, <3>1, BitmapBytes
  <2>2. CASE Schema[c].kind = "fixed"
    <3>1. bytes = n * w /\ values_bytes(c, f) = w * f.dense_count
      BY <1>5, <2>2 DEF values_bytes
    <3> QED
      BY <1>1, <1>2, <1>5, <3>1, TimesMonotone
  <2> QED
    BY <1>5, <2>1, <2>2
<1> HIDE DEF bytes
<1>7. /\ AUTOMATIC_MIN_DENSE_VALUES \in Nat
      /\ w * 2 * AUTOMATIC_VALUE_TO_STATISTICS_RATIO \in Nat
  BY <1>5, StatisticsAssumption
<1>8. f.dense_count # 0 /\ (n >= AUTOMATIC_MIN_DENSE_VALUES => f.dense_count >= AUTOMATIC_MIN_DENSE_VALUES)
  BY <1>1, <1>2, <1>3, <1>7
<1>9. w * 2 * AUTOMATIC_VALUE_TO_STATISTICS_RATIO <= bytes =>
        w * 2 * AUTOMATIC_VALUE_TO_STATISTICS_RATIO <= values_bytes(c, f)
  BY <1>6, <1>7
<1>10. should_reserve_statistics(c, f)
  BY <1>3, <1>8, <1>9 DEF should_reserve_statistics, w
<1> QED
  BY <1>10 DEF f

\* The frame of a block is never larger than its price, and its payload is
\* exactly what was priced.
LEMMA FrameWithinPrice ==
    ASSUME NEW rows \in Seq(Rows)
    PROVE  /\ BuiltFrame(rows).payload_bytes = block_size_with_statistics(rows).payload_bytes
           /\ BuiltFrame(rows).header_bytes <= block_size_with_statistics(rows).header_bytes
           /\ BuiltFrame(rows) \in [header_bytes : Nat, payload_bytes : Nat, frame_bytes : Nat]
<1> DEFINE paired == {c \in Columns : HasStatistics(c, rows)}
           m == StatisticsBytes(paired)
           n == StatisticsBytes(Reserved(rows))
<1>1. [c \in Columns |-> EncodedStreams(c, rows)] = PriceStreams(rows)
  BY StreamsAgree DEF PriceStreams
<1>2. BuiltFrame(rows) = Geometry(PriceStreams(rows), m)
  BY <1>1 DEF BuiltFrame
<1>3. paired \in SUBSET Reserved(rows) /\ Reserved(rows) \in SUBSET Columns
  BY StatisticsReserved DEF Reserved
<1>4. m \in Nat /\ n \in Nat /\ m <= n
  <2> HIDE DEF paired
  <2>1. paired \in SUBSET Columns
    BY <1>3
  <2> QED
    BY <1>3, <2>1, StatisticsBytesType
<1>5. m <= m
  BY <1>4
<1> HIDE DEF m, n
<1>6. /\ block_size_with_statistics(rows) = Geometry(PriceStreams(rows), n)
      /\ PriceStreams(rows) \in [Columns -> Seq(Nat)]
  BY SizeType DEF n
<1>7. Geometry(PriceStreams(rows), m) \in [header_bytes : Nat, payload_bytes : Nat, frame_bytes : Nat]
  BY <1>4, <1>5, <1>6, GeometryType
<1>8. /\ Geometry(PriceStreams(rows), m).payload_bytes = Geometry(PriceStreams(rows), n).payload_bytes
      /\ Geometry(PriceStreams(rows), m).header_bytes <= Geometry(PriceStreams(rows), n).header_bytes
  BY <1>4, <1>6, GeometryType
<1> QED
  BY <1>2, <1>6, <1>7, <1>8
-----------------------------------------------------------------------------
(* The inductive invariant                                                 *)

CallKinds == {"none", "append", "flush", "sync", "finish"}

BlockRecord == [rows : Seq(Rows), by : CallKinds, rest : Seq(Rows)]

InCall == pc \in {"append", "publish", "flush", "sync"}

\* The shapes of the variables, and which call is in which place.
CallInv ==
    /\ pc \in {"ready", "append", "publish", "flush", "sync", "finished"}
    /\ call \in [kind : CallKinds, batch : Seq(Rows), consumed : Nat]
    /\ call.consumed <= Len(call.batch)
    /\ call.kind # "append" => call.batch = <<>>
    /\ pc = "append" => call.kind = "append"
    /\ pc \in {"flush", "sync"} => call.kind # "append"
    /\ pc = "publish" /\ call.kind = "append" => buffer # <<>>
    /\ InCall => ~poisoned
    /\ poisoned \in BOOLEAN
    /\ buffer \in Seq(Rows)
    /\ blocks \in Seq(BlockRecord)
    /\ given \in Seq(Rows)
    /\ counters \in [ published_rows : Nat, published_bytes : Nat, durable_rows : Nat,
                      durable_bytes : Nat, blocks_written : Nat ]
    /\ synced \in Nat

\* What fitting_prefix admits into a block.
GoodBlock(rows) ==
    /\ rows # <<>>
    /\ Len(rows) <= RowTarget
    /\ within_format_limits(Price[rows], Len(rows))
    /\ FrameBytes(rows) <= ByteTarget \/ Len(rows) = 1

PricedInv ==
    /\ \A k \in 1..Len(blocks) : GoodBlock(blocks[k].rows)
    /\ buffer # <<>> => GoodBlock(buffer)

\* During a call the file and the buffer hold the rows accepted before it and
\* those it has consumed; the call knows how many rows there were.
HeldInv ==
    LET held == RowsOf(blocks) \o buffer
    IN  /\ InCall => /\ held = given \o SubSeq(call.batch, 1, call.consumed)
                     /\ before.total_rows = Len(given)
        /\ ~InCall => /\ IsPrefix(given, held)
                      /\ counters.blocks_written = Len(blocks) => given = held

BytesOf(bs, n) == SumFunction([k \in 1..n |-> FrameBytes(bs[k].rows)])

\* CountersDescribeFile, and no sync covers a block that was not counted.
CountInv ==
    LET counted == counters.blocks_written
    IN  /\ \/ Len(blocks) = counted
           \/ Len(blocks) = counted + 1 /\ poisoned /\ Overflows(blocks[counted + 1].rows)
        /\ synced <= counted
        /\ counters.published_rows = Len(RowsOf(SubSeq(blocks, 1, counted)))
        /\ counters.published_bytes = BytesOf(blocks, counted)
        /\ counters.durable_rows = Len(RowsOf(SubSeq(blocks, 1, synced)))
        /\ counters.durable_bytes = BytesOf(blocks, synced)

\* A block an append published below both targets.
Small(b) == /\ b.by = "append"
            /\ Len(b.rows) < RowTarget
            /\ FrameBytes(b.rows) < ByteTarget

NextRow(rest) == SubSeq(rest, 1, 1)

\* There is a next row and the block cannot take it.
Full(rows, rest) ==
    /\ rest # <<>>
    /\ \/ FrameBytes(rows \o NextRow(rest)) > ByteTarget
       \/ ~within_format_limits(Price[rows \o NextRow(rest)], Len(rows \o NextRow(rest)))

\* No block can hold the next row.
Stuck(rest) == ~within_format_limits(Price[NextRow(rest)], 1)

\* These rows are those that follow the block.
Follows(b, rows) == Head(rows) = Head(NextRow(b.rest)) \/ Stuck(b.rest)

RestOfCall == SubSeq(call.batch, call.consumed + 1, Len(call.batch))

\* A short block is full; what comes after it begins with the row it could not
\* take, which until then is the row the append goes on with.
MaximalInv ==
    /\ \A k \in 1..Len(blocks) : Small(blocks[k]) => Full(blocks[k].rows, blocks[k].rest)
    /\ \A k \in 1..Len(blocks) - 1 : Small(blocks[k]) => Follows(blocks[k], blocks[k + 1].rows)
    /\ Len(blocks) > 0 /\ Small(blocks[Len(blocks)]) =>
         LET last == blocks[Len(blocks)]
         IN  IF buffer # <<>> THEN Follows(last, buffer)
             ELSE \/ poisoned \/ Stuck(last.rest)
                  \/ pc = "append" /\ last.rest = RestOfCall
    /\ pc = "publish" /\ call.kind = "append" /\ ~Complete(buffer) => Full(buffer, RestOfCall)
    /\ ~poisoned /\ pc # "publish" /\ Complete(buffer) => ~Buildable(buffer)

AppendInv == CallInv /\ PricedInv /\ HeldInv /\ CountInv /\ MaximalInv

-----------------------------------------------------------------------------
(* What a turn of the append loop may take                                 *)

\* The block with n more rows of the batch, and whether it may be so.
Joined(buffered, batch, start, n) == buffered \o SubSeq(batch, start + 1, start + n)

Fits(buffered, rows) ==
    within_format_limits(Price[rows], Len(rows)) /\ FitsTargets(buffered, rows)

LEMMA Targets ==
    /\ RowTarget \in Nat /\ RowTarget >= 1 /\ RowTarget <= MAX_ROWS_PER_BLOCK
    /\ ByteTarget \in Nat /\ ByteTarget >= 1 /\ MAX_ROWS_PER_BLOCK \in Nat
    /\ MAX_FRAME_HEADER_LENGTH \in Nat /\ MAX_FRAME_PAYLOAD_LENGTH \in Nat
    /\ U64_MAX \in Nat
  BY OptionsAssumption, BlockLimitsAssumption

LEMMA FittingPrefix ==
    ASSUME NEW buffered \in Seq(Rows), Len(buffered) <= RowTarget,
           NEW batch \in Seq(Rows), NEW start \in Nat, start <= Len(batch)
    PROVE  LET take == fitting_prefix(buffered, batch, start)
               joined(n) == Joined(buffered, batch, start, n)
           IN  /\ take \in Nat /\ start + take <= Len(batch)
               /\ Len(buffered) + take <= RowTarget
               /\ take # 0 => Fits(buffered, joined(take))
               /\ take = 0 /\ start < Len(batch) /\ Len(buffered) < RowTarget
                    => ~Fits(buffered, joined(1))
<1> DEFINE capacity == RowTarget - Len(buffered)
           max_rows == IF Len(batch) - start < capacity THEN Len(batch) - start ELSE capacity
           joined(n) == Joined(buffered, batch, start, n)
           S == {0} \cup {n \in 1..max_rows : \A m \in 1..n : Fits(buffered, joined(m))}
           take == fitting_prefix(buffered, batch, start)
<1>1. take = Max(S)
  BY DEF fitting_prefix, Fits, Joined
<1>2. /\ max_rows \in Nat /\ start + max_rows <= Len(batch)
      /\ Len(buffered) + max_rows <= RowTarget
      /\ start < Len(batch) /\ Len(buffered) < RowTarget => max_rows >= 1
  BY Targets
<1> HIDE DEF max_rows, take, joined
<1>3. S \in SUBSET (0..max_rows) /\ S # {}
  BY <1>2
<1>4. Max(S) \in S /\ \A k \in S : k <= Max(S)
  <2> HIDE DEF S
  <2> QED
    BY <1>2, <1>3, MaxOfBounded
<1>5. take \in S /\ \A k \in S : k <= take
  BY <1>1, <1>4
<1>6. take \in Nat /\ take <= max_rows
  BY <1>2, <1>3, <1>5
<1>7. take # 0 => Fits(buffered, joined(take))
  BY <1>5, <1>6
<1>8. take = 0 /\ max_rows >= 1 => ~Fits(buffered, joined(1))
  <2> SUFFICES ASSUME take = 0, max_rows >= 1, Fits(buffered, joined(1)) PROVE FALSE
    OBVIOUS
  <2>1. 1 \in S
    BY <1>2
  <2> QED
    BY <1>5, <2>1
<1>9. start + take <= Len(batch) /\ Len(buffered) + take <= RowTarget
  <2>1. Len(batch) \in Nat /\ Len(buffered) \in Nat /\ RowTarget \in Nat
    BY Targets
  <2> QED
    BY <1>2, <1>6, <2>1
<1> QED
  BY <1>2, <1>6, <1>7, <1>8, <1>9 DEF take, joined

LEMMA EmptyIncomplete ==
    ~Complete(<<>>) /\ FrameBytes(<<>>) = 0
  BY Targets DEF Complete, FrameBytes

\* The row a short block is followed by.
LEMMA NextRowIs ==
    ASSUME NEW batch \in Seq(Rows), NEW start \in Nat, start < Len(batch)
    PROVE  LET rest == SubSeq(batch, start + 1, Len(batch))
           IN  /\ rest \in Seq(Rows) /\ rest # <<>>
               /\ NextRow(rest) = SubSeq(batch, start + 1, start + 1)
               /\ NextRow(rest) \in Seq(Rows) /\ Len(NextRow(rest)) = 1
               /\ Head(NextRow(rest)) = batch[start + 1]
<1> DEFINE rest == SubSeq(batch, start + 1, Len(batch))
           one == SubSeq(batch, start + 1, start + 1)
<1>1. rest \in Seq(Rows) /\ Len(rest) = Len(batch) - start /\ rest[1] = batch[start + 1]
  OBVIOUS
<1>2. one \in Seq(Rows) /\ Len(one) = 1 /\ one[1] = batch[start + 1]
  <2>1. start + 1 \in 1..Len(batch) + 1 /\ start + 1 \in start..Len(batch)
    OBVIOUS
  <2> QED
    BY <2>1, SubSeqProperties
<1> HIDE DEF rest, one
<1>3. /\ NextRow(rest) \in Seq(Rows) /\ Len(NextRow(rest)) = 1
      /\ NextRow(rest)[1] = batch[start + 1]
  BY <1>1 DEF NextRow
<1>4. NextRow(rest) = one
  BY <1>2, <1>3, SeqEqual
<1>5. Head(NextRow(rest)) = batch[start + 1]
  BY <1>3
<1>6. rest # <<>>
  BY <1>1
<1> QED
  BY <1>1, <1>3, <1>4, <1>5, <1>6 DEF rest, one

LEMMA RestEmpty ==
    ASSUME NEW batch \in Seq(Rows)
    PROVE  SubSeq(batch, Len(batch) + 1, Len(batch)) = <<>>
  OBVIOUS

-----------------------------------------------------------------------------
(* Rows and bytes of the blocks                                            *)

LEMMA RowsOfBlocks ==
    ASSUME NEW bs \in Seq(BlockRecord)
    PROVE  /\ RowsOf(bs) \in Seq(Rows)
           /\ \A b \in BlockRecord : RowsOf(Append(bs, b)) = RowsOf(bs) \o b.rows
<1> DEFINE R(s) == [k \in DOMAIN s |-> s[k].rows]
<1>1. R(bs) \in Seq(Seq(Rows)) /\ Len(R(bs)) = Len(bs)
  <2>1. \A k \in 1..Len(bs) : bs[k] \in BlockRecord
    OBVIOUS
  <2>2. \A k \in 1..Len(bs) : bs[k].rows \in Seq(Rows)
    BY <2>1 DEF BlockRecord
  <2> QED
    BY <2>2
<1>2. RowsOf(bs) \in Seq(Rows)
  <2> HIDE DEF R
  <2>1. FlattenSeq(R(bs)) \in Seq(Rows)
    BY <1>1, FlattenType
  <2> QED
    BY <2>1 DEF RowsOf, R
<1>3. ASSUME NEW b \in BlockRecord PROVE RowsOf(Append(bs, b)) = RowsOf(bs) \o b.rows
  <2>1. b.rows \in Seq(Rows)
    BY DEF BlockRecord
  <2>2. Append(bs, b) \in Seq(BlockRecord) /\ Len(Append(bs, b)) = Len(bs) + 1
    OBVIOUS
  <2>3. R(Append(bs, b)) = Append(R(bs), b.rows)
    <3>1. \A k \in 1..Len(bs) + 1 :
            R(Append(bs, b))[k] = IF k = Len(bs) + 1 THEN b.rows ELSE bs[k].rows
      BY <2>2
    <3>2. \A k \in 1..Len(bs) + 1 :
            Append(R(bs), b.rows)[k] = IF k = Len(bs) + 1 THEN b.rows ELSE bs[k].rows
      BY <1>1, <2>1
    <3>3. DOMAIN R(Append(bs, b)) = 1..Len(bs) + 1
      BY <2>2
    <3>4. DOMAIN Append(R(bs), b.rows) = 1..Len(bs) + 1
      <4> HIDE DEF R
      <4> QED
        BY <1>1, <2>1
    <3>5. /\ R(Append(bs, b)) = [k \in DOMAIN R(Append(bs, b)) |-> R(Append(bs, b))[k]]
          /\ Append(R(bs), b.rows) = [k \in DOMAIN Append(R(bs), b.rows) |-> Append(R(bs), b.rows)[k]]
      BY <1>1, <2>1
    <3> HIDE DEF R
    <3> QED
      BY <3>1, <3>2, <3>3, <3>4, <3>5
  <2> HIDE DEF R
  <2>4. FlattenSeq(Append(R(bs), b.rows)) = FlattenSeq(R(bs)) \o b.rows
    BY <1>1, <2>1, FlattenAppend
  <2>5. RowsOf(bs) = FlattenSeq(R(bs)) /\ RowsOf(Append(bs, b)) = FlattenSeq(R(Append(bs, b)))
    BY DEF RowsOf, R
  <2> QED
    BY <2>3, <2>4, <2>5
<1> QED
  BY <1>2, <1>3

LEMMA RowsOfNone ==
    RowsOf(<<>>) = <<>>
<1>1. [k \in DOMAIN <<>> |-> <<>>[k].rows] = <<>>
  OBVIOUS
<1> QED
  BY <1>1, FlattenEmpty DEF RowsOf

LEMMA PrefixOfAppend ==
    ASSUME NEW T, NEW s \in Seq(T), NEW e \in T
    PROVE  /\ SubSeq(s, 1, Len(s)) = s /\ SubSeq(s, 1, 0) = <<>>
           /\ \A m \in 0..Len(s) : SubSeq(Append(s, e), 1, m) = SubSeq(s, 1, m)
<1>1. SubSeq(s, 1, Len(s)) = s
  BY SubSeqFull
<1>2. ASSUME NEW m \in 0..Len(s) PROVE SubSeq(Append(s, e), 1, m) = SubSeq(s, 1, m)
  <2>1. s = SubSeq(Append(s, e), 1, Len(s)) /\ \A i \in 1..m : Append(s, e)[i] = s[i]
    OBVIOUS
  <2> QED
    BY <2>1
<1> QED
  BY <1>1, <1>2

LEMMA BytesOfBlocks ==
    ASSUME NEW bs \in Seq(BlockRecord), \A k \in 1..Len(bs) : Len(bs[k].rows) <= RowTarget
    PROVE  /\ \A n \in 0..Len(bs) : BytesOf(bs, n) \in Nat
           /\ BytesOf(bs, 0) = 0
           /\ \A b \in BlockRecord : Len(b.rows) <= RowTarget =>
                /\ \A n \in 0..Len(bs) : BytesOf(Append(bs, b), n) = BytesOf(bs, n)
                /\ BytesOf(Append(bs, b), Len(bs) + 1) = BytesOf(bs, Len(bs)) + FrameBytes(b.rows)
<1> DEFINE F(s, n) == [k \in 1..n |-> FrameBytes(s[k].rows)]
<1>1. \A k \in 1..Len(bs) : bs[k].rows \in Seq(Rows)
  <2>1. \A k \in 1..Len(bs) : bs[k] \in BlockRecord
    OBVIOUS
  <2> QED
    BY <2>1 DEF BlockRecord
<1>2. \A k \in 1..Len(bs) : FrameBytes(bs[k].rows) \in Nat
  BY <1>1, Tables
<1>3. ASSUME NEW s, NEW n \in Nat PROVE BytesOf(s, n) = SumOver(F(s, n), 1..n)
  <2>1. DOMAIN F(s, n) = 1..n /\ BytesOf(s, n) = SumFunction(F(s, n))
    BY DEF BytesOf
  <2> HIDE DEF F
  <2> QED
    BY <2>1, SumFunctionIsSum
<1>4. \A n \in Nat : IsFiniteSet(1..n)
  BY FS_Interval
<1>5. ASSUME NEW n \in 0..Len(bs) PROVE BytesOf(bs, n) \in Nat
  <2>1. \A x \in 1..n : F(bs, n)[x] \in Nat
    BY <1>2
  <2>2. n \in Nat /\ IsFiniteSet(1..n)
    BY <1>4
  <2> HIDE DEF F
  <2> QED
    BY <1>3, <2>1, <2>2, SumRemove
<1>6. BytesOf(bs, 0) = 0
  <2>1. 1..0 = {} /\ 0 \in Nat
    OBVIOUS
  <2>2. BytesOf(bs, 0) = SumOver(F(bs, 0), {})
    BY <1>3, <2>1
  <2> HIDE DEF F
  <2> QED
    BY <2>2, SumEmpty
<1>7. ASSUME NEW b \in BlockRecord, Len(b.rows) <= RowTarget
      PROVE  /\ \A n \in 0..Len(bs) : BytesOf(Append(bs, b), n) = BytesOf(bs, n)
             /\ BytesOf(Append(bs, b), Len(bs) + 1) = BytesOf(bs, Len(bs)) + FrameBytes(b.rows)
  <2> DEFINE u == Append(bs, b)
             l == Len(bs)
             g == F(u, l + 1)
  <2>1. \A k \in 1..l : u[k] = bs[k]
    OBVIOUS
  <2>2. u[l + 1] = b /\ l \in Nat /\ l + 1 \notin 1..l /\ 1..(l + 1) = (1..l) \cup {l + 1}
    OBVIOUS
  <2>3. ASSUME NEW n \in 0..l PROVE BytesOf(u, n) = BytesOf(bs, n)
    <3>1. \A x \in 1..n : F(u, n)[x] = F(bs, n)[x]
      BY <2>1
    <3>2. n \in Nat /\ IsFiniteSet(1..n)
      BY <1>4, <2>2
    <3> HIDE DEF F
    <3>3. SumOver(F(u, n), 1..n) = SumOver(F(bs, n), 1..n)
      BY <3>1, <3>2, SumAgree
    <3> QED
      BY <1>3, <3>2, <3>3
  <2>4. b.rows \in Seq(Rows) /\ FrameBytes(b.rows) \in Nat
    BY <1>7, Tables DEF BlockRecord
  <2>5. g[l + 1] = FrameBytes(b.rows)
    BY <2>2
  <2>6. \A x \in 1..l : g[x] = F(bs, l)[x] /\ g[x] \in Nat
    BY <1>2, <2>1, <2>2
  <2>7. BytesOf(u, l + 1) = SumOver(g, 1..(l + 1))
    <3>1. l + 1 \in Nat
      BY <2>2
    <3> HIDE DEF F, u, l
    <3> QED
      BY <1>3, <3>1
  <2>8. BytesOf(bs, l) = SumOver(F(bs, l), 1..l)
    BY <1>3, <2>2
  <2> HIDE DEF F, u, l, g
  <2>9. SumOver(g, 1..l) = SumOver(F(bs, l), 1..l)
    BY <1>4, <2>2, <2>6, SumAgree
  <2>10. /\ SumOver(g, (1..l) \cup {l + 1}) = g[l + 1] + SumOver(g, 1..l)
         /\ SumOver(g, 1..l) \in Nat
    <3>1. \A x \in (1..l) \cup {l + 1} : g[x] \in Nat
      BY <2>4, <2>5, <2>6
    <3> QED
      BY <1>4, <2>2, <3>1, SumAdd
  <2>11. BytesOf(u, l + 1) = BytesOf(bs, l) + FrameBytes(b.rows)
    <3>1. BytesOf(u, l + 1) = FrameBytes(b.rows) + SumOver(g, 1..l)
      BY <2>2, <2>5, <2>7, <2>10
    <3>2. BytesOf(bs, l) = SumOver(g, 1..l)
      BY <2>8, <2>9
    <3> QED
      BY <2>4, <2>10, <3>1, <3>2
  <2> QED
    BY <2>3, <2>11 DEF u, l
<1> QED
  BY <1>5, <1>6, <1>7

-----------------------------------------------------------------------------
(* Rows held and rows given                                                *)

LEMMA ShorterIsPrefix ==
    ASSUME NEW g \in Seq(Rows), NEW batch \in Seq(Rows), NEW d \in Int, NEW c \in Nat,
           c <= Len(batch), d <= c
    PROVE  IsPrefix(g \o SubSeq(batch, 1, d), g \o SubSeq(batch, 1, c))
<1> DEFINE p == SubSeq(batch, 1, d)
           q == SubSeq(batch, 1, c)
           s == g \o p
           t == g \o q
<1>1. /\ p \in Seq(Rows) /\ q \in Seq(Rows) /\ Len(q) = c
      /\ Len(p) \in Nat /\ Len(p) <= c /\ \A i \in 1..Len(p) : p[i] = q[i]
  OBVIOUS
<1> HIDE DEF p, q
<1>2. /\ s \in Seq(Rows) /\ t \in Seq(Rows)
      /\ Len(s) = Len(g) + Len(p) /\ Len(t) = Len(g) + Len(q)
      /\ \A i \in 1..Len(s) : s[i] = t[i]
  <2>1. /\ s \in Seq(Rows) /\ Len(s) = Len(g) + Len(p) /\ Len(g) \in Nat
        /\ \A i \in 1..(Len(g) + Len(p)) : s[i] = IF i <= Len(g) THEN g[i] ELSE p[i - Len(g)]
    BY <1>1, ConcatProperties
  <2>2. /\ t \in Seq(Rows) /\ Len(t) = Len(g) + Len(q)
        /\ \A i \in 1..(Len(g) + Len(q)) : t[i] = IF i <= Len(g) THEN g[i] ELSE q[i - Len(g)]
    BY <1>1, ConcatProperties
  <2> HIDE DEF s, t
  <2>3. ASSUME NEW i \in 1..Len(s) PROVE s[i] = t[i]
    <3>1. i \in 1..(Len(g) + Len(p)) /\ i \in 1..(Len(g) + Len(q))
      BY <1>1, <2>1
    <3>2. ~(i <= Len(g)) => i - Len(g) \in 1..Len(p)
      BY <1>1, <2>1, <3>1
    <3> QED
      BY <1>1, <2>1, <2>2, <3>1, <3>2
  <2> QED
    BY <2>1, <2>2, <2>3
<1> HIDE DEF s, t
<1>3. Len(s) <= Len(t) /\ SubSeq(s, 1, Len(s)) = SubSeq(t, 1, Len(s))
  BY <1>1, <1>2
<1> QED
  BY <1>3 DEF IsPrefix, s, t, p, q

LEMMA PrefixReflexive ==
    ASSUME NEW s \in Seq(Rows)
    PROVE  IsPrefix(s, s)
  BY DEF IsPrefix

LEMMA ConsumeMore ==
    ASSUME NEW batch \in Seq(Rows), NEW c \in Nat, NEW t \in Nat, c + t <= Len(batch)
    PROVE  /\ SubSeq(batch, 1, c) \o SubSeq(batch, c + 1, c + t) = SubSeq(batch, 1, c + t)
           /\ SubSeq(batch, 1, c) \in Seq(Rows) /\ Len(SubSeq(batch, 1, c)) = c
           /\ SubSeq(batch, c + 1, c + t) \in Seq(Rows) /\ Len(SubSeq(batch, c + 1, c + t)) = t
           /\ \A i \in 1..t : SubSeq(batch, c + 1, c + t)[i] = batch[c + i]
<1> DEFINE p == SubSeq(batch, 1, c)
           q == SubSeq(batch, c + 1, c + t)
           r == SubSeq(batch, 1, c + t)
<1>1. p \in Seq(Rows) /\ Len(p) = c /\ \A i \in 1..c : p[i] = batch[i]
  OBVIOUS
<1>2. q \in Seq(Rows) /\ Len(q) = t /\ \A i \in 1..t : q[i] = batch[c + i]
  OBVIOUS
<1>3. r \in Seq(Rows) /\ Len(r) = c + t /\ \A i \in 1..(c + t) : r[i] = batch[i]
  OBVIOUS
<1> HIDE DEF p, q, r
<1>4. p \o q \in Seq(Rows) /\ Len(p \o q) = c + t /\ \A i \in 1..(c + t) : (p \o q)[i] = batch[i]
  <2>1. /\ p \o q \in Seq(Rows) /\ Len(p \o q) = c + t
        /\ \A i \in 1..(c + t) : (p \o q)[i] = IF i <= c THEN p[i] ELSE q[i - c]
    BY <1>1, <1>2, ConcatProperties
  <2>2. ASSUME NEW i \in 1..(c + t) PROVE (p \o q)[i] = batch[i]
    <3>1. CASE i <= c
      BY <1>1, <2>1, <3>1
    <3>2. CASE ~(i <= c)
      <4>1. i - c \in 1..t /\ c + (i - c) = i
        BY <3>2
      <4> QED
        BY <1>2, <2>1, <3>2, <4>1
    <3> QED
      BY <3>1, <3>2
  <2> QED
    BY <2>1, <2>2
<1>5. p \o q = r
  BY <1>3, <1>4, SeqEqual
<1> QED
  BY <1>1, <1>2, <1>5 DEF p, q, r

-----------------------------------------------------------------------------
(* The invariant holds at first and is kept by every step.                 *)

LEMMA InitHolds ==
    AppendInit => AppendInv
<1> SUFFICES ASSUME AppendInit PROVE AppendInv
  OBVIOUS
<1> USE DEF AppendInit
<1>1. CallInv
  <2>1. <<>> \in Seq(Rows) /\ <<>> \in Seq(BlockRecord) /\ 0 <= Len(<<>>)
    OBVIOUS
  <2>2. NoCall \in [kind : CallKinds, batch : Seq(Rows), consumed : Nat]
    BY <2>1 DEF NoCall, CallKinds
  <2>3. NoCounters \in [ published_rows : Nat, published_bytes : Nat, durable_rows : Nat,
                         durable_bytes : Nat, blocks_written : Nat ]
    BY DEF NoCounters
  <2>4. NoCall.consumed = 0 /\ NoCall.batch = <<>> /\ NoCall.kind = "none"
    BY DEF NoCall
  <2> QED
    BY <2>1, <2>2, <2>3, <2>4 DEF CallInv, InCall
<1>2. PricedInv
  BY DEF PricedInv
<1>3. HeldInv
  <2>1. RowsOf(blocks) \o buffer = <<>> /\ given = <<>>
    BY RowsOfNone
  <2>2. IsPrefix(<<>>, <<>>)
    BY DEF IsPrefix
  <2> QED
    BY <2>1, <2>2 DEF HeldInv, InCall
<1>4. CountInv
  <2>1. SubSeq(blocks, 1, 0) = <<>> /\ Len(RowsOf(SubSeq(blocks, 1, 0))) = 0
    <3>1. SubSeq(blocks, 1, 0) = <<>>
      BY SubSeqEmpty
    <3>2. Len(RowsOf(<<>>)) = 0
      BY RowsOfNone
    <3> QED
      BY <3>1, <3>2
  <2>2. blocks \in Seq(BlockRecord) /\ \A k \in 1..Len(blocks) : Len(blocks[k].rows) <= RowTarget
    OBVIOUS
  <2>3. BytesOf(blocks, 0) = 0
    BY <2>2, BytesOfBlocks
  <2>4. Len(blocks) = 0 /\ synced = 0 /\ counters = NoCounters
    OBVIOUS
  <2> QED
    BY <2>1, <2>3, <2>4 DEF CountInv, NoCounters
<1>5. MaximalInv
  <2>1. ~Complete(buffer)
    BY EmptyIncomplete
  <2> QED
    BY <2>1 DEF MaximalInv
<1> QED
  BY <1>1, <1>2, <1>3, <1>4, <1>5 DEF AppendInv

\* Everything the counters and the file say stays as it is.
LEMMA CountKept ==
    ASSUME CountInv, UNCHANGED <<counters, blocks, synced>>, poisoned => poisoned'
    PROVE  CountInv'
  BY DEF CountInv, Overflows, Committed

LEMMA RefuseStep ==
    ASSUME AppendInv, RefusePoisoned \/ RefuseBatch, UNCHANGED encoding
    PROVE  AppendInv'
<1>0. UNCHANGED <<encoding, pc, call, buffer, counters, poisoned, blocks, synced, given>> /\ pc = "ready"
  BY DEF RefusePoisoned, RefuseBatch
<1>1. CallInv'
  BY <1>0 DEF AppendInv, CallInv, InCall
<1>2. PricedInv'
  BY <1>0 DEF AppendInv, PricedInv
<1>3. HeldInv'
  BY <1>0 DEF AppendInv, HeldInv, InCall
<1>4. CountInv'
  BY <1>0, CountKept DEF AppendInv
<1>5. MaximalInv'
  BY <1>0 DEF AppendInv, MaximalInv, RestOfCall, Buildable
<1> QED
  BY <1>1, <1>2, <1>3, <1>4, <1>5 DEF AppendInv

\* A usable Writer has told of all the rows it holds.
LEMMA HeldAtRest ==
    ASSUME AppendInv, ~poisoned
    PROVE  /\ Len(blocks) = counters.blocks_written
           /\ RowsOf(blocks) \in Seq(Rows)
           /\ counters.published_rows = Len(RowsOf(blocks))
           /\ total_rows = Len(RowsOf(blocks) \o buffer)
           /\ ~InCall => given = RowsOf(blocks) \o buffer
<1>1. Len(blocks) = counters.blocks_written
  BY DEF AppendInv, CountInv
<1>2. blocks \in Seq(BlockRecord) /\ buffer \in Seq(Rows)
  BY DEF AppendInv, CallInv
<1>3. SubSeq(blocks, 1, Len(blocks)) = blocks
  BY <1>2, SubSeqFull
<1>4. RowsOf(blocks) \in Seq(Rows)
  BY <1>2, RowsOfBlocks
<1>5. counters.published_rows = Len(RowsOf(blocks))
  BY <1>1, <1>3 DEF AppendInv, CountInv
<1>6. total_rows = Len(RowsOf(blocks) \o buffer)
  BY <1>2, <1>4, <1>5 DEF total_rows
<1>7. ~InCall => given = RowsOf(blocks) \o buffer
  BY <1>1 DEF AppendInv, HeldInv
<1> QED
  BY <1>1, <1>4, <1>5, <1>6, <1>7

LEMMA BeginStep ==
    ASSUME AppendInv, BeginAppend \/ BeginFlush, UNCHANGED encoding
    PROVE  AppendInv'
<1>1. PICK kind \in {"append", "flush", "sync", "finish"}, batch \in Seq(Rows),
           label \in {"append", "publish"} :
        /\ Begin(kind, batch, label)
        /\ kind = "append" <=> label = "append"
        /\ kind # "append" => batch = <<>>
  <2>1. CASE BeginAppend
    <3>1. PICK batch \in Batches : Begin("append", batch, "append")
      BY <2>1 DEF BeginAppend
    <3>2. MaxBatch \in Nat
      BY OptionsAssumption
    <3>3. batch \in Seq(Rows)
      BY <3>1, <3>2, SeqOfIs DEF Batches
    <3> QED
      BY <3>1, <3>3
  <2>2. CASE BeginFlush
    <3>1. <<>> \in Seq(Rows)
      OBVIOUS
    <3> QED
      BY <2>2, <3>1 DEF BeginFlush
  <2> QED
    BY <2>1, <2>2
<1>2. ~poisoned
  BY DEF BeginAppend, BeginFlush
<1>3. /\ pc = "ready" /\ pc' = label
      /\ call' = [kind |-> kind, batch |-> batch, consumed |-> 0]
      /\ before'.total_rows = total_rows
      /\ UNCHANGED <<buffer, counters, poisoned, blocks, synced, given>>
  BY <1>1 DEF Begin, WriterState
<1>4. call'.kind = kind /\ call'.batch = batch /\ call'.consumed = 0
  BY <1>3
<1>5. CallInv'
  <2>1. kind \in CallKinds /\ 0 <= Len(batch)
    BY DEF CallKinds
  <2>2. call' \in [kind : CallKinds, batch : Seq(Rows), consumed : Nat]
    BY <1>3, <2>1
  <2> QED
    BY <1>1, <1>2, <1>3, <1>4, <2>1, <2>2 DEF AppendInv, CallInv, InCall
<1>6. PricedInv'
  BY <1>3 DEF AppendInv, PricedInv
<1>7. HeldInv'
  <2>1. /\ given = RowsOf(blocks) \o buffer /\ total_rows = Len(given)
    BY <1>2, <1>3, HeldAtRest DEF InCall
  <2>2. SubSeq(batch, 1, 0) = <<>>
    OBVIOUS
  <2>3. given \in Seq(Rows) /\ given \o <<>> = given
    BY DEF AppendInv, CallInv
  <2> QED
    BY <1>3, <1>4, <2>1, <2>2, <2>3 DEF HeldInv, InCall
<1>8. CountInv'
  BY <1>3, CountKept DEF AppendInv
<1>9. MaximalInv'
  <2>1. /\ \A k \in 1..Len(blocks) : Small(blocks[k]) => Full(blocks[k].rows, blocks[k].rest)
        /\ \A k \in 1..Len(blocks) - 1 : Small(blocks[k]) => Follows(blocks[k], blocks[k + 1].rows)
    BY DEF AppendInv, MaximalInv
  <2>2. Len(blocks) > 0 /\ Small(blocks[Len(blocks)]) =>
         IF buffer # <<>> THEN Follows(blocks[Len(blocks)], buffer)
         ELSE Stuck(blocks[Len(blocks)].rest)
    BY <1>2, <1>3 DEF AppendInv, MaximalInv
  <2>3. Complete(buffer) => ~Buildable(buffer)
    BY <1>2, <1>3 DEF AppendInv, MaximalInv
  <2>4. Buildable(buffer)' <=> Buildable(buffer)
    BY <1>3 DEF Buildable
  <2>5. ~(pc' = "publish" /\ call'.kind = "append")
    BY <1>1, <1>3, <1>4
  <2> QED
    BY <1>3, <2>1, <2>2, <2>3, <2>4, <2>5 DEF MaximalInv
<1> QED
  BY <1>5, <1>6, <1>7, <1>8, <1>9 DEF AppendInv

LEMMA RestartStep ==
    ASSUME AppendInv, Restart
    PROVE  AppendInv'
<1>1. NoCounters.published_rows = 0
  BY DEF NoCounters
<1>2. buffer' = <<>> /\ counters' = NoCounters
  BY DEF Restart
<1>3. total_rows' = 0
  BY <1>1, <1>2 DEF total_rows
<1>4. before' = WriterState'
  BY <1>3 DEF Restart, WriterState
<1>5. AppendInit'
  BY <1>4 DEF Restart, AppendInit
<1> QED
  BY <1>5, InitHolds, PTL

\* A call that published nothing in this step returns: what it was told to take
\* is accepted, as far as the counters say it was taken.
LEMMA ReturnHeld ==
    ASSUME AppendInv, InCall, NEW how, ReturnFrom(how), how = "ok" => call.consumed = Len(call.batch),
           UNCHANGED <<buffer, blocks>>, UNCHANGED counters.published_rows
    PROVE  HeldInv' /\ given' \in Seq(Rows)
<1> DEFINE held == RowsOf(blocks) \o buffer
           taken == SubSeq(call.batch, 1, call.consumed)
<1>1. ~poisoned /\ call.batch \in Seq(Rows) /\ given \in Seq(Rows) /\ call.consumed \in Nat
  BY DEF AppendInv, CallInv
<1>2. held = given \o taken /\ before.total_rows = Len(given)
  BY DEF AppendInv, HeldInv
<1>3. total_rows = Len(held)
  BY <1>1, HeldAtRest
<1>4. total_rows' = total_rows
  BY DEF total_rows
<1>5. taken \in Seq(Rows) /\ Len(taken) = call.consumed
  BY <1>1 DEF AppendInv, CallInv
<1>6. total_rows' - before.total_rows = call.consumed
  <2> HIDE DEF held, taken
  <2> QED
    BY <1>1, <1>2, <1>3, <1>4, <1>5
<1>7. given' = held
  <2>1. CASE how = "ok"
    <3>1. taken = call.batch
      BY <1>1, <2>1, SubSeqFull
    <3> QED
      BY <1>2, <2>1, <3>1 DEF ReturnFrom
  <2>2. CASE how # "ok"
    BY <1>2, <1>6, <2>2 DEF ReturnFrom, AcceptedOfCall
  <2> QED
    BY <2>1, <2>2
<1>8. held \in Seq(Rows) /\ ~InCall'
  BY <1>1, <1>2, <1>5 DEF ReturnFrom, InCall
<1>9. IsPrefix(held, held)
  BY <1>8, PrefixReflexive
<1> QED
  BY <1>7, <1>8, <1>9 DEF HeldInv

LEMMA ReturnCall ==
    ASSUME CallInv, NEW how, ReturnFrom(how), given' \in Seq(Rows), buffer' \in Seq(Rows),
           blocks' \in Seq(BlockRecord), synced' \in Nat, poisoned' \in BOOLEAN,
           counters' \in [ published_rows : Nat, published_bytes : Nat, durable_rows : Nat,
                           durable_bytes : Nat, blocks_written : Nat ]
    PROVE  CallInv'
<1>1. pc' \in {"ready", "finished"} /\ call' = NoCall
  BY DEF ReturnFrom
<1>2. /\ NoCall.consumed = 0 /\ NoCall.batch = <<>> /\ NoCall.kind = "none"
      /\ <<>> \in Seq(Rows) /\ 0 <= Len(<<>>)
  BY DEF NoCall
<1>3. NoCall \in [kind : CallKinds, batch : Seq(Rows), consumed : Nat]
  BY <1>2 DEF NoCall, CallKinds
<1> QED
  BY <1>1, <1>2, <1>3 DEF CallInv, InCall

\* A call returns and leaves file, buffer and counters alone.
LEMMA ReturnStep ==
    ASSUME AppendInv, InCall, NEW how, ReturnFrom(how), how = "ok" => call.consumed = Len(call.batch),
           UNCHANGED <<encoding, buffer, blocks, counters, synced>>,
           poisoned' \in BOOLEAN,
           ~poisoned' =>
             /\ Complete(buffer) => ~Buildable(buffer)
             /\ buffer = <<>> /\ Len(blocks) > 0 /\ Small(blocks[Len(blocks)])
                  => Stuck(blocks[Len(blocks)].rest)
    PROVE  AppendInv'
<1>0. ~poisoned
  BY DEF AppendInv, CallInv
<1>1. HeldInv' /\ given' \in Seq(Rows)
  BY ReturnHeld
<1>2. CallInv'
  <2>1. /\ CallInv /\ buffer' \in Seq(Rows) /\ blocks' \in Seq(BlockRecord) /\ synced' \in Nat
        /\ counters' \in [ published_rows : Nat, published_bytes : Nat, durable_rows : Nat,
                           durable_bytes : Nat, blocks_written : Nat ]
    BY DEF AppendInv, CallInv
  <2> QED
    BY <1>1, <2>1, ReturnCall
<1>3. PricedInv'
  BY DEF AppendInv, PricedInv
<1>4. CountInv'
  BY <1>0, CountKept DEF AppendInv
<1>5. MaximalInv'
  <2>1. pc' \in {"ready", "finished"}
    BY DEF ReturnFrom
  <2>2. /\ \A k \in 1..Len(blocks) : Small(blocks[k]) => Full(blocks[k].rows, blocks[k].rest)
        /\ \A k \in 1..Len(blocks) - 1 : Small(blocks[k]) => Follows(blocks[k], blocks[k + 1].rows)
        /\ buffer # <<>> /\ Len(blocks) > 0 /\ Small(blocks[Len(blocks)])
             => Follows(blocks[Len(blocks)], buffer)
    BY DEF AppendInv, MaximalInv
  <2>3. Buildable(buffer)' <=> Buildable(buffer)
    BY DEF Buildable
  <2> QED
    BY <2>1, <2>2, <2>3 DEF MaximalInv
<1> QED
  BY <1>1, <1>2, <1>3, <1>4, <1>5 DEF AppendInv

\* What is left of the batch when a block is published in the middle of it.
LEMMA TakeFacts ==
    ASSUME AppendInv, pc = "append",
           NEW take, take = fitting_prefix(buffer, call.batch, call.consumed)
    PROVE  LET pushed == Joined(buffer, call.batch, call.consumed, take)
           IN  /\ take \in Nat /\ call.consumed + take <= Len(call.batch)
               /\ pushed \in Seq(Rows) /\ Len(pushed) = Len(buffer) + take
               /\ Len(pushed) <= RowTarget
               /\ take = 0 => pushed = buffer
               /\ take # 0 => Fits(buffer, pushed)
               /\ take # 0 /\ buffer = <<>> => Head(pushed) = call.batch[call.consumed + 1]
               /\ buffer # <<>> => pushed # <<>> /\ Head(pushed) = Head(buffer)
               /\ take = 0 /\ call.consumed < Len(call.batch) /\ Len(buffer) < RowTarget =>
                    ~Fits(buffer, buffer \o NextRow(RestOfCall))
<1> DEFINE more == SubSeq(call.batch, call.consumed + 1, call.consumed + take)
           pushed == Joined(buffer, call.batch, call.consumed, take)
<1>1. /\ buffer \in Seq(Rows) /\ call.batch \in Seq(Rows) /\ call.consumed \in Nat
      /\ call.consumed <= Len(call.batch)
  BY DEF AppendInv, CallInv
<1>2. Len(buffer) <= RowTarget
  <2>1. CASE buffer = <<>>
    BY <2>1, Targets
  <2>2. CASE buffer # <<>>
    BY <2>2 DEF AppendInv, PricedInv, GoodBlock
  <2> QED
    BY <2>1, <2>2
<1>3. /\ take \in Nat /\ call.consumed + take <= Len(call.batch)
      /\ Len(buffer) + take <= RowTarget
      /\ take # 0 => Fits(buffer, pushed)
      /\ take = 0 /\ call.consumed < Len(call.batch) /\ Len(buffer) < RowTarget
           => ~Fits(buffer, Joined(buffer, call.batch, call.consumed, 1))
  BY <1>1, <1>2, FittingPrefix
<1>4. more \in Seq(Rows) /\ Len(more) = take /\ \A i \in 1..take : more[i] = call.batch[call.consumed + i]
  <2>1. \A batch \in Seq(Rows), c \in Nat, t \in Nat : c + t <= Len(batch) =>
          LET q == SubSeq(batch, c + 1, c + t)
          IN  q \in Seq(Rows) /\ Len(q) = t /\ \A i \in 1..t : q[i] = batch[c + i]
    BY ConsumeMore
  <2> QED
    BY <1>1, <1>3, <2>1
<1>5. pushed = buffer \o more
  BY DEF Joined
<1> HIDE DEF more, pushed
<1>6. pushed \in Seq(Rows) /\ Len(pushed) = Len(buffer) + take /\ Len(pushed) <= RowTarget
  <2>1. pushed \in Seq(Rows) /\ Len(pushed) = Len(buffer) + Len(more)
    <3>1. \A p, q \in Seq(Rows) : p \o q \in Seq(Rows) /\ Len(p \o q) = Len(p) + Len(q)
      OBVIOUS
    <3> QED
      BY <1>1, <1>4, <1>5, <3>1
  <2> QED
    BY <1>3, <1>4, <2>1
<1>7. take = 0 => pushed = buffer
  <2>1. take = 0 => more = <<>>
    BY <1>4
  <2> QED
    BY <1>1, <1>5, <2>1
<1>8. take # 0 /\ buffer = <<>> => Head(pushed) = call.batch[call.consumed + 1]
  <2> SUFFICES ASSUME take # 0, buffer = <<>> PROVE Head(pushed) = call.batch[call.consumed + 1]
    OBVIOUS
  <2>1. pushed = more
    BY <1>4, <1>5
  <2>2. 1 \in 1..take
    BY <1>3
  <2> QED
    BY <1>4, <2>1, <2>2
<1>9. buffer # <<>> => pushed # <<>> /\ Head(pushed) = Head(buffer)
  BY <1>1, <1>4, <1>5
<1>10. call.consumed < Len(call.batch) =>
         Joined(buffer, call.batch, call.consumed, 1) = buffer \o NextRow(RestOfCall)
  BY <1>1, NextRowIs DEF Joined, RestOfCall
<1> QED
  BY <1>3, <1>6, <1>7, <1>8, <1>9, <1>10 DEF pushed

LEMMA RowsJoin ==
    \A p, q \in Seq(Rows) :
        /\ p \o q \in Seq(Rows) /\ Len(p \o q) = Len(p) + Len(q)
        /\ \A t \in Seq(Rows) : (p \o q) \o t = p \o (q \o t)
  BY ConcatAssociative

LEMMA ConsumeAny ==
    \A batch \in Seq(Rows), c \in Nat, t \in Nat : c + t <= Len(batch) =>
        /\ SubSeq(batch, 1, c) \o SubSeq(batch, c + 1, c + t) = SubSeq(batch, 1, c + t)
        /\ SubSeq(batch, 1, c) \in Seq(Rows)
        /\ SubSeq(batch, c + 1, c + t) \in Seq(Rows)
  BY ConsumeMore

LEMMA LastBlock ==
    ASSUME AppendInv, ~poisoned, Len(blocks) > 0, Small(blocks[Len(blocks)])
    PROVE  LET last == blocks[Len(blocks)]
           IN  /\ Full(last.rows, last.rest)
               /\ buffer # <<>> => Follows(last, buffer)
               /\ buffer = <<>> => \/ Stuck(last.rest)
                                   \/ pc = "append" /\ last.rest = RestOfCall
<1>1. Len(blocks) \in 1..Len(blocks)
  BY DEF AppendInv, CallInv
<1> QED
  BY <1>1 DEF AppendInv, MaximalInv

\* The batch is consumed.
LEMMA TurnEnds ==
    ASSUME AppendInv, AppendTurn, UNCHANGED encoding, call.consumed = Len(call.batch)
    PROVE  AppendInv'
<1>1. /\ pc = "append" /\ ReturnFrom("ok")
      /\ UNCHANGED <<encoding, buffer, counters, poisoned, blocks, synced>>
  BY DEF AppendTurn
<1>2. InCall /\ ~poisoned /\ poisoned' \in BOOLEAN
  BY <1>1 DEF InCall, AppendInv, CallInv
<1>3. Complete(buffer) => ~Buildable(buffer)
  BY <1>1, <1>2 DEF AppendInv, MaximalInv
<1>4. RestOfCall = <<>>
  BY RestEmpty DEF RestOfCall, AppendInv, CallInv
<1>5. buffer = <<>> /\ Len(blocks) > 0 /\ Small(blocks[Len(blocks)])
        => Stuck(blocks[Len(blocks)].rest)
  BY <1>2, <1>4, LastBlock DEF Full
<1> QED
  BY <1>1, <1>2, <1>3, <1>5, ReturnStep

\* No block can hold the next row.
LEMMA TurnRefuses ==
    ASSUME AppendInv, AppendTurn, UNCHANGED encoding, call.consumed # Len(call.batch),
           Unwritable(fitting_prefix(buffer, call.batch, call.consumed))
    PROVE  AppendInv'
<1> DEFINE take == fitting_prefix(buffer, call.batch, call.consumed)
           next == NextRow(RestOfCall)
<1>1. /\ pc = "append" /\ ReturnFrom("invalid")
      /\ UNCHANGED <<encoding, buffer, counters, poisoned, blocks, synced>>
  BY DEF AppendTurn
<1>2. InCall /\ ~poisoned /\ poisoned' \in BOOLEAN
  BY <1>1 DEF InCall, AppendInv, CallInv
<1>3. take = 0 /\ buffer = <<>>
  BY DEF Unwritable
<1>4. call.consumed < Len(call.batch) /\ call.batch \in Seq(Rows) /\ call.consumed \in Nat
  BY DEF AppendInv, CallInv
<1>5. next \in Seq(Rows) /\ Len(next) = 1
  BY <1>4, NextRowIs DEF RestOfCall
<1>6. ~Fits(buffer, buffer \o next)
  BY <1>1, <1>3, <1>4, TakeFacts, Targets
<1>7. buffer \o next = next
  BY <1>3, <1>5
<1> HIDE DEF next
<1>8. ~within_format_limits(Price[next], 1)
  BY <1>3, <1>5, <1>6, <1>7 DEF Fits, FitsTargets
<1>9. Stuck(RestOfCall)
  BY <1>8 DEF Stuck, next
<1>10. ~Complete(buffer)
  BY <1>3, EmptyIncomplete
<1>11. buffer = <<>> /\ Len(blocks) > 0 /\ Small(blocks[Len(blocks)])
         => Stuck(blocks[Len(blocks)].rest)
  BY <1>2, <1>9, LastBlock
<1> QED
  BY <1>1, <1>2, <1>10, <1>11, ReturnStep

\* Rows are taken, or none fits and the buffer is to be published first.
LEMMA TurnTakes ==
    ASSUME AppendInv, AppendTurn, UNCHANGED encoding, call.consumed # Len(call.batch),
           ~Unwritable(fitting_prefix(buffer, call.batch, call.consumed))
    PROVE  AppendInv'
<1> DEFINE take == fitting_prefix(buffer, call.batch, call.consumed)
           pushed == Joined(buffer, call.batch, call.consumed, take)
<1>1. /\ pc = "append" /\ buffer' = pushed /\ call' = [call EXCEPT !.consumed = @ + take]
      /\ pc' = IF take = 0 \/ Complete(pushed) THEN "publish" ELSE "append"
      /\ UNCHANGED <<encoding, counters, poisoned, blocks, synced, outcome, before, given>>
  BY DEF AppendTurn, Joined
<1>2. /\ take \in Nat /\ call.consumed + take <= Len(call.batch)
      /\ pushed \in Seq(Rows) /\ Len(pushed) = Len(buffer) + take
      /\ Len(pushed) <= RowTarget
      /\ take = 0 => pushed = buffer
      /\ take # 0 => Fits(buffer, pushed)
      /\ take # 0 /\ buffer = <<>> => Head(pushed) = call.batch[call.consumed + 1]
      /\ buffer # <<>> => pushed # <<>> /\ Head(pushed) = Head(buffer)
      /\ take = 0 /\ call.consumed < Len(call.batch) /\ Len(buffer) < RowTarget =>
           ~Fits(buffer, buffer \o NextRow(RestOfCall))
  BY <1>1, TakeFacts
<1>3. ~(take = 0 /\ buffer = <<>>)
  BY DEF Unwritable
<1>4. /\ call.consumed < Len(call.batch) /\ call.batch \in Seq(Rows) /\ call.consumed \in Nat
      /\ buffer \in Seq(Rows) /\ call.kind = "append" /\ ~poisoned /\ given \in Seq(Rows)
      /\ call \in [kind : CallKinds, batch : Seq(Rows), consumed : Nat]
  BY <1>1 DEF AppendInv, CallInv, InCall
<1>5. pushed # <<>>
  BY <1>2, <1>3, <1>4
<1> HIDE DEF take, pushed
<1>6. /\ call'.kind = "append" /\ call'.batch = call.batch
      /\ call'.consumed = call.consumed + take
      /\ call' \in [kind : CallKinds, batch : Seq(Rows), consumed : Nat]
  <2>1. call.consumed + take \in Nat
    BY <1>2, <1>4
  <2> QED
    BY <1>1, <1>4, <2>1
<1>7. CallInv'
  BY <1>1, <1>2, <1>4, <1>6, <1>5 DEF AppendInv, CallInv, InCall
<1>8. PricedInv'
  <2>1. GoodBlock(pushed)
    <3>1. CASE take = 0
      BY <1>2, <1>3, <3>1 DEF AppendInv, PricedInv
    <3>2. CASE take # 0
      BY <1>2, <1>5, <3>2 DEF GoodBlock, Fits, FitsTargets
    <3> QED
      BY <3>1, <3>2
  <2> QED
    BY <1>1, <2>1 DEF AppendInv, PricedInv
<1>9. HeldInv'
  <2> DEFINE taken == SubSeq(call.batch, 1, call.consumed)
             more == SubSeq(call.batch, call.consumed + 1, call.consumed + take)
  <2>1. /\ RowsOf(blocks) \o buffer = given \o taken /\ before.total_rows = Len(given)
    BY <1>1 DEF AppendInv, HeldInv, InCall
  <2>2. taken \o more = SubSeq(call.batch, 1, call.consumed + take) /\ taken \in Seq(Rows) /\ more \in Seq(Rows)
    BY <1>2, <1>4, ConsumeAny
  <2>3. pushed = buffer \o more
    BY DEF pushed, Joined
  <2>4. RowsOf(blocks) \in Seq(Rows)
    BY <1>4, HeldAtRest
  <2> HIDE DEF taken, more
  <2>5. RowsOf(blocks) \o (buffer \o more) = (RowsOf(blocks) \o buffer) \o more
    BY <1>4, <2>2, <2>4, RowsJoin
  <2>6. (given \o taken) \o more = given \o (taken \o more)
    BY <1>4, <2>2, RowsJoin
  <2>7. RowsOf(blocks) \o pushed = given \o SubSeq(call.batch, 1, call.consumed + take)
    BY <2>1, <2>2, <2>3, <2>5, <2>6
  <2> QED
    BY <1>1, <1>6, <2>1, <2>7 DEF HeldInv, InCall
<1>10. CountInv'
  BY <1>1, CountKept DEF AppendInv
<1>11. MaximalInv'
  <2>1. /\ \A k \in 1..Len(blocks) : Small(blocks[k]) => Full(blocks[k].rows, blocks[k].rest)
        /\ \A k \in 1..Len(blocks) - 1 : Small(blocks[k]) => Follows(blocks[k], blocks[k + 1].rows)
    BY DEF AppendInv, MaximalInv
  <2>2. ASSUME Len(blocks) > 0, Small(blocks[Len(blocks)])
        PROVE  Follows(blocks[Len(blocks)], pushed)
    <3>1. CASE buffer # <<>>
      BY <1>2, <1>4, <2>2, <3>1, LastBlock DEF Follows
    <3>2. CASE buffer = <<>>
      <4>1. Head(NextRow(RestOfCall)) = call.batch[call.consumed + 1]
        BY <1>4, NextRowIs DEF RestOfCall
      <4>2. Head(pushed) = call.batch[call.consumed + 1]
        BY <1>2, <1>3, <3>2
      <4> QED
        BY <1>4, <2>2, <3>2, <4>1, <4>2, LastBlock DEF Follows
    <3> QED
      BY <3>1, <3>2
  <2>3. ASSUME pc' = "publish", ~Complete(pushed) PROVE Full(pushed, RestOfCall')
    <3> DEFINE joined == buffer \o NextRow(RestOfCall)
    <3>1. take = 0 /\ pushed = buffer
      BY <1>1, <1>2, <2>3
    <3>2. RestOfCall' = RestOfCall
      BY <1>4, <1>6, <3>1 DEF RestOfCall
    <3>3. Len(buffer) < RowTarget
      BY <1>2, <1>4, <2>3, <3>1, Targets DEF Complete
    <3>4. ~Fits(buffer, joined)
      BY <1>2, <1>4, <3>1, <3>3
    <3>5. RestOfCall # <<>> /\ NextRow(RestOfCall) \in Seq(Rows) /\ Len(NextRow(RestOfCall)) = 1
      BY <1>4, NextRowIs DEF RestOfCall
    <3>6. joined \in Seq(Rows) /\ Len(joined) <= RowTarget
      <4>1. joined \in Seq(Rows) /\ Len(joined) = Len(buffer) + 1
        BY <1>4, <3>5, RowsJoin
      <4>2. Len(buffer) \in Nat
        BY <1>4
      <4> QED
        BY <3>3, <4>1, <4>2, Targets
    <3>7. FrameBytes(joined) \in Nat
      BY <3>6, Tables
    <3> HIDE DEF joined
    <3>8. FrameBytes(joined) > ByteTarget \/ ~within_format_limits(Price[joined], Len(joined))
      BY <3>4, <3>7, Targets DEF Fits, FitsTargets
    <3> QED
      BY <3>1, <3>2, <3>5, <3>8 DEF Full, joined
  <2>4. pc' # "publish" => ~Complete(pushed)
    BY <1>1
  <2> QED
    BY <1>1, <1>6, <1>5, <2>1, <2>2, <2>3, <2>4 DEF MaximalInv
<1> QED
  BY <1>7, <1>8, <1>9, <1>10, <1>11 DEF AppendInv

LEMMA PublishNothingStep ==
    ASSUME AppendInv, PublishNothing, UNCHANGED encoding
    PROVE  AppendInv'
<1>1. /\ pc = "publish" /\ buffer = <<>> /\ call.kind # "append" /\ pc' = "flush" /\ ~poisoned
      /\ UNCHANGED <<encoding, call, buffer, counters, poisoned, blocks, synced, outcome, before, given>>
  BY DEF PublishNothing, AfterPublish, AppendInv, CallInv, InCall
<1>2. CallInv'
  BY <1>1 DEF AppendInv, CallInv, InCall
<1>3. PricedInv'
  BY <1>1 DEF AppendInv, PricedInv
<1>4. HeldInv'
  BY <1>1 DEF AppendInv, HeldInv, InCall
<1>5. CountInv'
  BY <1>1, CountKept DEF AppendInv
<1>6. MaximalInv'
  <2>1. ~Complete(buffer)
    BY <1>1, EmptyIncomplete
  <2> QED
    BY <1>1, <2>1 DEF AppendInv, MaximalInv, RestOfCall
<1> QED
  BY <1>2, <1>3, <1>4, <1>5, <1>6 DEF AppendInv

LEMMA FailStep ==
    ASSUME AppendInv, BuildFails \/ IoFails, UNCHANGED encoding
    PROVE  AppendInv'
<1>1. InCall
  BY DEF BuildFails, IoFails, InCall
<1>2. CASE BuildFails
  <2>1. /\ UNCHANGED <<encoding, buffer, blocks, counters, synced, poisoned>> /\ ReturnFrom("unbuildable")
        /\ buffer # <<>> /\ ~Buildable(buffer) /\ poisoned' \in BOOLEAN
    BY <1>2 DEF BuildFails, AppendInv, CallInv
  <2> QED
    BY <1>1, <2>1, ReturnStep
<1>3. CASE IoFails
  <2>1. /\ UNCHANGED <<encoding, buffer, blocks, counters, synced>> /\ ReturnFrom("io")
        /\ poisoned' = TRUE
    BY <1>3 DEF IoFails
  <2> QED
    BY <1>1, <2>1, ReturnStep
<1> QED
  BY <1>2, <1>3

LEMMA FlushedStep ==
    ASSUME AppendInv, Flushed, UNCHANGED encoding
    PROVE  AppendInv'
<1>1. /\ pc = "flush" /\ InCall /\ ~poisoned /\ poisoned' \in BOOLEAN
      /\ UNCHANGED <<encoding, buffer, counters, poisoned, blocks, synced>>
  BY DEF Flushed, AppendInv, CallInv, InCall
<1>2. CASE call.kind = "flush"
  <2>1. ReturnFrom("ok")
    BY <1>2 DEF Flushed
  <2>2. call.consumed = Len(call.batch)
    BY <1>2 DEF AppendInv, CallInv
  <2>3. Complete(buffer) => ~Buildable(buffer)
    BY <1>1 DEF AppendInv, MaximalInv
  <2>4. buffer = <<>> /\ Len(blocks) > 0 /\ Small(blocks[Len(blocks)])
          => Stuck(blocks[Len(blocks)].rest)
    BY <1>1, LastBlock
  <2> QED
    BY <1>1, <2>1, <2>2, <2>3, <2>4, ReturnStep
<1>3. CASE call.kind # "flush"
  <2>1. pc' = "sync" /\ UNCHANGED <<call, outcome, before, given>>
    BY <1>3 DEF Flushed
  <2>2. CallInv'
    BY <1>1, <2>1 DEF AppendInv, CallInv, InCall
  <2>3. PricedInv'
    BY <1>1 DEF AppendInv, PricedInv
  <2>4. HeldInv'
    BY <1>1, <2>1 DEF AppendInv, HeldInv, InCall
  <2>5. CountInv'
    BY <1>1, CountKept DEF AppendInv
  <2>6. MaximalInv'
    BY <1>1, <2>1 DEF AppendInv, MaximalInv, RestOfCall, Buildable
  <2> QED
    BY <2>2, <2>3, <2>4, <2>5, <2>6 DEF AppendInv
<1> QED
  BY <1>2, <1>3

LEMMA SyncedStep ==
    ASSUME AppendInv, Synced, UNCHANGED encoding
    PROVE  AppendInv'
<1>1. /\ pc = "sync" /\ InCall /\ ~poisoned /\ ReturnFrom("ok")
      /\ synced' = Len(blocks) /\ counters' = Durable
      /\ UNCHANGED <<encoding, buffer, poisoned, blocks>>
  BY DEF Synced, AppendInv, CallInv, InCall
<1>2. counters \in [ published_rows : Nat, published_bytes : Nat, durable_rows : Nat,
                     durable_bytes : Nat, blocks_written : Nat ]
  BY DEF AppendInv, CallInv
<1>3. /\ counters'.published_rows = counters.published_rows
      /\ counters'.published_bytes = counters.published_bytes
      /\ counters'.durable_rows = counters.published_rows
      /\ counters'.durable_bytes = counters.published_bytes
      /\ counters'.blocks_written = counters.blocks_written
      /\ counters' \in [ published_rows : Nat, published_bytes : Nat, durable_rows : Nat,
                         durable_bytes : Nat, blocks_written : Nat ]
  BY <1>1, <1>2 DEF Durable
<1>4. call.consumed = Len(call.batch)
  BY <1>1 DEF AppendInv, CallInv
<1>5. HeldInv' /\ given' \in Seq(Rows)
  BY <1>1, <1>3, <1>4, ReturnHeld
<1>6. CallInv'
  <2>1. /\ CallInv /\ buffer' \in Seq(Rows) /\ blocks' \in Seq(BlockRecord)
        /\ synced' \in Nat /\ poisoned' \in BOOLEAN
    BY <1>1 DEF AppendInv, CallInv
  <2> QED
    BY <1>1, <1>3, <1>5, <2>1, ReturnCall
<1>7. PricedInv'
  BY <1>1 DEF AppendInv, PricedInv
<1>8. CountInv'
  <2>1. Len(blocks) = counters.blocks_written
    BY <1>1, HeldAtRest
  <2>2. /\ counters.published_rows = Len(RowsOf(SubSeq(blocks, 1, counters.blocks_written)))
        /\ counters.published_bytes = BytesOf(blocks, counters.blocks_written)
        /\ Len(blocks) <= counters.blocks_written
    BY <1>2, <2>1 DEF AppendInv, CountInv
  <2> QED
    BY <1>1, <1>3, <2>1, <2>2 DEF CountInv
<1>9. MaximalInv'
  <2>1. pc' \in {"ready", "finished"}
    BY <1>1 DEF ReturnFrom
  <2>2. /\ \A k \in 1..Len(blocks) : Small(blocks[k]) => Full(blocks[k].rows, blocks[k].rest)
        /\ \A k \in 1..Len(blocks) - 1 : Small(blocks[k]) => Follows(blocks[k], blocks[k + 1].rows)
        /\ Complete(buffer) => ~Buildable(buffer)
    BY <1>1 DEF AppendInv, MaximalInv
  <2>3. Len(blocks) > 0 /\ Small(blocks[Len(blocks)]) =>
          IF buffer # <<>> THEN Follows(blocks[Len(blocks)], buffer)
          ELSE Stuck(blocks[Len(blocks)].rest)
    BY <1>1, LastBlock
  <2>4. Buildable(buffer)' <=> Buildable(buffer)
    BY <1>1 DEF Buildable
  <2> QED
    BY <1>1, <2>1, <2>2, <2>3, <2>4 DEF MaximalInv
<1> QED
  BY <1>5, <1>6, <1>7, <1>8, <1>9 DEF AppendInv

\* The block a publication adds.
NewBlock == [rows |-> buffer, by |-> call.kind, rest |-> RestOfCall]

\* What a publication does to the blocks, counted or not.
LEMMA PublishFacts ==
    ASSUME AppendInv, Publish
    PROVE  /\ pc = "publish" /\ InCall /\ ~poisoned /\ buffer # <<>> /\ buffer \in Seq(Rows)
           /\ NewBlock \in BlockRecord /\ NewBlock.rows = buffer /\ NewBlock.by = call.kind
           /\ NewBlock.rest = RestOfCall
           /\ blocks' = Append(blocks, NewBlock) /\ buffer' = <<>> /\ synced' = synced
           /\ blocks \in Seq(BlockRecord) /\ blocks' \in Seq(BlockRecord)
           /\ Len(blocks') = Len(blocks) + 1 /\ blocks'[Len(blocks) + 1] = NewBlock
           /\ \A k \in 1..Len(blocks) : blocks'[k] = blocks[k]
           /\ RowsOf(blocks) \in Seq(Rows)
           /\ RowsOf(blocks') = RowsOf(blocks) \o buffer
           /\ RowsOf(blocks') \o buffer' = RowsOf(blocks) \o buffer
           /\ PricedInv' /\ GoodBlock(buffer)
           /\ Len(blocks) = counters.blocks_written
<1>1. /\ pc = "publish" /\ InCall /\ ~poisoned /\ buffer # <<>> /\ buffer \in Seq(Rows)
      /\ blocks \in Seq(BlockRecord) /\ call.batch \in Seq(Rows) /\ call.consumed \in Nat
      /\ call.kind \in CallKinds
  BY DEF Publish, AppendInv, CallInv, InCall
<1>2. blocks' = Append(blocks, NewBlock) /\ buffer' = <<>> /\ synced' = synced
  BY DEF Publish, NewBlock, RestOfCall
<1>3. RestOfCall \in Seq(Rows)
  BY <1>1 DEF RestOfCall
<1>4. /\ NewBlock \in BlockRecord /\ NewBlock.rows = buffer /\ NewBlock.by = call.kind
      /\ NewBlock.rest = RestOfCall
  BY <1>1, <1>3 DEF NewBlock, BlockRecord
<1>5. /\ blocks' \in Seq(BlockRecord)
      /\ Len(blocks') = Len(blocks) + 1 /\ blocks'[Len(blocks) + 1] = NewBlock
      /\ \A k \in 1..Len(blocks) : blocks'[k] = blocks[k]
  BY <1>1, <1>2, <1>4
<1>6. RowsOf(blocks) \in Seq(Rows) /\ RowsOf(blocks') = RowsOf(blocks) \o buffer
  BY <1>1, <1>2, <1>4, RowsOfBlocks
<1>7. RowsOf(blocks') \o buffer' = RowsOf(blocks) \o buffer
  <2>1. RowsOf(blocks) \o buffer \in Seq(Rows)
    BY <1>1, <1>6, RowsJoin
  <2>2. \A t \in Seq(Rows) : t \o <<>> = t
    OBVIOUS
  <2> QED
    BY <1>2, <1>6, <2>1, <2>2
<1>8. GoodBlock(buffer) /\ \A k \in 1..Len(blocks) : GoodBlock(blocks[k].rows)
  BY <1>1 DEF AppendInv, PricedInv
<1>9. PricedInv'
  <2>1. ASSUME NEW k \in 1..Len(blocks') PROVE GoodBlock(blocks'[k].rows)
    <3>1. k \in 1..Len(blocks) \/ k = Len(blocks) + 1
      BY <1>1, <1>5
    <3> QED
      BY <1>4, <1>5, <1>8, <3>1
  <2> QED
    BY <1>2, <2>1 DEF PricedInv
<1>10. Len(blocks) = counters.blocks_written
  BY <1>1, HeldAtRest
<1> QED
  BY <1>1, <1>2, <1>4, <1>5, <1>6, <1>7, <1>8, <1>9, <1>10

LEMMA PublishMaximal ==
    ASSUME AppendInv, Publish, UNCHANGED encoding
    PROVE  MaximalInv'
<1>1. /\ pc = "publish" /\ ~poisoned /\ buffer # <<>> /\ buffer' = <<>>
      /\ NewBlock.rows = buffer /\ NewBlock.by = call.kind /\ NewBlock.rest = RestOfCall
      /\ Len(blocks') = Len(blocks) + 1 /\ blocks'[Len(blocks) + 1] = NewBlock
      /\ \A k \in 1..Len(blocks) : blocks'[k] = blocks[k]
      /\ blocks \in Seq(BlockRecord) /\ buffer \in Seq(Rows) /\ GoodBlock(buffer)
  BY PublishFacts
<1>2. /\ \A k \in 1..Len(blocks) : Small(blocks[k]) => Full(blocks[k].rows, blocks[k].rest)
      /\ \A k \in 1..Len(blocks) - 1 : Small(blocks[k]) => Follows(blocks[k], blocks[k + 1].rows)
      /\ Len(blocks) > 0 /\ Small(blocks[Len(blocks)]) => Follows(blocks[Len(blocks)], buffer)
      /\ call.kind = "append" /\ ~Complete(buffer) => Full(buffer, RestOfCall)
  BY <1>1 DEF AppendInv, MaximalInv
<1>3. Small(NewBlock) => call.kind = "append" /\ ~Complete(buffer)
  <2>1. Len(buffer) \in Nat /\ FrameBytes(buffer) \in Nat
    BY <1>1, Tables DEF GoodBlock
  <2> QED
    BY <1>1, <2>1, Targets DEF Small, Complete
<1>4. ASSUME NEW k \in 1..Len(blocks'), Small(blocks'[k])
      PROVE  Full(blocks'[k].rows, blocks'[k].rest)
  <2>1. k \in 1..Len(blocks) \/ k = Len(blocks) + 1
    BY <1>1
  <2> QED
    BY <1>1, <1>2, <1>3, <1>4, <2>1
<1>5. ASSUME NEW k \in 1..Len(blocks') - 1, Small(blocks'[k])
      PROVE  Follows(blocks'[k], blocks'[k + 1].rows)
  <2>1. k \in 1..Len(blocks) /\ Len(blocks) \in Nat
    BY <1>1
  <2>2. CASE k = Len(blocks)
    BY <1>1, <1>2, <1>5, <2>1, <2>2
  <2>3. CASE k # Len(blocks)
    <3>1. k \in 1..Len(blocks) - 1 /\ k + 1 \in 1..Len(blocks)
      BY <2>1, <2>3
    <3> QED
      BY <1>1, <1>2, <1>5, <3>1
  <2> QED
    BY <2>2, <2>3
<1>6. \/ poisoned'
      \/ /\ UNCHANGED call
         /\ pc' = IF call.kind = "append" THEN "append" ELSE "flush"
  BY DEF Publish, commit, CommitFails, AfterPublish
<1>7. Small(NewBlock) => poisoned' \/ (pc' = "append" /\ NewBlock.rest = RestOfCall')
  BY <1>1, <1>3, <1>6 DEF RestOfCall
<1>8. pc' # "publish"
  BY DEF Publish, commit, CommitFails, AfterPublish, ReturnFrom
<1>9. ~Complete(buffer')
  BY <1>1, EmptyIncomplete
<1>10. blocks'[Len(blocks')] = NewBlock
  BY <1>1
<1> QED
  BY <1>1, <1>4, <1>5, <1>7, <1>8, <1>9, <1>10 DEF MaximalInv

\* The counters take the block.
LEMMA PublishCounted ==
    ASSUME AppendInv, Publish, UNCHANGED encoding, ~Overflows(buffer)
    PROVE  AppendInv'
<1>1. /\ pc = "publish" /\ InCall /\ ~poisoned /\ buffer # <<>> /\ buffer \in Seq(Rows)
      /\ NewBlock \in BlockRecord /\ NewBlock.rows = buffer
      /\ blocks' = Append(blocks, NewBlock) /\ buffer' = <<>> /\ synced' = synced
      /\ blocks \in Seq(BlockRecord) /\ blocks' \in Seq(BlockRecord)
      /\ Len(blocks') = Len(blocks) + 1
      /\ RowsOf(blocks) \in Seq(Rows)
      /\ RowsOf(blocks') = RowsOf(blocks) \o buffer
      /\ RowsOf(blocks') \o buffer' = RowsOf(blocks) \o buffer
      /\ PricedInv' /\ GoodBlock(buffer)
      /\ Len(blocks) = counters.blocks_written
  BY PublishFacts
<1>2. /\ counters' = Committed(buffer)
      /\ pc' = IF call.kind = "append" THEN "append" ELSE "flush"
      /\ UNCHANGED <<call, poisoned, outcome, before, given>>
  BY DEF Publish, commit, AfterPublish
<1>3. /\ counters \in [ published_rows : Nat, published_bytes : Nat, durable_rows : Nat,
                        durable_bytes : Nat, blocks_written : Nat ]
      /\ FrameBytes(buffer) \in Nat /\ Len(buffer) \in Nat
  BY <1>1, Tables DEF AppendInv, CallInv, GoodBlock
<1>4. /\ counters'.published_rows = counters.published_rows + Len(buffer)
      /\ counters'.published_bytes = counters.published_bytes + FrameBytes(buffer)
      /\ counters'.durable_rows = counters.durable_rows
      /\ counters'.durable_bytes = counters.durable_bytes
      /\ counters'.blocks_written = counters.blocks_written + 1
      /\ counters' \in [ published_rows : Nat, published_bytes : Nat, durable_rows : Nat,
                         durable_bytes : Nat, blocks_written : Nat ]
  <2>1. /\ counters.published_rows + Len(buffer) \in Nat
        /\ counters.published_bytes + FrameBytes(buffer) \in Nat
        /\ counters.blocks_written + 1 \in Nat
    BY <1>3
  <2>2. counters' = [counters EXCEPT !.published_rows = counters.published_rows + Len(buffer),
                                     !.published_bytes = counters.published_bytes + FrameBytes(buffer),
                                     !.blocks_written = counters.blocks_written + 1]
    BY <1>2 DEF Committed
  <2> QED
    BY <1>3, <2>1, <2>2
<1>5. CallInv'
  <2>1. <<>> \in Seq(Rows)
    OBVIOUS
  <2> QED
    BY <1>1, <1>2, <1>4, <2>1 DEF AppendInv, CallInv, InCall
<1>6. HeldInv'
  BY <1>1, <1>2 DEF AppendInv, HeldInv, InCall
<1>7. CountInv'
  <2> DEFINE n == counters.blocks_written
  <2>1. n \in Nat /\ synced \in 0..Len(blocks)
    BY <1>1, <1>3 DEF AppendInv, CallInv, CountInv
  <2>2. /\ counters.published_rows = Len(RowsOf(SubSeq(blocks, 1, n)))
        /\ counters.published_bytes = BytesOf(blocks, n)
        /\ counters.durable_rows = Len(RowsOf(SubSeq(blocks, 1, synced)))
        /\ counters.durable_bytes = BytesOf(blocks, synced)
    BY DEF AppendInv, CountInv
  <2>3. SubSeq(blocks, 1, n) = blocks /\ SubSeq(blocks', 1, n + 1) = blocks'
    BY <1>1, SubSeqFull
  <2>4. SubSeq(blocks', 1, synced) = SubSeq(blocks, 1, synced)
    BY <1>1, <2>1, PrefixOfAppend
  <2>5. Len(RowsOf(blocks')) = Len(RowsOf(blocks)) + Len(buffer)
    BY <1>1, RowsJoin
  <2>6. /\ BytesOf(blocks', synced) = BytesOf(blocks, synced)
        /\ BytesOf(blocks', n + 1) = BytesOf(blocks, n) + FrameBytes(buffer)
    <3>1. \A k \in 1..Len(blocks) : Len(blocks[k].rows) <= RowTarget
      BY DEF AppendInv, PricedInv, GoodBlock
    <3>2. Len(NewBlock.rows) <= RowTarget
      BY <1>1 DEF GoodBlock
    <3> QED
      BY <1>1, <2>1, <3>1, <3>2, BytesOfBlocks
  <2> HIDE DEF n
  <2>7. /\ Len(blocks') = n + 1 /\ counters'.blocks_written = n + 1 /\ synced' <= n + 1
        /\ counters'.published_rows = Len(RowsOf(SubSeq(blocks', 1, n + 1)))
        /\ counters'.published_bytes = BytesOf(blocks', n + 1)
        /\ counters'.durable_rows = Len(RowsOf(SubSeq(blocks', 1, synced')))
        /\ counters'.durable_bytes = BytesOf(blocks', synced')
    <3>1. counters'.blocks_written = n + 1 /\ n = Len(blocks) /\ Len(blocks') = n + 1
      BY <1>1, <1>4 DEF n
    <3>2. synced' = synced /\ synced <= n + 1
      BY <1>1, <2>1, <3>1
    <3>3. counters'.published_rows = Len(RowsOf(SubSeq(blocks', 1, n + 1)))
      BY <1>4, <2>2, <2>3, <2>5
    <3>4. counters'.published_bytes = BytesOf(blocks', n + 1)
      BY <1>4, <2>2, <2>6
    <3>5. /\ counters'.durable_rows = Len(RowsOf(SubSeq(blocks', 1, synced)))
          /\ counters'.durable_bytes = BytesOf(blocks', synced)
      BY <1>4, <2>2, <2>4, <2>6
    <3> QED
      BY <3>1, <3>2, <3>3, <3>4, <3>5
  <2> QED
    BY <2>7 DEF CountInv
<1> QED
  BY <1>1, <1>5, <1>6, <1>7, PublishMaximal DEF AppendInv

\* The block is in the file and a counter cannot take it: the Writer is
\* poisoned and the caller is told of fewer rows than the file holds.
LEMMA PublishOverflows ==
    ASSUME AppendInv, Publish, UNCHANGED encoding, Overflows(buffer)
    PROVE  AppendInv'
<1>1. /\ pc = "publish" /\ InCall /\ ~poisoned /\ buffer # <<>> /\ buffer \in Seq(Rows)
      /\ NewBlock \in BlockRecord /\ NewBlock.rows = buffer
      /\ blocks' = Append(blocks, NewBlock) /\ buffer' = <<>> /\ synced' = synced
      /\ blocks \in Seq(BlockRecord) /\ blocks' \in Seq(BlockRecord)
      /\ Len(blocks') = Len(blocks) + 1 /\ blocks'[Len(blocks) + 1] = NewBlock
      /\ RowsOf(blocks) \in Seq(Rows)
      /\ RowsOf(blocks') \o buffer' = RowsOf(blocks) \o buffer
      /\ PricedInv' /\ GoodBlock(buffer)
      /\ Len(blocks) = counters.blocks_written
  BY PublishFacts
<1>2. poisoned' = TRUE /\ counters' = counters /\ ReturnFrom("overflow")
  BY DEF Publish, commit, CommitFails
<1>3. /\ call.batch \in Seq(Rows) /\ given \in Seq(Rows) /\ call.consumed \in Nat
      /\ call.consumed <= Len(call.batch) /\ synced \in Nat
      /\ counters \in [ published_rows : Nat, published_bytes : Nat, durable_rows : Nat,
                        durable_bytes : Nat, blocks_written : Nat ]
  BY DEF AppendInv, CallInv
<1> DEFINE held == RowsOf(blocks) \o buffer
           taken == SubSeq(call.batch, 1, call.consumed)
           d == total_rows' - before.total_rows
<1>4. held = given \o taken /\ before.total_rows = Len(given)
  BY <1>1 DEF AppendInv, HeldInv
<1>5. counters.published_rows = Len(RowsOf(blocks))
  BY <1>1, HeldAtRest
<1>6. d \in Int /\ d <= call.consumed
  <2>1. taken \in Seq(Rows) /\ Len(taken) = call.consumed
    BY <1>3
  <2>2. Len(held) = Len(RowsOf(blocks)) + Len(buffer) /\ Len(held) = Len(given) + Len(taken)
    <3>1. Len(RowsOf(blocks) \o buffer) = Len(RowsOf(blocks)) + Len(buffer)
      BY <1>1, RowsJoin
    <3> HIDE DEF taken
    <3>2. Len(given \o taken) = Len(given) + Len(taken)
      BY <1>3, <2>1, RowsJoin
    <3> QED
      BY <1>4, <3>1, <3>2
  <2>3. total_rows' = Len(RowsOf(blocks))
    BY <1>1, <1>2, <1>3, <1>5 DEF total_rows
  <2>4. Len(RowsOf(blocks)) \in Nat /\ Len(buffer) \in Nat /\ Len(given) \in Nat
    BY <1>1, <1>3
  <2> HIDE DEF held, taken
  <2> QED
    BY <1>3, <1>4, <2>1, <2>2, <2>3, <2>4
<1>7. given' = given \o SubSeq(call.batch, 1, d)
  BY <1>2 DEF ReturnFrom, AcceptedOfCall
<1>8. IsPrefix(given', held)
  <2> HIDE DEF d, held
  <2> QED
    BY <1>3, <1>4, <1>6, <1>7, ShorterIsPrefix
<1>9. given' \in Seq(Rows)
  <2>1. SubSeq(call.batch, 1, d) \in Seq(Rows)
    <3> HIDE DEF d
    <3> QED
      BY <1>3, <1>6
  <2> HIDE DEF d
  <2> QED
    BY <1>3, <1>7, <2>1, RowsJoin
<1>10. CallInv'
  <2>1. CallInv /\ <<>> \in Seq(Rows)
    BY DEF AppendInv
  <2> QED
    BY <1>1, <1>2, <1>3, <1>9, <2>1, ReturnCall
<1>11. HeldInv'
  <2>1. ~InCall'
    BY <1>2 DEF ReturnFrom, InCall
  <2>2. counters'.blocks_written # Len(blocks')
    BY <1>1, <1>2, <1>3
  <2> QED
    BY <1>1, <1>8, <2>1, <2>2 DEF HeldInv
<1>12. CountInv'
  <2> DEFINE n == counters.blocks_written
  <2>1. n \in 0..Len(blocks) /\ synced \in 0..Len(blocks) /\ synced <= n
    BY <1>1, <1>3 DEF AppendInv, CountInv
  <2>2. /\ counters.published_rows = Len(RowsOf(SubSeq(blocks, 1, n)))
        /\ counters.published_bytes = BytesOf(blocks, n)
        /\ counters.durable_rows = Len(RowsOf(SubSeq(blocks, 1, synced)))
        /\ counters.durable_bytes = BytesOf(blocks, synced)
    BY DEF AppendInv, CountInv
  <2>3. \A m \in 0..Len(blocks) : SubSeq(blocks', 1, m) = SubSeq(blocks, 1, m)
    BY <1>1, PrefixOfAppend
  <2>4. \A m \in 0..Len(blocks) : BytesOf(blocks', m) = BytesOf(blocks, m)
    <3>1. \A k \in 1..Len(blocks) : Len(blocks[k].rows) <= RowTarget
      BY DEF AppendInv, PricedInv, GoodBlock
    <3>2. Len(NewBlock.rows) <= RowTarget
      BY <1>1 DEF GoodBlock
    <3> QED
      BY <1>1, <3>1, <3>2, BytesOfBlocks
  <2>5. Overflows(blocks[counters.blocks_written + 1].rows)'
    <3>1. (blocks[counters.blocks_written + 1].rows)' = buffer
      BY <1>1, <1>2
    <3> QED
      BY <1>2, <3>1 DEF Overflows, Committed
  <2> HIDE DEF n
  <2>6. /\ Len(blocks') = n + 1 /\ counters'.blocks_written = n /\ synced' <= n /\ poisoned'
        /\ counters'.published_rows = Len(RowsOf(SubSeq(blocks', 1, n)))
        /\ counters'.published_bytes = BytesOf(blocks', n)
        /\ counters'.durable_rows = Len(RowsOf(SubSeq(blocks', 1, synced')))
        /\ counters'.durable_bytes = BytesOf(blocks', synced')
    BY <1>1, <1>2, <2>1, <2>2, <2>3, <2>4 DEF n
  <2> QED
    BY <2>5, <2>6 DEF CountInv
<1> QED
  BY <1>1, <1>10, <1>11, <1>12, PublishMaximal DEF AppendInv

LEMMA AppendStep ==
    AppendInv /\ [AppendNext]_avars => AppendInv'
<1> SUFFICES ASSUME AppendInv, [AppendNext]_avars PROVE AppendInv'
  OBVIOUS
<1>1. CASE Begins
  BY <1>1, RefuseStep, BeginStep DEF Begins
<1>2. CASE GoesOn
  <2>0. UNCHANGED encoding
    BY <1>2 DEF GoesOn
  <2>1. CASE AppendTurn
    BY <2>0, <2>1, TurnEnds, TurnRefuses, TurnTakes
  <2>2. CASE PublishNothing
    BY <2>0, <2>2, PublishNothingStep
  <2>3. CASE Publish
    BY <2>0, <2>3, PublishCounted, PublishOverflows
  <2>4. CASE BuildFails \/ IoFails
    BY <2>0, <2>4, FailStep
  <2>5. CASE Flushed
    BY <2>0, <2>5, FlushedStep
  <2>6. CASE Synced
    BY <2>0, <2>6, SyncedStep
  <2> QED
    BY <1>2, <2>1, <2>2, <2>3, <2>4, <2>5, <2>6 DEF GoesOn
<1>3. CASE Restart
  BY <1>3, RestartStep
<1>4. CASE UNCHANGED avars
  <2> USE <1>4 DEF avars
  <2>1. CallInv'
    BY DEF AppendInv, CallInv, InCall
  <2>2. PricedInv'
    BY DEF AppendInv, PricedInv
  <2>3. HeldInv'
    BY DEF AppendInv, HeldInv, InCall
  <2>4. CountInv'
    BY CountKept DEF AppendInv
  <2>5. MaximalInv'
    BY DEF AppendInv, MaximalInv, RestOfCall, Buildable
  <2> QED
    BY <2>1, <2>2, <2>3, <2>4, <2>5 DEF AppendInv
<1> QED
  BY <1>1, <1>2, <1>3, <1>4 DEF AppendNext

\* The inductive invariant of the append loop, the publication and the
\* accounting of a Writer.
THEOREM AppendInvariant == AppendSpec => []AppendInv
<1> QED
  BY InitHolds, AppendStep, PTL DEF AppendSpec

-----------------------------------------------------------------------------
(* What the invariant says of the properties                               *)

LEMMA AssembledIs ==
    ASSUME AppendInv
    PROVE  /\ Len(blocks) \in Nat /\ DOMAIN blocks = 1..Len(blocks)
           /\ Len(Assembled) = Len(blocks) + (IF buffer = <<>> THEN 0 ELSE 1)
           /\ DOMAIN Assembled = 1..Len(Assembled)
           /\ \A k \in 1..Len(blocks) : Assembled[k] = blocks[k].rows
           /\ buffer # <<>> => Assembled[Len(blocks) + 1] = buffer
<1> DEFINE published == [k \in DOMAIN blocks |-> blocks[k].rows]
<1>1. blocks \in Seq(BlockRecord) /\ buffer \in Seq(Rows)
  BY DEF AppendInv, CallInv
<1>2. Len(blocks) \in Nat /\ DOMAIN blocks = 1..Len(blocks) /\ \A k \in 1..Len(blocks) : blocks[k] \in BlockRecord
  BY <1>1
<1>3. /\ published \in Seq(Seq(Rows)) /\ Len(published) = Len(blocks)
      /\ \A k \in 1..Len(blocks) : published[k] = blocks[k].rows
  BY <1>2 DEF BlockRecord
<1>4. Assembled = IF buffer = <<>> THEN published ELSE Append(published, buffer)
  BY DEF Assembled
<1> HIDE DEF published
<1>5. /\ Append(published, buffer) \in Seq(Seq(Rows))
      /\ Len(Append(published, buffer)) = Len(blocks) + 1
      /\ Append(published, buffer)[Len(blocks) + 1] = buffer
      /\ \A k \in 1..Len(blocks) : Append(published, buffer)[k] = published[k]
  BY <1>1, <1>3, AppendProperties
<1>6. \A s \in Seq(Seq(Rows)) : DOMAIN s = 1..Len(s)
  OBVIOUS
<1> QED
  BY <1>2, <1>3, <1>4, <1>5, <1>6

\* Between calls, the file and the buffer hold the rows callers were told are
\* accepted, in order and no other, whatever batches, targets, failures and
\* overflows came before (Writer::append, total_rows).
THEOREM AcceptedRowsAreKept == AppendSpec => []AcceptedRowsKept
<1>1. AppendInv => AcceptedRowsKept
  BY DEF AppendInv, HeldInv, InCall, AcceptedRowsKept
<1> QED
  BY <1>1, AppendInvariant, PTL

\* No block and no buffer passes a target, but for the byte target and a single
\* row (WriterOptions, fitting_prefix).
THEOREM TargetsHold == AppendSpec => []BlocksWithinTargets
<1>1. ASSUME AppendInv PROVE BlocksWithinTargets
  <2>1. ASSUME NEW k \in DOMAIN Assembled PROVE GoodBlock(Assembled[k])
    <3>1. k \in 1..Len(blocks) \/ (k = Len(blocks) + 1 /\ buffer # <<>>)
      <4>1. /\ k \in 1..Len(Assembled) /\ Len(blocks) \in Nat
            /\ Len(Assembled) = Len(blocks) + (IF buffer = <<>> THEN 0 ELSE 1)
        BY <1>1, <2>1, AssembledIs
      <4> QED
        BY <4>1
    <3> QED
      BY <1>1, <3>1, AssembledIs DEF AppendInv, PricedInv
  <2> QED
    BY <2>1 DEF BlocksWithinTargets, GoodBlock
<1>2. AppendInv => BlocksWithinTargets
  BY <1>1
<1> QED
  BY <1>2, AppendInvariant, PTL

\* The price a block was accepted at covers the frame built from it: no block is
\* assembled that the limits of the format then refuse, for every schema and
\* every statistics option (block_size_with_statistics against
\* build_data_frame_with_statistics).
THEOREM PriceCovers == AppendSpec => []PriceCoversFrame
<1>1. ASSUME AppendInv, buffer # <<>>
      PROVE  /\ Built[buffer].payload_bytes = Price[buffer].payload_bytes
             /\ Built[buffer].header_bytes <= Price[buffer].header_bytes
             /\ within_format_limits(Built[buffer], Len(buffer))
  <2>1. buffer \in Seq(Rows) /\ GoodBlock(buffer)
    BY <1>1 DEF AppendInv, CallInv, PricedInv
  <2>2. /\ Price[buffer] = block_size_with_statistics(buffer)
        /\ Built[buffer] = BuiltFrame(buffer)
    BY <2>1, Tables DEF GoodBlock
  <2>3. /\ Built[buffer].payload_bytes = Price[buffer].payload_bytes
        /\ Built[buffer].header_bytes <= Price[buffer].header_bytes
        /\ Built[buffer].header_bytes \in Nat
    BY <2>1, <2>2, FrameWithinPrice
  <2>4. Price[buffer].header_bytes \in Nat
    BY <2>1, <2>2, SizeType
  <2> QED
    BY <2>1, <2>3, <2>4, Targets DEF GoodBlock, within_format_limits
<1>2. AppendInv => PriceCoversFrame
  BY <1>1 DEF PriceCoversFrame
<1> QED
  BY <1>2, AppendInvariant, PTL

\* The counters describe the blocks in the file, the durable ones those a
\* completed sync covers; only a last block that would overflow a counter may be
\* missing from them, and the Writer then writes no other (commit, Writer::sync).
THEOREM CountersAreTrue == AppendSpec => []CountersDescribeFile
<1>1. AppendInv => CountersDescribeFile
  BY DEF AppendInv, CountInv, BytesOf, CountersDescribeFile
<1> QED
  BY <1>1, AppendInvariant, PTL

\* A block an append publishes has reached a target or has no room for the next
\* row of the batch, which then begins the next block unless no block can hold
\* it; a complete buffer outlives a call only if it cannot be built
\* (fitting_prefix, publish_if_complete).
THEOREM BlocksAreMaximal == AppendSpec => []BlocksMaximal
<1>1. ASSUME AppendInv, NEW k \in DOMAIN blocks, Small(blocks[k])
      PROVE  /\ Full(blocks[k].rows, blocks[k].rest)
             /\ k < Len(Assembled) => Follows(blocks[k], Assembled[k + 1])
  <2>1. /\ Len(blocks) \in Nat /\ DOMAIN blocks = 1..Len(blocks)
        /\ Len(Assembled) = Len(blocks) + (IF buffer = <<>> THEN 0 ELSE 1)
        /\ \A j \in 1..Len(blocks) : Assembled[j] = blocks[j].rows
        /\ buffer # <<>> => Assembled[Len(blocks) + 1] = buffer
    BY <1>1, AssembledIs
  <2>2. Full(blocks[k].rows, blocks[k].rest)
    BY <1>1, <2>1 DEF AppendInv, MaximalInv
  <2>3. ASSUME k < Len(Assembled) PROVE Follows(blocks[k], Assembled[k + 1])
    <3>1. CASE k = Len(blocks)
      <4>1. buffer # <<>> /\ Len(blocks) > 0
        BY <2>1, <2>3, <3>1
      <4> QED
        BY <1>1, <2>1, <3>1, <4>1 DEF AppendInv, MaximalInv
    <3>2. CASE k # Len(blocks)
      <4>1. k \in 1..Len(blocks) - 1 /\ k + 1 \in 1..Len(blocks)
        BY <2>1, <3>2
      <4> QED
        BY <1>1, <2>1, <4>1 DEF AppendInv, MaximalInv
    <3> QED
      BY <3>1, <3>2
  <2> QED
    BY <2>2, <2>3
<1>2. ASSUME AppendInv, pc = "ready", ~poisoned, Complete(buffer) PROVE ~Buildable(buffer)
  BY <1>2 DEF AppendInv, MaximalInv
<1>3. AppendInv => BlocksMaximal
  BY <1>1, <1>2 DEF BlocksMaximal, Small, Full, Follows, Stuck, NextRow, Complete
<1> QED
  BY <1>3, AppendInvariant, PTL
=============================================================================
