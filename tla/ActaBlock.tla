----------------------------- MODULE ActaBlock -----------------------------
(***************************************************************************)
(* What a block of rows costs.  The writer prices a block from per-column  *)
(* counters before it accepts a row (write/buffer.rs); the frame is built  *)
(* from the rows themselves when the block is published (write/encode).    *)
(* Both are modelled, for the raw encoding without compression, so that    *)
(* the one can be compared with the other.                                 *)
(*                                                                         *)
(* A row is a sequence of cells, one per column; of a value only its       *)
(* validity, its length in a variable-width column, and whether it is NaN  *)
(* are kept.                                                               *)
(***************************************************************************)
EXTENDS Integers, Sequences, FiniteSets, Functions

CONSTANTS
    Schema,                     \* the columns: their kind, width and whether primary
    Statistics,                 \* WriterOptions::statistics
    AUTOMATIC_MIN_DENSE_VALUES, \* 64 in the code
    AUTOMATIC_VALUE_TO_STATISTICS_RATIO,    \* 8 in the code
    MAX_ROWS_PER_BLOCK, MAX_FRAME_HEADER_LENGTH, MAX_FRAME_PAYLOAD_LENGTH  \* Limits

Kinds == {"fixed", "bool", "variable"}

ASSUME SchemaAssumption ==
    Schema \in Seq([kind : Kinds, width : Nat, primary : BOOLEAN])
ASSUME StatisticsAssumption ==
    /\ Statistics \in {"None", "MinMax", "Automatic"}
    /\ AUTOMATIC_MIN_DENSE_VALUES \in Nat \ {0}
    /\ AUTOMATIC_VALUE_TO_STATISTICS_RATIO \in Nat
ASSUME BlockLimitsAssumption ==
    {MAX_ROWS_PER_BLOCK, MAX_FRAME_HEADER_LENGTH, MAX_FRAME_PAYLOAD_LENGTH} \subseteq Nat

Cell == [valid : BOOLEAN, bytes : Nat, nan : BOOLEAN]

FRAME_ALIGNMENT == 8
PREFIX_SIZE == 48
TRAILER_SIZE == 32
DATA_BLOCK_HEADER_SIZE == 64
BLOCK_COLUMN_DESCRIPTOR_SIZE == 32
BLOCK_STREAM_DESCRIPTOR_SIZE == 48
LENGTH_ENTRY_BYTES == 4

Columns == DOMAIN Schema

bitmap_bytes(bits) == (bits + 7) \div 8

Aligned(length) == ((length + FRAME_ALIGNMENT - 1) \div FRAME_ALIGNMENT) * FRAME_ALIGNMENT

stream_payload_bytes(length) ==
    IF length = 0 THEN FRAME_ALIGNMENT ELSE Aligned(length)

statistics_width(c) == IF Schema[c].kind = "variable" THEN 0 ELSE Schema[c].width

-----------------------------------------------------------------------------
(* The price, from counters.                                               *)

\* ColumnFootprint: what add_row has accumulated over the rows.
Footprint(c, rows) ==
    LET dense == {k \in DOMAIN rows : rows[k][c].valid}
    IN  [ dense_count    |-> Cardinality(dense),
          null_count     |-> Len(rows) - Cardinality(dense),
          variable_bytes |-> SumFunction([k \in dense |-> rows[k][c].bytes]) ]

values_bytes(c, footprint) ==
    CASE Schema[c].kind = "bool"     -> bitmap_bytes(footprint.dense_count)
      [] Schema[c].kind = "variable" -> footprint.variable_bytes
      [] Schema[c].kind = "fixed"    -> Schema[c].width * footprint.dense_count

\* Mutant: the stream of lengths behind variable-width values is not priced.
StreamPrices_NoLengths(c, footprint, rows) ==
    (IF footprint.null_count = 0 \/ footprint.dense_count = 0
     THEN <<>> ELSE <<bitmap_bytes(rows)>>)
    \o (IF footprint.dense_count = 0 THEN <<>> ELSE <<values_bytes(c, footprint)>>)

\* column_size: the lengths of the streams a column needs for so many rows.
StreamPrices(c, footprint, rows) ==
    (IF footprint.null_count = 0 \/ footprint.dense_count = 0
     THEN <<>> ELSE <<bitmap_bytes(rows)>>)
    \o (IF footprint.dense_count = 0 THEN <<>>
        ELSE IF Schema[c].kind = "variable"
        THEN <<values_bytes(c, footprint), LENGTH_ENTRY_BYTES * footprint.dense_count>>
        ELSE <<values_bytes(c, footprint)>>)

should_reserve_statistics(c, footprint) ==
    /\ footprint.dense_count # 0
    /\ statistics_width(c) # 0
    /\ \/ Statistics = "MinMax"
       \/ /\ Statistics = "Automatic"
          /\ ~Schema[c].primary
          /\ footprint.dense_count >= AUTOMATIC_MIN_DENSE_VALUES
          /\ statistics_width(c) * 2 * AUTOMATIC_VALUE_TO_STATISTICS_RATIO
                <= values_bytes(c, footprint)

\* Header, payload and frame length of a block whose columns have these streams
\* and whose statistics take so many bytes.
Geometry(streams, statistics) ==
    LET stored == [c \in Columns |->
                     SumFunction([s \in DOMAIN streams[c] |-> stream_payload_bytes(streams[c][s])])]
        stream_count == SumFunction([c \in Columns |-> Len(streams[c])])
        payload == SumFunction(stored)
        header == DATA_BLOCK_HEADER_SIZE
                    + Len(Schema) * BLOCK_COLUMN_DESCRIPTOR_SIZE
                    + stream_count * BLOCK_STREAM_DESCRIPTOR_SIZE
                    + Aligned(statistics)
    IN  [ header_bytes  |-> header,
          payload_bytes |-> payload,
          frame_bytes   |-> PREFIX_SIZE + header + payload + TRAILER_SIZE ]

\* The bytes of the pairs of so many columns.
StatisticsBytes(columns) == SumFunction([c \in columns |-> 2 * statistics_width(c)])

block_size_with_statistics(rows) ==
    LET footprints == [c \in Columns |-> Footprint(c, rows)]
    IN  Geometry([c \in Columns |-> StreamPrices(c, footprints[c], Len(rows))],
                 StatisticsBytes({c \in Columns : should_reserve_statistics(c, footprints[c])}))

within_format_limits(size, rows) ==
    /\ rows <= MAX_ROWS_PER_BLOCK
    /\ size.header_bytes <= MAX_FRAME_HEADER_LENGTH
    /\ size.payload_bytes <= MAX_FRAME_PAYLOAD_LENGTH

-----------------------------------------------------------------------------
(* The frame, from the rows.                                               *)

ValidRows(c, rows) == {k \in DOMAIN rows : rows[k][c].valid}

\* encode_dense_values: the bytes each valid row adds to the values stream.
EncodedValues(c, rows) ==
    IF Schema[c].kind = "bool"
    THEN bitmap_bytes(Cardinality(ValidRows(c, rows)))
    ELSE SumFunction([k \in ValidRows(c, rows) |->
                        IF Schema[c].kind = "variable" THEN rows[k][c].bytes
                        ELSE Schema[c].width])

\* raw_column_candidate: validity, values and lengths, each where it is needed.
EncodedStreams(c, rows) ==
    LET valid == ValidRows(c, rows)
        implicit == valid = DOMAIN rows \/ valid = {}
    IN  (IF implicit THEN <<>> ELSE <<bitmap_bytes(Len(rows))>>)
        \o (IF valid = {} THEN <<>> ELSE <<EncodedValues(c, rows)>>)
        \o (IF valid = {} \/ Schema[c].kind # "variable" THEN <<>>
            ELSE <<SumFunction([k \in valid |-> LENGTH_ENTRY_BYTES])>>)

\* generate_statistics: whether a column gets a pair, which NaNs do not count for.
HasStatistics(c, rows) ==
    LET value_count == Cardinality({k \in ValidRows(c, rows) : ~rows[k][c].nan})
        value_bytes == IF Schema[c].kind = "bool" THEN bitmap_bytes(value_count)
                       ELSE value_count * statistics_width(c)
    IN  /\ statistics_width(c) # 0
        /\ value_count # 0
        /\ \/ Statistics = "MinMax"
           \/ /\ Statistics = "Automatic"
              /\ ~Schema[c].primary
              /\ value_count >= AUTOMATIC_MIN_DENSE_VALUES
              /\ statistics_width(c) * 2 * AUTOMATIC_VALUE_TO_STATISTICS_RATIO <= value_bytes

\* build_data_frame_with_statistics, before its checks of the limits.
BuiltFrame(rows) ==
    Geometry([c \in Columns |-> EncodedStreams(c, rows)],
             StatisticsBytes({c \in Columns : HasStatistics(c, rows)}))
=============================================================================
