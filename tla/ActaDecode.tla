----------------------------- MODULE ActaDecode -----------------------------
(***************************************************************************)
(* How a reader turns the streams of one column back into rows             *)
(* (read/decode.rs, read/values.rs) and verifies the stored statistics     *)
(* against them (validate/statistics.rs).  The layout of the frame has     *)
(* been parsed and every stream's checksum has matched.                    *)
(***************************************************************************)
EXTENDS ActaEncode

CONSTANT Null      \* what a null row holds

\* External: String::from_utf8, of which only this is used, that some bytes are
\* the text of no string.
is_utf8(bytes) == \A k \in DOMAIN bytes : bytes[k] # 2^ByteBits - 1

StreamsOf(stored, kind) ==
    ElementsAt(stored.streams, {s \in DOMAIN stored.streams : stored.streams[s].kind = kind})

\* The ? of the code: what follows a step that may find the column corrupt.
AndThen(decoded, follow(_)) == IF decoded.ok THEN follow(decoded.values) ELSE Corrupt

\* required_stream and expect_elements: the only stream of its kind.
Has(stored, kind, count) ==
    /\ Len(StreamsOf(stored, kind)) = 1
    /\ StreamsOf(stored, kind)[1].elements = count
The(stored, kind) == StreamsOf(stored, kind)[1]

AllowedKinds == [ plain      |-> {"validity", "values", "lengths"},
                  constant   |-> {"validity", "values", "lengths"},
                  dictionary |-> {"validity", "dictionary_values", "dictionary_lengths", "indices"},
                  run_length |-> {"validity", "run_values", "run_lengths", "lengths"} ]

check_stream_kinds(stored) ==
    \A s \in DOMAIN stored.streams : stored.streams[s].kind \in AllowedKinds[stored.layout]

\* validate_column_descriptor: the counts and flags the frame parser has checked.
validate_column_descriptor(column, stored, row_count) ==
    /\ stored.null_count <= row_count
    /\ stored.dense_count = row_count - stored.null_count
    /\ column.nullable \/ stored.null_count = 0

-----------------------------------------------------------------------------
(* Validity: one Boolean per row.                                          *)

AllRows(valid, row_count) == Decoded([k \in 1..row_count |-> valid])

implicit_validity(stored, row_count) ==
    IF StreamsOf(stored, "validity") # <<>> THEN Corrupt
    ELSE IF stored.null_count = 0 THEN AllRows(TRUE, row_count)
    ELSE IF stored.null_count = row_count THEN AllRows(FALSE, row_count)
    ELSE Corrupt

validity(column, stored, row_count) ==
    LET streams == StreamsOf(stored, "validity")
        bits == booleans(streams[1].bytes, streams[1].elements, streams[1].transform)
    IN  IF Len(streams) > 1 THEN Corrupt
        ELSE IF ~column.nullable
        THEN IF stored.null_count = 0 /\ streams = <<>> THEN AllRows(TRUE, row_count) ELSE Corrupt
        ELSE IF stored.implicit THEN implicit_validity(stored, row_count)
        ELSE IF streams = <<>>
        THEN IF stored.null_count = 0 THEN AllRows(TRUE, row_count) ELSE Corrupt
        ELSE IF /\ streams[1].elements = row_count
                /\ bits.ok
                /\ Cardinality({k \in 1..row_count : ~bits.values[k]}) = stored.null_count
        THEN bits ELSE Corrupt

-----------------------------------------------------------------------------
(* Dense values, layout by layout.                                         *)

\* canonical_bytes: raw or byte-stream split, cut into values.
canonical_values(stream, width) ==
    LET split == byte_stream_split(stream.bytes, stream.elements, width)
        bytes == IF stream.transform = "raw" THEN stream.bytes ELSE split.values
    IN  IF \/ stream.transform \notin {"raw", "byte_stream_split"}
           \/ stream.transform = "byte_stream_split" /\ ~split.ok
           \/ Len(bytes) # stream.elements * width
        THEN Corrupt
        ELSE Decoded(Chunks(bytes, width))

stored_values(column, stream) ==
    CASE column.family = "bool" -> booleans(stream.bytes, stream.elements, stream.transform)
      [] IsNumeric(column)      -> integer(stream.bytes, stream.elements, column, stream.transform)
      [] column.family \in {"float", "fixed_binary"} -> canonical_values(stream, column.width)

\* The values the lengths cut a payload into, which they must use up.
split_values(payload, lengths) ==
    LET ends == PartialSums(0, lengths)
    IN  IF Last(ends) # Len(payload) THEN Corrupt
        ELSE Decoded([k \in DOMAIN lengths |-> SubSeq(payload, ends[k] + 1, ends[k + 1])])

\* Values of some kind, with the lengths beside them where the type varies.
values_of(column, stored, kind, lengths_kind, count) ==
    LET stream == The(stored, kind)
        lengths == The(stored, lengths_kind)
    IN  IF ~Has(stored, kind, count) THEN Corrupt
        ELSE IF ~IsVariable(column) THEN stored_values(column, stream)
        ELSE IF stream.transform # "raw" \/ ~Has(stored, lengths_kind, count) THEN Corrupt
        ELSE AndThen(decoded_lengths(lengths.bytes, count, lengths.transform),
                     LAMBDA decoded : split_values(stream.bytes, decoded))

plain(column, stored, count) == values_of(column, stored, "values", "lengths", count)

constant(column, stored, count) ==
    AndThen(plain(column, stored, 1), LAMBDA value : Decoded(Expand(value, <<count>>)))

\* Only bit packing is defined for indices and run lengths.
unpack(stored, kind, count) ==
    IF Has(stored, kind, count) /\ The(stored, kind).transform = "bit_packed"
    THEN bit_unpack(The(stored, kind).bytes, count) ELSE Corrupt

dictionary(column, stored, count) ==
    LET entries == The(stored, "dictionary_values").elements
        look_up(indices, values) ==
            IF \E k \in 1..count : indices[k] >= Len(values) THEN Corrupt
            ELSE Decoded([k \in 1..count |-> values[indices[k] + 1]])
    IN  AndThen(unpack(stored, "indices", count), LAMBDA indices :
            IF Len(StreamsOf(stored, "dictionary_values")) # 1 \/ entries = 0 THEN Corrupt
            ELSE AndThen(values_of(column, stored, "dictionary_values", "dictionary_lengths", entries),
                         LAMBDA values : look_up(indices, values)))

run_length(column, stored, count) ==
    LET runs == The(stored, "run_lengths").elements
    IN  IF Len(StreamsOf(stored, "run_lengths")) # 1 THEN Corrupt
        ELSE AndThen(unpack(stored, "run_lengths", runs), LAMBDA lengths :
                IF 0 \in ToSet(lengths) \/ SumSeq(lengths) # count THEN Corrupt
                ELSE AndThen(values_of(column, stored, "run_values", "lengths", runs),
                             LAMBDA values : Decoded(Expand(values, lengths))))

all_null(stored) ==
    IF /\ stored.layout = "plain"
       /\ \A s \in DOMAIN stored.streams : stored.streams[s].kind = "validity"
    THEN Decoded(<<>>) ELSE Corrupt

dense_values(column, stored) ==
    LET count == stored.dense_count
    IN  IF count = 0 THEN all_null(stored)
        ELSE CASE stored.layout = "plain"      -> plain(column, stored, count)
               [] stored.layout = "constant"   -> constant(column, stored, count)
               [] stored.layout = "dictionary" -> dictionary(column, stored, count)
               [] stored.layout = "run_length" -> run_length(column, stored, count)

\* Each dense value at its row (scatter, place).
scatter(values, valid) ==
    LET place(row) == Cardinality({k \in 1..row : valid[k]})
    IN  IF Len(values) # place(Len(valid)) THEN Corrupt
        ELSE Decoded([row \in DOMAIN valid |-> IF valid[row] THEN values[place(row)] ELSE Null])

into_array(column, values, valid) ==
    IF column.family = "text" /\ \E k \in DOMAIN values : ~is_utf8(values[k]) THEN Corrupt
    ELSE scatter(values, valid)

-----------------------------------------------------------------------------
(* Statistics.                                                             *)

\* parse_bool, parse_signed, parse_unsigned, parse_float32 and parse_float64.
ParseStatistic(column, bytes) ==
    CASE column.family = "bool" -> bytes = <<1>>
      [] IsNumeric(column)      -> read_integer(bytes, column.signed)
      [] OTHER                  -> bytes

\* Only a type of fixed width has statistics, and they are a pair of that width.
classify(column, statistics) ==
    statistic_width(column) # 0 /\ Len(statistics) = 2 * statistic_width(column)

\* A bound is a Boolean byte or a number, as its type has it, and never a NaN.
Canonical(column, bytes) ==
    /\ column.family = "bool" => bytes \in {<<0>>, <<1>>}
    /\ ~IsNaN(column, bytes)

StatisticOf(column, bytes) == StatisticKey(column, ParseStatistic(column, bytes))

\* The decoded values that count, in the domain they compare in.
reduce_decoded_values(column, rows) ==
    {StatisticKey(column, rows[k]) :
        k \in {k \in DOMAIN rows : rows[k] # Null /\ ~IsNaN(column, rows[k])}}

\* Mutant: only the minimum is compared with the values.
verify_matches_MinOnly(low, high, keys) == low = Min(keys)

verify_matches(low, high, keys) == low = Min(keys) /\ high = Max(keys)

\* The pair must be canonical, ordered, and exactly the extremes of the values
\* that were decoded.
verify_column_statistics(column, statistics, rows) ==
    LET width == statistic_width(column)
        low == SubSeq(statistics, 1, width)
        high == SubSeq(statistics, width + 1, 2 * width)
        keys == reduce_decoded_values(column, rows)
    IN  \/ statistics = <<>>
        \/ /\ classify(column, statistics)
           /\ Canonical(column, low) /\ Canonical(column, high)
           /\ StatisticOf(column, low) <= StatisticOf(column, high)
           /\ keys # {}
           /\ verify_matches(StatisticOf(column, low), StatisticOf(column, high), keys)

\* BlockDecoder::column: the rows of a column, or Corrupt.
decode_column(column, stored, row_count) ==
    LET verified(rows) == IF verify_column_statistics(column, stored.statistics, rows)
                          THEN Decoded(rows) ELSE Corrupt
    IN  IF \/ ~validate_column_descriptor(column, stored, row_count)
           \/ ~check_stream_kinds(stored)
        THEN Corrupt
        ELSE AndThen(validity(column, stored, row_count), LAMBDA valid :
                AndThen(dense_values(column, stored), LAMBDA values :
                    AndThen(into_array(column, values, valid), verified)))
=============================================================================
