----------------------------- MODULE ActaEncode -----------------------------
(***************************************************************************)
(* How the writer turns one column of a block into streams: the profile of *)
(* its dense values, the candidate encodings the profile allows, what each *)
(* is estimated to cost, what each stores, and the choice between them     *)
(* (write/encode/candidates.rs, write/encode/mod.rs).  Streams are stored  *)
(* without compression.                                                    *)
(*                                                                         *)
(* A column is a record: its family of logical types, its width in bytes,  *)
(* its signedness, whether it is nullable and whether it is the primary.   *)
(* A dense value is a Boolean, an integer, or the bytes of any other value.*)
(***************************************************************************)
EXTENDS ActaTransform

CONSTANTS
    DISTINCT_VALUE_LIMIT, DISTINCT_BYTE_LIMIT,      \* 4096 and 2^20 in the code
    FRAME_ALIGNMENT,                                \* 8 in the code
    BLOCK_STREAM_DESCRIPTOR_SIZE,                   \* 48 in the code
    MarginFloor, MarginShare,                       \* 64 and 100 in the code
    Statistics,                                     \* WriterOptions::statistics
    AUTOMATIC_MIN_DENSE_VALUES,                     \* 64 in the code
    AUTOMATIC_VALUE_TO_STATISTICS_RATIO             \* 8 in the code

ASSUME EncodeAssumption ==
    /\ {DISTINCT_VALUE_LIMIT, DISTINCT_BYTE_LIMIT, BLOCK_STREAM_DESCRIPTOR_SIZE, MarginFloor,
        AUTOMATIC_MIN_DENSE_VALUES, AUTOMATIC_VALUE_TO_STATISTICS_RATIO} \subseteq Nat
    /\ {FRAME_ALIGNMENT, MarginShare} \subseteq Nat \ {0}
    /\ Statistics \in {"None", "MinMax", "Automatic"}

Families == {"bool", "number", "timestamp", "float", "fixed_binary", "text", "binary"}

IsNumeric(column) == column.family \in {"number", "timestamp"}
IsVariable(column) == column.family \in {"text", "binary"}

\* push_value: the canonical bytes of a value, which are also its key.
ValueBytes(column, value) ==
    CASE column.family = "bool" -> IF value THEN <<1>> ELSE <<0>>
      [] IsNumeric(column)      -> to_le_bytes(value, column.width)
      [] OTHER                  -> value

AllBytes(column, values) == FlattenSeq([k \in DOMAIN values |-> ValueBytes(column, values[k])])

Lengths(values) == [k \in DOMAIN values |-> Len(values[k])]

-----------------------------------------------------------------------------
(* The profile.                                                            *)

NoWidth == -1

\* The entries in the order they first occur, and the position of each value.
Distinct(values) ==
    ElementsAt(values, {k \in DOMAIN values : \A j \in 1..(k - 1) : values[j] # values[k]})

IndicesIn(entries, values) ==
    [k \in DOMAIN values |-> (CHOOSE e \in DOMAIN entries : entries[e] = values[k]) - 1]

\* DictionaryBuilder: abandoned for good once it would pass either cap.
WithinDictionary(column, values) ==
    /\ Len(Distinct(values)) <= DISTINCT_VALUE_LIMIT
    /\ Len(AllBytes(column, Distinct(values))) <= DISTINCT_BYTE_LIMIT

WidestOf(values) == MaxOf([k \in DOMAIN values |-> bit_width(values[k])])

\* Mutant: one more difference than int64 holds is let through.
numeric_profile_Wide(values) ==
    LET deltas == adjacent_deltas(values)
        steps == adjacent_deltas(deltas)
        minimum == Min(ToSet(values))
    IN  [ minimum |-> minimum,
          bit_packed_bits |-> IF minimum < 0 THEN NoWidth ELSE WidestOf(values),
          frame_of_reference_bits |-> bit_width(Max(ToSet(values)) - minimum),
          delta_bits |-> IF ToSet(deltas) \subseteq Int64 THEN WidestOf(ZigZags(deltas))
                         ELSE NoWidth,
          delta_of_delta_bits |->
            IF Len(values) >= 2 /\ ToSet(deltas) \subseteq Int64
            THEN Min({WidestOf(ZigZags(steps)), WordBits}) ELSE NoWidth ]

\* The width each transform needs, or NoWidth where some value is out of its range.
numeric_profile(values) ==
    LET deltas == adjacent_deltas(values)
        steps == adjacent_deltas(deltas)
        minimum == Min(ToSet(values))
    IN  [ minimum |-> minimum,
          bit_packed_bits |-> IF minimum < 0 THEN NoWidth ELSE WidestOf(values),
          frame_of_reference_bits |-> bit_width(Max(ToSet(values)) - minimum),
          delta_bits |-> IF ToSet(deltas) \subseteq Int64 THEN WidestOf(ZigZags(deltas))
                         ELSE NoWidth,
          delta_of_delta_bits |->
            IF Len(values) >= 2 /\ ToSet(deltas) \cup ToSet(steps) \subseteq Int64
            THEN WidestOf(ZigZags(steps)) ELSE NoWidth ]

-----------------------------------------------------------------------------
(* Candidates.                                                             *)

rank == [ Raw |-> 0, BitPacked |-> 1, BooleanRle |-> 2, FrameOfReference |-> 3, Delta |-> 4,
          DeltaOfDelta |-> 5, ByteStreamSplit |-> 6, Constant |-> 7, Dictionary |-> 8,
          RunLength |-> 9 ]

supported_candidates(column) ==
    CASE column.family = "bool" -> {"Raw", "Constant", "BitPacked", "BooleanRle"}
      [] column.family = "number" ->
            {"Raw", "Constant", "FrameOfReference", "Delta", "DeltaOfDelta", "Dictionary",
             "RunLength", "BitPacked"}
      [] column.family = "timestamp" -> {"Raw", "FrameOfReference", "Delta", "DeltaOfDelta"}
      [] column.family \in {"float", "fixed_binary"} ->
            {"Raw", "Constant", "Dictionary", "RunLength", "ByteStreamSplit"}
      [] IsVariable(column) -> {"Raw", "Constant", "Dictionary", "RunLength"}

is_valid(encoding, column, values) ==
    LET numeric == numeric_profile(values)
    IN  /\ values # <<>>
        /\ CASE encoding = "Raw"              -> TRUE
             [] encoding = "Constant"         -> Len(RunValues(values)) <= 1
             [] encoding = "BitPacked"        -> \/ column.family = "bool"
                                                 \/ /\ IsNumeric(column)
                                                    /\ numeric.bit_packed_bits # NoWidth
             [] encoding = "BooleanRle"       -> column.family = "bool"
             [] encoding = "FrameOfReference" -> IsNumeric(column)
             [] encoding = "Delta"            -> /\ IsNumeric(column)
                                                 /\ numeric.delta_bits # NoWidth
             [] encoding = "DeltaOfDelta"     -> /\ IsNumeric(column)
                                                 /\ numeric.delta_of_delta_bits # NoWidth
             [] encoding = "ByteStreamSplit"  -> ~(column.family = "bool" \/ IsVariable(column))
             [] encoding = "Dictionary"       -> WithinDictionary(column, values)
             [] encoding = "RunLength"        -> column.family # "bool"

candidates(column, values) ==
    {encoding \in supported_candidates(column) : is_valid(encoding, column, values)}

\* The estimated lengths of the streams of a candidate, from the profile.
estimate(column, values, encoding) ==
    LET count == Len(values)
        numeric == numeric_profile(values)
        entries == Distinct(values)
        runs == Len(RunValues(values))
        run_bits == bit_width(MaxOf(RunLengths(values)))
        lengths(n) == IF IsVariable(column) THEN <<n * CountBytes>> ELSE <<>>
        bytes(some) == IF column.family = "bool" THEN CeilDiv(Len(some), ByteBits)
                       ELSE IF IsVariable(column) THEN Len(FlattenSeq(some))
                       ELSE Len(some) * column.width
    IN  CASE encoding = "Raw"       -> <<bytes(values)>> \o lengths(count)
          [] encoding = "Constant"  -> <<bytes(<<values[1]>>)>> \o lengths(1)
          [] encoding = "BitPacked" ->
                <<packed_length(count, IF IsNumeric(column) THEN numeric.bit_packed_bits ELSE 1)>>
          [] encoding = "BooleanRle" ->
                <<CountBytes + CeilDiv(runs, ByteBits) + packed_length(runs, run_bits)>>
          [] encoding = "FrameOfReference" ->
                <<column.width + packed_length(count, numeric.frame_of_reference_bits)>>
          [] encoding = "Delta" ->
                <<column.width + (IF count <= 1 THEN 0
                                  ELSE packed_length(count - 1, numeric.delta_bits))>>
          [] encoding = "DeltaOfDelta" ->
                <<column.width + WordBytes
                    + packed_length(count - 2, numeric.delta_of_delta_bits)>>
          [] encoding = "ByteStreamSplit" -> <<count * column.width>>
          [] encoding = "Dictionary" ->
                <<bytes(entries)>> \o lengths(Len(entries))
                \o <<packed_length(count, bit_width(Len(entries) - 1))>>
          [] encoding = "RunLength" ->
                <<bytes(RunValues(values))>> \o lengths(runs) \o <<packed_length(runs, run_bits)>>

-----------------------------------------------------------------------------
(* Encoders.                                                               *)

Stream(kind, transform, elements, bytes) ==
    [kind |-> kind, transform |-> transform, elements |-> elements, bytes |-> bytes]

\* Values stored as they are, with their lengths where they vary.
PlainStreams(column, values, kind, lengths_kind) ==
    << Stream(kind, "raw", Len(values),
              IF column.family = "bool" THEN pack_booleans(values) ELSE AllBytes(column, values)) >>
    \o (IF IsVariable(column)
        THEN << Stream(lengths_kind, "raw", Len(values), length_bytes(Lengths(values))) >>
        ELSE <<>>)

\* The bytes of a transform that stores the values in a single stream.
TransformedBytes(column, values, encoding) ==
    LET numeric == numeric_profile(values)
        bits == [k \in DOMAIN values |-> IF values[k] THEN 1 ELSE 0]
    IN  CASE encoding = "BitPacked" /\ column.family = "bool" ->
                pack_from(IF 1 \in ToSet(bits) THEN 1 ELSE 0, bits)
          [] encoding = "BitPacked" /\ IsNumeric(column) ->
                pack_from(numeric.bit_packed_bits, values)
          [] encoding = "BooleanRle" -> boolean_rle(values)
          [] encoding = "FrameOfReference" ->
                frame_of_reference_bytes(numeric.minimum, numeric.frame_of_reference_bits,
                                         values, column)
          [] encoding = "Delta" -> delta_bytes(numeric.delta_bits, values, column)
          [] encoding = "DeltaOfDelta" ->
                delta_of_delta_bytes(numeric.delta_of_delta_bits, values, column)
          [] encoding = "ByteStreamSplit" -> split_bytes(AllBytes(column, values), column.width)

TransformOf == [ BitPacked |-> "bit_packed", BooleanRle |-> "boolean_rle",
                 FrameOfReference |-> "frame_of_reference", Delta |-> "delta",
                 DeltaOfDelta |-> "delta_of_delta", ByteStreamSplit |-> "byte_stream_split" ]

dictionary_streams(column, values) ==
    LET entries == Distinct(values)
        indices == IndicesIn(entries, values)
    IN  PlainStreams(column, entries, "dictionary_values", "dictionary_lengths")
        \o << Stream("indices", "bit_packed", Len(values),
                     pack_from(bit_width(Len(entries) - 1), indices)) >>

run_length_streams(column, values) ==
    LET lengths == RunLengths(values)
    IN  PlainStreams(column, RunValues(values), "run_values", "lengths")
        \o << Stream("run_lengths", "bit_packed", Len(lengths),
                     pack_from(bit_width(MaxOf(lengths)), lengths)) >>

encode(column, values, encoding) ==
    CASE encoding = "Raw" ->
            [layout |-> "plain", streams |-> PlainStreams(column, values, "values", "lengths")]
      [] encoding = "Constant" ->
            [layout |-> "constant",
             streams |-> PlainStreams(column, <<values[1]>>, "values", "lengths")]
      [] encoding = "Dictionary" ->
            [layout |-> "dictionary", streams |-> dictionary_streams(column, values)]
      [] encoding = "RunLength" ->
            [layout |-> "run_length", streams |-> run_length_streams(column, values)]
      [] OTHER ->
            [layout |-> "plain",
             streams |-> << Stream("values", TransformOf[encoding], Len(values),
                                   TransformedBytes(column, values, encoding)) >>]

-----------------------------------------------------------------------------
(* The choice.                                                             *)

LayoutOrder == [plain |-> 0, constant |-> 1, dictionary |-> 2, run_length |-> 3]

stream_payload_bytes(length) ==
    IF length = 0 THEN FRAME_ALIGNMENT
    ELSE CeilDiv(length, FRAME_ALIGNMENT) * FRAME_ALIGNMENT

CostOfLengths(lengths) ==
    SumSeq([s \in DOMAIN lengths |->
              BLOCK_STREAM_DESCRIPTOR_SIZE + stream_payload_bytes(lengths[s])])

stored_column_cost(selected) ==
    CostOfLengths([s \in DOMAIN selected.streams |-> Len(selected.streams[s].bytes)])

Margin(cost) == Max({CeilDiv(cost, MarginShare), MarginFloor})

\* Validity::raw and Validity::plan: the validity stream, or none.
raw_validity(valid) ==
    IF ToSet(valid) = BOOLEAN
    THEN << Stream("validity", "raw", Len(valid), pack_booleans(valid)) >> ELSE <<>>

plan_validity(valid) ==
    LET raw == raw_validity(valid)
        rle == boolean_rle(valid)
        raw_cost == stream_payload_bytes(Len(raw[1].bytes))
    IN  IF raw = <<>> THEN raw
        ELSE IF stream_payload_bytes(Len(rle)) + Margin(raw_cost) <= raw_cost
        THEN << Stream("validity", "boolean_rle", Len(valid), rle) >>
        ELSE raw

WithValidity(validity, candidate) == [candidate EXCEPT !.streams = validity \o @]

raw_column_candidate(column, valid, values) ==
    WithValidity(raw_validity(valid),
                 IF values = <<>> THEN [layout |-> "plain", streams |-> <<>>]
                 ELSE encode(column, values, "Raw"))

\* estimate_column_candidate, with the validity stream beside the value streams.
EstimatedCost(column, values, encoding, validity) ==
    CostOfLengths(estimate(column, values, encoding))
    + stored_column_cost([streams |-> validity])

\* The two that come first in order of estimated price and rank.
FirstTwo(cost) ==
    LET before(e) == {o \in DOMAIN cost : \/ cost[o] < cost[e]
                                          \/ cost[o] = cost[e] /\ rank[o] < rank[e]}
        nth(r) == CHOOSE e \in DOMAIN cost : Cardinality(before(e)) = r
    IN  CASE Cardinality(DOMAIN cost) = 0 -> <<>>
          [] Cardinality(DOMAIN cost) = 1 -> <<nth(0)>>
          [] OTHER                        -> <<nth(0), nth(1)>>

\* Raw values under raw validity are what the others are measured against.
Shortlist(column, values, validity) ==
    FirstTwo([e \in candidates(column, values)
                      \ (IF validity = <<>> \/ validity[1].transform = "raw" THEN {"Raw"} ELSE {}) |->
                EstimatedCost(column, values, e, validity)])

\* Mutant: what undercuts the best so far is taken without the margin.
Replaces_NoMargin(made, selected, raw_cost) ==
    stored_column_cost(made) < stored_column_cost(selected)

\* Whether a candidate that was laid out replaces the best so far.
Replaces(made, selected, raw_cost) ==
    LET cost == stored_column_cost(made)
        selected_cost == stored_column_cost(selected)
    IN  /\ cost + Margin(raw_cost) <= raw_cost
        /\ \/ cost < selected_cost
           \/ cost = selected_cost /\ LayoutOrder[made.layout] < LayoutOrder[selected.layout]

Preferred(made, selected, raw_cost) ==
    IF Replaces(made, selected, raw_cost) THEN made ELSE selected

\* Raw unless a shortlisted candidate, once laid out, undercuts it by the margin.
adaptive_column_candidate(column, valid, values) ==
    LET validity == plan_validity(valid)
        raw == raw_column_candidate(column, valid, values)
        raw_cost == stored_column_cost(raw)
        shortlist == Shortlist(column, values, validity)
        best[n \in 0..Len(shortlist)] ==
            IF n = 0 THEN raw
            ELSE Preferred(WithValidity(validity, encode(column, values, shortlist[n])),
                           best[n - 1], raw_cost)
    IN  IF values = <<>> THEN raw ELSE best[Len(shortlist)]

\* A fixed encoding keeps raw validity, and refuses values it cannot describe.
fixed_column_candidate(column, valid, values, encoding) ==
    IF values = <<>> \/ encoding = "Raw" THEN raw_column_candidate(column, valid, values)
    ELSE WithValidity(raw_validity(valid), encode(column, values, encoding))

FixedRefuses(column, values, encoding) ==
    /\ values # <<>> /\ encoding # "Raw"
    /\ ~is_valid(encoding, column, values)

-----------------------------------------------------------------------------
(* Statistics.                                                             *)

\* A value in the domain its type compares in: a float by sign and magnitude,
\* so that both zeros are one, and bytes in lexicographic order.
FloatMagnitude(column, value) == read_integer(value, FALSE) % 2^(ByteBits * column.width - 1)
IsNaN(column, value) ==
    /\ column.family = "float"
    /\ FloatMagnitude(column, value) = 2^(ByteBits * column.width - 1) - 1
StatisticKey(column, value) ==
    CASE column.family = "bool" -> IF value THEN 1 ELSE 0
      [] column.family = "float" ->
            IF read_integer(value, TRUE) < 0 THEN -FloatMagnitude(column, value)
            ELSE FloatMagnitude(column, value)
      [] column.family = "fixed_binary" ->
            SumFunction([k \in DOMAIN value |-> value[k] * 2^(ByteBits * (Len(value) - k))])
      [] IsNumeric(column) -> value

statistic_width(column) ==
    IF IsVariable(column) THEN 0 ELSE IF column.family = "bool" THEN 1 ELSE column.width

automatic_statistics_are_worthwhile(column, value_count) ==
    LET value_bytes == IF column.family = "bool" THEN CeilDiv(value_count, ByteBits)
                       ELSE value_count * column.width
    IN  /\ value_count >= AUTOMATIC_MIN_DENSE_VALUES
        /\ statistic_width(column) * 2 * AUTOMATIC_VALUE_TO_STATISTICS_RATIO <= value_bytes

\* The first of the values that are equal in order to the least, or greatest.
FirstExtreme(column, values, extreme) ==
    values[Min({k \in DOMAIN values : StatisticKey(column, values[k]) = extreme})]

\* The stored minimum and maximum, or nothing.
generate_statistics(column, values) ==
    LET counted == ElementsAt(values, {k \in DOMAIN values : ~IsNaN(column, values[k])})
        keys == {StatisticKey(column, value) : value \in ToSet(counted)}
    IN  IF \/ statistic_width(column) = 0 \/ counted = <<>>
           \/ Statistics = "None"
           \/ Statistics = "Automatic" /\ column.primary
           \/ Statistics = "Automatic"
                /\ ~automatic_statistics_are_worthwhile(column, Len(counted))
        THEN <<>>
        ELSE ValueBytes(column, FirstExtreme(column, counted, Min(keys)))
             \o ValueBytes(column, FirstExtreme(column, counted, Max(keys)))

\* What the frame says of a column: its descriptor and its streams.
EncodedColumn(column, valid, values, selected) ==
    [ layout      |-> selected.layout,
      streams     |-> selected.streams,
      implicit    |-> column.nullable /\ ToSet(valid) # BOOLEAN,
      null_count  |-> Len(valid) - Len(values),
      dense_count |-> Len(values),
      statistics  |-> generate_statistics(column, values) ]

\* The policy is "Adaptive", or the encoding a fixed policy names, of which raw
\* is one.
encode_column(column, valid, values, policy) ==
    EncodedColumn(column, valid, values,
                  IF policy = "Adaptive"
                  THEN adaptive_column_candidate(column, valid, values)
                  ELSE fixed_column_candidate(column, valid, values, policy))
=============================================================================
