--------------------------- MODULE ActaTransform ---------------------------
(***************************************************************************)
(* The stream transforms of the format: the bytes each one stores          *)
(* (write/encode/candidates.rs) and the checked decoder that reads them    *)
(* back (codec/transform.rs).                                              *)
(*                                                                         *)
(* A byte has ByteBits bits, the 64-bit word of the code is WordBytes      *)
(* bytes and its uint32 is CountBytes bytes: every length, sign extension, *)
(* width limit and overflow then falls where it does in the code, at sizes *)
(* a model checker can enumerate.  A type of integers is a record of its   *)
(* width in bytes and whether it is signed.                                *)
(***************************************************************************)
EXTENDS Integers, Sequences, SequencesExt, FiniteSetsExt

CONSTANTS ByteBits, WordBytes, CountBytes

ASSUME WidthAssumption ==
    /\ {ByteBits, WordBytes, CountBytes} \subseteq Nat \ {0}
    /\ CountBytes <= WordBytes                  \* a uint32 fits a word
    /\ ByteBits * WordBytes < 2^ByteBits        \* a width byte can hold a word's width

WordBits == ByteBits * WordBytes

Bytes == 0 .. 2^ByteBits - 1

CountType == [width |-> CountBytes, signed |-> FALSE]

\* The values of a type of integers, and int64 as the code computes with it.
Values(type) ==
    IF type.signed THEN -(2^(ByteBits * type.width - 1)) .. 2^(ByteBits * type.width - 1) - 1
    ELSE 0 .. 2^(ByteBits * type.width) - 1
Int64 == Values([width |-> WordBytes, signed |-> TRUE])

\* What a decoder returns: the values, or Corrupt.
Corrupt == [ok |-> FALSE, values |-> <<>>]
Decoded(values) == [ok |-> TRUE, values |-> values]

CeilDiv(n, d) == (n + d - 1) \div d

-----------------------------------------------------------------------------
(* Integers as bytes and values as bits.                                   *)

to_le_bytes(value, width) ==
    [k \in 1..width |-> (value \div 2^(ByteBits * (k - 1))) % 2^ByteBits]

read_integer(bytes, signed) ==
    LET width == ByteBits * Len(bytes)
        raw == SumFunction([k \in DOMAIN bytes |-> bytes[k] * 2^(ByteBits * (k - 1))])
    IN  IF signed /\ raw >= 2^(width - 1) THEN raw - 2^width ELSE raw

Chunks(bytes, width) ==
    [k \in 1..(Len(bytes) \div width) |-> SubSeq(bytes, (k - 1) * width + 1, k * width)]

zigzag(value) == IF value >= 0 THEN 2 * value ELSE -2 * value - 1

unzigzag(value) == IF value % 2 = 0 THEN value \div 2 ELSE -(value \div 2) - 1

\* The number of bits of a non-negative value.
bit_width(value) == Min({w \in 0..(WordBits + 1) : value < 2^w})

Bit(bytes, i) == (bytes[i \div ByteBits + 1] \div 2^(i % ByteBits)) % 2

FromBits(bits) == SumFunction([b \in DOMAIN bits |-> bits[b] * 2^(b - 1)])

\* Bits laid into bytes from the lowest bit up, the last byte filled with zeros.
ToBytes(bits) ==
    [k \in 1..CeilDiv(Len(bits), ByteBits) |->
        FromBits(SubSeq(bits, (k - 1) * ByteBits + 1, Min({k * ByteBits, Len(bits)})))]

-----------------------------------------------------------------------------
(* Bit packing and booleans.                                               *)

\* Mutant: the byte that holds the width is not counted.
packed_length_NoWidth(count, width) == CeilDiv(count * width, ByteBits)

packed_length(count, width) == 1 + CeilDiv(count * width, ByteBits)

pack_from(width, values) ==
    <<width>> \o ToBytes([i \in 1..(Len(values) * width) |->
                            (values[(i - 1) \div width + 1] \div 2^((i - 1) % width)) % 2])

\* Mutant: bits after the last value are not looked at.
bit_unpack_StrayBits(payload, count) ==
    LET width == Head(payload)
        data == Tail(payload)
    IN  IF \/ payload = <<>>
           \/ width > WordBits
           \/ width = 0 /\ data # <<>>
           \/ width # 0 /\ Len(data) # CeilDiv(count * width, ByteBits)
        THEN Corrupt
        ELSE Decoded([k \in 1..count |->
                        FromBits([b \in 1..width |-> Bit(data, (k - 1) * width + b - 1)])])

\* BitUnpacker: the width, the length and the padding are settled first, and the
\* values that follow cannot leave the payload.
bit_unpack(payload, count) ==
    LET width == Head(payload)
        data == Tail(payload)
        unused == (count * width) % ByteBits
    IN  IF \/ payload = <<>>
           \/ width > WordBits
           \/ width = 0 /\ data # <<>>
           \/ width # 0 /\ Len(data) # CeilDiv(count * width, ByteBits)
           \/ unused # 0 /\ Last(data) \div 2^unused # 0
        THEN Corrupt
        ELSE Decoded([k \in 1..count |->
                        FromBits([b \in 1..width |-> Bit(data, (k - 1) * width + b - 1)])])

pack_booleans(values) == ToBytes([i \in DOMAIN values |-> IF values[i] THEN 1 ELSE 0])

raw_booleans(payload, count) ==
    IF \/ Len(payload) # CeilDiv(count, ByteBits)
       \/ count % ByteBits # 0 /\ Last(payload) \div 2^(count % ByteBits) # 0
    THEN Corrupt
    ELSE Decoded([k \in 1..count |-> Bit(payload, k - 1) = 1])

packed_booleans(payload, count) ==
    LET packed == bit_unpack(payload, count)
    IN  IF packed.ok /\ ToSet(packed.values) \subseteq {0, 1}
        THEN Decoded([k \in 1..count |-> packed.values[k] = 1])
        ELSE Corrupt

\* The elements at some positions, in order.
Nth(positions, r) == CHOOSE k \in positions : Cardinality({j \in positions : j <= k}) = r
ElementsAt(values, positions) ==
    [r \in 1..Cardinality(positions) |-> values[Nth(positions, r)]]

\* The first element of each run of equal elements, and the lengths of the runs.
RunStarts(values) == {k \in DOMAIN values : k = 1 \/ values[k] # values[k - 1]}
RunValues(values) == ElementsAt(values, RunStarts(values))
RunLengths(values) ==
    LET starts == RunStarts(values)
        runs == Cardinality(starts)
        end(r) == IF r = runs THEN Len(values) + 1 ELSE Nth(starts, r + 1)
    IN  [r \in 1..runs |-> end(r) - Nth(starts, r)]

\* Each value repeated for the length of its run.
Expand(values, lengths) ==
    FlattenSeq([r \in DOMAIN lengths |-> [k \in 1..lengths[r] |-> values[r]]])

\* The numbers that start at first and differ by these.
PartialSums(first, differences) ==
    LET sum[k \in 1..(Len(differences) + 1)] ==
            IF k = 1 THEN first ELSE sum[k - 1] + differences[k - 1]
    IN  sum

SumSeq(lengths) == Last(PartialSums(0, lengths))

MaxOf(lengths) == IF lengths = <<>> THEN 0 ELSE Max(ToSet(lengths))

boolean_rle(values) ==
    to_le_bytes(Len(RunValues(values)), CountBytes)
    \o (IF values = <<>> THEN <<>>
        ELSE pack_booleans(RunValues(values))
             \o pack_from(bit_width(MaxOf(RunLengths(values))), RunLengths(values)))

\* transform.rs boolean_rle.  Bits of the run values after the last run are not
\* looked at.
boolean_rle_values(payload, count) ==
    LET runs == read_integer(SubSeq(payload, 1, CountBytes), FALSE)
        values_end == CountBytes + CeilDiv(runs, ByteBits)
        run_values == SubSeq(payload, CountBytes + 1, values_end)
        lengths == bit_unpack(SubSeq(payload, values_end + 1, Len(payload)), runs)
    IN  IF Len(payload) < CountBytes \/ runs > count THEN Corrupt
        ELSE IF runs = 0
        THEN IF count = 0 /\ Len(payload) = CountBytes THEN Decoded(<<>>) ELSE Corrupt
        ELSE IF \/ Len(payload) < values_end
                \/ ~lengths.ok
                \/ 0 \in ToSet(lengths.values)
                \/ SumSeq(lengths.values) # count
        THEN Corrupt
        ELSE Decoded(Expand([r \in 1..runs |-> Bit(run_values, r - 1) = 1], lengths.values))

booleans(payload, count, transform) ==
    CASE transform = "raw"         -> raw_booleans(payload, count)
      [] transform = "bit_packed"  -> packed_booleans(payload, count)
      [] transform = "boolean_rle" -> boolean_rle_values(payload, count)
      [] OTHER                     -> Corrupt

-----------------------------------------------------------------------------
(* Integers.                                                               *)

\* Narrow reconstructed values to the column's type.
narrowed(values, type) ==
    IF \A k \in DOMAIN values : values[k] \in Values(type) THEN Decoded(values) ELSE Corrupt

adjacent_deltas(values) == [k \in 1..(Len(values) - 1) |-> values[k + 1] - values[k]]

ZigZags(deltas) == [k \in DOMAIN deltas |-> zigzag(deltas[k])]
UnZigZags(packed) == [k \in DOMAIN packed |-> unzigzag(packed[k])]

raw_bytes(values, type) == FlattenSeq([k \in DOMAIN values |-> to_le_bytes(values[k], type.width)])

raw_integers(payload, count, type) ==
    IF Len(payload) # count * type.width THEN Corrupt
    ELSE narrowed([k \in 1..count |-> read_integer(Chunks(payload, type.width)[k], type.signed)],
                  type)

packed_integers(payload, count, type) ==
    LET packed == bit_unpack(payload, count)
    IN  IF packed.ok THEN narrowed(packed.values, type) ELSE Corrupt

empty(payload) == IF payload = <<>> THEN Decoded(<<>>) ELSE Corrupt

frame_of_reference_bytes(base, bits, values, type) ==
    to_le_bytes(base, type.width) \o pack_from(bits, [k \in DOMAIN values |-> values[k] - base])

frame_of_reference(payload, count, type) ==
    LET base == read_integer(SubSeq(payload, 1, type.width), type.signed)
        offsets == bit_unpack(SubSeq(payload, type.width + 1, Len(payload)), count)
    IN  IF count = 0 THEN empty(payload)
        ELSE IF Len(payload) < type.width \/ ~offsets.ok THEN Corrupt
        ELSE narrowed([k \in 1..count |-> base + offsets.values[k]], type)

delta_bytes(bits, values, type) ==
    to_le_bytes(values[1], type.width)
    \o (IF Len(values) = 1 THEN <<>> ELSE pack_from(bits, ZigZags(adjacent_deltas(values))))

delta(payload, count, type) ==
    LET first == read_integer(SubSeq(payload, 1, type.width), type.signed)
        deltas == bit_unpack(SubSeq(payload, type.width + 1, Len(payload)), count - 1)
    IN  IF count = 0 THEN empty(payload)
        ELSE IF Len(payload) < type.width THEN Corrupt
        ELSE IF count = 1
        THEN IF Len(payload) = type.width THEN narrowed(<<first>>, type) ELSE Corrupt
        ELSE IF ~deltas.ok THEN Corrupt
        ELSE narrowed(PartialSums(first, UnZigZags(deltas.values)), type)

delta_of_delta_bytes(bits, values, type) ==
    LET deltas == adjacent_deltas(values)
    IN  to_le_bytes(values[1], type.width)
        \o to_le_bytes(deltas[1], WordBytes)
        \o pack_from(bits, ZigZags(adjacent_deltas(deltas)))

\* Mutant: the differences are only held to what the column's type implies.
delta_of_delta_Unchecked(payload, count, type) ==
    LET deltas_at == type.width + 1
        packed_at == deltas_at + WordBytes
        first == read_integer(SubSeq(payload, 1, type.width), type.signed)
        first_delta == read_integer(SubSeq(payload, deltas_at, packed_at - 1), TRUE)
        packed == bit_unpack(SubSeq(payload, packed_at, Len(payload)), count - 2)
    IN  IF count < 2 \/ Len(payload) < packed_at - 1 \/ ~packed.ok THEN Corrupt
        ELSE narrowed(PartialSums(first, PartialSums(first_delta, UnZigZags(packed.values))), type)

delta_of_delta(payload, count, type) ==
    LET deltas_at == type.width + 1
        packed_at == deltas_at + WordBytes
        first == read_integer(SubSeq(payload, 1, type.width), type.signed)
        first_delta == read_integer(SubSeq(payload, deltas_at, packed_at - 1), TRUE)
        packed == bit_unpack(SubSeq(payload, packed_at, Len(payload)), count - 2)
        deltas == PartialSums(first_delta, UnZigZags(packed.values))
    IN  IF count < 2 \/ Len(payload) < packed_at - 1 \/ ~packed.ok THEN Corrupt
        ELSE IF ~(ToSet(deltas) \subseteq Int64) THEN Corrupt
        ELSE narrowed(PartialSums(first, deltas), type)

integer(payload, count, type, transform) ==
    CASE transform = "raw"                -> raw_integers(payload, count, type)
      [] transform = "bit_packed"         -> packed_integers(payload, count, type)
      [] transform = "frame_of_reference" -> frame_of_reference(payload, count, type)
      [] transform = "delta"              -> delta(payload, count, type)
      [] transform = "delta_of_delta"     -> delta_of_delta(payload, count, type)
      [] OTHER                            -> Corrupt

-----------------------------------------------------------------------------
(* Bytes.                                                                  *)

\* All first bytes, then all second bytes, and so on.
split_bytes(bytes, width) ==
    LET count == Len(bytes) \div width
    IN  [k \in 1..Len(bytes) |-> bytes[((k - 1) % count) * width + (k - 1) \div count + 1]]

byte_stream_split(payload, count, width) ==
    IF Len(payload) # count * width THEN Corrupt
    ELSE Decoded([k \in 1..(count * width) |->
                    payload[((k - 1) % width) * count + (k - 1) \div width + 1]])

length_bytes(lengths) == raw_bytes(lengths, CountType)

decoded_lengths(payload, count, transform) == integer(payload, count, CountType, transform)
=============================================================================
