----------------------------- MODULE ActaColumn -----------------------------
(***************************************************************************)
(* One column of one block, from the rows a caller appends, through the    *)
(* streams the writer stores for them, to the rows a reader decodes.  A    *)
(* stored column may also be another writer's: Alter changes one field of  *)
(* it, checksums recomputed, before it is read.                            *)
(***************************************************************************)
EXTENDS ActaDecode

CONSTANTS
    ColumnTypes,        \* the columns a run looks at
    Cells(_),           \* the values a row of a column may hold
    Policies,           \* "Adaptive", and the encodings of the fixed policy
    BatchSizes(_),      \* how many equal rows an append adds
    MaxRows(_), MaxAlterations(_)

\* The values of a column's type.  A length is a uint32.
IsValueOf(type, value) ==
    CASE type.family = "bool" -> value \in BOOLEAN
      [] IsNumeric(type)      -> value \in Values(type)
      [] IsVariable(type)     -> /\ value \in Seq(Bytes) /\ Len(value) \in Values(CountType)
                                 /\ type.family = "text" => is_utf8(value)
      [] OTHER                -> value \in Seq(Bytes) /\ Len(value) = type.width

ASSUME ColumnAssumption ==
    \A type \in ColumnTypes :
        /\ type.family \in Families /\ {type.signed, type.nullable, type.primary} \subseteq BOOLEAN
        /\ type.width \in Nat /\ (IsVariable(type) \/ type.width # 0)
        /\ IsNumeric(type) => type.width <= WordBytes
        /\ \A cell \in Cells(type) : IsValueOf(type, cell)
        /\ BatchSizes(type) \subseteq Nat \ {0}
        /\ {MaxRows(type), MaxAlterations(type)} \subseteq Nat
        /\ MaxRows(type) \in Values(CountType)     \* a row count is a uint32

ASSUME NullAssumption == Null \notin BOOLEAN /\ Null \notin Int /\ Null \notin Seq(Bytes)

VARIABLES
    column,     \* the column
    rows,       \* its rows, a value or Null each
    policy,     \* the policy the column was encoded under
    stored,     \* what is in the frame
    altered,    \* how often another writer had a hand in it
    result,     \* what the reader returned
    phase
columnVars == <<column, rows, policy, stored, altered, result, phase>>

ValidBits(cells) == [k \in DOMAIN cells |-> cells[k] # Null]
Dense(cells) == ElementsAt(cells, {k \in DOMAIN cells : cells[k] # Null})

Nothing == [layout |-> "plain", streams |-> <<>>, implicit |-> FALSE, null_count |-> 0,
            dense_count |-> 0, statistics |-> <<>>]

ColumnInit ==
    /\ column \in ColumnTypes
    /\ rows = <<>> /\ policy = "Adaptive" /\ stored = Nothing /\ altered = 0
    /\ result = Corrupt /\ phase = "filling"

AppendRow ==
    /\ phase = "filling"
    /\ \E cell \in Cells(column) \cup (IF column.nullable THEN {Null} ELSE {}), size \in BatchSizes(column) :
          /\ Len(rows) + size <= MaxRows(column)
          /\ rows' = rows \o [k \in 1..size |-> cell]
    /\ UNCHANGED <<column, policy, stored, altered, result, phase>>

\* build_data_frame_with_statistics, for this column.  A fixed encoding the
\* column's type does not offer was refused when the file was created, and one
\* these values do not fit refuses the block.
EncodeColumn ==
    /\ phase = "filling" /\ rows # <<>>
    /\ \E chosen \in Policies :
          /\ chosen # "Adaptive" => chosen \in supported_candidates(column)
          /\ policy' = chosen
          /\ IF chosen # "Adaptive" /\ FixedRefuses(column, Dense(rows), chosen)
             THEN phase' = "refused" /\ UNCHANGED stored
             ELSE /\ stored' = encode_column(column, ValidBits(rows), Dense(rows), chosen)
                  /\ phase' = "stored"
    /\ UNCHANGED <<column, rows, altered, result>>

\* One field another writer may have stored differently.
AlteredStream(stream) ==
    { [stream EXCEPT !.kind = kind] : kind \in UNION {AllowedKinds[l] : l \in DOMAIN AllowedKinds} }
    \cup { [stream EXCEPT !.transform = transform] :
             transform \in {"raw", "bit_packed", "frame_of_reference", "delta", "delta_of_delta",
                            "byte_stream_split", "boolean_rle"} }
    \cup { [stream EXCEPT !.elements = elements] : elements \in 0..(MaxRows(column) + 1) }
    \cup { [stream EXCEPT !.bytes = Append(@, byte)] : byte \in Bytes }
    \cup { [stream EXCEPT !.bytes[k] = byte] : k \in DOMAIN stream.bytes, byte \in Bytes }

AlteredCounts ==
    { [stored EXCEPT !.null_count = nulls, !.dense_count = Len(rows) - nulls] : nulls \in 0..Len(rows) }
    \cup { [stored EXCEPT !.dense_count = dense] : dense \in 0..Len(rows) }

AlteredStreams ==
    UNION { { [stored EXCEPT !.streams[s] = changed] : changed \in AlteredStream(stored.streams[s]) } :
              s \in DOMAIN stored.streams }

AlteredColumn ==
    { [stored EXCEPT !.layout = layout] : layout \in DOMAIN AllowedKinds }
    \cup AlteredCounts
    \cup { [stored EXCEPT !.implicit = ~@] }
    \cup { [stored EXCEPT !.streams = RemoveAt(@, s)] : s \in DOMAIN stored.streams }
    \cup { [stored EXCEPT !.streams = Append(@, @[s])] : s \in DOMAIN stored.streams }
    \cup { [stored EXCEPT !.statistics[k] = byte] : k \in DOMAIN stored.statistics, byte \in Bytes }
    \cup AlteredStreams

Alter ==
    /\ phase = "stored" /\ altered < MaxAlterations(column)
    /\ stored' \in AlteredColumn \ {stored}
    /\ altered' = altered + 1
    /\ UNCHANGED <<column, rows, policy, result, phase>>

DecodeColumn ==
    /\ phase = "stored"
    /\ result' = decode_column(column, stored, Len(rows))
    /\ phase' = "read"
    /\ UNCHANGED <<column, rows, policy, stored, altered>>

ColumnNext == AppendRow \/ EncodeColumn \/ Alter \/ DecodeColumn

ColumnSpec == ColumnInit /\ [][ColumnNext]_columnVars

-----------------------------------------------------------------------------
\* Whatever the policy, the rows that were appended are the rows that are read,
\* nulls, extremes of the type and NaN bits included (encode_column against
\* BlockDecoder::column, statistics and all).
RowsSurviveEncoding ==
    phase = "read" /\ altered = 0 => result = Decoded(rows)

\* The price a candidate is put on the shortlist at is what it costs to store,
\* unless it is a bit-packed stream of nothing but false, priced above it
\* (estimate against encode).
EstimatesArePrices ==
    phase = "filling" =>
        LET values == Dense(rows)
            all_false == column.family = "bool" /\ ToSet(values) = {FALSE}
        IN  \A encoding \in candidates(column, values) :
                LET streams == encode(column, values, encoding).streams
                    actual == [s \in DOMAIN streams |-> Len(streams[s].bytes)]
                    priced == estimate(column, values, encoding)
                IN  IF encoding = "BitPacked" /\ all_false
                    THEN actual[1] <= priced[1]
                    ELSE actual = priced

\* The adaptive policy stores the cheapest of all the candidates that beat raw by
\* the margin, although it lays out only two of them (adaptive_column_candidate).
AdaptiveIsCheapest ==
    phase = "stored" /\ policy = "Adaptive" /\ altered = 0 =>
        LET values == Dense(rows)
            validity_streams == plan_validity(ValidBits(rows))
            raw_cost == stored_column_cost(raw_column_candidate(column, ValidBits(rows), values))
            costs == { stored_column_cost(WithValidity(validity_streams,
                                                       encode(column, values, encoding))) :
                         encoding \in candidates(column, values) }
        IN  stored_column_cost(stored)
                = Min({raw_cost} \cup {cost \in costs : cost + Margin(raw_cost) <= raw_cost})

\* What a reader accepts of any writer's column is one value of the column's own
\* type for every row that is not null, as many nulls as were declared, and a
\* pair of statistics no value lies outside (decode.rs, values.rs, statistics.rs).
AcceptedColumnIsSound ==
    phase = "read" /\ result.ok =>
        LET values == Dense(result.values)
            width == statistic_width(column)
            bound(from) == StatisticKey(column,
                             ParseStatistic(column, SubSeq(stored.statistics, from + 1, from + width)))
        IN  /\ Len(result.values) = Len(rows)
            /\ Len(values) = Len(rows) - stored.null_count
            /\ \A k \in DOMAIN values : IsValueOf(column, values[k])
            /\ stored.statistics # <<>> =>
                  \A k \in DOMAIN values :
                      \/ IsNaN(column, values[k])
                      \/ /\ bound(0) <= StatisticKey(column, values[k])
                         /\ StatisticKey(column, values[k]) <= bound(width)
=============================================================================
