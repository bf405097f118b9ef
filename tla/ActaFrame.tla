----------------------------- MODULE ActaFrame ------------------------------
(***************************************************************************)
(* The header and payload of a data frame: what the writer lays out for    *)
(* the columns it encoded (write/encode/mod.rs) and what a reader accepts  *)
(* of any writer's header before it decodes a stream                       *)
(* (format/data_frame.rs).  Lengths and offsets are in bytes of a small    *)
(* alignment; the payload and the statistics area are sequences of bytes,  *)
(* each one the name of the stream or column it belongs to.                *)
(*                                                                         *)
(* Left out: what is in a stream or a pair of statistics (ActaDecode), the *)
(* frame envelope (ActaFile), allocation failures, 32-bit overflow of the  *)
(* writer's table offsets, which its header limit keeps far away.          *)
(***************************************************************************)
EXTENDS Integers, Sequences, SequencesExt, FiniteSetsExt

CONSTANTS
    HeaderSize, ColumnSize, StreamSize,     \* fixed header and descriptor sizes
    Alignment,                              \* FRAME_ALIGNMENT
    MaxHeaderLength, MaxPayloadLength,      \* Limits
    Schemas,                                \* [primary: an id or 0, columns: ids, nullable]
    Encodings(_),                           \* what encode_column may return in a schema
    RowCount,                               \* rows of the block
    MaxAlterations(_)                       \* bound: fields another writer set differently

\* EncodedColumn: its streams, how many rows are null, and the bytes of its statistics.
EncodedColumns ==
    [ streams : Seq([kind : 1..8, length : Nat]), null_count : 0..RowCount,
      layout : 0..3, statistics : Nat ]

ASSUME FrameAssumption ==
    /\ Alignment \in Nat \ {0}
    /\ \A size \in {HeaderSize, ColumnSize, StreamSize} :
         size \in Nat \ {0} /\ size % Alignment = 0
    /\ {MaxHeaderLength, MaxPayloadLength} \subseteq Nat
    /\ \A s \in Schemas : MaxAlterations(s) \in Nat
    /\ RowCount \in Nat \ {0}
    /\ Schemas \subseteq [id : Nat, primary : Nat,
                          columns : Seq([id : Nat \ {0}, nullable : BOOLEAN])]
    /\ \A s \in Schemas : Encodings(s) \subseteq EncodedColumns

VARIABLES
    schema,         \* the schema of the file
    row_ids,        \* whether the file has the ROW_IDS feature
    encoded,        \* the encoded columns, in the order of their ids
    frame,          \* the data frame, or none yet
    altered,        \* fields that another writer set differently
    read,           \* the last read: selection, verdict and layout
    phase           \* "encoding", "built", "refused" or "read"

frameVars == <<schema, row_ids, encoded, frame, altered, read, phase>>

\* Identifiers of the format, with one past the last of each.
Layouts == 0..4
StatisticsKinds == 0..2
StreamKinds == 1..8
Transforms == 0..7
Codecs == 0..1
BlockFlags == {"row_ids", "ts_sorted"}
ColumnFlags == {"implicit_validity", "has_stats"}
UNAVAILABLE_BASE_ROW_ID == -1
FIRST_BASE_ROW_ID == 0

\* The sum of the first k - 1 numbers.
Before(k, numbers) == SumFunctionOnSet(numbers, 1..k - 1)

PadTo(length) == ((length + Alignment - 1) \div Alignment) * Alignment

\* The columns in the order of the tables, whatever their order in the schema.
SortedById(columns) == SortSeq(columns, LAMBDA a, b : a.id < b.id)

sorted_columns == SortedById(schema.columns)

-----------------------------------------------------------------------------
(* The writer.                                                             *)

\* Mutant: an empty stream takes no room of its own.
append_stream_Shared(length) == PadTo(length)

\* append_stream: the payload bytes one stream takes; an empty one takes some too.
append_stream(length) == IF length = 0 THEN Alignment ELSE PadTo(length)

\* The streams and the bytes of statistics of each column.
stream_counts == [i \in 1..Len(encoded) |-> Len(encoded[i].streams)]
statistics_lengths == [i \in 1..Len(encoded) |-> encoded[i].statistics]

\* The entries of the stream table: a column, and which of its streams.
stream_entries == FlattenSeq([i \in 1..Len(encoded) |-> [s \in 1..stream_counts[i] |-> <<i, s>>]])

stream_at(k) == encoded[stream_entries[k][1]].streams[stream_entries[k][2]]

\* The payload bytes of each stream, its padding included.
stored_rooms == [k \in 1..Len(stream_entries) |-> append_stream(stream_at(k).length)]

payload_bytes ==
    FlattenSeq([k \in 1..Len(stream_entries) |-> [b \in 1..stored_rooms[k] |->
        IF b <= stream_at(k).length THEN stream_entries[k] ELSE <<0, 0>>]])

statistics_bytes ==
    FlattenSeq([i \in 1..Len(encoded) |-> [b \in 1..statistics_lengths[i] |-> i]])

stream_table_offset == HeaderSize + Len(encoded) * ColumnSize
statistics_offset == stream_table_offset + Len(stream_entries) * StreamSize

column_descriptor(i) ==
    LET column == sorted_columns[i]
        statistics == statistics_lengths[i]
    IN  [ column_id |-> column.id, layout |-> encoded[i].layout,
          flags |-> (IF column.nullable /\ encoded[i].null_count \in {0, RowCount}
                     THEN {"implicit_validity"} ELSE {})
                    \cup (IF statistics > 0 THEN {"has_stats"} ELSE {}),
          null_count |-> encoded[i].null_count,
          dense_count |-> RowCount - encoded[i].null_count,
          first_stream |-> Before(i, stream_counts), stream_count |-> stream_counts[i],
          stats_kind |-> IF statistics > 0 THEN 1 ELSE 0,
          stats_offset |-> IF statistics > 0
                           THEN statistics_offset + Before(i, statistics_lengths) ELSE 0,
          stats_length |-> statistics ]

stream_descriptor(k) ==
    [ kind |-> stream_at(k).kind, transform |-> 0, codec |-> 0, flags |-> 0,
      payload_offset |-> Before(k, stored_rooms), stored_length |-> stream_at(k).length,
      transformed_length |-> stream_at(k).length ]

\* build_data_frame: the column table, the stream table, the statistics area and
\* the payload of the columns encoded.
build_data_frame(bounds) ==
    LET statistics_length == PadTo(Len(statistics_bytes))
    IN  [ schema_id |-> schema.id,
          base_row_id |-> IF row_ids THEN FIRST_BASE_ROW_ID ELSE UNAVAILABLE_BASE_ROW_ID,
          row_count |-> RowCount, column_count |-> Len(encoded),
          primary_min |-> bounds.min, primary_max |-> bounds.max,
          column_table_offset |-> HeaderSize, stream_table_offset |-> stream_table_offset,
          statistics_offset |-> statistics_offset, statistics_length |-> statistics_length,
          flags |-> (IF row_ids THEN {"row_ids"} ELSE {})
                        \cup (IF bounds.sorted THEN {"ts_sorted"} ELSE {}),
          header_length |-> statistics_offset + statistics_length,
          payload_length |-> Len(payload_bytes),
          columns |-> [i \in 1..Len(encoded) |-> column_descriptor(i)],
          streams |-> [k \in 1..Len(stream_entries) |-> stream_descriptor(k)],
          payload |-> payload_bytes,
          statistics_area |-> statistics_bytes ]

-----------------------------------------------------------------------------
(* The reader.                                                             *)

check_schema_agreement(f) ==
    /\ f.schema_id = schema.id
    /\ f.column_count = Len(schema.columns)
    /\ f.row_count # 0

\* The tables lie where the column count puts them, and all of it in the header.
validate_layout(f) ==
    /\ f.column_table_offset = HeaderSize
    /\ f.stream_table_offset = f.column_table_offset + Len(schema.columns) * ColumnSize
    /\ f.statistics_offset >= f.stream_table_offset
    /\ (f.statistics_offset - f.stream_table_offset) % StreamSize = 0
    /\ f.statistics_offset + f.statistics_length <= f.header_length

check_flags(f) == f.flags \subseteq BlockFlags

resolve_base_row_id(f) ==
    /\ row_ids <=> "row_ids" \in f.flags
    /\ f.base_row_id = IF row_ids THEN FIRST_BASE_ROW_ID ELSE UNAVAILABLE_BASE_ROW_ID

resolve_primary_bounds(f) ==
    IF schema.primary # 0 THEN f.primary_min <= f.primary_max
    ELSE f.primary_min = 0 /\ f.primary_max = 0 /\ "ts_sorted" \notin f.flags

\* parse: all that discovery looks at.
parse(f) ==
    /\ check_schema_agreement(f)
    /\ validate_layout(f)
    /\ check_flags(f)
    /\ resolve_base_row_id(f)
    /\ resolve_primary_bounds(f)

stream_count(f) == (f.statistics_offset - f.stream_table_offset) \div StreamSize

validate_column_descriptor(f, d, column) ==
    /\ d.flags \subseteq ColumnFlags
    /\ d.layout <= 3
    /\ d.null_count <= f.row_count
    /\ d.dense_count = f.row_count - d.null_count
    /\ ~column.nullable => d.null_count = 0
    /\ d.first_stream + d.stream_count <= stream_count(f)
    /\ d.stats_kind <= 1
    /\ "has_stats" \in d.flags <=> d.stats_kind # 0
    /\ IF "has_stats" \in d.flags
       THEN /\ d.stats_offset >= f.statistics_offset
            /\ d.stats_offset + d.stats_length <= f.statistics_offset + f.statistics_length
       ELSE d.stats_offset = 0 /\ d.stats_length = 0

parse_columns(f) ==
    \A i \in 1..Len(schema.columns) :
        /\ f.columns[i].column_id = sorted_columns[i].id
        /\ validate_column_descriptor(f, f.columns[i], sorted_columns[i])

\* The first column whose stream range covers a stream, if any does.
owner_of(f, k) ==
    LET covering == {i \in DOMAIN f.columns :
                       /\ f.columns[i].first_stream < k
                       /\ k <= f.columns[i].first_stream + f.columns[i].stream_count}
    IN  IF covering = {} THEN 0 ELSE f.columns[Min(covering)].column_id

\* Mutant: a stream no column owns is one the read skips.
is_selected_Owned(f, k, selection) == owner_of(f, k) \in selection

\* A stream no column owns is looked at in full.
is_selected(f, k, selection) == owner_of(f, k) \in selection \cup {0}

ensure_transform(s) == s.transform \in Transforms
ensure_codec(s) == s.codec \in Codecs

parse_streams(f, selection) ==
    \A k \in 1..stream_count(f) :
        LET s == f.streams[k] IN
        /\ s.flags = 0
        /\ s.kind \in StreamKinds
        /\ is_selected(f, k, selection) => ensure_transform(s) /\ ensure_codec(s)
        /\ s.payload_offset % Alignment = 0
        /\ s.stored_length <= MaxPayloadLength /\ s.transformed_length <= MaxPayloadLength
        /\ s.codec = 0 => s.stored_length = s.transformed_length

\* The orders an unstable sort by payload offset may leave the streams in.
SortedOrders(f) ==
    LET n == stream_count(f)
    IN  {order \in [1..n -> 1..n] :
            /\ \A a, b \in 1..n : a # b => order[a] # order[b]
            /\ \A a \in 1..n - 1 : f.streams[order[a]].payload_offset
                                     <= f.streams[order[a + 1]].payload_offset}

End(s) == s.payload_offset + s.stored_length

\* Mutant: only the last stream in the order is held to the payload's length,
\* and the ranges are not compared.
validate_stream_ranges_Last(f, order) ==
    DOMAIN order # {} => End(f.streams[order[Len(order)]]) <= f.payload_length

validate_stream_ranges(f, order) ==
    /\ \A a \in 1..Len(order) - 1 :
         End(f.streams[order[a]]) <= f.streams[order[a + 1]].payload_offset
    /\ \A k \in 1..stream_count(f) : End(f.streams[k]) <= f.payload_length

parse_layout(f, selection, order) ==
    /\ parse(f)
    /\ parse_columns(f)
    /\ parse_streams(f, selection)
    /\ validate_stream_ranges(f, order)

\* streams_for: the stored bytes of the streams a column's descriptor names.
streams_for(f, d) ==
    [k \in 1..d.stream_count |->
        LET s == f.streams[d.first_stream + k]
        IN  SubSeq(f.payload, s.payload_offset + 1, End(s))]

-----------------------------------------------------------------------------
(* The life of one frame.                                                  *)

NoFrame == [columns |-> <<>>]

FrameInit ==
    /\ schema \in Schemas
    /\ row_ids \in BOOLEAN
    /\ encoded = <<>> /\ frame = NoFrame /\ altered = 0
    /\ read = [selection |-> {}, ok |-> FALSE]
    /\ phase = "encoding"

EncodeColumn ==
    /\ phase = "encoding" /\ Len(encoded) < Len(schema.columns)
    /\ \E column \in Encodings(schema) :
         /\ column.null_count > 0 => sorted_columns[Len(encoded) + 1].nullable
         /\ encoded' = Append(encoded, column)
    /\ UNCHANGED <<schema, row_ids, frame, altered, read, phase>>

Bounds == IF schema.primary = 0 THEN {[min |-> 0, max |-> 0, sorted |-> FALSE]}
          ELSE {[min |-> 1, max |-> 2, sorted |-> s] : s \in BOOLEAN}

\* A header or a payload past the default limits is refused.
BuildFrame ==
    /\ phase = "encoding" /\ Len(encoded) = Len(schema.columns)
    /\ \E bounds \in Bounds :
         LET built == build_data_frame(bounds)
         IN  IF \/ built.header_length > MaxHeaderLength
                \/ built.payload_length > MaxPayloadLength
             THEN phase' = "refused" /\ UNCHANGED frame
             ELSE phase' = "built" /\ frame' = built
    /\ UNCHANGED <<schema, row_ids, encoded, altered, read>>

With(field, values) == {[frame EXCEPT ![field] = v] : v \in values}

ColumnWith(field, values) ==
    UNION {{[frame EXCEPT !.columns[i][field] = v] : v \in values} : i \in DOMAIN frame.columns}

StreamWith(field, values) ==
    UNION {{[frame EXCEPT !.streams[k][field] = v] : v \in values} : k \in DOMAIN frame.streams}

StreamSized(lengths) ==
    UNION {{[frame EXCEPT !.streams[k].stored_length = v, !.streams[k].transformed_length = v] :
              v \in lengths} : k \in DOMAIN frame.streams}

\* A stream that no column owns.
StreamAdded(transforms) ==
    {[frame EXCEPT
        !.streams = Append(@, [ kind |-> 2, transform |-> t, codec |-> 0, flags |-> 0,
                                payload_offset |-> 0, stored_length |-> 0,
                                transformed_length |-> 0 ]),
        !.statistics_offset = @ + StreamSize, !.header_length = @ + StreamSize] :
       t \in transforms}

HeaderAlterations ==
    With("schema_id", {schema.id + 1}) \cup With("row_count", {0, RowCount + 1})
    \cup With("base_row_id", {1}) \cup With("primary_min", {0, 3})
    \cup With("flags", {{}, {"ts_sorted"}, {"row_ids", "unknown"}})
    \cup With("statistics_length", {0, frame.statistics_length + Alignment})
    \cup With("statistics_offset", {frame.statistics_offset - Alignment,
                                    frame.statistics_offset - StreamSize})
    \cup With("payload_length", {frame.payload_length - Alignment})

ColumnAlterations ==
    ColumnWith("first_stream", {0, 1}) \cup ColumnWith("stream_count", {0, 2})
    \cup ColumnWith("null_count", {1}) \cup ColumnWith("layout", Layouts)
    \cup ColumnWith("flags", {{}, {"has_stats"}, {"unknown"}})
    \cup ColumnWith("stats_kind", StatisticsKinds)
    \cup ColumnWith("stats_offset", {frame.stream_table_offset, frame.statistics_offset})

StreamAlterations ==
    StreamWith("payload_offset", {0, 1, Alignment})
    \cup StreamWith("kind", {0, 2}) \cup StreamWith("transform", {8})
    \cup StreamWith("codec", {1, 2}) \cup StreamWith("flags", {1})
    \cup StreamWith("stored_length", {MaxPayloadLength + 1})
    \cup StreamSized({0, Alignment, 2 * Alignment}) \cup StreamAdded({0, 8})

\* What another writer may have put where this one puts what it does: a field
\* set differently, a stream of another length, a stream no column owns.
Alterations == HeaderAlterations \cup ColumnAlterations \cup StreamAlterations

Alter ==
    /\ phase = "built" /\ altered < MaxAlterations(schema)
    /\ frame' \in Alterations
    /\ altered' = altered + 1
    /\ UNCHANGED <<schema, row_ids, encoded, read, phase>>

Ids == {schema.columns[i].id : i \in DOMAIN schema.columns}

\* No selection: every stream is one the caller reads, owned or not.
Everything == Ids \cup {0}

\* read_layout and read_selected_layout.
ReadLayout ==
    /\ phase = "built"
    /\ \E selection \in (SUBSET Ids) \cup {Everything} :
         IF parse(frame)
         THEN \E order \in SortedOrders(frame) :
                read' = [selection |-> selection,
                         ok |-> parse_layout(frame, selection, order)]
         ELSE read' = [selection |-> selection, ok |-> FALSE]
    /\ phase' = "read"
    /\ UNCHANGED <<schema, row_ids, encoded, frame, altered>>

FrameNext == EncodeColumn \/ BuildFrame \/ Alter \/ ReadLayout

FrameSpec == FrameInit /\ [][FrameNext]_frameVars

-----------------------------------------------------------------------------
(* Properties                                                              *)

\* Whatever the columns hold, empty streams and columns without streams
\* included, a reader accepts the writer's frame under every projection and
\* however its sort orders equal offsets, and finds under each descriptor the
\* bytes of that column's own streams and statistics.
WriterFramesAreRead ==
    phase = "read" /\ altered = 0 =>
        /\ read.ok
        /\ \A i \in DOMAIN frame.columns :
              LET d == frame.columns[i] IN
              /\ streams_for(frame, d) = [s \in DOMAIN encoded[i].streams |->
                    [b \in 1..encoded[i].streams[s].length |-> <<i, s>>]]
              /\ d.stats_kind # 0 =>
                    LET from == d.stats_offset - frame.statistics_offset
                    IN  SubSeq(frame.statistics_area, from + 1, from + d.stats_length)
                            = [b \in 1..encoded[i].statistics |-> i]

\* In a header a reader accepts of any writer, no byte of the payload belongs to
\* two streams, every stream lies in the payload and every pair of statistics
\* behind the tables and inside the header.
AcceptedRangesAreApart ==
    phase = "read" /\ read.ok =>
        /\ \A j, k \in 1..stream_count(frame) : j # k =>
              frame.streams[j].payload_offset + 1..End(frame.streams[j])
                \cap frame.streams[k].payload_offset + 1..End(frame.streams[k]) = {}
        /\ \A k \in 1..stream_count(frame) : End(frame.streams[k]) <= frame.payload_length
        /\ \A i \in DOMAIN frame.columns :
              LET d == frame.columns[i] IN
              d.stats_kind # 0 =>
                 /\ d.stats_offset >= frame.stream_table_offset + stream_count(frame) * StreamSize
                 /\ d.stats_offset + d.stats_length <= frame.header_length

\* A frame as it would be with what the selection does not read made readable.
Readable(selection) ==
    LET legible(s) == [s EXCEPT !.transform = 0,
                                !.codec = IF s.codec \in Codecs THEN s.codec ELSE 1]
    IN  [frame EXCEPT !.streams = [k \in DOMAIN frame.streams |->
            IF owner_of(frame, k) \in Ids \ selection
            THEN legible(frame.streams[k]) ELSE frame.streams[k]]]

\* A projection is accepted exactly when the whole block would be, were it not
\* for a transform or a codec of a column it leaves out: no structural check is
\* lost with the columns that are not read.
ProjectionLosesNoCheck ==
    phase = "read" /\ parse(frame) =>
        /\ read.ok => \E order \in SortedOrders(frame) :
                         parse_layout(Readable(read.selection), Everything, order)
        /\ ~read.ok => \E order \in SortedOrders(frame) :
                         ~parse_layout(Readable(read.selection), Everything, order)

\* "A stored length of zero is a legal empty range that overlaps nothing" (the
\* format, section 8.2): a header is not refused for where an empty stream lies.
EmptyOverlapsNothing ==
    phase = "read" /\ ~read.ok =>
        ~ /\ parse(frame) /\ parse_columns(frame) /\ parse_streams(frame, read.selection)
          /\ \A j, k \in 1..stream_count(frame) : j # k =>
                frame.streams[j].payload_offset + 1..End(frame.streams[j])
                  \cap frame.streams[k].payload_offset + 1..End(frame.streams[k]) = {}
          /\ \A k \in 1..stream_count(frame) : End(frame.streams[k]) <= frame.payload_length
=============================================================================
