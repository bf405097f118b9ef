--------------------------- MODULE ActaFrameProofs ---------------------------
(***************************************************************************)
(* That the frames of ActaFrame are read back, for every schema, column    *)
(* and limit, and what a reader may rely on in a header it accepts.        *)
(***************************************************************************)
EXTENDS ActaFrame, ActaFoldProofs

-----------------------------------------------------------------------------
(* Arithmetic of the layout                                                *)

\* What is assumed of the sizes and limits of the format.
LEMMA Sizes ==
    /\ Alignment \in Nat \ {0} /\ RowCount \in Nat \ {0}
    /\ HeaderSize \in Nat /\ ColumnSize \in Nat /\ StreamSize \in Nat \ {0}
    /\ MaxHeaderLength \in Nat /\ MaxPayloadLength \in Nat
<1>1. \A size \in {HeaderSize, ColumnSize, StreamSize} : size \in Nat \ {0}
  BY FrameAssumption
<1>2. {MaxHeaderLength, MaxPayloadLength} \subseteq Nat
  BY FrameAssumption
<1>3. Alignment \in Nat \ {0} /\ RowCount \in Nat \ {0}
  BY FrameAssumption
<1> QED
  BY <1>1, <1>2, <1>3

\* And of the schemas and of what their columns encode to.
LEMMA Inputs ==
    ASSUME NEW s \in Schemas
    PROVE  /\ s.id \in Nat /\ s.columns \in Seq([id : Nat \ {0}, nullable : BOOLEAN])
           /\ Encodings(s) \subseteq EncodedColumns
           /\ MaxAlterations(s) \in Nat
  BY FrameAssumption

LEMMA Padded ==
    ASSUME NEW n \in Nat
    PROVE  /\ PadTo(n) \in Nat /\ PadTo(n) >= n /\ PadTo(n) % Alignment = 0
           /\ append_stream(n) \in Nat \ {0} /\ append_stream(n) >= n
           /\ append_stream(n) % Alignment = 0
<1> DEFINE A == Alignment
           x == n + A - 1
           q == x \div A
<1>0. A \in Nat \ {0} /\ x \in Int
  BY Sizes
<1>1. q \in Int /\ x % A \in 0..(A - 1) /\ x = q * A + (x % A)
  BY <1>0, Quotients
<1>2. PadTo(n) = q * A
  BY DEF PadTo
<1>3. (q * A) % A = 0 /\ (1 * A) % A = 0 /\ 1 * A = A
  BY <1>0, <1>1, Multiples
<1> HIDE DEF q
<1>4. q * A \in Int /\ q * A >= n
  BY <1>0, <1>1
<1> HIDE DEF A
<1>5. A % A = 0
  BY <1>3
<1>6. PadTo(n) \in Nat /\ PadTo(n) >= n /\ PadTo(n) % A = 0
  BY <1>2, <1>3, <1>4
<1>7. append_stream(n) = IF n = 0 THEN A ELSE PadTo(n)
  BY DEF append_stream, A
<1> QED
  BY <1>0, <1>5, <1>6, <1>7 DEF A

-----------------------------------------------------------------------------
(* The inductive invariant                                                 *)

FlagNames == {"row_ids", "ts_sorted", "implicit_validity", "has_stats", "unknown"}

SortedIds == {sorted_columns[i].id : i \in 1..Len(schema.columns)}

ColumnRecords ==
    [ column_id : SortedIds, layout : Int, flags : SUBSET FlagNames, null_count : Int,
      dense_count : Int, first_stream : Int, stream_count : Int, stats_kind : Int,
      stats_offset : Int, stats_length : Int ]

StreamRecords ==
    [ kind : Int, transform : Int, codec : Int, flags : Int, payload_offset : Int,
      stored_length : Int, transformed_length : Int ]

FrameRecords ==
    [ schema_id : Int, base_row_id : Int, row_count : Int, column_count : Int,
      primary_min : Int, primary_max : Int, column_table_offset : Int,
      stream_table_offset : Int, statistics_offset : Int, statistics_length : Int,
      flags : SUBSET FlagNames, header_length : Int, payload_length : Int,
      columns : Seq(ColumnRecords), streams : Seq(StreamRecords),
      payload : Seq(Int \X Int), statistics_area : Seq(Int) ]

\* What every writer's frame has: a descriptor for each column, and one for each
\* stream that its header makes room for.
Shape(f) ==
    /\ f \in FrameRecords
    /\ Len(f.columns) = Len(schema.columns)
    /\ f.statistics_offset - f.stream_table_offset <= Len(f.streams) * StreamSize

\* A column is encoded with nulls only where the schema has it nullable.
ColumnsInv ==
    /\ schema \in Schemas /\ row_ids \in BOOLEAN
    /\ encoded \in Seq(EncodedColumns) /\ Len(encoded) <= Len(schema.columns)
    /\ \A i \in 1..Len(encoded) : encoded[i].null_count > 0 => sorted_columns[i].nullable

\* The frame of this writer is the one it built, within its limits.
Built ==
    /\ Len(encoded) = Len(schema.columns)
    /\ \E bounds \in Bounds : frame = build_data_frame(bounds)
    /\ frame.payload_length <= MaxPayloadLength

\* The verdict is that of some order the sort may leave.
Verdict ==
    /\ read.selection \in SUBSET Everything
    /\ read.ok => \E order \in SortedOrders(frame) : parse_layout(frame, read.selection, order)
    /\ ~read.ok /\ parse(frame) =>
         \E order \in SortedOrders(frame) : ~parse_layout(frame, read.selection, order)

FrameInv ==
    /\ ColumnsInv
    /\ altered \in Nat
    /\ phase \in {"encoding", "built", "refused", "read"}
    /\ phase \in {"built", "read"} => Shape(frame)
    /\ phase \in {"built", "read"} /\ altered = 0 => Built
    /\ phase = "read" => Verdict

-----------------------------------------------------------------------------
(* Frames of other writers                                                 *)

LEMMA SortedUnchanged ==
    ASSUME schema' = schema
    PROVE  sorted_columns' = sorted_columns
  BY DEF sorted_columns

LEMMA AlterHeader ==
    ASSUME Shape(frame), NEW v \in Int, NEW g,
           \/ \E w \in SUBSET FlagNames : g = [frame EXCEPT !["flags"] = w]
           \/ g = [frame EXCEPT !["schema_id"] = v]
           \/ g = [frame EXCEPT !["row_count"] = v]
           \/ g = [frame EXCEPT !["base_row_id"] = v]
           \/ g = [frame EXCEPT !["primary_min"] = v]
           \/ g = [frame EXCEPT !["statistics_length"] = v]
           \/ g = [frame EXCEPT !["payload_length"] = v]
           \/ v <= frame.statistics_offset /\ g = [frame EXCEPT !["statistics_offset"] = v]
    PROVE  Shape(g)
<1>0. StreamSize \in Nat /\ Len(frame.streams) \in Nat
  BY Sizes DEF Shape, FrameRecords
<1>1. ASSUME NEW w \in SUBSET FlagNames, g = [frame EXCEPT !["flags"] = w] PROVE Shape(g)
  BY <1>1 DEF Shape, FrameRecords
<1>2. CASE g = [frame EXCEPT !["schema_id"] = v]
  BY <1>2 DEF Shape, FrameRecords
<1>3. CASE g = [frame EXCEPT !["row_count"] = v]
  BY <1>3 DEF Shape, FrameRecords
<1>4. CASE g = [frame EXCEPT !["base_row_id"] = v]
  BY <1>4 DEF Shape, FrameRecords
<1>5. CASE g = [frame EXCEPT !["primary_min"] = v]
  BY <1>5 DEF Shape, FrameRecords
<1>6. CASE g = [frame EXCEPT !["statistics_length"] = v]
  BY <1>6 DEF Shape, FrameRecords
<1>7. CASE g = [frame EXCEPT !["payload_length"] = v]
  BY <1>7 DEF Shape, FrameRecords
<1>8. CASE v <= frame.statistics_offset /\ g = [frame EXCEPT !["statistics_offset"] = v]
  <2>1. g \in FrameRecords /\ g.statistics_offset = v /\ g.columns = frame.columns
        /\ g.streams = frame.streams /\ g.stream_table_offset = frame.stream_table_offset
    BY <1>8 DEF Shape, FrameRecords
  <2>2. frame.statistics_offset \in Int /\ frame.stream_table_offset \in Int
        /\ Len(frame.streams) * StreamSize \in Int
    BY <1>0 DEF Shape, FrameRecords
  <2> QED
    BY <1>8, <2>1, <2>2 DEF Shape
<1> QED
  BY <1>1, <1>2, <1>3, <1>4, <1>5, <1>6, <1>7, <1>8

LEMMA AlterColumn ==
    ASSUME Shape(frame), NEW i \in DOMAIN frame.columns, NEW d \in ColumnRecords, NEW g,
           g = [frame EXCEPT !.columns[i] = d]
    PROVE  Shape(g)
<1>0. frame \in FrameRecords /\ frame.columns \in Seq(ColumnRecords)
  BY DEF Shape, FrameRecords
<1>1. [frame.columns EXCEPT ![i] = d] \in Seq(ColumnRecords)
      /\ Len([frame.columns EXCEPT ![i] = d]) = Len(frame.columns)
  BY <1>0
<1>2. g = [frame EXCEPT !.columns = [frame.columns EXCEPT ![i] = d]]
  OBVIOUS
<1> HIDE DEF ColumnRecords
<1>3. g \in FrameRecords
  BY <1>0, <1>1, <1>2 DEF FrameRecords
<1>4. /\ g.columns = [frame.columns EXCEPT ![i] = d] /\ g.streams = frame.streams
      /\ g.statistics_offset = frame.statistics_offset
      /\ g.stream_table_offset = frame.stream_table_offset
  BY <1>0, <1>2 DEF FrameRecords
<1> QED
  BY <1>1, <1>3, <1>4 DEF Shape

LEMMA AlterStream ==
    ASSUME Shape(frame), NEW k \in DOMAIN frame.streams, NEW d \in StreamRecords, NEW g,
           g = [frame EXCEPT !.streams[k] = d]
    PROVE  Shape(g)
<1>0. frame \in FrameRecords /\ frame.streams \in Seq(StreamRecords)
  BY DEF Shape, FrameRecords
<1>1. [frame.streams EXCEPT ![k] = d] \in Seq(StreamRecords)
      /\ Len([frame.streams EXCEPT ![k] = d]) = Len(frame.streams)
  BY <1>0
<1>2. g = [frame EXCEPT !.streams = [frame.streams EXCEPT ![k] = d]]
  OBVIOUS
<1>3. g \in FrameRecords
  BY <1>0, <1>1, <1>2 DEF FrameRecords
<1>4. /\ g.streams = [frame.streams EXCEPT ![k] = d] /\ g.columns = frame.columns
      /\ g.statistics_offset = frame.statistics_offset
      /\ g.stream_table_offset = frame.stream_table_offset
  BY <1>0, <1>2 DEF FrameRecords
<1> QED
  BY <1>1, <1>3, <1>4 DEF Shape

LEMMA AlterFields ==
    ASSUME Shape(frame), NEW v \in Int
    PROVE  /\ \A i \in DOMAIN frame.columns :
                /\ Shape([frame EXCEPT !.columns[i]["first_stream"] = v])
                /\ Shape([frame EXCEPT !.columns[i]["stream_count"] = v])
                /\ Shape([frame EXCEPT !.columns[i]["null_count"] = v])
                /\ Shape([frame EXCEPT !.columns[i]["layout"] = v])
                /\ Shape([frame EXCEPT !.columns[i]["stats_kind"] = v])
                /\ Shape([frame EXCEPT !.columns[i]["stats_offset"] = v])
                /\ \A w \in SUBSET FlagNames : Shape([frame EXCEPT !.columns[i]["flags"] = w])
           /\ \A k \in DOMAIN frame.streams :
                /\ Shape([frame EXCEPT !.streams[k]["payload_offset"] = v])
                /\ Shape([frame EXCEPT !.streams[k]["kind"] = v])
                /\ Shape([frame EXCEPT !.streams[k]["transform"] = v])
                /\ Shape([frame EXCEPT !.streams[k]["codec"] = v])
                /\ Shape([frame EXCEPT !.streams[k]["flags"] = v])
                /\ Shape([frame EXCEPT !.streams[k]["stored_length"] = v])
                /\ Shape([frame EXCEPT !.streams[k].stored_length = v,
                                       !.streams[k].transformed_length = v])
<1>1. ASSUME NEW i \in DOMAIN frame.columns
      PROVE  LET c == frame.columns[i] IN
             /\ c \in ColumnRecords
             /\ [c EXCEPT !["first_stream"] = v] \in ColumnRecords
             /\ [c EXCEPT !["stream_count"] = v] \in ColumnRecords
             /\ [c EXCEPT !["null_count"] = v] \in ColumnRecords
             /\ [c EXCEPT !["layout"] = v] \in ColumnRecords
             /\ [c EXCEPT !["stats_kind"] = v] \in ColumnRecords
             /\ [c EXCEPT !["stats_offset"] = v] \in ColumnRecords
             /\ \A w \in SUBSET FlagNames : [c EXCEPT !["flags"] = w] \in ColumnRecords
  <2>1. frame.columns[i] \in ColumnRecords
    BY DEF Shape, FrameRecords
  <2> QED
    BY <2>1 DEF ColumnRecords
<1>2. ASSUME NEW k \in DOMAIN frame.streams
      PROVE  LET c == frame.streams[k] IN
             /\ c \in StreamRecords
             /\ [c EXCEPT !["payload_offset"] = v] \in StreamRecords
             /\ [c EXCEPT !["kind"] = v] \in StreamRecords
             /\ [c EXCEPT !["transform"] = v] \in StreamRecords
             /\ [c EXCEPT !["codec"] = v] \in StreamRecords
             /\ [c EXCEPT !["flags"] = v] \in StreamRecords
             /\ [c EXCEPT !["stored_length"] = v] \in StreamRecords
             /\ [c EXCEPT !.stored_length = v, !.transformed_length = v] \in StreamRecords
  <2>1. frame.streams[k] \in StreamRecords
    BY DEF Shape, FrameRecords
  <2> QED
    BY <2>1 DEF StreamRecords
<1>3. \A i \in DOMAIN frame.columns : \A d \in ColumnRecords :
        Shape([frame EXCEPT !.columns[i] = d])
  BY AlterColumn
<1>4. \A k \in DOMAIN frame.streams : \A d \in StreamRecords :
        Shape([frame EXCEPT !.streams[k] = d])
  BY AlterStream
<1>5. ASSUME NEW i \in DOMAIN frame.columns
      PROVE  /\ Shape([frame EXCEPT !.columns[i]["first_stream"] = v])
             /\ Shape([frame EXCEPT !.columns[i]["stream_count"] = v])
             /\ Shape([frame EXCEPT !.columns[i]["null_count"] = v])
             /\ Shape([frame EXCEPT !.columns[i]["layout"] = v])
             /\ Shape([frame EXCEPT !.columns[i]["stats_kind"] = v])
             /\ Shape([frame EXCEPT !.columns[i]["stats_offset"] = v])
             /\ \A w \in SUBSET FlagNames : Shape([frame EXCEPT !.columns[i]["flags"] = w])
  <2> DEFINE c == frame.columns[i]
  <2>1. \A d \in ColumnRecords : Shape([frame EXCEPT !.columns[i] = d])
    BY <1>3
  <2>2. Shape([frame EXCEPT !.columns[i]["first_stream"] = v])
    BY <1>1, <2>1
  <2>3. Shape([frame EXCEPT !.columns[i]["stream_count"] = v])
    BY <1>1, <2>1
  <2>4. Shape([frame EXCEPT !.columns[i]["null_count"] = v])
    BY <1>1, <2>1
  <2>5. Shape([frame EXCEPT !.columns[i]["layout"] = v])
    BY <1>1, <2>1
  <2>6. Shape([frame EXCEPT !.columns[i]["stats_kind"] = v])
    BY <1>1, <2>1
  <2>7. Shape([frame EXCEPT !.columns[i]["stats_offset"] = v])
    BY <1>1, <2>1
  <2>8. \A w \in SUBSET FlagNames : Shape([frame EXCEPT !.columns[i]["flags"] = w])
    BY <1>1, <2>1
  <2> QED
    BY <2>2, <2>3, <2>4, <2>5, <2>6, <2>7, <2>8
<1>6. ASSUME NEW k \in DOMAIN frame.streams
      PROVE  /\ Shape([frame EXCEPT !.streams[k]["payload_offset"] = v])
             /\ Shape([frame EXCEPT !.streams[k]["kind"] = v])
             /\ Shape([frame EXCEPT !.streams[k]["transform"] = v])
             /\ Shape([frame EXCEPT !.streams[k]["codec"] = v])
             /\ Shape([frame EXCEPT !.streams[k]["flags"] = v])
             /\ Shape([frame EXCEPT !.streams[k]["stored_length"] = v])
             /\ Shape([frame EXCEPT !.streams[k].stored_length = v,
                                    !.streams[k].transformed_length = v])
  <2>1. \A d \in StreamRecords : Shape([frame EXCEPT !.streams[k] = d])
    BY <1>4
  <2>2. Shape([frame EXCEPT !.streams[k]["payload_offset"] = v])
    BY <1>2, <2>1
  <2>3. Shape([frame EXCEPT !.streams[k]["kind"] = v])
    BY <1>2, <2>1
  <2>4. Shape([frame EXCEPT !.streams[k]["transform"] = v])
    BY <1>2, <2>1
  <2>5. Shape([frame EXCEPT !.streams[k]["codec"] = v])
    BY <1>2, <2>1
  <2>6. Shape([frame EXCEPT !.streams[k]["flags"] = v])
    BY <1>2, <2>1
  <2>7. Shape([frame EXCEPT !.streams[k]["stored_length"] = v])
    BY <1>2, <2>1
  <2>8. Shape([frame EXCEPT !.streams[k].stored_length = v,
                            !.streams[k].transformed_length = v])
    <3>1. [frame EXCEPT !.streams[k].stored_length = v, !.streams[k].transformed_length = v]
            = [frame EXCEPT !.streams[k] =
                 [frame.streams[k] EXCEPT !.stored_length = v, !.transformed_length = v]]
      <4>1. frame \in FrameRecords
        BY DEF Shape
      <4> QED
        BY <4>1 DEF FrameRecords, StreamRecords
    <3> QED
      BY <1>2, <2>1, <3>1
  <2> QED
    BY <2>2, <2>3, <2>4, <2>5, <2>6, <2>7, <2>8
<1> QED
  BY <1>5, <1>6

LEMMA AlterAppend ==
    ASSUME Shape(frame), NEW d \in StreamRecords, NEW g,
           g = [frame EXCEPT !.streams = Append(@, d), !.statistics_offset = @ + StreamSize,
                             !.header_length = @ + StreamSize]
    PROVE  Shape(g)
<1>0. /\ frame \in FrameRecords /\ frame.streams \in Seq(StreamRecords)
      /\ frame.statistics_offset \in Int /\ frame.header_length \in Int
      /\ frame.stream_table_offset \in Int /\ StreamSize \in Nat \ {0}
  BY Sizes DEF Shape, FrameRecords
<1>1. /\ Append(frame.streams, d) \in Seq(StreamRecords)
      /\ Len(Append(frame.streams, d)) = Len(frame.streams) + 1 /\ Len(frame.streams) \in Nat
  BY <1>0
<1>2. g = [frame EXCEPT !.streams = Append(frame.streams, d),
                        !.statistics_offset = frame.statistics_offset + StreamSize,
                        !.header_length = frame.header_length + StreamSize]
  BY <1>0 DEF FrameRecords
<1>3. g \in FrameRecords
  <2>1. frame.statistics_offset + StreamSize \in Int /\ frame.header_length + StreamSize \in Int
    BY <1>0
  <2> QED
    BY <1>0, <1>1, <1>2, <2>1 DEF FrameRecords
<1>4. /\ g.streams = Append(frame.streams, d) /\ g.columns = frame.columns
      /\ g.statistics_offset = frame.statistics_offset + StreamSize
      /\ g.stream_table_offset = frame.stream_table_offset
  BY <1>0, <1>2 DEF FrameRecords
<1>5. (Len(frame.streams) + 1) * StreamSize = Len(frame.streams) * StreamSize + StreamSize
      /\ Len(frame.streams) * StreamSize \in Int
  BY <1>0, <1>1
<1>6. frame.statistics_offset - frame.stream_table_offset <= Len(frame.streams) * StreamSize
  BY DEF Shape
<1>7. g.statistics_offset - g.stream_table_offset <= Len(g.streams) * StreamSize
  BY <1>0, <1>1, <1>4, <1>5, <1>6
<1> QED
  BY <1>3, <1>4, <1>7 DEF Shape

\* Whatever another writer puts there, the frame keeps its shape.
LEMMA HeaderKeepsShape ==
    ASSUME Shape(frame), schema \in Schemas, NEW g \in HeaderAlterations
    PROVE  Shape(g)
<1>0. /\ schema.id \in Nat /\ RowCount \in Nat /\ Alignment \in Nat /\ StreamSize \in Nat
      /\ MaxPayloadLength \in Nat /\ frame.statistics_length \in Int
      /\ frame.statistics_offset \in Int /\ frame.payload_length \in Int
      /\ frame.stream_table_offset \in Int
  BY Sizes, Inputs DEF Shape, FrameRecords
<1>1. \A v \in Int : /\ Shape([frame EXCEPT !["schema_id"] = v])
                     /\ Shape([frame EXCEPT !["row_count"] = v])
                     /\ Shape([frame EXCEPT !["base_row_id"] = v])
                     /\ Shape([frame EXCEPT !["primary_min"] = v])
                     /\ Shape([frame EXCEPT !["statistics_length"] = v])
                     /\ Shape([frame EXCEPT !["payload_length"] = v])
                     /\ v <= frame.statistics_offset =>
                          Shape([frame EXCEPT !["statistics_offset"] = v])
  BY AlterHeader
<1>2. \A w \in SUBSET FlagNames : Shape([frame EXCEPT !["flags"] = w])
  BY AlterHeader, 0 \in Int
<1>3. CASE g \in With("schema_id", {schema.id + 1})
  <2>1. PICK v \in {schema.id + 1} :
          g = [frame EXCEPT !["schema_id"] = v]
    BY <1>3, Zenon DEF With
  <2>2. v \in Int
    BY <1>0
  <2> QED
    BY <1>1, <2>1, <2>2
<1>4. CASE g \in With("row_count", {0, RowCount + 1})
  <2>1. PICK v \in {0, RowCount + 1} :
          g = [frame EXCEPT !["row_count"] = v]
    BY <1>4, Zenon DEF With
  <2>2. v \in Int
    BY <1>0
  <2> QED
    BY <1>1, <2>1, <2>2
<1>5. CASE g \in With("base_row_id", {1})
  <2>1. PICK v \in {1} :
          g = [frame EXCEPT !["base_row_id"] = v]
    BY <1>5, Zenon DEF With
  <2>2. v \in Int
    BY <1>0
  <2> QED
    BY <1>1, <2>1, <2>2
<1>6. CASE g \in With("primary_min", {0, 3})
  <2>1. PICK v \in {0, 3} :
          g = [frame EXCEPT !["primary_min"] = v]
    BY <1>6, Zenon DEF With
  <2>2. v \in Int
    BY <1>0
  <2> QED
    BY <1>1, <2>1, <2>2
<1>7. CASE g \in With("statistics_length", {0, frame.statistics_length + Alignment})
  <2>1. PICK v \in {0, frame.statistics_length + Alignment} :
          g = [frame EXCEPT !["statistics_length"] = v]
    BY <1>7, Zenon DEF With
  <2>2. v \in Int
    BY <1>0
  <2> QED
    BY <1>1, <2>1, <2>2
<1>8. CASE g \in With("payload_length", {frame.payload_length - Alignment})
  <2>1. PICK v \in {frame.payload_length - Alignment} :
          g = [frame EXCEPT !["payload_length"] = v]
    BY <1>8, Zenon DEF With
  <2>2. v \in Int
    BY <1>0
  <2> QED
    BY <1>1, <2>1, <2>2
<1>9. CASE g \in With("statistics_offset", {frame.statistics_offset - Alignment, frame.statistics_offset - StreamSize})
  <2>1. PICK v \in {frame.statistics_offset - Alignment, frame.statistics_offset - StreamSize} :
          g = [frame EXCEPT !["statistics_offset"] = v]
    BY <1>9, Zenon DEF With
  <2>2. v \in Int /\ v <= frame.statistics_offset
    BY <1>0
  <2> QED
    BY <1>1, <2>1, <2>2
<1>10. CASE g \in With("flags", {{}, {"ts_sorted"}, {"row_ids", "unknown"}})
  <2>1. PICK w \in {{}, {"ts_sorted"}, {"row_ids", "unknown"}} :
          g = [frame EXCEPT !["flags"] = w]
    BY <1>10, Zenon DEF With
  <2>2. w \in SUBSET FlagNames
    BY DEF FlagNames
  <2> QED
    BY <1>2, <2>1, <2>2
<1> QED
  BY <1>3, <1>4, <1>5, <1>6, <1>7, <1>8, <1>9, <1>10 DEF HeaderAlterations

LEMMA ColumnsKeepShape ==
    ASSUME Shape(frame), schema \in Schemas, NEW g \in ColumnAlterations
    PROVE  Shape(g)
<1>0. /\ schema.id \in Nat /\ RowCount \in Nat /\ Alignment \in Nat /\ StreamSize \in Nat
      /\ MaxPayloadLength \in Nat /\ frame.statistics_length \in Int
      /\ frame.statistics_offset \in Int /\ frame.payload_length \in Int
      /\ frame.stream_table_offset \in Int
  BY Sizes, Inputs DEF Shape, FrameRecords
<1>3. CASE g \in ColumnWith("first_stream", {0, 1})
  <2>1. PICK i \in DOMAIN frame.columns : \E v \in {0, 1} :
          g = [frame EXCEPT !.columns[i]["first_stream"] = v]
    BY <1>3, Zenon DEF ColumnWith
  <2>2. PICK v \in {0, 1} :
          g = [frame EXCEPT !.columns[i]["first_stream"] = v]
    BY <2>1
  <2>3. v \in Int
    BY <1>0 DEF Layouts, StatisticsKinds
  <2> QED
    BY <2>2, <2>3, AlterFields, Zenon
<1>4. CASE g \in ColumnWith("stream_count", {0, 2})
  <2>1. PICK i \in DOMAIN frame.columns : \E v \in {0, 2} :
          g = [frame EXCEPT !.columns[i]["stream_count"] = v]
    BY <1>4, Zenon DEF ColumnWith
  <2>2. PICK v \in {0, 2} :
          g = [frame EXCEPT !.columns[i]["stream_count"] = v]
    BY <2>1
  <2>3. v \in Int
    BY <1>0 DEF Layouts, StatisticsKinds
  <2> QED
    BY <2>2, <2>3, AlterFields, Zenon
<1>5. CASE g \in ColumnWith("null_count", {1})
  <2>1. PICK i \in DOMAIN frame.columns : \E v \in {1} :
          g = [frame EXCEPT !.columns[i]["null_count"] = v]
    BY <1>5, Zenon DEF ColumnWith
  <2>2. PICK v \in {1} :
          g = [frame EXCEPT !.columns[i]["null_count"] = v]
    BY <2>1
  <2>3. v \in Int
    BY <1>0 DEF Layouts, StatisticsKinds
  <2> QED
    BY <2>2, <2>3, AlterFields, Zenon
<1>6. CASE g \in ColumnWith("layout", Layouts)
  <2>1. PICK i \in DOMAIN frame.columns : \E v \in Layouts :
          g = [frame EXCEPT !.columns[i]["layout"] = v]
    BY <1>6, Zenon DEF ColumnWith
  <2>2. PICK v \in Layouts :
          g = [frame EXCEPT !.columns[i]["layout"] = v]
    BY <2>1
  <2>3. v \in Int
    BY <1>0 DEF Layouts, StatisticsKinds
  <2> QED
    BY <2>2, <2>3, AlterFields, Zenon
<1>7. CASE g \in ColumnWith("stats_kind", StatisticsKinds)
  <2>1. PICK i \in DOMAIN frame.columns : \E v \in StatisticsKinds :
          g = [frame EXCEPT !.columns[i]["stats_kind"] = v]
    BY <1>7, Zenon DEF ColumnWith
  <2>2. PICK v \in StatisticsKinds :
          g = [frame EXCEPT !.columns[i]["stats_kind"] = v]
    BY <2>1
  <2>3. v \in Int
    BY <1>0 DEF Layouts, StatisticsKinds
  <2> QED
    BY <2>2, <2>3, AlterFields, Zenon
<1>8. CASE g \in ColumnWith("stats_offset", {frame.stream_table_offset, frame.statistics_offset})
  <2>1. PICK i \in DOMAIN frame.columns : \E v \in {frame.stream_table_offset, frame.statistics_offset} :
          g = [frame EXCEPT !.columns[i]["stats_offset"] = v]
    BY <1>8, Zenon DEF ColumnWith
  <2>2. PICK v \in {frame.stream_table_offset, frame.statistics_offset} :
          g = [frame EXCEPT !.columns[i]["stats_offset"] = v]
    BY <2>1
  <2>3. v \in Int
    BY <1>0 DEF Layouts, StatisticsKinds
  <2> QED
    BY <2>2, <2>3, AlterFields, Zenon
<1>9. CASE g \in ColumnWith("flags", {{}, {"has_stats"}, {"unknown"}})
  <2>1. PICK i \in DOMAIN frame.columns : \E w \in {{}, {"has_stats"}, {"unknown"}} :
          g = [frame EXCEPT !.columns[i]["flags"] = w]
    BY <1>9, Zenon DEF ColumnWith
  <2>2. PICK w \in {{}, {"has_stats"}, {"unknown"}} :
          g = [frame EXCEPT !.columns[i]["flags"] = w]
    BY <2>1
  <2>3. w \in SUBSET FlagNames /\ 0 \in Int
    BY DEF FlagNames
  <2> QED
    BY <2>2, <2>3, AlterFields, Zenon
<1> QED
  BY <1>3, <1>4, <1>5, <1>6, <1>7, <1>8, <1>9 DEF ColumnAlterations

LEMMA StreamsKeepShape ==
    ASSUME Shape(frame), schema \in Schemas, NEW g \in StreamAlterations
    PROVE  Shape(g)
<1>0. /\ schema.id \in Nat /\ RowCount \in Nat /\ Alignment \in Nat /\ StreamSize \in Nat
      /\ MaxPayloadLength \in Nat /\ frame.statistics_length \in Int
      /\ frame.statistics_offset \in Int /\ frame.payload_length \in Int
      /\ frame.stream_table_offset \in Int
  BY Sizes, Inputs DEF Shape, FrameRecords
<1>3. CASE g \in StreamWith("payload_offset", {0, 1, Alignment})
  <2>1. PICK k \in DOMAIN frame.streams : \E v \in {0, 1, Alignment} :
          g = [frame EXCEPT !.streams[k]["payload_offset"] = v]
    BY <1>3, Zenon DEF StreamWith
  <2>2. PICK v \in {0, 1, Alignment} :
          g = [frame EXCEPT !.streams[k]["payload_offset"] = v]
    BY <2>1
  <2>3. v \in Int
    BY <1>0
  <2> QED
    BY <2>2, <2>3, AlterFields, Zenon
<1>4. CASE g \in StreamWith("kind", {0, 2})
  <2>1. PICK k \in DOMAIN frame.streams : \E v \in {0, 2} :
          g = [frame EXCEPT !.streams[k]["kind"] = v]
    BY <1>4, Zenon DEF StreamWith
  <2>2. PICK v \in {0, 2} :
          g = [frame EXCEPT !.streams[k]["kind"] = v]
    BY <2>1
  <2>3. v \in Int
    BY <1>0
  <2> QED
    BY <2>2, <2>3, AlterFields, Zenon
<1>5. CASE g \in StreamWith("transform", {8})
  <2>1. PICK k \in DOMAIN frame.streams : \E v \in {8} :
          g = [frame EXCEPT !.streams[k]["transform"] = v]
    BY <1>5, Zenon DEF StreamWith
  <2>2. PICK v \in {8} :
          g = [frame EXCEPT !.streams[k]["transform"] = v]
    BY <2>1
  <2>3. v \in Int
    BY <1>0
  <2> QED
    BY <2>2, <2>3, AlterFields, Zenon
<1>6. CASE g \in StreamWith("codec", {1, 2})
  <2>1. PICK k \in DOMAIN frame.streams : \E v \in {1, 2} :
          g = [frame EXCEPT !.streams[k]["codec"] = v]
    BY <1>6, Zenon DEF StreamWith
  <2>2. PICK v \in {1, 2} :
          g = [frame EXCEPT !.streams[k]["codec"] = v]
    BY <2>1
  <2>3. v \in Int
    BY <1>0
  <2> QED
    BY <2>2, <2>3, AlterFields, Zenon
<1>7. CASE g \in StreamWith("flags", {1})
  <2>1. PICK k \in DOMAIN frame.streams : \E v \in {1} :
          g = [frame EXCEPT !.streams[k]["flags"] = v]
    BY <1>7, Zenon DEF StreamWith
  <2>2. PICK v \in {1} :
          g = [frame EXCEPT !.streams[k]["flags"] = v]
    BY <2>1
  <2>3. v \in Int
    BY <1>0
  <2> QED
    BY <2>2, <2>3, AlterFields, Zenon
<1>8. CASE g \in StreamWith("stored_length", {MaxPayloadLength + 1})
  <2>1. PICK k \in DOMAIN frame.streams : \E v \in {MaxPayloadLength + 1} :
          g = [frame EXCEPT !.streams[k]["stored_length"] = v]
    BY <1>8, Zenon DEF StreamWith
  <2>2. PICK v \in {MaxPayloadLength + 1} :
          g = [frame EXCEPT !.streams[k]["stored_length"] = v]
    BY <2>1
  <2>3. v \in Int
    BY <1>0
  <2> QED
    BY <2>2, <2>3, AlterFields, Zenon
<1>9. CASE g \in StreamSized({0, Alignment, 2 * Alignment})
  <2>1. PICK k \in DOMAIN frame.streams : \E v \in {0, Alignment, 2 * Alignment} :
          g = [frame EXCEPT !.streams[k].stored_length = v, !.streams[k].transformed_length = v]
    BY <1>9, Zenon DEF StreamSized
  <2>2. PICK v \in {0, Alignment, 2 * Alignment} :
          g = [frame EXCEPT !.streams[k].stored_length = v, !.streams[k].transformed_length = v]
    BY <2>1
  <2>3. v \in Int
    BY <1>0
  <2> QED
    BY <2>2, <2>3, AlterFields, Zenon
<1>10. CASE g \in StreamAdded({0, 8})
  <2>1. PICK t \in {0, 8} : g = [frame EXCEPT
             !.streams = Append(@, [ kind |-> 2, transform |-> t, codec |-> 0, flags |-> 0, payload_offset |-> 0,
                 stored_length |-> 0, transformed_length |-> 0 ]),
             !.statistics_offset = @ + StreamSize, !.header_length = @ + StreamSize]
    BY <1>10 DEF StreamAdded
  <2>2. [ kind |-> 2, transform |-> t, codec |-> 0, flags |-> 0, payload_offset |-> 0,
                 stored_length |-> 0, transformed_length |-> 0 ] \in StreamRecords
    BY DEF StreamRecords
  <2> QED
    BY <2>1, <2>2, AlterAppend
<1> QED
  BY <1>3, <1>4, <1>5, <1>6, <1>7, <1>8, <1>9, <1>10 DEF StreamAlterations

LEMMA AlterationsKeepShape ==
    ASSUME Shape(frame), schema \in Schemas, NEW g \in Alterations
    PROVE  Shape(g)
  BY HeaderKeepsShape, ColumnsKeepShape, StreamsKeepShape DEF Alterations

-----------------------------------------------------------------------------
(* What the writer lays out                                                *)

Entries == {p \in (1..Len(encoded)) \X Nat : p[2] \in 1..Len(encoded[p[1]].streams)}

LEMMA EncodedTypes ==
    ASSUME ColumnsInv
    PROVE  /\ Len(encoded) \in Nat
           /\ \A i \in 1..Len(encoded) :
                /\ encoded[i] \in EncodedColumns
                /\ encoded[i].streams \in Seq([kind : 1..8, length : Nat])
                /\ encoded[i].statistics \in Nat /\ encoded[i].null_count \in 0..RowCount
                /\ encoded[i].layout \in 0..3
                /\ stream_counts[i] = Len(encoded[i].streams) /\ stream_counts[i] \in Nat
                /\ statistics_lengths[i] = encoded[i].statistics
<1>1. Len(encoded) \in Nat /\ \A i \in 1..Len(encoded) : encoded[i] \in EncodedColumns
  BY DEF ColumnsInv
<1>2. \A c \in EncodedColumns :
        /\ c.streams \in Seq([kind : 1..8, length : Nat]) /\ Len(c.streams) \in Nat
        /\ c.statistics \in Nat /\ c.null_count \in 0..RowCount /\ c.layout \in 0..3
  BY DEF EncodedColumns
<1> QED
  BY <1>1, <1>2 DEF stream_counts, statistics_lengths

\* The stream table: each column's entries behind those of the columns before.
LEMMA TableOfStreams ==
    ASSUME ColumnsInv
    PROVE  /\ stream_entries \in Seq(Entries)
           /\ Len(stream_entries) = Before(Len(encoded) + 1, stream_counts)
           /\ \A i \in 1..Len(encoded) : \A s \in 1..Len(encoded[i].streams) :
                /\ Before(i, stream_counts) + s \in 1..Len(stream_entries)
                /\ stream_entries[Before(i, stream_counts) + s] = <<i, s>>
<1> DEFINE n == Len(encoded)
           part == [i \in 1..n |-> [s \in 1..stream_counts[i] |-> <<i, s>>]]
<1>0. n \in Nat /\ \A i \in 1..n : stream_counts[i] = Len(encoded[i].streams)
                                   /\ stream_counts[i] \in Nat
  BY EncodedTypes
<1>1. \A i \in 1..n : [s \in 1..stream_counts[i] |-> <<i, s>>] \in Seq(Entries)
  <2> SUFFICES ASSUME NEW i \in 1..n
               PROVE  [s \in 1..stream_counts[i] |-> <<i, s>>] \in Seq(Entries)
    OBVIOUS
  <2>1. stream_counts[i] \in Nat /\ stream_counts[i] = Len(encoded[i].streams)
    BY <1>0
  <2>2. \A s \in 1..stream_counts[i] : <<i, s>> \in Entries
    BY <2>1 DEF Entries
  <2> QED
    BY <2>1, <2>2
<1>2. /\ part \in Seq(Seq(Entries)) /\ Len(part) = n
      /\ \A i \in 1..n : /\ part[i] = [s \in 1..stream_counts[i] |-> <<i, s>>]
                         /\ Len(part[i]) = stream_counts[i]
                         /\ \A s \in 1..stream_counts[i] : part[i][s] = <<i, s>>
  BY <1>0, <1>1
<1> HIDE DEF part
<1>3. /\ FlattenSeq(part) \in Seq(Entries)
      /\ Len(FlattenSeq(part)) = SumFunctionOnSet(stream_counts, 1..Len(part))
      /\ \A i \in 1..Len(part) : \A j \in 1..Len(part[i]) :
           /\ SumFunctionOnSet(stream_counts, 1..(i - 1)) + j \in 1..Len(FlattenSeq(part))
           /\ FlattenSeq(part)[SumFunctionOnSet(stream_counts, 1..(i - 1)) + j] = part[i][j]
  <2>1. \A i \in 1..Len(part) : stream_counts[i] = Len(part[i])
    BY <1>2
  <2> QED
    BY <1>2, <2>1, FlattenAt
<1>4. stream_entries = FlattenSeq(part)
  BY DEF stream_entries, part
<1>5. Before(n + 1, stream_counts) = SumFunctionOnSet(stream_counts, 1..Len(part))
  <2>1. (n + 1) - 1 = Len(part)
    BY <1>0, <1>2
  <2> QED
    BY <2>1 DEF Before
<1>6. ASSUME NEW i \in 1..n, NEW s \in 1..Len(encoded[i].streams)
      PROVE  /\ Before(i, stream_counts) + s \in 1..Len(stream_entries)
             /\ stream_entries[Before(i, stream_counts) + s] = <<i, s>>
  <2>1. i \in 1..Len(part) /\ s \in 1..Len(part[i]) /\ part[i][s] = <<i, s>>
    BY <1>0, <1>2
  <2> HIDE DEF n
  <2> QED
    BY <1>3, <1>4, <2>1 DEF Before
<1> QED
  BY <1>3, <1>4, <1>5, <1>6

LEMMA StreamsInTable ==
    ASSUME ColumnsInv
    PROVE  /\ Len(stream_entries) \in Nat
           /\ \A k \in 1..Len(stream_entries) :
                /\ stream_entries[k] \in Int \X Int
                /\ stream_at(k) \in [kind : 1..8, length : Nat]
                /\ stored_rooms[k] = append_stream(stream_at(k).length)
                /\ stored_rooms[k] \in Nat \ {0} /\ stored_rooms[k] >= stream_at(k).length
                /\ stored_rooms[k] % Alignment = 0
<1>1. Len(stream_entries) \in Nat /\ stream_entries \in Seq(Entries)
  BY TableOfStreams
<1> SUFFICES ASSUME NEW k \in 1..Len(stream_entries)
             PROVE  /\ stream_entries[k] \in Int \X Int
                    /\ stream_at(k) \in [kind : 1..8, length : Nat]
                    /\ stored_rooms[k] = append_stream(stream_at(k).length)
                    /\ stored_rooms[k] \in Nat \ {0} /\ stored_rooms[k] >= stream_at(k).length
                    /\ stored_rooms[k] % Alignment = 0
  BY <1>1
<1>2. stream_entries[k] \in Entries
  BY <1>1
<1>3. /\ stream_entries[k][1] \in 1..Len(encoded)
      /\ stream_entries[k][2] \in 1..Len(encoded[stream_entries[k][1]].streams)
      /\ stream_entries[k] \in Int \X Int
  BY <1>2 DEF Entries
<1>4. stream_at(k) \in [kind : 1..8, length : Nat]
  <2> DEFINE i == stream_entries[k][1]
             l == stream_entries[k][2]
             R == [kind : 1..8, length : Nat]
  <2>1. encoded[i].streams \in Seq(R)
    BY <1>3, EncodedTypes
  <2>2. l \in 1..Len(encoded[i].streams)
    BY <1>3
  <2>3. stream_at(k) = encoded[i].streams[l]
    BY DEF stream_at
  <2> HIDE DEF i, l, R
  <2>4. stream_at(k) \in R
    BY <2>1, <2>2, <2>3
  <2> QED
    BY <2>4 DEF R
<1>5. stream_at(k).length \in Nat
  BY <1>4
<1>6. stored_rooms[k] = append_stream(stream_at(k).length)
  BY DEF stored_rooms
<1> QED
  BY <1>3, <1>4, <1>5, <1>6, Padded


\* Running sums of lengths.
LEMMA BeforeGrows ==
    ASSUME NEW f, NEW n \in Nat, \A i \in 1..n : f[i] \in Nat
    PROVE  /\ Before(1, f) = 0
           /\ \A k \in 1..(n + 1) : Before(k, f) \in Nat
           /\ \A k \in 1..n : Before(k + 1, f) = Before(k, f) + f[k]
           /\ \A k \in 1..n : \A j \in (k + 1)..(n + 1) : Before(k, f) + f[k] <= Before(j, f)
<1>1. /\ SumFunctionOnSet(f, 1..0) = 0
      /\ \A k \in 0..n : SumFunctionOnSet(f, 1..k) \in Nat
      /\ \A k \in 1..n : SumFunctionOnSet(f, 1..k) = SumFunctionOnSet(f, 1..(k - 1)) + f[k]
  BY PrefixSum
<1>2. Before(1, f) = 0
  <2>1. 1 - 1 = 0
    OBVIOUS
  <2> QED
    BY <1>1, <2>1 DEF Before
<1>3. \A k \in 1..(n + 1) : Before(k, f) \in Nat
  <2>1. \A k \in 1..(n + 1) : k - 1 \in 0..n
    OBVIOUS
  <2> QED
    BY <1>1, <2>1 DEF Before
<1>4. ASSUME NEW k \in 1..n PROVE Before(k + 1, f) = Before(k, f) + f[k]
  <2>1. (k + 1) - 1 = k
    OBVIOUS
  <2>2. Before(k + 1, f) = SumFunctionOnSet(f, 1..k)
    BY <2>1 DEF Before
  <2> QED
    BY <1>1, <2>2 DEF Before
<1>5. ASSUME NEW k \in 1..n, NEW j \in (k + 1)..(n + 1)
      PROVE  Before(k, f) + f[k] <= Before(j, f)
  <2>1. j - 1 \in 0..n /\ (k + 1) - 1 \in 0..(j - 1)
    OBVIOUS
  <2>2. SumFunctionOnSet(f, 1..((k + 1) - 1)) <= SumFunctionOnSet(f, 1..(j - 1))
    BY <2>1, PrefixMonotone
  <2>3. Before(k + 1, f) <= Before(j, f)
    BY <2>2 DEF Before
  <2> QED
    BY <1>4, <2>3
<1> QED
  BY <1>2, <1>3, <1>4, <1>5

\* Every stream starts at a multiple of the alignment.
LEMMA OffsetsAligned ==
    ASSUME ColumnsInv
    PROVE  \A k \in 1..Len(stream_entries) : Before(k, stored_rooms) % Alignment = 0
<1> DEFINE m == Len(stream_entries)
           Good == {k \in Nat : Before(k, stored_rooms) % Alignment = 0}
<1>0. m \in Nat /\ Alignment \in Nat \ {0}
      /\ \A k \in 1..m : stored_rooms[k] \in Nat /\ stored_rooms[k] % Alignment = 0
  BY StreamsInTable, Sizes
<1> HIDE DEF m
<1>1. /\ Before(1, stored_rooms) = 0
      /\ \A k \in 1..(m + 1) : Before(k, stored_rooms) \in Nat
      /\ \A k \in 1..m : Before(k + 1, stored_rooms) = Before(k, stored_rooms) + stored_rooms[k]
  BY <1>0, BeforeGrows
<1>2. 1 \in Good
  <2>1. (0 * Alignment) % Alignment = 0 /\ 0 * Alignment = 0
    BY <1>0, Multiples
  <2> QED
    BY <1>1, <2>1
<1>3. ASSUME NEW k \in 1..(m - 1), k \in Good PROVE k + 1 \in Good
  <2>1. k \in 1..m /\ k \in 1..(m + 1) /\ k + 1 \in Nat
    BY <1>0
  <2>2. (Before(k, stored_rooms) + stored_rooms[k]) % Alignment = 0
    <3>1. /\ Before(k, stored_rooms) \in Int /\ stored_rooms[k] \in Int
          /\ Before(k, stored_rooms) % Alignment = 0 /\ stored_rooms[k] % Alignment = 0
      BY <1>0, <1>1, <1>3, <2>1
    <3> HIDE DEF Good
    <3> QED
      BY <1>0, <3>1, SumOfMultiples
  <2> QED
    BY <1>1, <2>1, <2>2
<1>4. \A k \in 1..(m - 1) : k \in Good => k + 1 \in Good
  BY <1>3
<1>5. \A k \in 1..m : k \in Good
  <2> HIDE DEF Good
  <2> QED
    BY <1>0, <1>2, <1>4, SetInduction
<1> QED
  BY <1>5 DEF m

\* The payload: each stream's bytes are its own, behind those before it.
LEMMA PayloadOfStreams ==
    ASSUME ColumnsInv
    PROVE  /\ payload_bytes \in Seq(Int \X Int)
           /\ Len(payload_bytes) = Before(Len(stream_entries) + 1, stored_rooms)
           /\ \A k \in 1..Len(stream_entries) : \A b \in 1..stream_at(k).length :
                /\ Before(k, stored_rooms) + b \in 1..Len(payload_bytes)
                /\ payload_bytes[Before(k, stored_rooms) + b] = stream_entries[k]
<1> DEFINE m == Len(stream_entries)
           Pairs == Int \X Int
           byte(k, b) == IF b <= stream_at(k).length THEN stream_entries[k] ELSE <<0, 0>>
           part == [k \in 1..m |-> [b \in 1..stored_rooms[k] |-> byte(k, b)]]
<1>0. /\ m \in Nat
      /\ \A k \in 1..m : /\ stream_entries[k] \in Pairs /\ stream_at(k).length \in Nat
                         /\ stored_rooms[k] \in Nat /\ stored_rooms[k] >= stream_at(k).length
  BY StreamsInTable
<1>1. \A k \in 1..m : \A b \in 1..stored_rooms[k] : byte(k, b) \in Pairs
  BY <1>0
<1>2. \A k \in 1..m : \A b \in 1..stream_at(k).length :
        b \in 1..stored_rooms[k] /\ byte(k, b) = stream_entries[k]
  BY <1>0
<1> HIDE DEF byte, m, Pairs
<1>3. /\ part \in Seq(Seq(Pairs)) /\ Len(part) = m
      /\ \A k \in 1..m : /\ Len(part[k]) = stored_rooms[k]
                         /\ \A b \in 1..stored_rooms[k] : part[k][b] = byte(k, b)
  <2>1. \A k \in 1..m : [b \in 1..stored_rooms[k] |-> byte(k, b)] \in Seq(Pairs)
    BY <1>0, <1>1
  <2> QED
    BY <1>0, <2>1
<1>4. payload_bytes = FlattenSeq(part)
  BY DEF payload_bytes, byte, m
<1> HIDE DEF part
<1>5. /\ FlattenSeq(part) \in Seq(Pairs)
      /\ Len(FlattenSeq(part)) = SumFunctionOnSet(stored_rooms, 1..Len(part))
      /\ \A i \in 1..Len(part) : \A j \in 1..Len(part[i]) :
           /\ SumFunctionOnSet(stored_rooms, 1..(i - 1)) + j \in 1..Len(FlattenSeq(part))
           /\ FlattenSeq(part)[SumFunctionOnSet(stored_rooms, 1..(i - 1)) + j] = part[i][j]
  <2>1. (\A i \in 1..Len(part) : stored_rooms[i] = Len(part[i])) /\ part \in Seq(Seq(Pairs))
    BY <1>3
  <2> QED
    BY <2>1, FlattenAt
<1>6. Before(m + 1, stored_rooms) = SumFunctionOnSet(stored_rooms, 1..Len(part))
  <2>1. (m + 1) - 1 = Len(part)
    BY <1>0, <1>3
  <2> QED
    BY <2>1 DEF Before
<1>7. ASSUME NEW k \in 1..m, NEW b \in 1..stream_at(k).length
      PROVE  /\ Before(k, stored_rooms) + b \in 1..Len(payload_bytes)
             /\ payload_bytes[Before(k, stored_rooms) + b] = stream_entries[k]
  <2>1. k \in 1..Len(part) /\ b \in 1..Len(part[k]) /\ part[k][b] = stream_entries[k]
    BY <1>2, <1>3
  <2> QED
    BY <1>4, <1>5, <2>1 DEF Before
<1> QED
  BY <1>4, <1>5, <1>6, <1>7 DEF m, Pairs

\* The statistics area: the same of each column's bytes.
LEMMA StatisticsOfColumns ==
    ASSUME ColumnsInv
    PROVE  /\ statistics_bytes \in Seq(Int)
           /\ Len(statistics_bytes) = Before(Len(encoded) + 1, statistics_lengths)
           /\ \A i \in 1..Len(encoded) : \A b \in 1..statistics_lengths[i] :
                /\ Before(i, statistics_lengths) + b \in 1..Len(statistics_bytes)
                /\ statistics_bytes[Before(i, statistics_lengths) + b] = i
<1> DEFINE n == Len(encoded)
           Numbers == Int
           part == [i \in 1..n |-> [b \in 1..statistics_lengths[i] |-> i]]
<1>0. n \in Nat /\ \A i \in 1..n : statistics_lengths[i] \in Nat
  BY EncodedTypes
<1> HIDE DEF n
<1>1. /\ part \in Seq(Seq(Numbers)) /\ Len(part) = n
      /\ \A i \in 1..n : /\ Len(part[i]) = statistics_lengths[i]
                         /\ \A b \in 1..statistics_lengths[i] : part[i][b] = i
  <2>1. \A i \in 1..n : [b \in 1..statistics_lengths[i] |-> i] \in Seq(Numbers)
    BY <1>0
  <2> QED
    BY <1>0, <2>1
<1>2. statistics_bytes = FlattenSeq(part)
  BY DEF statistics_bytes, n
<1> HIDE DEF part, Numbers
<1>3. /\ FlattenSeq(part) \in Seq(Numbers)
      /\ Len(FlattenSeq(part)) = SumFunctionOnSet(statistics_lengths, 1..Len(part))
      /\ \A i \in 1..Len(part) : \A j \in 1..Len(part[i]) :
           /\ SumFunctionOnSet(statistics_lengths, 1..(i - 1)) + j \in 1..Len(FlattenSeq(part))
           /\ FlattenSeq(part)[SumFunctionOnSet(statistics_lengths, 1..(i - 1)) + j] = part[i][j]
  <2>1. /\ \A i \in 1..Len(part) : statistics_lengths[i] = Len(part[i])
        /\ part \in Seq(Seq(Numbers))
    BY <1>1
  <2> QED
    BY <2>1, FlattenAt
<1>4. Before(n + 1, statistics_lengths) = SumFunctionOnSet(statistics_lengths, 1..Len(part))
  <2>1. (n + 1) - 1 = Len(part)
    BY <1>0, <1>1
  <2> QED
    BY <2>1 DEF Before
<1>5. ASSUME NEW i \in 1..n, NEW b \in 1..statistics_lengths[i]
      PROVE  /\ Before(i, statistics_lengths) + b \in 1..Len(statistics_bytes)
             /\ statistics_bytes[Before(i, statistics_lengths) + b] = i
  <2>1. i \in 1..Len(part) /\ b \in 1..Len(part[i]) /\ part[i][b] = i
    BY <1>1
  <2> QED
    BY <1>2, <1>3, <2>1 DEF Before
<1> QED
  BY <1>2, <1>3, <1>4, <1>5 DEF n, Numbers


\* The sizes of the frame that is built.
LEMMA BuiltSizes ==
    ASSUME ColumnsInv
    PROVE  /\ Len(encoded) \in Nat /\ Len(stream_entries) \in Nat
           /\ stream_table_offset \in Nat
           /\ stream_table_offset = HeaderSize + Len(encoded) * ColumnSize
           /\ statistics_offset \in Nat
           /\ statistics_offset - stream_table_offset = Len(stream_entries) * StreamSize
           /\ Len(stream_entries) * StreamSize \in Nat
           /\ Len(statistics_bytes) \in Nat /\ PadTo(Len(statistics_bytes)) \in Nat
           /\ PadTo(Len(statistics_bytes)) >= Len(statistics_bytes)
<1>1. /\ Len(encoded) \in Nat /\ Len(stream_entries) \in Nat
      /\ HeaderSize \in Nat /\ ColumnSize \in Nat /\ StreamSize \in Nat
  BY EncodedTypes, StreamsInTable, Sizes
<1>2. Len(encoded) * ColumnSize \in Nat /\ Len(stream_entries) * StreamSize \in Nat
  BY <1>1
<1>3. stream_table_offset \in Nat /\ stream_table_offset = HeaderSize + Len(encoded) * ColumnSize
  BY <1>1, <1>2 DEF stream_table_offset
<1>4. statistics_offset \in Nat
      /\ statistics_offset - stream_table_offset = Len(stream_entries) * StreamSize
  BY <1>2, <1>3 DEF statistics_offset
<1>5. Len(statistics_bytes) \in Nat
  BY StatisticsOfColumns
<1> QED
  BY <1>1, <1>2, <1>3, <1>4, <1>5, Padded

\* A column's descriptor: its streams and its statistics within their areas.
LEMMA BuiltColumn ==
    ASSUME ColumnsInv, Len(encoded) = Len(schema.columns), NEW i \in 1..Len(encoded)
    PROVE  LET d == column_descriptor(i) IN
           /\ d \in ColumnRecords
           /\ d.column_id = sorted_columns[i].id
           /\ d.flags \subseteq ColumnFlags
           /\ d.layout \in 0..3 /\ d.null_count = encoded[i].null_count
           /\ d.null_count \in 0..RowCount /\ d.dense_count = RowCount - d.null_count
           /\ d.first_stream = Before(i, stream_counts) /\ d.first_stream \in Nat
           /\ d.stream_count = Len(encoded[i].streams) /\ d.stream_count \in Nat
           /\ d.first_stream + d.stream_count <= Len(stream_entries)
           /\ d.stats_length = encoded[i].statistics /\ d.stats_length \in Nat
           /\ IF encoded[i].statistics > 0
              THEN /\ "has_stats" \in d.flags /\ d.stats_kind = 1
                   /\ Before(i, statistics_lengths) \in Nat
                   /\ d.stats_offset = statistics_offset + Before(i, statistics_lengths)
                   /\ Before(i, statistics_lengths) + d.stats_length <= Len(statistics_bytes)
              ELSE "has_stats" \notin d.flags /\ d.stats_kind = 0 /\ d.stats_offset = 0
<1> DEFINE n == Len(encoded)
           implicit == IF sorted_columns[i].nullable /\ encoded[i].null_count \in {0, RowCount}
                       THEN {"implicit_validity"} ELSE {}
           stats == statistics_lengths[i]
           has == IF stats > 0 THEN {"has_stats"} ELSE {}
           kind == IF stats > 0 THEN 1 ELSE 0
           offset == IF stats > 0
                     THEN statistics_offset + Before(i, statistics_lengths) ELSE 0
           d == column_descriptor(i)
<1>1. /\ n \in Nat /\ encoded[i].layout \in 0..3 /\ encoded[i].null_count \in 0..RowCount
      /\ stats = encoded[i].statistics /\ stats \in Nat
      /\ stream_counts[i] = Len(encoded[i].streams) /\ stream_counts[i] \in Nat
      /\ \A k \in 1..n : stream_counts[k] \in Nat /\ statistics_lengths[k] \in Nat
  BY EncodedTypes
<1>2. RowCount \in Nat /\ statistics_offset \in Nat
  BY Sizes, BuiltSizes
<1>3. sorted_columns[i].id \in SortedIds
  BY DEF SortedIds
<1>4. d = [ column_id |-> sorted_columns[i].id, layout |-> encoded[i].layout,
            flags |-> implicit \cup has, null_count |-> encoded[i].null_count,
            dense_count |-> RowCount - encoded[i].null_count,
            first_stream |-> Before(i, stream_counts), stream_count |-> stream_counts[i],
            stats_kind |-> kind, stats_offset |-> offset, stats_length |-> stats ]
  BY DEF column_descriptor
<1>5. implicit \cup has \subseteq ColumnFlags /\ implicit \cup has \in SUBSET FlagNames
      /\ (stats > 0 <=> "has_stats" \in implicit \cup has)
  BY DEF ColumnFlags, FlagNames
<1>6. /\ Before(i, stream_counts) \in Nat
      /\ Before(i, stream_counts) + stream_counts[i] <= Before(n + 1, stream_counts)
  BY <1>1, BeforeGrows, i \in 1..(n + 1), n + 1 \in (i + 1)..(n + 1)
<1>7. /\ Before(i, statistics_lengths) \in Nat
      /\ Before(i, statistics_lengths) + stats <= Before(n + 1, statistics_lengths)
  BY <1>1, BeforeGrows, i \in 1..(n + 1), n + 1 \in (i + 1)..(n + 1)
<1>8. /\ Before(n + 1, stream_counts) = Len(stream_entries)
      /\ Before(n + 1, statistics_lengths) = Len(statistics_bytes)
  BY TableOfStreams, StatisticsOfColumns
<1> HIDE DEF implicit, has, stats
<1>9. kind \in Int /\ offset \in Int /\ RowCount - encoded[i].null_count \in Int
  BY <1>1, <1>2, <1>7
<1>10. IF stats > 0 THEN kind = 1 /\ offset = statistics_offset + Before(i, statistics_lengths)
                    ELSE kind = 0 /\ offset = 0
  OBVIOUS
<1> HIDE DEF kind, offset, d
<1>11. d \in ColumnRecords
  BY <1>1, <1>3, <1>4, <1>5, <1>6, <1>9 DEF ColumnRecords
<1>12. /\ d.column_id = sorted_columns[i].id /\ d.flags = implicit \cup has
       /\ d.layout = encoded[i].layout /\ d.null_count = encoded[i].null_count
       /\ d.dense_count = RowCount - encoded[i].null_count
       /\ d.first_stream = Before(i, stream_counts) /\ d.stream_count = stream_counts[i]
       /\ d.stats_kind = kind /\ d.stats_offset = offset /\ d.stats_length = stats
  BY <1>4
<1>13. /\ d.first_stream + d.stream_count <= Len(stream_entries)
       /\ Before(i, statistics_lengths) + d.stats_length <= Len(statistics_bytes)
  BY <1>6, <1>7, <1>8, <1>12
<1>14. IF encoded[i].statistics > 0
       THEN /\ "has_stats" \in d.flags /\ d.stats_kind = 1
            /\ Before(i, statistics_lengths) \in Nat
            /\ d.stats_offset = statistics_offset + Before(i, statistics_lengths)
            /\ Before(i, statistics_lengths) + d.stats_length <= Len(statistics_bytes)
       ELSE "has_stats" \notin d.flags /\ d.stats_kind = 0 /\ d.stats_offset = 0
  BY <1>1, <1>5, <1>7, <1>10, <1>12, <1>13
<1> QED
  BY <1>1, <1>5, <1>6, <1>11, <1>12, <1>13, <1>14 DEF d

\* A stream's descriptor.
LEMMA BuiltStream ==
    ASSUME ColumnsInv, NEW k \in 1..Len(stream_entries)
    PROVE  LET s == stream_descriptor(k) IN
           /\ s \in StreamRecords
           /\ s.kind \in 1..8 /\ s.transform = 0 /\ s.codec = 0 /\ s.flags = 0
           /\ s.payload_offset = Before(k, stored_rooms) /\ s.payload_offset \in Nat
           /\ s.stored_length = stream_at(k).length /\ s.stored_length \in Nat
           /\ s.transformed_length = s.stored_length
           /\ s.payload_offset % Alignment = 0
<1>1. stream_at(k) \in [kind : 1..8, length : Nat] /\ Len(stream_entries) \in Nat
      /\ \A j \in 1..Len(stream_entries) : stored_rooms[j] \in Nat
  BY StreamsInTable
<1>2. stream_at(k).kind \in 1..8 /\ stream_at(k).length \in Nat
  BY <1>1
<1>3. Before(k, stored_rooms) \in Nat
  BY <1>1, BeforeGrows, k \in 1..(Len(stream_entries) + 1)
<1>4. Before(k, stored_rooms) % Alignment = 0
  BY OffsetsAligned
<1> QED
  BY <1>2, <1>3, <1>4 DEF stream_descriptor, StreamRecords

\* The whole of the frame, field by field.
LEMMA BuiltFrame ==
    ASSUME ColumnsInv, Len(encoded) = Len(schema.columns), NEW bounds \in Bounds,
           NEW g, g = build_data_frame(bounds)
    PROVE  /\ Shape(g)
           /\ g.schema_id = schema.id /\ g.row_count = RowCount
           /\ g.base_row_id = IF row_ids THEN FIRST_BASE_ROW_ID ELSE UNAVAILABLE_BASE_ROW_ID
           /\ g.column_count = Len(schema.columns)
           /\ g.column_table_offset = HeaderSize
           /\ g.stream_table_offset = stream_table_offset
           /\ g.statistics_offset = statistics_offset
           /\ g.statistics_length = PadTo(Len(statistics_bytes))
           /\ g.header_length = g.statistics_offset + g.statistics_length
           /\ g.payload_length = Len(payload_bytes)
           /\ g.payload = payload_bytes /\ g.statistics_area = statistics_bytes
           /\ g.columns = [i \in 1..Len(encoded) |-> column_descriptor(i)]
           /\ g.streams = [k \in 1..Len(stream_entries) |-> stream_descriptor(k)]
           /\ g.primary_min = bounds.min /\ g.primary_max = bounds.max
           /\ g.flags \subseteq BlockFlags
           /\ (row_ids <=> "row_ids" \in g.flags) /\ (bounds.sorted <=> "ts_sorted" \in g.flags)
<1> DEFINE columns == [i \in 1..Len(encoded) |-> column_descriptor(i)]
           streams == [k \in 1..Len(stream_entries) |-> stream_descriptor(k)]
           flags == (IF row_ids THEN {"row_ids"} ELSE {})
                        \cup (IF bounds.sorted THEN {"ts_sorted"} ELSE {})
           base == IF row_ids THEN FIRST_BASE_ROW_ID ELSE UNAVAILABLE_BASE_ROW_ID
<1>1. g = [ schema_id |-> schema.id, base_row_id |-> base,
            row_count |-> RowCount, column_count |-> Len(encoded),
            primary_min |-> bounds.min, primary_max |-> bounds.max,
            column_table_offset |-> HeaderSize, stream_table_offset |-> stream_table_offset,
            statistics_offset |-> statistics_offset,
            statistics_length |-> PadTo(Len(statistics_bytes)), flags |-> flags,
            header_length |-> statistics_offset + PadTo(Len(statistics_bytes)),
            payload_length |-> Len(payload_bytes), columns |-> columns, streams |-> streams,
            payload |-> payload_bytes, statistics_area |-> statistics_bytes ]
  BY DEF build_data_frame
<1>2. /\ flags \subseteq BlockFlags /\ flags \in SUBSET FlagNames
      /\ (row_ids <=> "row_ids" \in flags) /\ (bounds.sorted <=> "ts_sorted" \in flags)
  BY DEF BlockFlags, FlagNames
<1>3. base \in Int
  BY DEF FIRST_BASE_ROW_ID, UNAVAILABLE_BASE_ROW_ID
<1>4. bounds.min \in Int /\ bounds.max \in Int
  BY DEF Bounds
<1>5. /\ Len(encoded) \in Nat /\ \A i \in 1..Len(encoded) : column_descriptor(i) \in ColumnRecords
  BY EncodedTypes, BuiltColumn
<1>6. columns \in Seq(ColumnRecords) /\ Len(columns) = Len(encoded)
  BY <1>5
<1>7. Len(stream_entries) \in Nat
      /\ \A k \in 1..Len(stream_entries) : stream_descriptor(k) \in StreamRecords
  BY StreamsInTable, BuiltStream
<1>8. streams \in Seq(StreamRecords) /\ Len(streams) = Len(stream_entries)
  BY <1>7
<1>9. /\ payload_bytes \in Seq(Int \X Int) /\ Len(payload_bytes) \in Nat
      /\ statistics_bytes \in Seq(Int)
  BY PayloadOfStreams, StatisticsOfColumns
<1>10. /\ schema.id \in Int /\ RowCount \in Int /\ HeaderSize \in Int
       /\ stream_table_offset \in Int /\ statistics_offset \in Int
       /\ PadTo(Len(statistics_bytes)) \in Int
       /\ statistics_offset + PadTo(Len(statistics_bytes)) \in Int
       /\ statistics_offset - stream_table_offset = Len(stream_entries) * StreamSize
       /\ Len(stream_entries) * StreamSize \in Nat
  BY Sizes, Inputs, BuiltSizes DEF ColumnsInv
<1> HIDE DEF columns, streams, flags, base
<1>11. g \in FrameRecords
  BY <1>1, <1>2, <1>3, <1>4, <1>5, <1>6, <1>8, <1>9, <1>10 DEF FrameRecords
<1>12. /\ g.schema_id = schema.id /\ g.base_row_id = base /\ g.row_count = RowCount
       /\ g.column_count = Len(encoded) /\ g.primary_min = bounds.min
       /\ g.primary_max = bounds.max /\ g.column_table_offset = HeaderSize
       /\ g.stream_table_offset = stream_table_offset
       /\ g.statistics_offset = statistics_offset
       /\ g.statistics_length = PadTo(Len(statistics_bytes)) /\ g.flags = flags
       /\ g.header_length = statistics_offset + PadTo(Len(statistics_bytes))
       /\ g.payload_length = Len(payload_bytes) /\ g.columns = columns /\ g.streams = streams
       /\ g.payload = payload_bytes /\ g.statistics_area = statistics_bytes
  BY <1>1
<1>13. Shape(g)
  BY <1>6, <1>8, <1>10, <1>11, <1>12 DEF Shape
<1> QED
  BY <1>2, <1>12, <1>13 DEF columns, streams, base


\* Two streams lie one behind the other, and the last one in the payload.
LEMMA StreamsApart ==
    ASSUME ColumnsInv
    PROVE  /\ \A j, k \in 1..Len(stream_entries) :
                j < k => /\ Before(j, stored_rooms) < Before(k, stored_rooms)
                         /\ Before(j, stored_rooms) + stream_at(j).length <= Before(k, stored_rooms)
           /\ \A k \in 1..Len(stream_entries) :
                Before(k, stored_rooms) + stream_at(k).length <= Len(payload_bytes)
<1> DEFINE m == Len(stream_entries)
           at(k) == Before(k, stored_rooms)
<1>1. m \in Nat /\ \A k \in 1..m : /\ stored_rooms[k] \in Nat \ {0}
                                   /\ stored_rooms[k] >= stream_at(k).length
                                   /\ stream_at(k).length \in Nat
  BY StreamsInTable
<1>2. /\ \A k \in 1..(m + 1) : at(k) \in Nat
      /\ \A k \in 1..m : \A j \in (k + 1)..(m + 1) : at(k) + stored_rooms[k] <= at(j)
  BY <1>1, BeforeGrows
<1>3. Len(payload_bytes) = at(m + 1)
  BY PayloadOfStreams
<1> HIDE DEF m, at
<1>4. ASSUME NEW j \in 1..m, NEW k \in 1..m, j < k
      PROVE  at(j) < at(k) /\ at(j) + stream_at(j).length <= at(k)
  <2>1. k \in (j + 1)..(m + 1) /\ k \in 1..(m + 1) /\ j \in 1..(m + 1)
    BY <1>1, <1>4
  <2>2. at(j) + stored_rooms[j] <= at(k) /\ at(j) \in Nat /\ at(k) \in Nat
    BY <1>2, <2>1
  <2> QED
    BY <1>1, <2>2
<1>5. ASSUME NEW k \in 1..m PROVE at(k) + stream_at(k).length <= Len(payload_bytes)
  <2>1. m + 1 \in (k + 1)..(m + 1) /\ m + 1 \in 1..(m + 1) /\ k \in 1..(m + 1)
    BY <1>1
  <2>2. at(k) + stored_rooms[k] <= at(m + 1) /\ at(k) \in Nat /\ at(m + 1) \in Nat
    BY <1>2, <2>1
  <2> QED
    BY <1>1, <1>3, <2>2
<1> QED
  BY <1>4, <1>5 DEF m, at

LEMMA BuiltParses ==
    ASSUME ColumnsInv, Len(encoded) = Len(schema.columns), NEW bounds \in Bounds,
           NEW g, g = build_data_frame(bounds)
    PROVE  parse(g) /\ stream_count(g) = Len(stream_entries)
<1>1. /\ Shape(g) /\ g.schema_id = schema.id /\ g.row_count = RowCount
      /\ g.base_row_id = (IF row_ids THEN FIRST_BASE_ROW_ID ELSE UNAVAILABLE_BASE_ROW_ID)
      /\ g.column_count = Len(schema.columns)
      /\ g.column_table_offset = HeaderSize
      /\ g.stream_table_offset = stream_table_offset
      /\ g.statistics_offset = statistics_offset
      /\ g.header_length = g.statistics_offset + g.statistics_length
      /\ g.primary_min = bounds.min /\ g.primary_max = bounds.max
      /\ g.flags \subseteq BlockFlags
      /\ (row_ids <=> "row_ids" \in g.flags) /\ (bounds.sorted <=> "ts_sorted" \in g.flags)
  BY BuiltFrame
<1>2. /\ stream_table_offset = HeaderSize + Len(encoded) * ColumnSize
      /\ statistics_offset \in Nat /\ stream_table_offset \in Nat
      /\ statistics_offset - stream_table_offset = Len(stream_entries) * StreamSize
      /\ Len(stream_entries) * StreamSize \in Nat /\ Len(stream_entries) \in Nat
  BY BuiltSizes
<1>3. StreamSize \in Nat \ {0} /\ RowCount # 0 /\ RowCount \in Nat
  BY Sizes
<1>4. /\ (Len(stream_entries) * StreamSize) % StreamSize = 0
      /\ (Len(stream_entries) * StreamSize) \div StreamSize = Len(stream_entries)
  BY <1>2, <1>3, Multiples, Len(stream_entries) \in Int
<1>5. check_schema_agreement(g)
  BY <1>1, <1>3 DEF check_schema_agreement
<1>6. validate_layout(g)
  <2>1. g.statistics_offset >= g.stream_table_offset
    BY <1>1, <1>2
  <2>2. (g.statistics_offset - g.stream_table_offset) % StreamSize = 0
    BY <1>1, <1>2, <1>4
  <2>3. g.statistics_offset + g.statistics_length <= g.header_length
    <3>1. g.statistics_offset \in Int /\ g.statistics_length \in Int
      BY <1>1 DEF Shape, FrameRecords
    <3> QED
      BY <1>1, <3>1
  <2>4. g.stream_table_offset = g.column_table_offset + Len(schema.columns) * ColumnSize
    BY <1>1, <1>2
  <2> QED
    BY <1>1, <2>1, <2>2, <2>3, <2>4 DEF validate_layout
<1>7. check_flags(g) /\ resolve_base_row_id(g)
  BY <1>1 DEF check_flags, resolve_base_row_id
<1>8. resolve_primary_bounds(g)
  <2>1. /\ schema.primary # 0 => bounds.min = 1 /\ bounds.max = 2
        /\ schema.primary = 0 => bounds.min = 0 /\ bounds.max = 0 /\ bounds.sorted = FALSE
    BY DEF Bounds
  <2> QED
    BY <1>1, <2>1 DEF resolve_primary_bounds
<1>9. stream_count(g) = Len(stream_entries)
  BY <1>1, <1>2, <1>4 DEF stream_count
<1> QED
  BY <1>5, <1>6, <1>7, <1>8, <1>9 DEF parse

\* A reader accepts the frame, whatever it selects and however it sorts.
LEMMA BuiltIsAccepted ==
    ASSUME ColumnsInv, Len(encoded) = Len(schema.columns), NEW bounds \in Bounds,
           NEW g, g = build_data_frame(bounds), g.payload_length <= MaxPayloadLength,
           NEW selection, NEW order \in SortedOrders(g)
    PROVE  parse_layout(g, selection, order)
<1> DEFINE m == Len(stream_entries)
           n == Len(encoded)
<1>1. /\ g.row_count = RowCount /\ g.statistics_offset = statistics_offset
      /\ g.statistics_length = PadTo(Len(statistics_bytes))
      /\ g.payload_length = Len(payload_bytes)
      /\ g.columns = [i \in 1..n |-> column_descriptor(i)]
      /\ g.streams = [k \in 1..m |-> stream_descriptor(k)]
  BY BuiltFrame
<1>2. parse(g) /\ stream_count(g) = m
  BY BuiltParses
<1>3. /\ n \in Nat /\ m \in Nat /\ statistics_offset \in Nat
      /\ PadTo(Len(statistics_bytes)) \in Nat /\ Len(statistics_bytes) \in Nat
      /\ PadTo(Len(statistics_bytes)) >= Len(statistics_bytes)
      /\ RowCount \in Nat
  BY BuiltSizes, Sizes
<1>4. parse_columns(g)
  <2> SUFFICES ASSUME NEW i \in 1..n
               PROVE  /\ g.columns[i].column_id = sorted_columns[i].id
                      /\ validate_column_descriptor(g, g.columns[i], sorted_columns[i])
    BY DEF parse_columns
  <2> DEFINE d == column_descriptor(i)
  <2>1. g.columns[i] = d
    BY <1>1
  <2>2. /\ d.column_id = sorted_columns[i].id /\ d.flags \subseteq ColumnFlags
        /\ d.layout \in 0..3 /\ d.null_count = encoded[i].null_count
        /\ d.null_count \in 0..RowCount /\ d.dense_count = RowCount - d.null_count
        /\ d.first_stream + d.stream_count <= m
        /\ d.stats_length = encoded[i].statistics /\ d.stats_length \in Nat
        /\ IF encoded[i].statistics > 0
           THEN /\ "has_stats" \in d.flags /\ d.stats_kind = 1
                /\ Before(i, statistics_lengths) \in Nat
                /\ d.stats_offset = statistics_offset + Before(i, statistics_lengths)
                /\ Before(i, statistics_lengths) + d.stats_length <= Len(statistics_bytes)
           ELSE "has_stats" \notin d.flags /\ d.stats_kind = 0 /\ d.stats_offset = 0
    BY BuiltColumn
  <2> HIDE DEF d
  <2>3. ~sorted_columns[i].nullable => d.null_count = 0
    <3>1. encoded[i].null_count > 0 => sorted_columns[i].nullable
      BY DEF ColumnsInv
    <3> QED
      BY <1>3, <2>2, <3>1
  <2>4. /\ d.stats_kind <= 1
        /\ "has_stats" \in d.flags <=> d.stats_kind # 0
        /\ IF "has_stats" \in d.flags
           THEN /\ d.stats_offset >= g.statistics_offset
                /\ d.stats_offset + d.stats_length <= g.statistics_offset + g.statistics_length
           ELSE d.stats_offset = 0 /\ d.stats_length = 0
    <3>1. /\ g.statistics_offset = statistics_offset
          /\ g.statistics_length = PadTo(Len(statistics_bytes))
      BY <1>1
    <3>2. CASE encoded[i].statistics > 0
      <4>1. /\ "has_stats" \in d.flags /\ d.stats_kind = 1
            /\ Before(i, statistics_lengths) \in Nat
            /\ d.stats_offset = statistics_offset + Before(i, statistics_lengths)
            /\ Before(i, statistics_lengths) + d.stats_length <= Len(statistics_bytes)
            /\ d.stats_length \in Nat
        BY <2>2, <3>2
      <4> QED
        BY <1>3, <3>1, <4>1
    <3>3. CASE ~(encoded[i].statistics > 0)
      <4>1. /\ "has_stats" \notin d.flags /\ d.stats_kind = 0 /\ d.stats_offset = 0
            /\ d.stats_length \in Nat /\ ~(d.stats_length > 0)
        BY <2>2, <3>3
      <4> QED
        BY <4>1
    <3> QED
      BY <3>2, <3>3
  <2>5. d.layout <= 3 /\ d.null_count <= g.row_count /\ d.dense_count = g.row_count - d.null_count
    <3>1. g.row_count = RowCount
      BY <1>1
    <3>2. d.layout \in 0..3 /\ d.null_count \in 0..RowCount /\ d.dense_count = RowCount - d.null_count
      BY <2>2
    <3> QED
      BY <1>3, <3>1, <3>2
  <2> QED
    BY <1>2, <2>1, <2>2, <2>3, <2>4, <2>5 DEF validate_column_descriptor
<1>5. \A k \in 1..m :
        /\ g.streams[k] = stream_descriptor(k)
        /\ g.streams[k].kind \in 1..8 /\ g.streams[k].transform = 0 /\ g.streams[k].codec = 0
        /\ g.streams[k].flags = 0
        /\ g.streams[k].payload_offset = Before(k, stored_rooms)
        /\ g.streams[k].payload_offset \in Nat /\ g.streams[k].payload_offset % Alignment = 0
        /\ g.streams[k].stored_length = stream_at(k).length
        /\ g.streams[k].stored_length \in Nat
        /\ g.streams[k].transformed_length = g.streams[k].stored_length
        /\ End(g.streams[k]) = Before(k, stored_rooms) + stream_at(k).length
        /\ End(g.streams[k]) <= g.payload_length
  <2> SUFFICES ASSUME NEW k \in 1..m
               PROVE  /\ g.streams[k] = stream_descriptor(k)
                      /\ g.streams[k].kind \in 1..8 /\ g.streams[k].transform = 0
                      /\ g.streams[k].codec = 0 /\ g.streams[k].flags = 0
                      /\ g.streams[k].payload_offset = Before(k, stored_rooms)
                      /\ g.streams[k].payload_offset \in Nat
                      /\ g.streams[k].payload_offset % Alignment = 0
                      /\ g.streams[k].stored_length = stream_at(k).length
                      /\ g.streams[k].stored_length \in Nat
                      /\ g.streams[k].transformed_length = g.streams[k].stored_length
                      /\ End(g.streams[k]) = Before(k, stored_rooms) + stream_at(k).length
                      /\ End(g.streams[k]) <= g.payload_length
    OBVIOUS
  <2>1. g.streams[k] = stream_descriptor(k)
    BY <1>1
  <2>2. Before(k, stored_rooms) + stream_at(k).length <= Len(payload_bytes)
    BY StreamsApart
  <2> QED
    BY <1>1, <2>1, <2>2, BuiltStream DEF End
<1>6. parse_streams(g, selection)
  <2> SUFFICES ASSUME NEW k \in 1..m
               PROVE  LET s == g.streams[k] IN
                      /\ s.flags = 0 /\ s.kind \in StreamKinds
                      /\ is_selected(g, k, selection) => ensure_transform(s) /\ ensure_codec(s)
                      /\ s.payload_offset % Alignment = 0
                      /\ s.stored_length <= MaxPayloadLength
                      /\ s.transformed_length <= MaxPayloadLength
                      /\ s.codec = 0 => s.stored_length = s.transformed_length
    BY <1>2 DEF parse_streams
  <2>1. ensure_transform(g.streams[k]) /\ ensure_codec(g.streams[k])
    BY <1>5 DEF ensure_transform, ensure_codec, Transforms, Codecs
  <2>2. g.streams[k].stored_length <= MaxPayloadLength
    <3>1. /\ MaxPayloadLength \in Nat /\ Len(payload_bytes) \in Nat
          /\ g.streams[k].stored_length \in Nat /\ g.streams[k].payload_offset \in Nat
          /\ g.streams[k].payload_offset + g.streams[k].stored_length <= g.payload_length
      BY <1>5, Sizes, PayloadOfStreams DEF End
    <3> QED
      BY <1>1, <3>1
  <2> QED
    BY <1>5, <2>1, <2>2 DEF StreamKinds
<1>7. validate_stream_ranges(g, order)
  <2>1. /\ order \in [1..m -> 1..m]
        /\ \A a, b \in 1..m : a # b => order[a] # order[b]
        /\ \A a \in 1..m - 1 : g.streams[order[a]].payload_offset
                                 <= g.streams[order[a + 1]].payload_offset
    BY <1>2 DEF SortedOrders
  <2>2. Len(order) = m
    BY <1>3, <2>1
  <2>3. ASSUME NEW a \in 1..m - 1
        PROVE  End(g.streams[order[a]]) <= g.streams[order[a + 1]].payload_offset
    <3>1. a \in 1..m /\ a + 1 \in 1..m /\ a # a + 1
      BY <1>3
    <3>2. order[a] \in 1..m /\ order[a + 1] \in 1..m /\ order[a] # order[a + 1]
      BY <2>1, <3>1
    <3>3. Before(order[a], stored_rooms) <= Before(order[a + 1], stored_rooms)
      BY <1>5, <2>1, <3>2
    <3>4. /\ Before(order[a], stored_rooms) \in Nat /\ Before(order[a + 1], stored_rooms) \in Nat
      BY <1>5, <3>2
    <3>5. order[a] < order[a + 1]
      <4>1. CASE order[a + 1] < order[a]
        <5>1. Before(order[a + 1], stored_rooms) < Before(order[a], stored_rooms)
          BY <3>2, <4>1, StreamsApart
        <5> QED
          BY <3>3, <3>4, <5>1
      <4> QED
        BY <3>2, <4>1
    <3>6. Before(order[a], stored_rooms) + stream_at(order[a]).length
            <= Before(order[a + 1], stored_rooms)
      BY <3>2, <3>5, StreamsApart
    <3> QED
      BY <1>5, <3>2, <3>6
  <2> QED
    BY <1>2, <1>5, <2>2, <2>3 DEF validate_stream_ranges
<1> QED
  BY <1>2, <1>4, <1>6, <1>7 DEF parse_layout

\* Under a descriptor the bytes of that column's streams and statistics.
Contained(g, i) ==
    LET d == g.columns[i] IN
    /\ streams_for(g, d) = [s \in DOMAIN encoded[i].streams |->
             [b \in 1..encoded[i].streams[s].length |-> <<i, s>>]]
    /\ d.stats_kind # 0 =>
          LET from == d.stats_offset - g.statistics_offset
          IN  SubSeq(g.statistics_area, from + 1, from + d.stats_length)
                  = [b \in 1..encoded[i].statistics |-> i]

LEMMA BuiltContents ==
    ASSUME ColumnsInv, Len(encoded) = Len(schema.columns), NEW bounds \in Bounds,
           NEW g, g = build_data_frame(bounds), NEW i \in DOMAIN g.columns
    PROVE  Contained(g, i)
<1> DEFINE n == Len(encoded)
           m == Len(stream_entries)
           d == g.columns[i]
<1>1. /\ g.statistics_offset = statistics_offset
      /\ g.payload = payload_bytes /\ g.statistics_area = statistics_bytes
      /\ g.columns = [c \in 1..n |-> column_descriptor(c)]
      /\ g.streams = [k \in 1..m |-> stream_descriptor(k)]
  BY BuiltFrame
<1>2. i \in 1..n /\ d = column_descriptor(i)
  BY <1>1
<1>3. /\ d.first_stream = Before(i, stream_counts) /\ d.first_stream \in Nat
      /\ d.stream_count = Len(encoded[i].streams) /\ d.stream_count \in Nat
      /\ d.stats_length = encoded[i].statistics /\ d.stats_length \in Nat
      /\ IF encoded[i].statistics > 0
         THEN /\ d.stats_kind = 1 /\ Before(i, statistics_lengths) \in Nat
              /\ d.stats_offset = statistics_offset + Before(i, statistics_lengths)
         ELSE d.stats_kind = 0
  BY <1>2, BuiltColumn
<1>4. /\ encoded[i].streams \in Seq([kind : 1..8, length : Nat])
      /\ statistics_lengths[i] = encoded[i].statistics
  BY <1>2, EncodedTypes
<1> HIDE DEF d
<1>5. ASSUME NEW k \in 1..d.stream_count
      PROVE  LET s == g.streams[d.first_stream + k]
             IN  SubSeq(g.payload, s.payload_offset + 1, End(s))
                   = [b \in 1..encoded[i].streams[k].length |-> <<i, k>>]
  <2> DEFINE q == Before(i, stream_counts) + k
             at == Before(q, stored_rooms)
             l == encoded[i].streams[k].length
  <2>1. q \in 1..m /\ stream_entries[q] = <<i, k>>
    BY <1>2, <1>3, TableOfStreams
  <2>2. stream_at(q) = encoded[i].streams[k]
    BY <2>1 DEF stream_at
  <2>3. g.streams[d.first_stream + k] = stream_descriptor(q)
    BY <1>1, <1>3, <2>1
  <2>4. /\ stream_descriptor(q).payload_offset = at /\ at \in Nat
        /\ stream_descriptor(q).stored_length = l /\ l \in Nat
    BY <2>1, <2>2, BuiltStream
  <2>5. \A b \in 1..l : payload_bytes[at + b] = <<i, k>>
    BY <2>1, <2>2, PayloadOfStreams
  <2> HIDE DEF q, at, l
  <2>6. SubSeq(payload_bytes, at + 1, at + l) = [b \in 1..l |-> payload_bytes[at + b]]
    BY <2>4, PayloadOfStreams, Slice
  <2>7. SubSeq(payload_bytes, at + 1, at + l) = [b \in 1..l |-> <<i, k>>]
    BY <2>5, <2>6
  <2> QED
    BY <1>1, <2>3, <2>4, <2>7 DEF End, l
<1>6. streams_for(g, d) = [s \in DOMAIN encoded[i].streams |->
                            [b \in 1..encoded[i].streams[s].length |-> <<i, s>>]]
  <2>1. DOMAIN encoded[i].streams = 1..d.stream_count
    BY <1>3, <1>4
  <2> QED
    BY <1>5, <2>1 DEF streams_for
<1>7. ASSUME d.stats_kind # 0
      PROVE  LET from == d.stats_offset - g.statistics_offset
             IN  SubSeq(g.statistics_area, from + 1, from + d.stats_length)
                     = [b \in 1..encoded[i].statistics |-> i]
  <2> DEFINE at == Before(i, statistics_lengths)
             l == encoded[i].statistics
  <2>1. at \in Nat /\ l \in Nat /\ d.stats_offset = statistics_offset + at /\ d.stats_length = l
    BY <1>3, <1>7
  <2>2. \A b \in 1..l : statistics_bytes[at + b] = i
    BY <1>2, <1>4, StatisticsOfColumns
  <2>3. statistics_offset \in Nat /\ g.statistics_offset = statistics_offset
    BY <1>1, BuiltSizes
  <2> HIDE DEF at, l
  <2>4. SubSeq(statistics_bytes, at + 1, at + l) = [b \in 1..l |-> statistics_bytes[at + b]]
    BY <2>1, StatisticsOfColumns, Slice
  <2>5. SubSeq(statistics_bytes, at + 1, at + l) = [b \in 1..l |-> i]
    BY <2>2, <2>4
  <2>6. d.stats_offset - g.statistics_offset = at
    BY <2>1, <2>3
  <2> QED
    BY <1>1, <2>1, <2>5, <2>6 DEF l
<1> QED
  BY <1>6, <1>7 DEF d, Contained


-----------------------------------------------------------------------------
(* Invariance                                                              *)

\* What depends on the schema and the columns alone does not change with others.
LEMMA ShapeKept ==
    ASSUME schema' = schema, Shape(frame')
    PROVE  Shape(frame)'
<1>1. sorted_columns' = sorted_columns
  BY SortedUnchanged
<1>2. SortedIds' = SortedIds
  BY <1>1 DEF SortedIds
<1>3. ColumnRecords' = ColumnRecords
  BY <1>2 DEF ColumnRecords
<1>4. FrameRecords' = FrameRecords
  BY <1>3 DEF FrameRecords, StreamRecords, FlagNames
<1> QED
  BY <1>4 DEF Shape

LEMMA BuildKept ==
    ASSUME schema' = schema, row_ids' = row_ids, encoded' = encoded, NEW bounds
    PROVE  build_data_frame(bounds)' = build_data_frame(bounds)
<1>1. stream_counts' = stream_counts /\ statistics_lengths' = statistics_lengths
  BY DEF stream_counts, statistics_lengths
<1>2. stream_entries' = stream_entries
  BY <1>1 DEF stream_entries
<1>3. \A k : stream_at(k)' = stream_at(k)
  BY <1>2 DEF stream_at
<1>4. stored_rooms' = stored_rooms
  BY <1>2, <1>3 DEF stored_rooms, append_stream, PadTo
<1>5. payload_bytes' = payload_bytes
  BY <1>2, <1>3, <1>4 DEF payload_bytes
<1>6. statistics_bytes' = statistics_bytes
  BY <1>1 DEF statistics_bytes
<1>7. stream_table_offset' = stream_table_offset
  BY DEF stream_table_offset
<1>8. statistics_offset' = statistics_offset
  BY <1>2, <1>7 DEF statistics_offset
<1>9. sorted_columns' = sorted_columns
  BY SortedUnchanged
<1>10. \A i : column_descriptor(i)' = column_descriptor(i)
  BY <1>1, <1>8, <1>9 DEF column_descriptor, Before
<1>11. \A k : stream_descriptor(k)' = stream_descriptor(k)
  BY <1>3, <1>4 DEF stream_descriptor, Before
<1> QED
  BY <1>2, <1>5, <1>6, <1>7, <1>8, <1>10, <1>11 DEF build_data_frame, PadTo

LEMMA BuiltKept ==
    ASSUME schema' = schema, row_ids' = row_ids, encoded' = encoded, frame' = frame, Built
    PROVE  Built'
<1>1. Bounds' = Bounds
  BY DEF Bounds
<1>2. PICK bounds \in Bounds : frame = build_data_frame(bounds)
  BY DEF Built
<1>3. frame' = build_data_frame(bounds)' /\ bounds \in Bounds'
  BY <1>1, <1>2, BuildKept
<1> QED
  BY <1>3 DEF Built

LEMMA ParseKept ==
    ASSUME schema' = schema, row_ids' = row_ids, frame' = frame
    PROVE  /\ parse(frame)' <=> parse(frame)
           /\ SortedOrders(frame)' = SortedOrders(frame)
           /\ Everything' = Everything
           /\ \A selection, order :
                parse_layout(frame, selection, order)' <=> parse_layout(frame, selection, order)
<1>1. sorted_columns' = sorted_columns
  BY SortedUnchanged
<1>2. parse(frame)' <=> parse(frame)
  BY DEF parse, check_schema_agreement, validate_layout, check_flags, resolve_base_row_id,
         resolve_primary_bounds
<1>3. stream_count(frame)' = stream_count(frame)
  BY DEF stream_count
<1>4. SortedOrders(frame)' = SortedOrders(frame)
  BY <1>3 DEF SortedOrders
<1>5. Everything' = Everything
  BY DEF Everything, Ids
<1>6. parse_columns(frame)' <=> parse_columns(frame)
  BY <1>1, <1>3 DEF parse_columns, validate_column_descriptor
<1>7. ASSUME NEW selection
      PROVE  parse_streams(frame, selection)' <=> parse_streams(frame, selection)
  <2>1. \A k : is_selected(frame, k, selection)' <=> is_selected(frame, k, selection)
    BY DEF is_selected, owner_of
  <2> QED
    BY <1>3, <2>1 DEF parse_streams, ensure_transform, ensure_codec
<1>8. ASSUME NEW order
      PROVE  validate_stream_ranges(frame, order)' <=> validate_stream_ranges(frame, order)
  BY <1>3 DEF validate_stream_ranges, End
<1> QED
  BY <1>2, <1>4, <1>5, <1>6, <1>7, <1>8 DEF parse_layout

LEMMA VerdictKept ==
    ASSUME schema' = schema, row_ids' = row_ids, frame' = frame, read' = read, Verdict
    PROVE  Verdict'
<1> DEFINE selection == read.selection
<1>1. /\ parse(frame)' <=> parse(frame)
      /\ SortedOrders(frame)' = SortedOrders(frame) /\ Everything' = Everything
      /\ \A order : parse_layout(frame, read.selection, order)'
                      <=> parse_layout(frame, read.selection, order)
  BY ParseKept
<1> QED
  BY <1>1 DEF Verdict


LEMMA InitHolds ==
    FrameInit => FrameInv
  BY DEF FrameInit, FrameInv, ColumnsInv

LEMMA ColumnsKept ==
    ASSUME ColumnsInv, schema' = schema, row_ids' = row_ids, encoded' = encoded
    PROVE  ColumnsInv'
  BY SortedUnchanged DEF ColumnsInv

LEMMA EncodeStep ==
    ASSUME FrameInv, EncodeColumn
    PROVE  FrameInv'
<1>1. PICK column \in Encodings(schema) :
        /\ column.null_count > 0 => sorted_columns[Len(encoded) + 1].nullable
        /\ encoded' = Append(encoded, column)
  BY DEF EncodeColumn
<1>2. /\ schema' = schema /\ row_ids' = row_ids /\ altered' = altered /\ phase' = phase
      /\ phase = "encoding" /\ Len(encoded) < Len(schema.columns)
  BY DEF EncodeColumn
<1>3. schema \in Schemas /\ encoded \in Seq(EncodedColumns) /\ row_ids \in BOOLEAN
      /\ \A i \in 1..Len(encoded) : encoded[i].null_count > 0 => sorted_columns[i].nullable
  BY DEF FrameInv, ColumnsInv
<1>4. column \in EncodedColumns /\ Len(schema.columns) \in Nat
  BY <1>3, Inputs
<1>5. /\ encoded' \in Seq(EncodedColumns) /\ Len(encoded') = Len(encoded) + 1
      /\ Len(encoded) \in Nat /\ encoded'[Len(encoded) + 1] = column
      /\ \A i \in 1..Len(encoded) : encoded'[i] = encoded[i]
  BY <1>1, <1>3, <1>4
<1>6. sorted_columns' = sorted_columns
  BY <1>2, SortedUnchanged
<1>7. Len(encoded') <= Len(schema.columns)
  BY <1>2, <1>4, <1>5
<1>8. \A i \in 1..Len(encoded') : encoded'[i].null_count > 0 => sorted_columns[i].nullable
  BY <1>1, <1>3, <1>5
<1>9. ColumnsInv'
  BY <1>2, <1>3, <1>5, <1>6, <1>7, <1>8 DEF ColumnsInv
<1> QED
  BY <1>2, <1>9 DEF FrameInv

LEMMA BuildStep ==
    ASSUME FrameInv, BuildFrame
    PROVE  FrameInv'
<1>0. /\ schema' = schema /\ row_ids' = row_ids /\ encoded' = encoded /\ altered' = altered
      /\ phase = "encoding" /\ Len(encoded) = Len(schema.columns) /\ ColumnsInv
      /\ altered \in Nat
  BY DEF BuildFrame, FrameInv
<1>1. ColumnsInv'
  BY <1>0, ColumnsKept
<1>2. PICK bounds \in Bounds :
        IF \/ build_data_frame(bounds).header_length > MaxHeaderLength
           \/ build_data_frame(bounds).payload_length > MaxPayloadLength
        THEN phase' = "refused" /\ UNCHANGED frame
        ELSE phase' = "built" /\ frame' = build_data_frame(bounds)
  BY DEF BuildFrame
<1>3. CASE phase' = "refused"
  BY <1>0, <1>1, <1>3 DEF FrameInv
<1>4. CASE /\ ~(build_data_frame(bounds).payload_length > MaxPayloadLength)
           /\ phase' = "built" /\ frame' = build_data_frame(bounds)
  <2>1. Shape(frame')
    BY <1>0, <1>4, BuiltFrame
  <2>2. Shape(frame)'
    BY <1>0, <2>1, ShapeKept
  <2>3. Bounds' = Bounds
    BY <1>0 DEF Bounds
  <2>4. build_data_frame(bounds)' = build_data_frame(bounds)
    BY <1>0, BuildKept
  <2>5. \E b \in Bounds' : frame' = build_data_frame(b)'
    BY <1>4, <2>3, <2>4
  <2>6. frame'.payload_length <= MaxPayloadLength
    <3>1. frame'.payload_length \in Int /\ MaxPayloadLength \in Int
      BY <2>1, Sizes DEF Shape, FrameRecords
    <3> QED
      BY <1>4, <3>1
  <2>7. Built'
    BY <1>0, <2>5, <2>6 DEF Built
  <2> QED
    BY <1>0, <1>1, <1>4, <2>2, <2>7 DEF FrameInv
<1> QED
  BY <1>2, <1>3, <1>4

LEMMA AlterStep ==
    ASSUME FrameInv, Alter
    PROVE  FrameInv'
<1>0. /\ schema' = schema /\ row_ids' = row_ids /\ encoded' = encoded /\ phase' = phase
      /\ phase = "built" /\ altered' = altered + 1 /\ altered \in Nat /\ ColumnsInv
      /\ frame' \in Alterations /\ Shape(frame)
  BY DEF Alter, FrameInv
<1>1. ColumnsInv'
  BY <1>0, ColumnsKept
<1>2. Shape(frame')
  BY <1>0, AlterationsKeepShape DEF ColumnsInv
<1>3. Shape(frame)'
  BY <1>0, <1>2, ShapeKept
<1>4. altered' \in Nat /\ altered' # 0
  BY <1>0
<1> QED
  BY <1>0, <1>1, <1>3, <1>4 DEF FrameInv

LEMMA ReadStep ==
    ASSUME FrameInv, ReadLayout
    PROVE  FrameInv'
<1>0. /\ schema' = schema /\ row_ids' = row_ids /\ encoded' = encoded /\ frame' = frame
      /\ altered' = altered /\ phase = "built" /\ phase' = "read" /\ altered \in Nat
      /\ ColumnsInv /\ Shape(frame) /\ (altered = 0 => Built)
  BY DEF ReadLayout, FrameInv
<1>1. ColumnsInv'
  BY <1>0, ColumnsKept
<1>2. Shape(frame)'
  BY <1>0, ShapeKept
<1>3. altered' = 0 => Built'
  BY <1>0, BuiltKept
<1>4. PICK selection \in (SUBSET Ids) \cup {Everything} :
         IF parse(frame)
         THEN \E order \in SortedOrders(frame) :
                read' = [selection |-> selection,
                         ok |-> parse_layout(frame, selection, order)]
         ELSE read' = [selection |-> selection, ok |-> FALSE]
  BY DEF ReadLayout
<1>5. selection \in SUBSET Everything
  BY DEF Everything
<1>6. /\ parse(frame)' <=> parse(frame)
      /\ SortedOrders(frame)' = SortedOrders(frame) /\ Everything' = Everything
      /\ \A s, order : parse_layout(frame, s, order)' <=> parse_layout(frame, s, order)
  BY <1>0, ParseKept
<1>7. /\ read'.selection = selection
      /\ read'.ok => \E order \in SortedOrders(frame) : parse_layout(frame, selection, order)
      /\ ~read'.ok /\ parse(frame) =>
           \E order \in SortedOrders(frame) : ~parse_layout(frame, selection, order)
  <2>1. CASE parse(frame)
    <3>1. PICK order \in SortedOrders(frame) :
            read' = [selection |-> selection, ok |-> parse_layout(frame, selection, order)]
      BY <1>4, <2>1
    <3>2. read'.selection = selection /\ (read'.ok <=> parse_layout(frame, selection, order))
      BY <3>1
    <3> QED
      BY <3>2
  <2>2. CASE ~parse(frame)
    BY <1>4, <2>2
  <2> QED
    BY <2>1, <2>2
<1>8. Verdict'
  <2>1. read'.selection \in SUBSET Everything'
    BY <1>5, <1>6, <1>7
  <2>2. read'.ok => \E order \in SortedOrders(frame)' : parse_layout(frame, read.selection, order)'
    BY <1>6, <1>7
  <2>3. ~read'.ok /\ parse(frame)' =>
          \E order \in SortedOrders(frame)' : ~parse_layout(frame, read.selection, order)'
    BY <1>6, <1>7
  <2> QED
    BY <2>1, <2>2, <2>3 DEF Verdict
<1> QED
  BY <1>0, <1>1, <1>2, <1>3, <1>8 DEF FrameInv

LEMMA StutterStep ==
    ASSUME FrameInv, UNCHANGED frameVars
    PROVE  FrameInv'
<1>0. /\ schema' = schema /\ row_ids' = row_ids /\ encoded' = encoded /\ frame' = frame
      /\ altered' = altered /\ read' = read /\ phase' = phase
  BY DEF frameVars
<1>1. ColumnsInv'
  BY <1>0, ColumnsKept DEF FrameInv
<1>2. phase \in {"built", "read"} => Shape(frame)'
  BY <1>0, ShapeKept DEF FrameInv
<1>3. phase \in {"built", "read"} /\ altered = 0 => Built'
  BY <1>0, BuiltKept DEF FrameInv
<1>4. phase = "read" => Verdict'
  BY <1>0, VerdictKept DEF FrameInv
<1> QED
  BY <1>0, <1>1, <1>2, <1>3, <1>4 DEF FrameInv

\* What is known of a frame from the first column encoded to the verdict of a
\* reader.
THEOREM FrameInvariant == FrameSpec => []FrameInv
<1>1. FrameInv /\ [FrameNext]_frameVars => FrameInv'
  BY EncodeStep, BuildStep, AlterStep, ReadStep, StutterStep DEF FrameNext
<1> QED
  BY <1>1, InitHolds, PTL DEF FrameSpec


-----------------------------------------------------------------------------
(* What is shown of it                                                     *)

\* The streams that a header makes room for all have a descriptor.
LEMMA CountedStreams ==
    ASSUME NEW f, Shape(f), parse(f)
    PROVE  /\ stream_count(f) \in Nat /\ stream_count(f) <= Len(f.streams)
           /\ stream_count(f) * StreamSize = f.statistics_offset - f.stream_table_offset
           /\ \A k \in 1..stream_count(f) : k \in DOMAIN f.streams /\ f.streams[k] \in StreamRecords
<1> DEFINE d == StreamSize
           x == f.statistics_offset - f.stream_table_offset
           q == x \div d
           l == Len(f.streams)
<1>1. /\ f.statistics_offset \in Int /\ f.stream_table_offset \in Int
      /\ f.streams \in Seq(StreamRecords) /\ l \in Nat /\ d \in Nat \ {0} /\ x <= l * d
  BY Sizes DEF Shape, FrameRecords
<1>2. x % d = 0 /\ f.statistics_offset >= f.stream_table_offset
  BY DEF parse, validate_layout
<1>3. x \in Nat
  BY <1>1, <1>2
<1> HIDE DEF x, l, d
<1>4. q \in Int /\ x = q * d + (x % d)
  BY <1>1, <1>3, Quotients
<1> HIDE DEF q
<1>5. x = q * d
  BY <1>1, <1>2, <1>3, <1>4
<1>6. q >= 0
  BY <1>1, <1>3, <1>4, <1>5
<1>7. q <= l
  BY <1>1, <1>4, <1>5
<1>8. stream_count(f) = q
  BY DEF stream_count, q, x, d
<1>9. \A k \in 1..q : k \in DOMAIN f.streams /\ f.streams[k] \in StreamRecords
  BY <1>1, <1>4, <1>7 DEF l
<1> QED
  BY <1>4, <1>5, <1>6, <1>7, <1>8, <1>9 DEF d, x, l

\* A sort leaves every stream in its order.
LEMMA OrdersAreOnto ==
    ASSUME NEW n \in Nat, NEW order \in [1..n -> 1..n],
           \A a, b \in 1..n : a # b => order[a] # order[b]
    PROVE  \A k \in 1..n : \E a \in 1..n : order[a] = k
<1>1. IsFiniteSet(1..n)
  BY FS_Interval
<1>2. order \in Injection(1..n, 1..n)
  BY DEF Injection, IsInjective
<1>3. order \in Surjection(1..n, 1..n)
  BY <1>1, <1>2, FS_Injection
<1> QED
  BY <1>3 DEF Surjection

LEMMA AcceptedIsApart ==
    ASSUME Shape(frame), NEW selection, NEW order \in SortedOrders(frame),
           parse_layout(frame, selection, order)
    PROVE  \A j, k \in 1..stream_count(frame) : j # k =>
              frame.streams[j].payload_offset + 1..End(frame.streams[j])
                \cap frame.streams[k].payload_offset + 1..End(frame.streams[k]) = {}
<1> DEFINE n == stream_count(frame)
           at(k) == frame.streams[k].payload_offset
           end(k) == End(frame.streams[k])
           v == [a \in 1..n |-> at(order[a])]
<1>1. parse(frame) /\ validate_stream_ranges(frame, order)
  BY DEF parse_layout
<1>2. n \in Nat /\ \A k \in 1..n : at(k) \in Int /\ end(k) \in Int
  BY <1>1, CountedStreams DEF StreamRecords, End
<1>3. /\ order \in [1..n -> 1..n] /\ \A a, b \in 1..n : a # b => order[a] # order[b]
      /\ \A a \in 1..n - 1 : at(order[a]) <= at(order[a + 1])
  BY DEF SortedOrders
<1>4. \A a \in 1..n - 1 : end(order[a]) <= at(order[a + 1])
  <2>1. Len(order) = n
    BY <1>2, <1>3
  <2> QED
    BY <1>1, <2>1 DEF validate_stream_ranges
<1> HIDE DEF n, at, end
<1>5. \A k \in 1..n : \E a \in 1..n : order[a] = k
  BY <1>2, <1>3, OrdersAreOnto
<1>6. \A a \in 1..n : \A b \in a..n : at(order[a]) <= at(order[b])
  <2>1. v \in Seq(Int) /\ Len(v) = n /\ \A a \in 1..n : v[a] = at(order[a])
    BY <1>2, <1>3
  <2>2. \A a \in 1..Len(v) - 1 : v[a] <= v[a + 1]
    BY <1>2, <1>3, <2>1
  <2> HIDE DEF v
  <2>3. \A a \in 1..Len(v) : \A b \in a..Len(v) : v[a] <= v[b]
    BY <2>1, <2>2, SortedBetween
  <2>4. \A a \in 1..n : \A b \in a..n : b \in 1..n
    BY <1>2
  <2> QED
    BY <2>1, <2>3, <2>4
<1>7. \A a, b \in 1..n : a < b => end(order[a]) <= at(order[b])
  <2> SUFFICES ASSUME NEW a \in 1..n, NEW b \in 1..n, a < b
               PROVE  end(order[a]) <= at(order[b])
    OBVIOUS
  <2>1. a \in 1..n - 1 /\ a + 1 \in 1..n /\ b \in (a + 1)..n
    BY <1>2
  <2>2. order[a] \in 1..n /\ order[b] \in 1..n /\ order[a + 1] \in 1..n
    BY <1>3, <2>1
  <2>3. end(order[a]) <= at(order[a + 1]) /\ at(order[a + 1]) <= at(order[b])
    BY <1>4, <1>6, <2>1
  <2> QED
    BY <1>2, <2>2, <2>3
<1>8. ASSUME NEW j \in 1..n, NEW k \in 1..n, j # k
      PROVE  (at(j) + 1)..end(j) \cap (at(k) + 1)..end(k) = {}
  <2>1. PICK a \in 1..n : order[a] = j
    BY <1>5
  <2>2. PICK b \in 1..n : order[b] = k
    BY <1>5
  <2>3. a # b
    BY <1>8, <2>1, <2>2
  <2>4. end(j) <= at(k) \/ end(k) <= at(j)
    BY <1>2, <1>7, <2>1, <2>2, <2>3
  <2>5. at(j) \in Int /\ end(j) \in Int /\ at(k) \in Int /\ end(k) \in Int
    BY <1>2
  <2> QED
    BY <2>4, <2>5
<1> QED
  BY <1>8 DEF n, at, end

\* In a header that a reader accepts, whoever wrote it, no byte of the payload
\* belongs to two streams, and streams and statistics lie within their areas:
\* the checks of parse_columns and validate_stream_ranges are enough for that.
THEOREM RangesAreApart == FrameSpec => []AcceptedRangesAreApart
<1>1. FrameInv => AcceptedRangesAreApart
  <2> SUFFICES ASSUME FrameInv, phase = "read", read.ok
               PROVE  AcceptedRangesAreApart
    BY DEF AcceptedRangesAreApart
  <2>1. Shape(frame) /\ Verdict
    BY DEF FrameInv
  <2>2. PICK order \in SortedOrders(frame) : parse_layout(frame, read.selection, order)
    BY <2>1 DEF Verdict
  <2>3. \A j, k \in 1..stream_count(frame) : j # k =>
           frame.streams[j].payload_offset + 1..End(frame.streams[j])
             \cap frame.streams[k].payload_offset + 1..End(frame.streams[k]) = {}
    BY <2>1, <2>2, AcceptedIsApart
  <2>4. /\ parse(frame) /\ parse_columns(frame)
        /\ \A k \in 1..stream_count(frame) : End(frame.streams[k]) <= frame.payload_length
    BY <2>2 DEF parse_layout, validate_stream_ranges
  <2>5. ASSUME NEW i \in DOMAIN frame.columns, frame.columns[i].stats_kind # 0
        PROVE  /\ frame.columns[i].stats_offset
                    >= frame.stream_table_offset + stream_count(frame) * StreamSize
               /\ frame.columns[i].stats_offset + frame.columns[i].stats_length
                    <= frame.header_length
    <3> DEFINE d == frame.columns[i]
    <3>1. /\ frame.columns \in Seq(ColumnRecords) /\ frame.stream_table_offset \in Int
          /\ frame.statistics_offset \in Int /\ frame.statistics_length \in Int
          /\ frame.header_length \in Int /\ Len(frame.columns) = Len(schema.columns)
      BY <2>1 DEF Shape, FrameRecords
    <3>2. i \in 1..Len(schema.columns) /\ d \in ColumnRecords
      BY <3>1
    <3>3. d.stats_offset \in Int /\ d.stats_length \in Int
      BY <3>2 DEF ColumnRecords
    <3>4. /\ d.stats_offset >= frame.statistics_offset
          /\ d.stats_offset + d.stats_length <= frame.statistics_offset + frame.statistics_length
      BY <2>4, <2>5, <3>2 DEF parse_columns, validate_column_descriptor
    <3>5. stream_count(frame) * StreamSize = frame.statistics_offset - frame.stream_table_offset
      BY <2>1, <2>4, CountedStreams
    <3>6. frame.statistics_offset + frame.statistics_length <= frame.header_length
      BY <2>4 DEF parse, validate_layout
    <3> HIDE DEF d
    <3>7. /\ d.stats_offset >= frame.stream_table_offset + stream_count(frame) * StreamSize
          /\ d.stats_offset + d.stats_length <= frame.header_length
      BY <3>1, <3>3, <3>4, <3>5, <3>6
    <3> QED
      BY <3>7 DEF d
  <2> QED
    BY <2>3, <2>4, <2>5 DEF AcceptedRangesAreApart
<1> QED
  BY <1>1, FrameInvariant, PTL

\* A reader accepts every frame that the writer builds, under every projection
\* and however its sort orders the streams, and finds under each descriptor the
\* bytes that column was encoded to.
THEOREM FramesAreRead == FrameSpec => []WriterFramesAreRead
<1>1. FrameInv => WriterFramesAreRead
  <2> SUFFICES ASSUME FrameInv, phase = "read", altered = 0
               PROVE  WriterFramesAreRead
    BY DEF WriterFramesAreRead
  <2>1. ColumnsInv /\ Built /\ Verdict
    BY DEF FrameInv
  <2>2. PICK bounds \in Bounds : frame = build_data_frame(bounds)
    BY <2>1 DEF Built
  <2>3. Len(encoded) = Len(schema.columns) /\ frame.payload_length <= MaxPayloadLength
    BY <2>1 DEF Built
  <2>4. parse(frame)
    BY <2>1, <2>2, <2>3, BuiltParses
  <2>5. \A order \in SortedOrders(frame) : parse_layout(frame, read.selection, order)
    BY <2>1, <2>2, <2>3, BuiltIsAccepted
  <2>6. read.ok
    BY <2>1, <2>4, <2>5 DEF Verdict
  <2>7. \A i \in DOMAIN frame.columns : Contained(frame, i)
    BY <2>1, <2>2, <2>3, BuiltContents
  <2> QED
    BY <2>6, <2>7 DEF WriterFramesAreRead, Contained
<1> QED
  BY <1>1, FrameInvariant, PTL

\* What the reader looks at in a stream, apart from transform and codec.
Alike(s, r) ==
    /\ r.kind = s.kind /\ r.flags = s.flags /\ r.payload_offset = s.payload_offset
    /\ r.stored_length = s.stored_length /\ r.transformed_length = s.transformed_length
    /\ r.codec = 0 <=> s.codec = 0

\* Only a transform or a codec of a stream left out differs in a frame made readable.
LEMMA ReadableStream ==
    ASSUME Shape(frame), NEW selection, NEW k \in DOMAIN frame.streams
    PROVE  LET s == frame.streams[k]
               r == Readable(selection).streams[k]
           IN  /\ Alike(s, r)
               /\ IF owner_of(frame, k) \in Ids \ selection
                  THEN ensure_transform(r) /\ ensure_codec(r)
                  ELSE r = s
<1> DEFINE s == frame.streams[k]
           r == Readable(selection).streams[k]
<1>1. s \in StreamRecords
  BY DEF Shape, FrameRecords
<1>2. r = IF owner_of(frame, k) \in Ids \ selection
          THEN [s EXCEPT !.transform = 0, !.codec = IF s.codec \in Codecs THEN s.codec ELSE 1]
          ELSE s
  <2> DEFINE made(c) == IF owner_of(frame, c) \in Ids \ selection
                        THEN [frame.streams[c] EXCEPT !.transform = 0,
                                !.codec = IF frame.streams[c].codec \in Codecs
                                          THEN frame.streams[c].codec ELSE 1]
                        ELSE frame.streams[c]
  <2>1. Readable(selection) = [frame EXCEPT !.streams = [c \in DOMAIN frame.streams |-> made(c)]]
    BY DEF Readable
  <2> HIDE DEF made
  <2>2. Readable(selection).streams = [c \in DOMAIN frame.streams |-> made(c)]
    BY <2>1 DEF Shape, FrameRecords
  <2> QED
    BY <2>2 DEF made
<1> HIDE DEF s, r
<1>3. CASE owner_of(frame, k) \in Ids \ selection
  <2> DEFINE c == IF s.codec \in Codecs THEN s.codec ELSE 1
  <2>1. /\ r.kind = s.kind /\ r.flags = s.flags /\ r.payload_offset = s.payload_offset
        /\ r.stored_length = s.stored_length /\ r.transformed_length = s.transformed_length
        /\ r.transform = 0 /\ r.codec = c
    BY <1>1, <1>2, <1>3 DEF StreamRecords
  <2>2. c \in Codecs /\ (c = 0 <=> s.codec = 0)
    BY <1>1 DEF StreamRecords, Codecs
  <2> QED
    BY <1>3, <2>1, <2>2 DEF Alike, ensure_transform, ensure_codec, Transforms, s, r
<1>4. CASE owner_of(frame, k) \notin Ids \ selection
  BY <1>2, <1>4 DEF Alike, s, r
<1> QED
  BY <1>3, <1>4

\* Everything but its streams is the same in a frame made readable.
LEMMA ReadableHeader ==
    ASSUME Shape(frame), NEW selection
    PROVE  LET g == Readable(selection)
           IN  /\ parse(g) <=> parse(frame)
               /\ parse_columns(g) <=> parse_columns(frame)
               /\ stream_count(g) = stream_count(frame)
               /\ g.payload_length = frame.payload_length
               /\ \A k : owner_of(g, k) = owner_of(frame, k)
<1> DEFINE g == Readable(selection)
<1>1. /\ g.schema_id = frame.schema_id /\ g.base_row_id = frame.base_row_id
      /\ g.row_count = frame.row_count /\ g.column_count = frame.column_count
      /\ g.primary_min = frame.primary_min /\ g.primary_max = frame.primary_max
      /\ g.column_table_offset = frame.column_table_offset
      /\ g.stream_table_offset = frame.stream_table_offset
      /\ g.statistics_offset = frame.statistics_offset
      /\ g.statistics_length = frame.statistics_length /\ g.flags = frame.flags
      /\ g.header_length = frame.header_length /\ g.payload_length = frame.payload_length
      /\ g.columns = frame.columns
  BY DEF Readable, Shape, FrameRecords
<1> HIDE DEF g
<1>2. parse(g) <=> parse(frame)
  BY <1>1 DEF parse, check_schema_agreement, validate_layout, check_flags,
              resolve_base_row_id, resolve_primary_bounds
<1>3. stream_count(g) = stream_count(frame)
  BY <1>1 DEF stream_count
<1>4. \A d, column : validate_column_descriptor(g, d, column)
                       <=> validate_column_descriptor(frame, d, column)
  BY <1>1, <1>3 DEF validate_column_descriptor
<1>5. parse_columns(g) <=> parse_columns(frame)
  BY <1>1, <1>4 DEF parse_columns
<1>6. \A k : owner_of(g, k) = owner_of(frame, k)
  BY <1>1 DEF owner_of
<1> QED
  BY <1>1, <1>2, <1>3, <1>5, <1>6 DEF g

\* A stream passes the checks of a selection as it would pass those of a whole
\* read, were it made readable where the selection leaves it out.
LEMMA ReadableStreams ==
    ASSUME ColumnsInv, Shape(frame), parse(frame), NEW selection \in SUBSET Everything
    PROVE  parse_streams(frame, selection) <=> parse_streams(Readable(selection), Everything)
<1> DEFINE g == Readable(selection)
           Passes(f, chosen, k) ==
               LET s == f.streams[k] IN
               /\ s.flags = 0
               /\ s.kind \in StreamKinds
               /\ is_selected(f, k, chosen) => ensure_transform(s) /\ ensure_codec(s)
               /\ s.payload_offset % Alignment = 0
               /\ s.stored_length <= MaxPayloadLength /\ s.transformed_length <= MaxPayloadLength
               /\ s.codec = 0 => s.stored_length = s.transformed_length
<1>1. 0 \notin Ids
  <2> DEFINE columns == schema.columns
             records == [id : Nat \ {0}, nullable : BOOLEAN]
  <2>1. columns \in Seq(records)
    BY FrameAssumption DEF ColumnsInv
  <2>2. \A r \in records : r.id # 0
    OBVIOUS
  <2>3. Ids = {columns[i].id : i \in DOMAIN columns}
    BY DEF Ids
  <2> HIDE DEF columns, records
  <2>4. \A i \in DOMAIN columns : columns[i] \in records
    BY <2>1
  <2> QED
    BY <2>2, <2>3, <2>4
<1>2. stream_count(g) = stream_count(frame) /\ \A k : owner_of(g, k) = owner_of(frame, k)
  BY ReadableHeader
<1> HIDE DEF g
<1>3. ASSUME NEW k \in 1..stream_count(frame)
      PROVE  Passes(frame, selection, k) <=> Passes(g, Everything, k)
  <2> DEFINE s == frame.streams[k]
             r == g.streams[k]
             o == owner_of(frame, k)
  <2>1. k \in DOMAIN frame.streams
    BY CountedStreams
  <2>2. /\ Alike(s, r)
        /\ IF o \in Ids \ selection THEN ensure_transform(r) /\ ensure_codec(r) ELSE r = s
    BY <2>1, ReadableStream DEF g
  <2>3. /\ is_selected(frame, k, selection) <=> o \in selection \cup {0}
        /\ is_selected(g, k, Everything) <=> o \in Everything
    BY <1>2 DEF is_selected, Everything
  <2> HIDE DEF s, r, o
  <2>4. (is_selected(frame, k, selection) => ensure_transform(s) /\ ensure_codec(s))
          <=> (is_selected(g, k, Everything) => ensure_transform(r) /\ ensure_codec(r))
    <3>1. CASE o \in Ids \ selection
      BY <1>1, <2>2, <2>3, <3>1 DEF Everything
    <3>2. CASE o \notin Ids \ selection
      <4>1. o \in Everything <=> o \in selection \cup {0}
        BY <3>2 DEF Everything
      <4> QED
        BY <2>2, <2>3, <3>2, <4>1
    <3> QED
      BY <3>1, <3>2
  <2> QED
    BY <2>2, <2>4 DEF Alike, s, r
<1>4. parse_streams(frame, selection)
        <=> \A k \in 1..stream_count(frame) : Passes(frame, selection, k)
  BY DEF parse_streams
<1>5. parse_streams(g, Everything)
        <=> \A k \in 1..stream_count(frame) : Passes(g, Everything, k)
  BY <1>2 DEF parse_streams
<1> HIDE DEF Passes
<1> QED
  BY <1>3, <1>4, <1>5 DEF g

LEMMA ReadableRanges ==
    ASSUME Shape(frame), parse(frame), NEW selection, NEW order \in SortedOrders(frame)
    PROVE  validate_stream_ranges(frame, order)
             <=> validate_stream_ranges(Readable(selection), order)
<1> DEFINE g == Readable(selection)
           n == stream_count(frame)
<1>1. stream_count(g) = n /\ g.payload_length = frame.payload_length
  BY ReadableHeader
<1>2. n \in Nat /\ \A k \in 1..n : k \in DOMAIN frame.streams
  BY CountedStreams
<1>3. \A k \in 1..n : Alike(frame.streams[k], g.streams[k])
  BY <1>2, ReadableStream
<1> HIDE DEF g
<1>4. \A k \in 1..n : /\ End(g.streams[k]) = End(frame.streams[k])
                       /\ g.streams[k].payload_offset = frame.streams[k].payload_offset
  BY <1>3 DEF Alike, End
<1>5. order \in [1..n -> 1..n]
  BY DEF SortedOrders
<1> HIDE DEF n
<1>6. Len(order) = n
  BY <1>2, <1>5
<1>7. \A a \in 1..n - 1 : order[a] \in 1..n /\ order[a + 1] \in 1..n
  BY <1>2, <1>5
<1>8. (\A a \in 1..n - 1 : End(frame.streams[order[a]]) <= frame.streams[order[a + 1]].payload_offset)
        <=> (\A a \in 1..n - 1 : End(g.streams[order[a]]) <= g.streams[order[a + 1]].payload_offset)
  BY <1>4, <1>7
<1>9. (\A k \in 1..n : End(frame.streams[k]) <= frame.payload_length)
        <=> (\A k \in 1..n : End(g.streams[k]) <= g.payload_length)
  BY <1>1, <1>4
<1>10. stream_count(frame) = n
  BY DEF n
<1> QED
  BY <1>1, <1>6, <1>8, <1>9, <1>10 DEF validate_stream_ranges, g

\* A projection is accepted exactly when the whole block would be, were it not
\* for a transform or a codec of a column it leaves out: parse_streams skips
\* those two checks for the streams of such a column, and no other.
THEOREM ProjectionChecksAll == FrameSpec => []ProjectionLosesNoCheck
<1>1. FrameInv => ProjectionLosesNoCheck
  <2> SUFFICES ASSUME FrameInv, phase = "read", parse(frame)
               PROVE  ProjectionLosesNoCheck
    BY DEF ProjectionLosesNoCheck
  <2>1. ColumnsInv /\ Shape(frame) /\ Verdict /\ read.selection \in SUBSET Everything
    BY DEF FrameInv, Verdict
  <2>2. ASSUME NEW order \in SortedOrders(frame)
        PROVE  parse_layout(frame, read.selection, order)
                 <=> parse_layout(Readable(read.selection), Everything, order)
    BY <2>1, ReadableHeader, ReadableStreams, ReadableRanges DEF parse_layout
  <2> QED
    BY <2>1, <2>2 DEF Verdict, ProjectionLosesNoCheck
<1> QED
  BY <1>1, FrameInvariant, PTL

=============================================================================
