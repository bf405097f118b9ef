----------------------------- MODULE ActaSchema -----------------------------
(***************************************************************************)
(* The schema frame: what Writer::create accepts of a caller's schema and  *)
(* lays out (write/input.rs, write/framing.rs), and what a reader makes of *)
(* the schema frame of any writer (format/schema_frame.rs).                *)
(*                                                                         *)
(* The payload is a sequence of cells.  An integer field takes one cell    *)
(* and so does a byte of a name; sizes and alignment are scaled with that. *)
(* A parameter record without a name is as long as the alignment, as in    *)
(* the code.                                                               *)
(*                                                                         *)
(* Left out: the envelope of the frame (ActaFile), I/O and allocation      *)
(* failures, overflow of offsets that a frame's limits keep far away.      *)
(***************************************************************************)
EXTENDS Integers, Sequences, SequencesExt

CONSTANTS
    DescriptorSize, Alignment,  \* SCHEMA_DESCRIPTOR_SIZE, FRAME_ALIGNMENT
    MaxSchemaColumns, MaxFieldLength, MaxPayloadLength,     \* Limits::default
    Word,                       \* one more than a cell holds
    Utf8Limit,                  \* cells from here on are no UTF-8
    Schemas,                    \* what callers ask for; primary has at most one id
    Cells,                      \* what another writer may put in a cell
    MaxAlterations(_)           \* bound: cells or fields set differently

TYPE_DECIMAL64 == 12
TYPE_TIMESTAMP64 == 13
TYPE_CATEGORICAL == 15
TYPE_FIXED_BINARY == 17
TYPE_DATE32 == 18
PlainTypes == 1..18 \ {TYPE_DECIMAL64, TYPE_TIMESTAMP64, TYPE_CATEGORICAL, TYPE_FIXED_BINARY}

\* A String.
Text == Seq(0..Utf8Limit - 1)

\* LogicalType, with decimal scales from the set given.
LogicalTypes(scales) ==
    [id : PlainTypes]
    \cup [id : {TYPE_DECIMAL64}, precision : Nat, scale : scales]
    \cup [id : {TYPE_TIMESTAMP64}, unit : 0..3, zone : {"Naive", "Utc"}, name : {<<>>}]
    \cup [id : {TYPE_TIMESTAMP64}, unit : 0..3, zone : {"Iana"}, name : Text]
    \cup [id : {TYPE_CATEGORICAL}, ordered : BOOLEAN]
    \cup [id : {TYPE_FIXED_BINARY}, byte_width : Nat]

Columns(scales) ==
    [id : Nat, name : Text, type : LogicalTypes(scales), nullable : BOOLEAN]

\* i16.
Scales == -(Word \div 2)..(Word \div 2 - 1)

ASSUME SchemaAssumption ==
    /\ Alignment \in Nat /\ Alignment >= 3
    /\ DescriptorSize \in Nat /\ DescriptorSize % Alignment = 0 /\ DescriptorSize >= 6
    /\ {MaxSchemaColumns, MaxFieldLength, MaxPayloadLength, Utf8Limit} \subseteq Nat
    /\ Word \in Nat \ {0} /\ Word % 2 = 0
    /\ Cells \subseteq 0..Word - 1
    /\ \A s \in Schemas :
         /\ MaxAlterations(s) \in Nat
         /\ s \in [schema_id : Nat, primary : SUBSET Nat, columns : Seq(Columns(Scales))]
         /\ \A a, b \in s.primary : a = b

VARIABLES
    schema,     \* the schema a caller asked for
    frame,      \* header fields and payload of the schema frame, or none yet
    altered,    \* how often another writer's choice replaced this one's
    columns,    \* ColumnSet: the columns accepted so far
    position,   \* payload_position
    phase       \* "create", "refused", "written", "columns", "failed" or "read"

schemaVars == <<schema, frame, altered, columns, position, phase>>

NULLABLE_COLUMN_FLAG == 1
NO_PRIMARY_COLUMN_ID == 0
NoFrame == [payload |-> <<>>]

Zeros(n) == [i \in 1..n |-> 0]

padded_length(length) == ((length + Alignment - 1) \div Alignment) * Alignment

pad_to_alignment(cells) == cells \o Zeros(padded_length(Len(cells)) - Len(cells))

-----------------------------------------------------------------------------
(* The writer                                                              *)

TimeZoneMode == [Naive |-> 0, Utc |-> 1, Iana |-> 2]

\* `scale as u16`.
stored_scale(scale) == scale % Word

\* Whether type_id_and_parameters has a record for the type.
has_parameters(type) ==
    /\ type.id = TYPE_DECIMAL64 => type.precision \in 1..18
    /\ type.id = TYPE_TIMESTAMP64 => (type.zone = "Iana" => type.name # <<>>)
    /\ type.id = TYPE_FIXED_BINARY => type.byte_width # 0

type_id_and_parameters(type) ==
    CASE type.id = TYPE_DECIMAL64 ->
            pad_to_alignment(<<type.precision, stored_scale(type.scale)>>)
      [] type.id = TYPE_TIMESTAMP64 ->
            pad_to_alignment(<<type.unit, TimeZoneMode[type.zone]>> \o Zeros(Alignment - 3)
                                \o <<Len(type.name)>> \o type.name)
      [] type.id = TYPE_CATEGORICAL ->
            pad_to_alignment(<<IF type.ordered THEN 1 ELSE 0>>)
      [] type.id = TYPE_FIXED_BINARY -> pad_to_alignment(<<type.byte_width>>)
      [] OTHER -> <<>>

is_primary_candidate(column) ==
    ~column.nullable /\ column.type.id \in {TYPE_TIMESTAMP64, TYPE_DATE32}

Distinct(s, field) ==
    \A i, j \in DOMAIN s.columns : i # j => s.columns[i][field] # s.columns[j][field]

validate_schema(s) ==
    /\ s.schema_id # 0
    /\ Len(s.columns) \in 1..MaxSchemaColumns
    /\ \A i \in DOMAIN s.columns :
         /\ s.columns[i].id # 0
         /\ has_parameters(s.columns[i].type)
         /\ Len(s.columns[i].name) <= MaxFieldLength
    /\ Distinct(s, "id") /\ Distinct(s, "name")
    /\ \A id \in s.primary : \E i \in DOMAIN s.columns :
         s.columns[i].id = id /\ is_primary_candidate(s.columns[i])

\* One descriptor: its prefix, the name, the parameters, padding.
descriptor(column) ==
    LET parameters == type_id_and_parameters(column.type)
        content == DescriptorSize + Len(column.name) + Len(parameters)
    IN  << padded_length(content), column.id, column.type.id,
           IF column.nullable THEN NULLABLE_COLUMN_FLAG ELSE 0,
           Len(column.name), Len(parameters) >>
        \o Zeros(DescriptorSize - 6) \o column.name \o parameters
        \o Zeros(padded_length(content) - content)

descriptors(list) == FlattenSeq([i \in 1..Len(list) |-> descriptor(list[i])])

build_schema_frame(s) ==
    [ schema_id |-> s.schema_id, column_count |-> Len(s.columns),
      primary_column_id |-> IF s.primary = {} THEN NO_PRIMARY_COLUMN_ID
                            ELSE CHOOSE id \in s.primary : TRUE,
      flags |-> 0,
      payload |-> descriptors(s.columns) ]

\* Mutant: the length of a timezone name is not limited.
within_limits_NamesOnly(s) == Len(build_schema_frame(s).payload) <= MaxPayloadLength

\* The limits that build_schema_frame checks as it goes.
within_limits(s) ==
    /\ \A i \in DOMAIN s.columns : Len(type_id_and_parameters(s.columns[i].type)) <= MaxFieldLength
    /\ Len(build_schema_frame(s).payload) <= MaxPayloadLength

create_accepts(s) == validate_schema(s) /\ within_limits(s)

SchemaInit ==
    /\ schema \in Schemas
    /\ frame = NoFrame /\ altered = 0 /\ columns = <<>> /\ position = 0
    /\ phase = "create"

\* The checks of Writer::create, made before there is a file.
Create ==
    /\ phase = "create"
    /\ IF create_accepts(schema)
       THEN frame' = build_schema_frame(schema) /\ phase' = "written"
       ELSE phase' = "refused" /\ UNCHANGED frame
    /\ UNCHANGED <<schema, altered, columns, position>>

\* A writer that lays out whatever it is given, without any check.
CreateElsewhere ==
    /\ phase = "create" /\ altered < MaxAlterations(schema)
    /\ frame' = build_schema_frame(schema)
    /\ altered' = altered + 1 /\ phase' = "written"
    /\ UNCHANGED <<schema, columns, position>>

\* Another writer's header field, cell, or length of the payload.
With(field) == {[frame EXCEPT ![field] = v] : v \in 0..3}

CellSet == UNION {{[frame EXCEPT !.payload[i] = v] : v \in Cells} : i \in DOMAIN frame.payload}

Resized ==
    {[frame EXCEPT !.payload = @ \o Zeros(Alignment)],
     [frame EXCEPT !.payload = SubSeq(@, 1, Len(@) - Alignment)]}

Alterations ==
    With("schema_id") \cup With("column_count") \cup With("primary_column_id") \cup With("flags")
    \cup CellSet \cup Resized

Alter ==
    /\ phase = "written" /\ altered < MaxAlterations(schema)
    /\ frame' \in Alterations
    /\ altered' = altered + 1
    /\ UNCHANGED <<schema, columns, position, phase>>

-----------------------------------------------------------------------------
(* The reader                                                              *)

Remaining == Len(frame.payload) - position

check_header ==
    /\ frame.schema_id # 0 /\ frame.flags = 0
    /\ frame.column_count \in 1..MaxSchemaColumns
    /\ frame.column_count <= Len(frame.payload) \div DescriptorSize

\* The fixed part of a descriptor, read where there is room for one.
parse_descriptor_fields ==
    LET cell(k) == frame.payload[position + k]
    IN  [ length |-> cell(1), column_id |-> cell(2), type_id |-> cell(3), flags |-> cell(4),
          name_length |-> cell(5), parameters_length |-> cell(6) ]

check_descriptor_fields(d) ==
    /\ d.length >= DescriptorSize /\ d.length % Alignment = 0 /\ d.length <= Remaining
    /\ d.flags \in {0, NULLABLE_COLUMN_FLAG}
    /\ DescriptorSize + d.name_length + d.parameters_length <= d.length
    /\ d.name_length <= MaxFieldLength /\ d.parameters_length <= MaxFieldLength

Part(from, length) == SubSeq(frame.payload, from + 1, from + length)

read_name(d) == Part(position + DescriptorSize, d.name_length)

read_parameters(d) == Part(position + DescriptorSize + d.name_length, d.parameters_length)

Utf8(cells) == \A i \in DOMAIN cells : cells[i] < Utf8Limit

\* Where the timezone name of a timestamp record ends.
name_end(p) == Alignment + p[Alignment]

timestamp_ok(p) ==
    /\ Len(p) >= Alignment
    /\ p[1] \in 0..3
    /\ Len(p) = padded_length(name_end(p))
    /\ \/ p[2] \in {TimeZoneMode.Naive, TimeZoneMode.Utc} /\ p[Alignment] = 0
       \/ /\ p[2] = TimeZoneMode.Iana /\ p[Alignment] # 0
          /\ Utf8(SubSeq(p, Alignment + 1, name_end(p)))

\* Whether parse_type has a logical type for the id and its record.
type_ok(id, p) ==
    CASE id = TYPE_DECIMAL64 -> Len(p) = Alignment /\ p[1] \in 1..18
      [] id = TYPE_TIMESTAMP64 -> timestamp_ok(p)
      [] id = TYPE_CATEGORICAL -> Len(p) = Alignment /\ p[1] \in 0..1
      [] id = TYPE_FIXED_BINARY -> Len(p) = Alignment /\ p[1] # 0
      [] OTHER -> id \in PlainTypes /\ p = <<>>

\* `as i16`.
Signed(cell) == IF cell >= Word \div 2 THEN cell - Word ELSE cell

parse_type(id, p) ==
    CASE id = TYPE_DECIMAL64 -> [id |-> id, precision |-> p[1], scale |-> Signed(p[2])]
      [] id = TYPE_TIMESTAMP64 ->
            [ id |-> id, unit |-> p[1],
              zone |-> CHOOSE zone \in DOMAIN TimeZoneMode : TimeZoneMode[zone] = p[2],
              name |-> SubSeq(p, Alignment + 1, name_end(p)) ]
      [] id = TYPE_CATEGORICAL -> [id |-> id, ordered |-> p[1] # 0]
      [] id = TYPE_FIXED_BINARY -> [id |-> id, byte_width |-> p[1]]
      [] OTHER -> [id |-> id]

\* Mutant: only ids are compared with the columns before.
insert_IdsOnly(d) ==
    /\ d.column_id # 0
    /\ \A i \in DOMAIN columns : columns[i].id # d.column_id

\* The checks of ColumnSet::insert.
insert(d) ==
    /\ d.column_id # 0
    /\ \A i \in DOMAIN columns : columns[i].id # d.column_id /\ columns[i].name # read_name(d)

Fails == phase' = "failed" /\ UNCHANGED <<columns, position>>

\* Behind read_frame, which limits the payload.
ReadHeader ==
    /\ phase = "written"
    /\ IF Len(frame.payload) <= MaxPayloadLength /\ check_header
       THEN phase' = "columns" /\ UNCHANGED <<columns, position>>
       ELSE Fails
    /\ UNCHANGED <<schema, frame, altered>>

\* One turn of the loop of read_columns.
ReadDescriptor ==
    /\ phase = "columns" /\ Len(columns) < frame.column_count
    /\ IF Remaining < DescriptorSize THEN Fails
       ELSE LET d == parse_descriptor_fields
            IN  IF /\ check_descriptor_fields(d)
                   /\ Utf8(read_name(d)) /\ type_ok(d.type_id, read_parameters(d))
                   /\ insert(d)
                THEN /\ columns' = Append(columns,
                            [ id |-> d.column_id, name |-> read_name(d),
                              type |-> parse_type(d.type_id, read_parameters(d)),
                              nullable |-> d.flags = NULLABLE_COLUMN_FLAG ])
                     /\ position' = position + d.length
                     /\ UNCHANGED phase
                ELSE Fails
    /\ UNCHANGED <<schema, frame, altered>>

resolve_primary ==
    \/ frame.primary_column_id = NO_PRIMARY_COLUMN_ID
    \/ \E i \in DOMAIN columns :
         columns[i].id = frame.primary_column_id /\ is_primary_candidate(columns[i])

\* The end of read_columns, and the rest of parse.
ReadEnd ==
    /\ phase = "columns" /\ Len(columns) = frame.column_count
    /\ IF Remaining = 0 /\ resolve_primary
       THEN phase' = "read" /\ UNCHANGED <<columns, position>> ELSE Fails
    /\ UNCHANGED <<schema, frame, altered>>

SchemaNext == Create \/ CreateElsewhere \/ Alter \/ ReadHeader \/ ReadDescriptor \/ ReadEnd

SchemaSpec == SchemaInit /\ [][SchemaNext]_schemaVars

-----------------------------------------------------------------------------
(* Properties                                                              *)

\* The schema that Reader::schema and Writer::schema return.
parsed ==
    [ schema_id |-> frame.schema_id, columns |-> columns,
      primary |-> {frame.primary_column_id} \ {NO_PRIMARY_COLUMN_ID} ]

\* Every schema that create accepts comes back from its file as it was, with
\* names of every length, zones, negative scales and the order of the columns.
SchemasSurvive ==
    altered = 0 => phase # "failed" /\ (phase = "read" => parsed = schema)

\* A schema frame that a reader accepts of any writer is one that Writer::open
\* goes on with: its checks of the schema pass, create would take the same
\* schema for a file of its own, and would need no more room for it, so no
\* descriptor reaches into the next.
AcceptedSchemaReopens ==
    phase = "read" =>
        /\ create_accepts(parsed)
        /\ Len(build_schema_frame(parsed).payload) <= Len(frame.payload)
=============================================================================
