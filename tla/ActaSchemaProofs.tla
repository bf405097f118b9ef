-------------------------- MODULE ActaSchemaProofs --------------------------
(***************************************************************************)
(* That schemas come back from their frames, and what a reader may rely on *)
(* in a schema frame it accepts, for every schema, limit and alignment.    *)
(***************************************************************************)
EXTENDS ActaSchema, ActaFoldProofs

-----------------------------------------------------------------------------
(* Cells                                                                   *)

\* What is assumed of the sizes and limits of the format.
LEMMA Sizes ==
    /\ Alignment \in Nat \ {0} /\ Alignment >= 3
    /\ DescriptorSize \in Nat /\ DescriptorSize % Alignment = 0 /\ DescriptorSize >= 6
    /\ MaxSchemaColumns \in Nat /\ MaxFieldLength \in Nat /\ MaxPayloadLength \in Nat
    /\ Utf8Limit \in Nat
    /\ Word \in Nat \ {0} /\ Word % 2 = 0 /\ Cells \subseteq Nat
<1>1. {MaxSchemaColumns, MaxFieldLength, MaxPayloadLength, Utf8Limit} \subseteq Nat
  BY SchemaAssumption
<1> QED
  BY <1>1, SchemaAssumption

LEMMA Inputs ==
    ASSUME NEW s \in Schemas
    PROVE  /\ s \in [schema_id : Nat, primary : SUBSET Nat, columns : Seq(Columns(Scales))]
           /\ \A a, b \in s.primary : a = b
           /\ MaxAlterations(s) \in Nat
  BY SchemaAssumption

\* The cells c are those of a with those of b behind them.
Joined(a, b, c) ==
    /\ c \in Seq(Nat) /\ Len(a) \in Nat /\ Len(b) \in Nat
    /\ Len(c) = Len(a) + Len(b)
    /\ \A i \in 1..Len(a) : c[i] = a[i]
    /\ \A i \in 1..Len(b) : c[Len(a) + i] = b[i]

LEMMA Concatenated ==
    ASSUME NEW a \in Seq(Nat), NEW b \in Seq(Nat)
    PROVE  Joined(a, b, a \o b)
  BY DEF Joined

LEMMA ZeroCells ==
    ASSUME NEW n \in Nat
    PROVE  Zeros(n) \in Seq(Nat) /\ Len(Zeros(n)) = n
  BY DEF Zeros

LEMMA PaddedLength ==
    ASSUME NEW n \in Nat
    PROVE  /\ padded_length(n) \in Nat /\ padded_length(n) >= n
           /\ padded_length(n) % Alignment = 0
           /\ \A m \in Nat : m >= n /\ m % Alignment = 0 => padded_length(n) <= m
           /\ n \in 1..Alignment => padded_length(n) = Alignment
<1> DEFINE d == Alignment
           r == padded_length(n)
<1>1. d \in Nat \ {0}
  BY Sizes
<1>2. r = ((n + d - 1) \div d) * d
  BY DEF padded_length
<1> HIDE DEF r, d
<1>3. /\ r \in Nat /\ r >= n /\ r % d = 0
      /\ \A m \in Nat : m >= n /\ m % d = 0 => r <= m
  BY <1>1, <1>2, RoundedUp
<1>4. ASSUME n \in 1..d PROVE r = d
  <2>0. (1 * d) % d = 0 /\ 1 * d = d
    BY <1>1, Multiples
  <2>1. d % d = 0 /\ d \in Nat /\ d >= n
    BY <1>1, <1>4, <2>0
  <2>2. r <= d
    BY <1>3, <2>1
  <2>3. r >= 1
    BY <1>3, <1>4
  <2> DEFINE k == r \div d
  <2>4. k \in Int /\ r = k * d + (r % d)
    BY <1>1, <1>3, Quotients
  <2> HIDE DEF k
  <2>5. r = k * d
    BY <1>1, <1>3, <2>4
  <2>6. k >= 1
    BY <1>1, <2>3, <2>4, <2>5
  <2>7. k * d >= d
    BY <1>1, <2>4, <2>6
  <2> QED
    BY <1>1, <1>3, <2>2, <2>5, <2>7
<1> QED
  BY <1>3, <1>4 DEF r, d

LEMMA PaddedCells ==
    ASSUME NEW cells \in Seq(Nat), NEW p, p = pad_to_alignment(cells)
    PROVE  /\ p \in Seq(Nat) /\ Len(p) = padded_length(Len(cells))
           /\ \A i \in 1..Len(cells) : p[i] = cells[i]
<1> DEFINE l == Len(cells)
           n == padded_length(l)
           z == Zeros(n - l)
<1>1. l \in Nat
  OBVIOUS
<1>2. n \in Nat /\ n >= l
  BY <1>1, PaddedLength
<1>3. n - l \in Nat
  BY <1>1, <1>2
<1>4. z \in Seq(Nat) /\ Len(z) = n - l
  BY <1>3, ZeroCells
<1>5. p = cells \o z
  BY DEF pad_to_alignment
<1> HIDE DEF l, n, z
<1>6. Joined(cells, z, p)
  BY <1>4, <1>5, Concatenated
<1>7. Len(p) = n
  BY <1>1, <1>2, <1>4, <1>6 DEF l, Joined
<1> QED
  BY <1>6, <1>7 DEF n, l, Joined

-----------------------------------------------------------------------------
(* Parameter records                                                       *)

Decimals == [id : {TYPE_DECIMAL64}, precision : Nat, scale : Int]
Unzoned == [id : {TYPE_TIMESTAMP64}, unit : 0..3, zone : {"Naive", "Utc"}, name : {<<>>}]
Zoned == [id : {TYPE_TIMESTAMP64}, unit : 0..3, zone : {"Iana"}, name : Text]
Categoricals == [id : {TYPE_CATEGORICAL}, ordered : BOOLEAN]
FixedBinaries == [id : {TYPE_FIXED_BINARY}, byte_width : Nat]

\* The types, case by case.
LEMMA TypeCases ==
    ASSUME NEW type \in LogicalTypes(Int)
    PROVE  \/ type \in [id : PlainTypes] \/ type \in Decimals \/ type \in Unzoned
           \/ type \in Zoned \/ type \in Categoricals \/ type \in FixedBinaries
  BY DEF LogicalTypes, Decimals, Unzoned, Zoned, Categoricals, FixedBinaries

LEMMA PlainRecord ==
    ASSUME NEW type \in [id : PlainTypes], NEW p, p = type_id_and_parameters(type)
    PROVE  p \in Seq(Nat) /\ p = <<>> /\ Len(p) = 0
<1>1. /\ type.id # TYPE_DECIMAL64 /\ type.id # TYPE_TIMESTAMP64
      /\ type.id # TYPE_CATEGORICAL /\ type.id # TYPE_FIXED_BINARY
  BY DEF PlainTypes
<1>2. p = <<>>
  BY <1>1 DEF type_id_and_parameters
<1> QED
  BY <1>2

LEMMA DecimalRecord ==
    ASSUME NEW type \in Decimals, NEW p, p = type_id_and_parameters(type)
    PROVE  /\ p \in Seq(Nat) /\ Len(p) = Alignment
           /\ p[1] = type.precision /\ p[2] = stored_scale(type.scale)
<1> DEFINE cells == <<type.precision, stored_scale(type.scale)>>
<1>1. type.id = TYPE_DECIMAL64 /\ type.precision \in Nat /\ type.scale \in Int
  BY DEF Decimals
<1>2. stored_scale(type.scale) \in Nat
  BY <1>1, Sizes, Quotients DEF stored_scale
<1>3. p = pad_to_alignment(cells)
  BY <1>1 DEF type_id_and_parameters, TYPE_DECIMAL64, TYPE_TIMESTAMP64, TYPE_CATEGORICAL,
              TYPE_FIXED_BINARY
<1>4. cells \in Seq(Nat) /\ Len(cells) = 2 /\ cells[1] = type.precision
      /\ cells[2] = stored_scale(type.scale)
  BY <1>1, <1>2
<1>5. padded_length(2) = Alignment
  BY Sizes, PaddedLength
<1> HIDE DEF cells
<1>6. p \in Seq(Nat) /\ Len(p) = padded_length(Len(cells)) /\ \A i \in 1..Len(cells) : p[i] = cells[i]
  BY <1>3, <1>4, PaddedCells
<1> QED
  BY <1>4, <1>5, <1>6

LEMMA CategoricalRecord ==
    ASSUME NEW type \in Categoricals, NEW p, p = type_id_and_parameters(type)
    PROVE  /\ p \in Seq(Nat) /\ Len(p) = Alignment
           /\ p[1] = IF type.ordered THEN 1 ELSE 0
<1> DEFINE cells == <<IF type.ordered THEN 1 ELSE 0>>
<1>1. type.id = TYPE_CATEGORICAL /\ type.ordered \in BOOLEAN
  BY DEF Categoricals
<1>2. p = pad_to_alignment(cells)
  BY <1>1 DEF type_id_and_parameters, TYPE_DECIMAL64, TYPE_TIMESTAMP64, TYPE_CATEGORICAL,
              TYPE_FIXED_BINARY
<1>3. cells \in Seq(Nat) /\ Len(cells) = 1 /\ cells[1] = IF type.ordered THEN 1 ELSE 0
  OBVIOUS
<1>4. padded_length(1) = Alignment
  BY Sizes, PaddedLength
<1> HIDE DEF cells
<1>5. p \in Seq(Nat) /\ Len(p) = padded_length(Len(cells)) /\ \A i \in 1..Len(cells) : p[i] = cells[i]
  BY <1>2, <1>3, PaddedCells
<1> QED
  BY <1>3, <1>4, <1>5

LEMMA FixedBinaryRecord ==
    ASSUME NEW type \in FixedBinaries, NEW p, p = type_id_and_parameters(type)
    PROVE  /\ p \in Seq(Nat) /\ Len(p) = Alignment /\ p[1] = type.byte_width
<1> DEFINE cells == <<type.byte_width>>
<1>1. type.id = TYPE_FIXED_BINARY /\ type.byte_width \in Nat
  BY DEF FixedBinaries
<1>2. p = pad_to_alignment(cells)
  BY <1>1 DEF type_id_and_parameters, TYPE_DECIMAL64, TYPE_TIMESTAMP64, TYPE_CATEGORICAL,
              TYPE_FIXED_BINARY
<1>3. cells \in Seq(Nat) /\ Len(cells) = 1 /\ cells[1] = type.byte_width
  BY <1>1
<1>4. padded_length(1) = Alignment
  BY Sizes, PaddedLength
<1> HIDE DEF cells
<1>5. p \in Seq(Nat) /\ Len(p) = padded_length(Len(cells)) /\ \A i \in 1..Len(cells) : p[i] = cells[i]
  BY <1>2, <1>3, PaddedCells
<1> QED
  BY <1>3, <1>4, <1>5

LEMMA TextCells ==
    ASSUME NEW name \in Text
    PROVE  name \in Seq(Nat) /\ Len(name) \in Nat /\ Utf8(name)
  BY Sizes DEF Text, Utf8

LEMMA CellsAreText ==
    ASSUME NEW s \in Seq(Nat), Utf8(s)
    PROVE  s \in Text
<1> DEFINE T == 0..(Utf8Limit - 1)
<1>1. \A i \in DOMAIN s : s[i] < Utf8Limit
  BY DEF Utf8
<1>2. \A i \in DOMAIN s : s[i] \in Nat
  OBVIOUS
<1>3. \A i \in DOMAIN s : s[i] \in T
  BY <1>1, <1>2, Sizes
<1>4. Len(s) \in Nat /\ DOMAIN s = 1..Len(s) /\ s = [i \in 1..Len(s) |-> s[i]]
  OBVIOUS
<1> HIDE DEF T
<1>5. s \in Seq(T)
  BY <1>3, <1>4
<1> QED
  BY <1>5 DEF Text, T

LEMMA TimestampRecord ==
    ASSUME NEW type \in Unzoned \cup Zoned, NEW p, p = type_id_and_parameters(type)
    PROVE  /\ p \in Seq(Nat) /\ Len(type.name) \in Nat
           /\ Len(p) = padded_length(Alignment + Len(type.name))
           /\ p[1] = type.unit /\ p[2] = TimeZoneMode[type.zone]
           /\ p[Alignment] = Len(type.name)
           /\ \A i \in 1..Len(type.name) : p[Alignment + i] = type.name[i]
<1> DEFINE A == Alignment
           name == type.name
           mode == TimeZoneMode[type.zone]
           head == <<type.unit, mode>>
           middle == Zeros(A - 3)
           count == <<Len(name)>>
<1>1. type.id = TYPE_TIMESTAMP64 /\ type.unit \in Nat /\ type.zone \in {"Naive", "Utc", "Iana"}
  BY DEF Unzoned, Zoned
<1>2. <<>> \in Seq(Nat) /\ Len(<<>>) = 0
  OBVIOUS
<1>3. name \in Seq(Nat) /\ Len(name) \in Nat
  BY <1>2, TextCells DEF Unzoned, Zoned
<1>4. mode \in Nat
  BY <1>1 DEF TimeZoneMode
<1>5. p = pad_to_alignment(head \o middle \o count \o name)
  BY <1>1 DEF type_id_and_parameters, TYPE_DECIMAL64, TYPE_TIMESTAMP64, TYPE_CATEGORICAL,
              TYPE_FIXED_BINARY
<1>6. head \in Seq(Nat) /\ Len(head) = 2 /\ head[1] = type.unit /\ head[2] = mode
  BY <1>1, <1>4
<1>7. A \in Nat /\ A >= 3 /\ A - 3 \in Nat
  BY Sizes
<1>8. middle \in Seq(Nat) /\ Len(middle) = A - 3
  BY <1>7, ZeroCells
<1>9. count \in Seq(Nat) /\ Len(count) = 1 /\ count[1] = Len(name)
  BY <1>3
<1> DEFINE start == head \o middle
           prefix == start \o count
           all == prefix \o name
<1> HIDE DEF A, name, mode, head, middle, count
<1>10. /\ start \in Seq(Nat) /\ Len(start) = A - 1
       /\ \A i \in 1..2 : start[i] = head[i]
  <2>1. Joined(head, middle, start)
    BY <1>6, <1>8, Concatenated
  <2> QED
    BY <1>6, <1>7, <1>8, <2>1 DEF Joined
<1> HIDE DEF start
<1>11. /\ prefix \in Seq(Nat) /\ Len(prefix) = A
       /\ \A i \in 1..2 : prefix[i] = head[i]
       /\ prefix[A] = Len(name)
  <2>1. Joined(start, count, prefix)
    BY <1>9, <1>10, Concatenated
  <2> HIDE DEF prefix
  <2>2. 1 \in 1..Len(count) /\ Len(start) + 1 = A /\ \A i \in 1..2 : i \in 1..Len(start)
    BY <1>7, <1>9, <1>10
  <2> QED
    BY <1>7, <1>9, <1>10, <2>1, <2>2 DEF Joined
<1> HIDE DEF prefix
<1>12. /\ all \in Seq(Nat) /\ Len(all) = A + Len(name)
       /\ \A i \in 1..A : all[i] = prefix[i]
       /\ \A i \in 1..Len(name) : all[A + i] = name[i]
  <2>1. Joined(prefix, name, all)
    BY <1>3, <1>11, Concatenated
  <2> HIDE DEF all
  <2> QED
    BY <1>11, <2>1 DEF Joined
<1>13. p = pad_to_alignment(all)
  BY <1>5 DEF prefix, start
<1> HIDE DEF all
<1>14. /\ p \in Seq(Nat) /\ Len(p) = padded_length(A + Len(name))
       /\ \A i \in 1..(A + Len(name)) : p[i] = all[i]
  BY <1>12, <1>13, PaddedCells
<1>15. /\ 1 \in 1..A /\ 2 \in 1..A /\ A \in 1..A
       /\ \A i \in 1..A : i \in 1..(A + Len(name))
       /\ \A i \in 1..Len(name) : A + i \in 1..(A + Len(name))
  BY <1>3, <1>7
<1>16. p[1] = type.unit /\ p[2] = mode /\ p[A] = Len(name)
  <2>1. \A i \in 1..A : p[i] = prefix[i]
    BY <1>12, <1>14, <1>15
  <2>2. prefix[1] = head[1] /\ prefix[2] = head[2]
    BY <1>11
  <2> QED
    BY <1>6, <1>11, <1>15, <2>1, <2>2
<1>17. \A i \in 1..Len(name) : p[A + i] = name[i]
  BY <1>12, <1>14, <1>15
<1> QED
  BY <1>3, <1>14, <1>16, <1>17 DEF A, name, mode

\* The record of a type is cells.
LEMMA RecordType ==
    ASSUME NEW type \in LogicalTypes(Int)
    PROVE  /\ type_id_and_parameters(type) \in Seq(Nat)
           /\ Len(type_id_and_parameters(type)) \in Nat
           /\ type.id \in Nat
<1>1. type_id_and_parameters(type) \in Seq(Nat)
  BY TypeCases, PlainRecord, DecimalRecord, CategoricalRecord, FixedBinaryRecord, TimestampRecord
<1>2. type.id \in Nat
  BY TypeCases DEF PlainTypes, Decimals, Unzoned, Zoned, Categoricals, FixedBinaries,
       TYPE_DECIMAL64, TYPE_TIMESTAMP64, TYPE_CATEGORICAL, TYPE_FIXED_BINARY
<1> QED
  BY <1>1, <1>2

\* What the cells of a descriptor hold.
Describes(e, c, p) ==
    /\ e \in Seq(Nat) /\ Len(c.name) \in Nat /\ Len(p) \in Nat
    /\ Len(e) = padded_length(DescriptorSize + Len(c.name) + Len(p))
    /\ e[1] = Len(e) /\ e[2] = c.id /\ e[3] = c.type.id
    /\ e[4] = (IF c.nullable THEN NULLABLE_COLUMN_FLAG ELSE 0)
    /\ e[5] = Len(c.name) /\ e[6] = Len(p)
    /\ \A i \in 1..Len(c.name) : e[DescriptorSize + i] = c.name[i]
    /\ \A i \in 1..Len(p) : e[DescriptorSize + Len(c.name) + i] = p[i]

\* A descriptor, cell by cell.
LEMMA DescriptorCells ==
    ASSUME NEW column \in Columns(Int), NEW e, e = descriptor(column),
           NEW p, p = type_id_and_parameters(column.type)
    PROVE  Describes(e, column, p)
<1> DEFINE S == DescriptorSize
           name == column.name
           flag == IF column.nullable THEN NULLABLE_COLUMN_FLAG ELSE 0
           content == S + Len(name) + Len(p)
           n == padded_length(content)
           fields == <<n, column.id, column.type.id, flag, Len(name), Len(p)>>
           rest == Zeros(S - 6)
           padding == Zeros(n - content)
<1>1. column.id \in Nat /\ column.type \in LogicalTypes(Int) /\ name \in Text
  BY DEF Columns
<1>2. name \in Seq(Nat) /\ Len(name) \in Nat
  BY <1>1, TextCells
<1>3. p \in Seq(Nat) /\ Len(p) \in Nat /\ column.type.id \in Nat
  BY <1>1, RecordType
<1>4. S \in Nat /\ S >= 6 /\ S - 6 \in Nat
  BY Sizes
<1>5. e = fields \o rest \o name \o p \o padding
  BY DEF descriptor
<1>6. flag \in Nat
  BY DEF NULLABLE_COLUMN_FLAG
<1> HIDE DEF S, name, flag
<1>7. content \in Nat
  BY <1>2, <1>3, <1>4
<1>8. n \in Nat /\ n >= content
  BY <1>7, PaddedLength
<1> HIDE DEF n
<1>9. n - content \in Nat
  BY <1>7, <1>8
<1>10. rest \in Seq(Nat) /\ Len(rest) = S - 6 /\ padding \in Seq(Nat) /\ Len(padding) = n - content
  BY <1>4, <1>9, ZeroCells
<1>11. /\ fields \in Seq(Nat) /\ Len(fields) = 6
       /\ fields[1] = n /\ fields[2] = column.id /\ fields[3] = column.type.id
       /\ fields[4] = flag /\ fields[5] = Len(name) /\ fields[6] = Len(p)
  BY <1>1, <1>2, <1>3, <1>6, <1>8
<1> DEFINE fixed == fields \o rest
           named == fixed \o name
           full == named \o p
<1>12. e = full \o padding
  BY <1>5
<1> HIDE DEF fields, rest, padding
<1>13. Joined(fields, rest, fixed)
  BY <1>10, <1>11, Concatenated
<1> HIDE DEF fixed
<1>14. fixed \in Seq(Nat) /\ Len(fixed) = S
  <2>1. fixed \in Seq(Nat) /\ Len(fixed) = Len(fields) + Len(rest)
    BY <1>13 DEF Joined
  <2> QED
    BY <1>4, <1>10, <1>11, <2>1
<1>15. Joined(fixed, name, named)
  BY <1>2, <1>14, Concatenated
<1>16. named \in Seq(Nat) /\ Len(named) = S + Len(name)
  BY <1>14, <1>15 DEF Joined
<1> HIDE DEF named
<1>17. Joined(named, p, full)
  BY <1>3, <1>16, Concatenated
<1>18. full \in Seq(Nat) /\ Len(full) = content
  BY <1>16, <1>17 DEF Joined
<1> HIDE DEF full, content
<1>19. Joined(full, padding, e)
  BY <1>10, <1>12, <1>18, Concatenated
<1>20. e \in Seq(Nat) /\ Len(e) = n
  BY <1>7, <1>8, <1>10, <1>18, <1>19 DEF Joined
<1>21. content = S + Len(name) + Len(p)
  BY DEF content
<1>22. \A i \in 1..S : e[i] = fixed[i]
  <2> SUFFICES ASSUME NEW i \in 1..S PROVE e[i] = fixed[i]
    OBVIOUS
  <2>1. i \in 1..Len(fixed)
    BY <1>4, <1>14
  <2>2. i \in 1..Len(named)
    BY <1>2, <1>4, <1>16
  <2>3. i \in 1..Len(full)
    BY <1>2, <1>3, <1>4, <1>18, <1>21
  <2> QED
    BY <1>15, <1>17, <1>19, <2>1, <2>2, <2>3 DEF Joined
<1>23. \A i \in 1..Len(name) : e[S + i] = name[i]
  <2> SUFFICES ASSUME NEW i \in 1..Len(name) PROVE e[S + i] = name[i]
    OBVIOUS
  <2>1. S + i \in 1..Len(named) /\ S + i \in 1..Len(full)
    BY <1>2, <1>3, <1>4, <1>16, <1>18, <1>21
  <2>2. named[S + i] = name[i]
    BY <1>14, <1>15 DEF Joined
  <2>3. full[S + i] = named[S + i]
    BY <1>17, <2>1 DEF Joined
  <2>4. e[S + i] = full[S + i]
    BY <1>19, <2>1 DEF Joined
  <2> QED
    BY <2>2, <2>3, <2>4
<1>24. \A i \in 1..Len(p) : e[S + Len(name) + i] = p[i]
  <2> SUFFICES ASSUME NEW i \in 1..Len(p) PROVE e[S + Len(name) + i] = p[i]
    OBVIOUS
  <2> DEFINE k == S + Len(name) + i
  <2>1. k \in 1..Len(full)
    BY <1>2, <1>3, <1>4, <1>18, <1>21
  <2>2. k = Len(named) + i
    BY <1>16
  <2> HIDE DEF k
  <2>3. full[k] = p[i]
    BY <1>17, <2>2 DEF Joined
  <2>4. e[k] = full[k]
    BY <1>19, <2>1 DEF Joined
  <2> QED
    BY <2>3, <2>4 DEF k
<1>25. \A i \in 1..6 : e[i] = fields[i]
  <2>1. \A i \in 1..6 : i \in 1..S /\ i \in 1..Len(fields)
    BY <1>4, <1>11
  <2> QED
    BY <1>13, <1>22, <2>1 DEF Joined
<1>26. /\ e[1] = n /\ e[2] = column.id /\ e[3] = column.type.id /\ e[4] = flag
       /\ e[5] = Len(name) /\ e[6] = Len(p)
  BY <1>11, <1>25
<1> QED
  BY <1>2, <1>3, <1>20, <1>23, <1>24, <1>26 DEF Describes, S, name, flag, n, content

-----------------------------------------------------------------------------
(* Types there and back                                                    *)

\* `scale as u16` and `as i16` undo each other.
LEMMA ScaleReturns ==
    ASSUME NEW scale \in Scales
    PROVE  scale \in Int /\ Signed(stored_scale(scale)) = scale
<1> DEFINE h == Word \div 2
           r == scale % Word
           q == scale \div Word
<1>1. Word \in Nat \ {0} /\ h \in Nat /\ Word = 2 * h
  BY Sizes
<1>2. scale \in Int /\ scale >= -h /\ scale <= h - 1
  BY <1>1 DEF Scales
<1>3. q \in Int /\ r \in 0..(Word - 1) /\ scale = q * Word + r
  BY <1>1, <1>2, Quotients
<1>4. Signed(stored_scale(scale)) = IF r >= h THEN r - Word ELSE r
  BY DEF Signed, stored_scale
<1> HIDE DEF h, r, q
<1>5. q \in {-1, 0}
  <2>1. q <= 0
    <3>1. CASE q >= 1
      <4>1. q * Word >= Word
        BY <1>1, <1>3, <3>1
      <4> QED
        BY <1>1, <1>2, <1>3, <4>1
    <3> QED
      BY <1>3, <3>1
  <2>2. q >= -1
    <3>1. CASE q <= -2
      <4>1. q * Word <= -2 * Word
        BY <1>1, <1>3, <3>1
      <4> QED
        BY <1>1, <1>2, <1>3, <4>1
    <3> QED
      BY <1>3, <3>1
  <2> QED
    BY <1>3, <2>1, <2>2
<1>6. CASE q = 0
  BY <1>1, <1>2, <1>3, <1>4, <1>6
<1>7. CASE q = -1
  BY <1>1, <1>2, <1>3, <1>4, <1>7
<1> QED
  BY <1>2, <1>5, <1>6, <1>7

LEMMA IdsDiffer ==
    /\ TYPE_DECIMAL64 = 12 /\ TYPE_TIMESTAMP64 = 13 /\ TYPE_CATEGORICAL = 15
    /\ TYPE_FIXED_BINARY = 17 /\ TYPE_DATE32 = 18
  BY DEF TYPE_DECIMAL64, TYPE_TIMESTAMP64, TYPE_CATEGORICAL, TYPE_FIXED_BINARY, TYPE_DATE32

\* The scales of a schema are integers.
LEMMA SchemaTypes ==
    ASSUME NEW type \in LogicalTypes(Scales)
    PROVE  /\ type \in LogicalTypes(Int)
           /\ type \in Decimals => type.scale \in Scales
<1>1. Scales \subseteq Int
  BY ScaleReturns
<1>2. type \in LogicalTypes(Int)
  BY <1>1 DEF LogicalTypes
<1>3. type \in Decimals => type.scale \in Scales
  BY IdsDiffer DEF LogicalTypes, Decimals, PlainTypes
<1> QED
  BY <1>2, <1>3

\* Where the cells of another sequence are, a slice is that sequence.
LEMMA SliceIs ==
    ASSUME NEW p \in Seq(Nat), NEW a \in Nat, NEW s \in Seq(Nat),
           \A i \in 1..Len(s) : p[a + i] = s[i]
    PROVE  SubSeq(p, a + 1, a + Len(s)) = s
<1> DEFINE l == Len(s)
<1>1. l \in Nat /\ s = [b \in 1..l |-> s[b]] /\ \A b \in 1..l : p[a + b] = s[b]
  OBVIOUS
<1> HIDE DEF l
<1>2. SubSeq(p, a + 1, a + l) = [b \in 1..l |-> p[a + b]]
  <2>1. \A n \in Nat : SubSeq(p, a + 1, a + n) = [b \in 1..n |-> p[a + b]]
    BY Slice
  <2> QED
    BY <1>1, <2>1
<1>3. SubSeq(p, a + 1, a + l) = s
  BY <1>1, <1>2
<1> QED
  BY <1>3 DEF l

LEMMA TimestampSurvives ==
    ASSUME NEW type \in Unzoned \cup Zoned, has_parameters(type),
           NEW p, p = type_id_and_parameters(type)
    PROVE  type_ok(type.id, p) /\ parse_type(type.id, p) = type
<1> DEFINE A == Alignment
           name == type.name
<1>1. /\ p \in Seq(Nat) /\ Len(name) \in Nat /\ Len(p) = padded_length(A + Len(name))
      /\ p[1] = type.unit /\ p[2] = TimeZoneMode[type.zone] /\ p[A] = Len(name)
      /\ \A i \in 1..Len(name) : p[A + i] = name[i]
  BY TimestampRecord
<1>2. A \in Nat
  BY Sizes
<1>3. type.id = TYPE_TIMESTAMP64 /\ type.unit \in 0..3
  BY DEF Unzoned, Zoned
<1>4. name \in Seq(Nat) /\ Utf8(name)
  <2>1. <<>> \in Seq(Nat) /\ Utf8(<<>>)
    BY DEF Utf8
  <2> QED
    BY <2>1, TextCells DEF Unzoned, Zoned
<1>5. SubSeq(p, A + 1, A + Len(name)) = name
  BY <1>1, <1>2, <1>4, SliceIs
<1>6. name_end(p) = A + Len(name)
  BY <1>1 DEF name_end
<1>7. Len(p) >= A
  <2>1. A + Len(name) \in Nat
    BY <1>1, <1>2
  <2>2. padded_length(A + Len(name)) >= A + Len(name) /\ padded_length(A + Len(name)) \in Nat
    BY <2>1, PaddedLength
  <2> QED
    BY <1>1, <1>2, <2>2
<1>8. \/ type.zone = "Naive" /\ TimeZoneMode[type.zone] = 0 /\ Len(name) = 0
      \/ type.zone = "Utc" /\ TimeZoneMode[type.zone] = 1 /\ Len(name) = 0
      \/ type.zone = "Iana" /\ TimeZoneMode[type.zone] = 2 /\ Len(name) # 0
  <2>1. CASE type \in Unzoned
    BY <2>1 DEF Unzoned, TimeZoneMode
  <2>2. CASE type \in Zoned
    <3>1. type.zone = "Iana" /\ TimeZoneMode[type.zone] = 2
      BY <2>2 DEF Zoned, TimeZoneMode
    <3>2. name # <<>>
      BY <1>3, <3>1 DEF has_parameters
    <3>3. Len(name) # 0
      BY <1>4, <3>2
    <3> QED
      BY <3>1, <3>3
  <2> QED
    BY <2>1, <2>2
<1>9. TimeZoneMode.Naive = 0 /\ TimeZoneMode.Utc = 1 /\ TimeZoneMode.Iana = 2
  BY DEF TimeZoneMode
<1>10. timestamp_ok(p)
  BY <1>1, <1>3, <1>4, <1>5, <1>6, <1>7, <1>8, <1>9 DEF timestamp_ok
<1>11. type_ok(type.id, p)
  BY <1>3, <1>10, IdsDiffer DEF type_ok
<1>12. (CHOOSE zone \in DOMAIN TimeZoneMode : TimeZoneMode[zone] = p[2]) = type.zone
  <2>1. \A zone \in DOMAIN TimeZoneMode : TimeZoneMode[zone] = p[2] <=> zone = type.zone
    BY <1>1, <1>8 DEF TimeZoneMode
  <2>2. type.zone \in DOMAIN TimeZoneMode
    BY <1>8 DEF TimeZoneMode
  <2> QED
    BY <2>1, <2>2
<1>13. parse_type(type.id, p)
         = [id |-> type.id, unit |-> type.unit, zone |-> type.zone, name |-> name]
  <2> DEFINE chosen == CHOOSE zone \in DOMAIN TimeZoneMode : TimeZoneMode[zone] = p[2]
  <2>1. parse_type(type.id, p) = [id |-> type.id, unit |-> p[1], zone |-> chosen,
                                  name |-> SubSeq(p, Alignment + 1, name_end(p))]
    BY <1>3, IdsDiffer DEF parse_type
  <2>2. chosen = type.zone
    BY <1>12
  <2> HIDE DEF chosen
  <2>3. SubSeq(p, Alignment + 1, name_end(p)) = name
    BY <1>5, <1>6
  <2> QED
    BY <1>1, <2>1, <2>2, <2>3
<1>14. type = [id |-> type.id, unit |-> type.unit, zone |-> type.zone, name |-> name]
  BY DEF Unzoned, Zoned
<1> QED
  BY <1>11, <1>13, <1>14

\* A type that has a record is the type its record is read as.
LEMMA TypeSurvives ==
    ASSUME NEW type \in LogicalTypes(Scales), has_parameters(type),
           NEW p, p = type_id_and_parameters(type)
    PROVE  type_ok(type.id, p) /\ parse_type(type.id, p) = type
<1>1. type \in LogicalTypes(Int) /\ (type \in Decimals => type.scale \in Scales)
  BY SchemaTypes
<1>2. CASE type \in [id : PlainTypes]
  <2>1. p = <<>>
    BY <1>2, PlainRecord
  <2>2. /\ type.id \in PlainTypes /\ type.id # TYPE_DECIMAL64 /\ type.id # TYPE_TIMESTAMP64
        /\ type.id # TYPE_CATEGORICAL /\ type.id # TYPE_FIXED_BINARY
    BY <1>2 DEF PlainTypes
  <2>3. type = [id |-> type.id]
    BY <1>2
  <2> QED
    BY <2>1, <2>2, <2>3 DEF type_ok, parse_type
<1>3. CASE type \in Decimals
  <2>1. Len(p) = Alignment /\ p[1] = type.precision /\ p[2] = stored_scale(type.scale)
    BY <1>3, DecimalRecord
  <2>2. type.id = TYPE_DECIMAL64 /\ type.precision \in 1..18
    BY <1>3 DEF Decimals, has_parameters
  <2>3. Signed(p[2]) = type.scale
    BY <1>1, <1>3, <2>1, ScaleReturns
  <2>4. type = [id |-> type.id, precision |-> type.precision, scale |-> type.scale]
    BY <1>3 DEF Decimals
  <2>5. type_ok(type.id, p)
    BY <2>1, <2>2, IdsDiffer DEF type_ok
  <2>6. parse_type(type.id, p)
          = [id |-> type.id, precision |-> type.precision, scale |-> type.scale]
    BY <2>1, <2>2, <2>3, IdsDiffer DEF parse_type
  <2> QED
    BY <2>4, <2>5, <2>6
<1>4. CASE type \in Unzoned \cup Zoned
  BY <1>4, TimestampSurvives
<1>5. CASE type \in Categoricals
  <2>1. Len(p) = Alignment /\ p[1] = IF type.ordered THEN 1 ELSE 0
    BY <1>5, CategoricalRecord
  <2>2. type.id = TYPE_CATEGORICAL /\ type.ordered \in BOOLEAN
    BY <1>5 DEF Categoricals
  <2>3. (p[1] # 0) = type.ordered /\ p[1] \in 0..1
    BY <2>1, <2>2
  <2>4. type = [id |-> type.id, ordered |-> type.ordered]
    BY <1>5 DEF Categoricals
  <2>5. type_ok(type.id, p)
    BY <2>1, <2>2, <2>3, IdsDiffer DEF type_ok
  <2>6. parse_type(type.id, p) = [id |-> type.id, ordered |-> p[1] # 0]
    BY <2>2, IdsDiffer DEF parse_type
  <2> QED
    BY <2>3, <2>4, <2>5, <2>6
<1>6. CASE type \in FixedBinaries
  <2>1. Len(p) = Alignment /\ p[1] = type.byte_width
    BY <1>6, FixedBinaryRecord
  <2>2. type.id = TYPE_FIXED_BINARY /\ type.byte_width # 0
    BY <1>6 DEF FixedBinaries, has_parameters
  <2>3. type = [id |-> type.id, byte_width |-> type.byte_width]
    BY <1>6 DEF FixedBinaries
  <2>4. type_ok(type.id, p)
    BY <2>1, <2>2, IdsDiffer DEF type_ok
  <2>5. parse_type(type.id, p) = [id |-> type.id, byte_width |-> type.byte_width]
    BY <2>1, <2>2, IdsDiffer DEF parse_type
  <2> QED
    BY <2>3, <2>4, <2>5
<1> QED
  BY <1>1, <1>2, <1>3, <1>4, <1>5, <1>6, TypeCases

\* A slice within a sequence of cells.
LEMMA SliceType ==
    ASSUME NEW p \in Seq(Nat), NEW a \in Nat, NEW l \in Nat, a + l <= Len(p),
           NEW s, s = SubSeq(p, a + 1, a + l)
    PROVE  s \in Seq(Nat) /\ Len(s) = l
<1>1. \A n \in Nat : SubSeq(p, a + 1, a + n) = [b \in 1..n |-> p[a + b]]
  BY Slice
<1>2. s = [b \in 1..l |-> p[a + b]]
  BY <1>1
<1>3. \A b \in 1..l : p[a + b] \in Nat
  BY a + l <= Len(p)
<1> QED
  BY <1>2, <1>3

LEMMA TimestampRead ==
    ASSUME NEW p \in Seq(Nat), timestamp_ok(p), NEW t, t = parse_type(TYPE_TIMESTAMP64, p)
    PROVE  /\ t \in Unzoned \cup Zoned /\ has_parameters(t)
           /\ Len(type_id_and_parameters(t)) = Len(p)
<1> DEFINE A == Alignment
           l == p[A]
           name == SubSeq(p, A + 1, name_end(p))
           zone == CHOOSE z \in DOMAIN TimeZoneMode : TimeZoneMode[z] = p[2]
<1>1. A \in Nat /\ A >= 3
  BY Sizes
<1>2. /\ Len(p) >= A /\ p[1] \in 0..3 /\ Len(p) = padded_length(name_end(p))
      /\ \/ p[2] \in {TimeZoneMode.Naive, TimeZoneMode.Utc} /\ l = 0
         \/ p[2] = TimeZoneMode.Iana /\ l # 0 /\ Utf8(name)
  BY DEF timestamp_ok
<1>3. t = [id |-> TYPE_TIMESTAMP64, unit |-> p[1], zone |-> zone, name |-> name]
  BY IdsDiffer DEF parse_type
<1>4. l \in Nat
  BY <1>1, <1>2
<1>5. name_end(p) = A + l
  BY DEF name_end
<1>6. A + l <= Len(p)
  <2>1. A + l \in Nat
    BY <1>1, <1>4
  <2>2. padded_length(A + l) >= A + l
    BY <2>1, PaddedLength
  <2> QED
    BY <1>2, <1>5, <2>2
<1>7. name \in Seq(Nat) /\ Len(name) = l
  <2>1. name = SubSeq(p, A + 1, A + l)
    BY <1>5
  <2> HIDE DEF name, A, l
  <2> QED
    BY <1>1, <1>4, <1>6, <2>1, SliceType
<1>8. \/ p[2] \in {0, 1} /\ l = 0
      \/ p[2] = 2 /\ l # 0 /\ Utf8(name)
  BY <1>2 DEF TimeZoneMode
<1> HIDE DEF l, name
<1>9. /\ zone \in {"Naive", "Utc", "Iana"}
      /\ zone = "Iana" <=> p[2] = 2
  <2>1. \E z \in DOMAIN TimeZoneMode : TimeZoneMode[z] = p[2]
    BY <1>8 DEF TimeZoneMode
  <2>2. zone \in DOMAIN TimeZoneMode /\ TimeZoneMode[zone] = p[2]
    BY <2>1
  <2> HIDE DEF zone
  <2> QED
    BY <2>2 DEF TimeZoneMode
<1> HIDE DEF zone
<1>10. ASSUME p[2] \in {0, 1} /\ l = 0
       PROVE  t \in Unzoned \cup Zoned /\ has_parameters(t)
  <2>1. name = <<>>
    BY <1>7, <1>10
  <2>2. zone \in {"Naive", "Utc"}
    BY <1>9, <1>10
  <2>3. t \in Unzoned
    BY <1>2, <1>3, <2>1, <2>2 DEF Unzoned
  <2>4. has_parameters(t)
    BY <1>3, <2>2, IdsDiffer DEF has_parameters
  <2> QED
    BY <2>3, <2>4
<1>11. ASSUME p[2] = 2 /\ l # 0 /\ Utf8(name)
       PROVE  t \in Unzoned \cup Zoned /\ has_parameters(t)
  <2>1. name \in Text
    BY <1>7, <1>11, CellsAreText
  <2>2. zone = "Iana" /\ name # <<>>
    BY <1>7, <1>9, <1>11
  <2>3. t \in Zoned
    BY <1>2, <1>3, <2>1, <2>2 DEF Zoned
  <2>4. has_parameters(t)
    BY <1>3, <2>2, IdsDiffer DEF has_parameters
  <2> QED
    BY <2>3, <2>4
<1>12. t \in Unzoned \cup Zoned /\ has_parameters(t)
  BY <1>8, <1>10, <1>11
<1>13. t.name = name
  BY <1>3
<1>14. Len(type_id_and_parameters(t)) = padded_length(Alignment + Len(t.name))
  BY <1>12, TimestampRecord
<1> QED
  BY <1>2, <1>5, <1>7, <1>12, <1>13, <1>14

\* A record that a reader accepts is as long as the one this writer would put.
LEMMA TypeRead ==
    ASSUME NEW id \in Nat, NEW p \in Seq(Nat), type_ok(id, p), NEW t, t = parse_type(id, p)
    PROVE  /\ t \in LogicalTypes(Int) /\ has_parameters(t)
           /\ Len(type_id_and_parameters(t)) = Len(p)
<1>1. Alignment \in Nat /\ Alignment >= 3
  BY Sizes
<1>2. CASE id = TYPE_DECIMAL64
  <2>1. Len(p) = Alignment /\ p[1] \in 1..18
    BY <1>2, IdsDiffer DEF type_ok
  <2>2. t = [id |-> id, precision |-> p[1], scale |-> Signed(p[2])]
    BY <1>2, IdsDiffer DEF parse_type
  <2>3. p[2] \in Nat
    BY <1>1, <2>1
  <2>4. Signed(p[2]) \in Int
    BY <2>3, Sizes DEF Signed
  <2>5. t \in Decimals
    BY <1>2, <2>1, <2>2, <2>4 DEF Decimals
  <2>6. has_parameters(t)
    BY <1>2, <2>1, <2>2, IdsDiffer DEF has_parameters
  <2>7. t \in LogicalTypes(Int)
    BY <2>5 DEF LogicalTypes, Decimals
  <2> QED
    BY <2>1, <2>5, <2>6, <2>7, DecimalRecord
<1>3. CASE id = TYPE_TIMESTAMP64
  <2>1. timestamp_ok(p)
    BY <1>3, IdsDiffer DEF type_ok
  <2>2. /\ t \in Unzoned \cup Zoned /\ has_parameters(t)
        /\ Len(type_id_and_parameters(t)) = Len(p)
    BY <1>3, <2>1, TimestampRead
  <2> QED
    BY <2>2 DEF LogicalTypes, Unzoned, Zoned
<1>4. CASE id = TYPE_CATEGORICAL
  <2>1. Len(p) = Alignment
    BY <1>4, IdsDiffer DEF type_ok
  <2> DEFINE o == p[1] # 0
  <2>2. t = [id |-> id, ordered |-> o] /\ o \in BOOLEAN
    BY <1>4, IdsDiffer DEF parse_type
  <2> HIDE DEF o
  <2>3. t \in Categoricals
    BY <1>4, <2>2 DEF Categoricals
  <2>4. has_parameters(t)
    BY <1>4, <2>2, IdsDiffer DEF has_parameters
  <2>5. t \in LogicalTypes(Int)
    BY <2>3 DEF LogicalTypes, Categoricals
  <2> QED
    BY <2>1, <2>3, <2>4, <2>5, CategoricalRecord
<1>5. CASE id = TYPE_FIXED_BINARY
  <2>1. Len(p) = Alignment /\ p[1] # 0
    BY <1>5, IdsDiffer DEF type_ok
  <2>2. t = [id |-> id, byte_width |-> p[1]]
    BY <1>5, IdsDiffer DEF parse_type
  <2>3. t \in FixedBinaries
    BY <1>1, <1>5, <2>1, <2>2 DEF FixedBinaries
  <2>4. has_parameters(t)
    BY <1>5, <2>1, <2>2, IdsDiffer DEF has_parameters
  <2>5. t \in LogicalTypes(Int)
    BY <2>3 DEF LogicalTypes, FixedBinaries
  <2> QED
    BY <2>1, <2>3, <2>4, <2>5, FixedBinaryRecord
<1>6. CASE /\ id # TYPE_DECIMAL64 /\ id # TYPE_TIMESTAMP64
           /\ id # TYPE_CATEGORICAL /\ id # TYPE_FIXED_BINARY
  <2>1. id \in PlainTypes /\ p = <<>>
    BY <1>6 DEF type_ok
  <2>2. t = [id |-> id]
    BY <1>6 DEF parse_type
  <2>3. t \in [id : PlainTypes]
    BY <2>1, <2>2
  <2>4. has_parameters(t)
    BY <1>6, <2>2 DEF has_parameters
  <2>5. t \in LogicalTypes(Int)
    BY <2>3 DEF LogicalTypes
  <2> QED
    BY <2>1, <2>3, <2>4, <2>5, PlainRecord
<1> QED
  BY <1>2, <1>3, <1>4, <1>5, <1>6

-----------------------------------------------------------------------------
(* Lists of descriptors                                                    *)

LEMMA DescriptorsType ==
    ASSUME NEW list \in Seq(Columns(Int))
    PROVE  /\ [i \in 1..Len(list) |-> descriptor(list[i])] \in Seq(Seq(Nat))
           /\ descriptors(list) \in Seq(Nat)
<1>1. \A i \in 1..Len(list) : list[i] \in Columns(Int)
  OBVIOUS
<1>2. \A i \in 1..Len(list) : descriptor(list[i]) \in Seq(Nat)
  BY <1>1, DescriptorCells DEF Describes
<1>3. Len(list) \in Nat
  OBVIOUS
<1>4. [i \in 1..Len(list) |-> descriptor(list[i])] \in Seq(Seq(Nat))
  BY <1>2, <1>3
<1> QED
  BY <1>4, FlattenType DEF descriptors

LEMMA DescriptorsAppend ==
    ASSUME NEW list \in Seq(Columns(Int)), NEW c \in Columns(Int)
    PROVE  Len(descriptors(Append(list, c))) = Len(descriptors(list)) + Len(descriptor(c))
<1> DEFINE s == [i \in 1..Len(list) |-> descriptor(list[i])]
           e == descriptor(c)
           longer == Append(list, c)
           t == [i \in 1..Len(longer) |-> descriptor(longer[i])]
           n == Len(list)
<1>1. s \in Seq(Seq(Nat)) /\ descriptors(list) \in Seq(Nat)
  BY DescriptorsType
<1>2. e \in Seq(Nat)
  BY DescriptorCells DEF Describes
<1>3. /\ n \in Nat /\ Len(longer) = n + 1 /\ longer[n + 1] = c
      /\ \A i \in 1..n : longer[i] = list[i]
  OBVIOUS
<1>4. Len(s) = n /\ \A i \in 1..n : s[i] = descriptor(list[i])
  BY <1>3
<1> HIDE DEF longer, n
<1>5. t = Append(s, e)
  <2>1. t \in Seq(Seq(Nat)) /\ Len(t) = n + 1
    <3>1. \A i \in 1..(n + 1) : i \in 1..n \/ i = n + 1
      BY <1>3
    <3>2. \A i \in 1..(n + 1) : descriptor(longer[i]) \in Seq(Nat)
      <4> SUFFICES ASSUME NEW i \in 1..(n + 1) PROVE descriptor(longer[i]) \in Seq(Nat)
        OBVIOUS
      <4>1. CASE i \in 1..n
        <5>1. longer[i] = list[i] /\ descriptor(list[i]) = s[i] /\ s[i] \in Seq(Nat)
          BY <1>1, <1>3, <1>4, <4>1
        <5> QED
          BY <5>1
      <4>2. CASE i = n + 1
        BY <1>2, <1>3, <4>2
      <4> QED
        BY <3>1, <4>1, <4>2
    <3> QED
      BY <1>3, <3>2
  <2>2. \A i \in 1..n : t[i] = s[i]
    BY <1>3, <1>4
  <2>3. t[n + 1] = e
    BY <1>3
  <2> HIDE DEF s, t, e
  <2>4. /\ Append(s, e) \in Seq(Seq(Nat)) /\ Len(Append(s, e)) = n + 1
        /\ Append(s, e)[n + 1] = e /\ \A i \in 1..n : Append(s, e)[i] = s[i]
    BY <1>1, <1>2, <1>4
  <2>5. \A i \in 1..(n + 1) : t[i] = Append(s, e)[i]
    BY <1>3, <2>2, <2>3, <2>4
  <2> QED
    BY <2>1, <2>4, <2>5
<1>6. descriptors(list) = FlattenSeq(s) /\ descriptors(longer) = FlattenSeq(t)
  BY DEF descriptors
<1> HIDE DEF s, t, e
<1>7. FlattenSeq(Append(s, e)) = FlattenSeq(s) \o e
  BY <1>1, <1>2, FlattenAppend
<1>8. descriptors(longer) = descriptors(list) \o e
  BY <1>5, <1>6, <1>7
<1>9. Joined(descriptors(list), e, descriptors(longer))
  BY <1>1, <1>2, <1>8, Concatenated
<1> QED
  BY <1>9 DEF Joined, longer, e

\* Where the descriptors of a list lie.
Lengths(list) == [i \in 1..Len(list) |-> Len(descriptor(list[i]))]

Placed(list, k) == SumFunctionOnSet(Lengths(list), 1..k)

LEMMA DescriptorsLie ==
    ASSUME NEW list \in Seq(Columns(Int))
    PROVE  LET n == Len(list) IN
           /\ Placed(list, 0) = 0 /\ \A k \in 0..n : Placed(list, k) \in Nat
           /\ \A k \in 1..n : Placed(list, k) = Placed(list, k - 1) + Len(descriptor(list[k]))
           /\ \A k \in 0..n : Placed(list, k) <= Placed(list, n)
           /\ Len(descriptors(list)) = Placed(list, n)
           /\ \A k \in 1..n : \A j \in 1..Len(descriptor(list[k])) :
                 descriptors(list)[Placed(list, k - 1) + j] = descriptor(list[k])[j]
<1> DEFINE n == Len(list)
           s == [i \in 1..n |-> descriptor(list[i])]
           lens == Lengths(list)
<1>1. n \in Nat /\ s \in Seq(Seq(Nat)) /\ Len(s) = n
  BY DescriptorsType
<1>2. \A i \in 1..n : s[i] = descriptor(list[i])
  OBVIOUS
<1>3. \A i \in 1..n : lens[i] = Len(descriptor(list[i]))
  BY DEF Lengths
<1>4. descriptors(list) = FlattenSeq(s)
  BY DEF descriptors
<1> HIDE DEF s, n, lens
<1>5. \A i \in 1..n : lens[i] = Len(s[i]) /\ lens[i] \in Nat
  BY <1>1, <1>2, <1>3
<1>6. \A i \in 1..Len(s) : lens[i] = Len(s[i])
  BY <1>1, <1>5
<1>7. /\ FlattenSeq(s) \in Seq(Nat)
      /\ Len(FlattenSeq(s)) = SumFunctionOnSet(lens, 1..Len(s))
      /\ \A i \in 1..Len(s) : \A j \in 1..Len(s[i]) :
            /\ SumFunctionOnSet(lens, 1..(i - 1)) + j \in 1..Len(FlattenSeq(s))
            /\ FlattenSeq(s)[SumFunctionOnSet(lens, 1..(i - 1)) + j] = s[i][j]
  <2> DEFINE Numbers == Nat
  <2>1. s \in Seq(Seq(Numbers))
    BY <1>1
  <2> HIDE DEF Numbers
  <2>2. /\ FlattenSeq(s) \in Seq(Numbers)
        /\ Len(FlattenSeq(s)) = SumFunctionOnSet(lens, 1..Len(s))
        /\ \A i \in 1..Len(s) : \A j \in 1..Len(s[i]) :
              /\ SumFunctionOnSet(lens, 1..(i - 1)) + j \in 1..Len(FlattenSeq(s))
              /\ FlattenSeq(s)[SumFunctionOnSet(lens, 1..(i - 1)) + j] = s[i][j]
    BY <1>6, <2>1, FlattenAt
  <2> QED
    BY <2>2 DEF Numbers
<1>8. /\ SumFunctionOnSet(lens, 1..0) = 0
      /\ \A k \in 0..n : SumFunctionOnSet(lens, 1..k) \in Nat
      /\ \A k \in 1..n : SumFunctionOnSet(lens, 1..k) = SumFunctionOnSet(lens, 1..(k - 1)) + lens[k]
  BY <1>1, <1>5, PrefixSum
<1>9. \A k \in 0..n : SumFunctionOnSet(lens, 1..k) <= SumFunctionOnSet(lens, 1..n)
  <2>1. n \in 0..n /\ \A i \in 1..n : lens[i] \in Nat
    BY <1>1, <1>5
  <2> QED
    BY <1>1, <2>1, PrefixMonotone
<1>10. \A k : Placed(list, k) = SumFunctionOnSet(lens, 1..k)
  BY DEF Placed, lens
<1>11. \A k \in 1..n : \A j \in 1..Len(descriptor(list[k])) :
         descriptors(list)[Placed(list, k - 1) + j] = descriptor(list[k])[j]
  BY <1>1, <1>2, <1>4, <1>7, <1>10
<1>12. \A k \in 1..n : Placed(list, k) = Placed(list, k - 1) + Len(descriptor(list[k]))
  BY <1>3, <1>8, <1>10
<1>13. /\ Placed(list, 0) = 0 /\ \A k \in 0..n : Placed(list, k) \in Nat
       /\ \A k \in 0..n : Placed(list, k) <= Placed(list, n)
       /\ Len(descriptors(list)) = Placed(list, n)
  BY <1>1, <1>4, <1>7, <1>8, <1>9, <1>10
<1> QED
  BY <1>11, <1>12, <1>13 DEF n

-----------------------------------------------------------------------------
(* The inductive invariant                                                 *)

Frames == [ schema_id : Nat, column_count : Nat, primary_column_id : Nat, flags : Nat,
            payload : Seq(Nat) ]

\* A column that create would take.
Accepted(c) ==
    /\ c \in Columns(Int) /\ c.id # 0 /\ has_parameters(c.type)
    /\ Len(c.name) <= MaxFieldLength
    /\ Len(type_id_and_parameters(c.type)) <= MaxFieldLength

\* What the loop of read_columns has established so far: the columns it took would
\* need no more room than it has passed.
ReadInv ==
    /\ Len(frame.payload) <= MaxPayloadLength /\ check_header
    /\ columns \in Seq(Columns(Int)) /\ Len(columns) <= frame.column_count
    /\ \A i \in 1..Len(columns) : Accepted(columns[i])
    /\ \A i, j \in 1..Len(columns) :
         i # j => columns[i].id # columns[j].id /\ columns[i].name # columns[j].name
    /\ position \in Nat /\ position <= Len(frame.payload)
    /\ Len(descriptors(columns)) <= position

\* The frame is that of a schema create accepted.
Written == create_accepts(schema) /\ frame = build_schema_frame(schema)

\* The columns read are the first of the schema, and the next one follows.
FollowsSchema ==
    /\ Len(columns) <= Len(schema.columns)
    /\ \A i \in 1..Len(columns) : columns[i] = schema.columns[i]
    /\ position = Placed(schema.columns, Len(columns))

SchemaInv ==
    /\ schema \in Schemas /\ altered \in Nat
    /\ phase \in {"create", "refused", "written", "columns", "failed", "read"}
    /\ phase \in {"create", "written"} => columns = <<>> /\ position = 0
    /\ phase \in {"written", "columns", "read"} => frame \in Frames
    /\ phase \in {"columns", "read"} => ReadInv
    /\ phase = "read" => Len(columns) = frame.column_count /\ resolve_primary
    /\ altered = 0 => phase # "failed"
    /\ altered = 0 /\ phase \in {"written", "columns", "read"} => Written
    /\ altered = 0 /\ phase \in {"columns", "read"} => FollowsSchema

LEMMA SchemaColumns ==
    ASSUME schema \in Schemas
    PROVE  /\ schema.schema_id \in Nat /\ schema.primary \in SUBSET Nat
           /\ schema.columns \in Seq(Columns(Scales)) /\ schema.columns \in Seq(Columns(Int))
           /\ Len(schema.columns) \in Nat
<1>1. schema \in [schema_id : Nat, primary : SUBSET Nat, columns : Seq(Columns(Scales))]
  BY Inputs
<1>2. \A c \in Columns(Scales) : c \in Columns(Int)
  BY SchemaTypes DEF Columns
<1> DEFINE S == Columns(Scales)
           I == Columns(Int)
           list == schema.columns
<1>3. list \in Seq(S) /\ \A c \in S : c \in I
  BY <1>1, <1>2
<1> HIDE DEF S, I, list
<1>4. list \in Seq(I) /\ Len(list) \in Nat
  <2>1. \A i \in 1..Len(list) : list[i] \in I
    BY <1>3
  <2>2. Len(list) \in Nat /\ list = [i \in 1..Len(list) |-> list[i]]
    BY <1>3
  <2> QED
    BY <2>1, <2>2
<1> QED
  BY <1>1, <1>3, <1>4 DEF S, I, list

\* What build_schema_frame makes of a schema, accepted or not.
LEMMA BuiltFrame ==
    ASSUME schema \in Schemas, NEW g, g = build_schema_frame(schema)
    PROVE  /\ g \in Frames
           /\ g.schema_id = schema.schema_id /\ g.column_count = Len(schema.columns)
           /\ g.flags = 0 /\ g.payload = descriptors(schema.columns)
           /\ schema.primary = {} => g.primary_column_id = 0
           /\ schema.primary # {} => schema.primary = {g.primary_column_id}
<1> DEFINE id == IF schema.primary = {} THEN NO_PRIMARY_COLUMN_ID
                 ELSE CHOOSE x \in schema.primary : TRUE
           cells == descriptors(schema.columns)
<1>1. g = [ schema_id |-> schema.schema_id, column_count |-> Len(schema.columns),
            primary_column_id |-> id, flags |-> 0, payload |-> cells ]
  BY DEF build_schema_frame
<1>2. schema.schema_id \in Nat /\ Len(schema.columns) \in Nat /\ schema.primary \in SUBSET Nat
  BY SchemaColumns
<1>3. cells \in Seq(Nat)
  BY SchemaColumns, DescriptorsType
<1>4. /\ schema.primary = {} => id = 0
      /\ schema.primary # {} => id \in schema.primary
  BY DEF NO_PRIMARY_COLUMN_ID
<1> HIDE DEF id, cells
<1>5. schema.primary # {} => schema.primary = {id}
  <2>1. \A a, b \in schema.primary : a = b
    BY Inputs
  <2> QED
    BY <1>4, <2>1
<1>6. id \in Nat
  BY <1>2, <1>4
<1>7. g \in Frames
  BY <1>1, <1>2, <1>3, <1>6 DEF Frames
<1> QED
  BY <1>1, <1>4, <1>5, <1>7 DEF cells

\* A descriptor that a reader accepts is one this writer could have put there, in
\* no more room.
LEMMA AcceptedDescriptor ==
    ASSUME frame \in Frames, position \in Nat, position <= Len(frame.payload),
           Remaining >= DescriptorSize,
           NEW d, d = parse_descriptor_fields, check_descriptor_fields(d),
           Utf8(read_name(d)), type_ok(d.type_id, read_parameters(d)), insert(d),
           NEW c, c = [ id |-> d.column_id, name |-> read_name(d),
                        type |-> parse_type(d.type_id, read_parameters(d)),
                        nullable |-> d.flags = NULLABLE_COLUMN_FLAG ]
    PROVE  /\ Accepted(c) /\ d.length \in Nat
           /\ position + d.length <= Len(frame.payload)
           /\ Len(descriptor(c)) <= d.length
           /\ \A i \in DOMAIN columns : columns[i].id # c.id /\ columns[i].name # c.name
<1> DEFINE S == DescriptorSize
           cells == frame.payload
           name == read_name(d)
           params == read_parameters(d)
           type == parse_type(d.type_id, params)
           flag == d.flags = NULLABLE_COLUMN_FLAG
<1>1. S \in Nat /\ S >= 6 /\ MaxFieldLength \in Nat
  BY Sizes
<1>2. cells \in Seq(Nat) /\ Len(cells) \in Nat
  BY DEF Frames
<1>3. position + S <= Len(cells)
  BY <1>1, <1>2 DEF Remaining
<1>4. \A k \in 1..6 : cells[position + k] \in Nat
  BY <1>1, <1>2, <1>3
<1>5. /\ d.length = cells[position + 1] /\ d.column_id = cells[position + 2]
      /\ d.type_id = cells[position + 3] /\ d.flags = cells[position + 4]
      /\ d.name_length = cells[position + 5] /\ d.parameters_length = cells[position + 6]
  BY DEF parse_descriptor_fields
<1>6. /\ d.length \in Nat /\ d.column_id \in Nat /\ d.type_id \in Nat
      /\ d.name_length \in Nat /\ d.parameters_length \in Nat
  BY <1>4, <1>5
<1>7. /\ d.length % Alignment = 0 /\ d.length <= Len(cells) - position
      /\ S + d.name_length + d.parameters_length <= d.length
      /\ d.name_length <= MaxFieldLength /\ d.parameters_length <= MaxFieldLength
  BY DEF check_descriptor_fields, Remaining
<1> HIDE DEF S, cells
<1>8. name \in Seq(Nat) /\ Len(name) = d.name_length
  <2> DEFINE from == position + S
             l == d.name_length
  <2>1. name = SubSeq(cells, from + 1, from + l)
    BY DEF read_name, Part, S, cells
  <2>2. from \in Nat /\ l \in Nat /\ from + l <= Len(cells)
    BY <1>1, <1>2, <1>6, <1>7
  <2> HIDE DEF name, from, l
  <2>3. name \in Seq(Nat) /\ Len(name) = l
    BY <1>2, <2>1, <2>2, SliceType
  <2> QED
    BY <2>3 DEF l
<1>9. params \in Seq(Nat) /\ Len(params) = d.parameters_length
  <2> DEFINE from == position + S + d.name_length
             l == d.parameters_length
  <2>1. params = SubSeq(cells, from + 1, from + l)
    BY DEF read_parameters, Part, S, cells
  <2> HIDE DEF params
  <2>2. from \in Nat /\ l \in Nat
    BY <1>1, <1>6
  <2>3. from + l <= Len(cells)
    <3>1. d.length \in Nat /\ d.name_length \in Nat /\ l \in Nat
      BY <1>6
    <3>2. S + d.name_length + l <= d.length /\ d.length <= Len(cells) - position
      BY <1>7
    <3> HIDE DEF l
    <3> QED
      BY <1>1, <1>2, <3>1, <3>2
  <2> HIDE DEF from, l
  <2>4. params \in Seq(Nat) /\ Len(params) = l
    BY <1>2, <2>1, <2>2, <2>3, SliceType
  <2> QED
    BY <2>4 DEF l
<1>10. c = [id |-> d.column_id, name |-> name, type |-> type, nullable |-> flag] /\ flag \in BOOLEAN
  OBVIOUS
<1>11. Utf8(name) /\ type_ok(d.type_id, params)
  OBVIOUS
<1>12. /\ d.column_id # 0
       /\ \A i \in DOMAIN columns : columns[i].id # d.column_id /\ columns[i].name # name
  BY DEF insert
<1> HIDE DEF name, params
<1>13. /\ type \in LogicalTypes(Int) /\ has_parameters(type)
       /\ Len(type_id_and_parameters(type)) = Len(params)
  BY <1>6, <1>9, <1>11, TypeRead
<1>14. name \in Text
  BY <1>8, <1>11, CellsAreText
<1> HIDE DEF type, flag
<1>15. c \in Columns(Int) /\ c.id = d.column_id /\ c.name = name /\ c.type = type
  BY <1>6, <1>10, <1>13, <1>14 DEF Columns
<1>16. Accepted(c)
  BY <1>7, <1>8, <1>9, <1>12, <1>13, <1>15 DEF Accepted
<1>17. Len(descriptor(c)) <= d.length
  <2>1. Len(descriptor(c)) = padded_length(DescriptorSize + Len(c.name)
                                             + Len(type_id_and_parameters(c.type)))
    BY <1>15, DescriptorCells DEF Describes
  <2> DEFINE content == S + d.name_length + d.parameters_length
  <2>2. Len(descriptor(c)) = padded_length(content)
    BY <1>8, <1>9, <1>13, <1>15, <2>1 DEF S
  <2>3. content \in Nat /\ content <= d.length
    BY <1>1, <1>6, <1>7
  <2> HIDE DEF content
  <2> QED
    BY <1>6, <1>7, <2>2, <2>3, PaddedLength
<1>18. position + d.length <= Len(cells)
  BY <1>2, <1>6, <1>7
<1> QED
  BY <1>6, <1>12, <1>15, <1>16, <1>17, <1>18 DEF cells

-----------------------------------------------------------------------------
(* The reader of this writer's frame                                       *)

\* What create checked of a column.
LEMMA OwnColumn ==
    ASSUME schema \in Schemas, create_accepts(schema), NEW k \in 1..Len(schema.columns),
           NEW c, c = schema.columns[k]
    PROVE  /\ c \in Columns(Scales) /\ c \in Columns(Int) /\ c.id # 0 /\ has_parameters(c.type)
           /\ Len(c.name) <= MaxFieldLength
           /\ Len(type_id_and_parameters(c.type)) <= MaxFieldLength
           /\ \A i \in 1..Len(schema.columns) :
                i # k => schema.columns[i].id # c.id /\ schema.columns[i].name # c.name
<1> DEFINE list == schema.columns
           S == Columns(Scales)
           I == Columns(Int)
<1>1. list \in Seq(S) /\ list \in Seq(I) /\ c = list[k] /\ k \in 1..Len(list)
  BY SchemaColumns
<1>2. DOMAIN list = 1..Len(list)
  BY <1>1
<1>3. /\ \A i \in 1..Len(list) : /\ list[i].id # 0 /\ has_parameters(list[i].type)
                                  /\ Len(list[i].name) <= MaxFieldLength
                                  /\ Len(type_id_and_parameters(list[i].type)) <= MaxFieldLength
      /\ \A i, j \in 1..Len(list) :
            i # j => list[i].id # list[j].id /\ list[i].name # list[j].name
  BY <1>2 DEF create_accepts, validate_schema, within_limits, Distinct
<1>4. c \in S /\ c \in I
  <2> HIDE DEF list, S, I
  <2> QED
    BY <1>1
<1> QED
  BY <1>1, <1>3, <1>4

LEMMA OwnHeader ==
    ASSUME schema \in Schemas, Written
    PROVE  Len(frame.payload) <= MaxPayloadLength /\ check_header
<1> DEFINE list == schema.columns
           n == Len(list)
           S == DescriptorSize
           lens == Lengths(list)
           L == Len(frame.payload)
<1>1. /\ frame = build_schema_frame(schema) /\ validate_schema(schema) /\ within_limits(schema)
  BY DEF Written, create_accepts
<1>2. /\ frame.schema_id = schema.schema_id /\ frame.column_count = n /\ frame.flags = 0
      /\ frame.payload = descriptors(list)
  BY <1>1, BuiltFrame
<1>3. L <= MaxPayloadLength
  BY <1>1 DEF within_limits
<1>4. schema.schema_id # 0 /\ n \in 1..MaxSchemaColumns
  BY <1>1 DEF validate_schema
<1>5. list \in Seq(Columns(Int)) /\ n \in Nat
  BY SchemaColumns
<1>6. S \in Nat /\ S >= 6
  BY Sizes
<1>7. \A i \in 1..n : lens[i] \in Nat /\ S <= lens[i]
  <2> SUFFICES ASSUME NEW i \in 1..n PROVE lens[i] \in Nat /\ S <= lens[i]
    OBVIOUS
  <2>1. list[i] \in Columns(Int)
    BY <1>5
  <2> DEFINE c == list[i]
             p == type_id_and_parameters(c.type)
             content == S + Len(c.name) + Len(p)
  <2>2. /\ Len(c.name) \in Nat /\ Len(p) \in Nat
        /\ Len(descriptor(c)) = padded_length(content)
    BY <2>1, DescriptorCells DEF Describes
  <2>3. lens[i] = Len(descriptor(c))
    BY DEF Lengths
  <2> HIDE DEF c, p
  <2>4. content \in Nat /\ content >= S
    BY <1>6, <2>2
  <2>5. padded_length(content) \in Nat /\ padded_length(content) >= content
    BY <2>4, PaddedLength
  <2> HIDE DEF content, S
  <2> QED
    BY <1>6, <2>2, <2>3, <2>4, <2>5
<1>8. L = SumOver(lens, 1..n)
  <2>1. Len(descriptors(list)) = Placed(list, n)
    BY <1>5, DescriptorsLie
  <2> QED
    BY <1>2, <2>1, SumOnSetIsSum DEF Placed
<1>9. n * S <= L /\ L \in Nat
  <2> DEFINE e == [i \in 1..n |-> S]
  <2>1. IsFiniteSet(1..n) /\ Cardinality(1..n) = n
    <3>1. n \in Nat
      BY <1>5
    <3> HIDE DEF n
    <3>2. 1 \in Int /\ n \in Int
      BY <3>1
    <3>3. IsFiniteSet(1..n) /\ Cardinality(1..n) = IF 1 > n THEN 0 ELSE n - 1 + 1
      BY <3>2, FS_Interval
    <3> QED
      BY <3>1, <3>3
  <2>2. \A i \in 1..n : e[i] = S
    OBVIOUS
  <2> HIDE DEF e, lens, S, n, L
  <2>3. SumOver(e, 1..n) = S * Cardinality(1..n)
    BY <1>6, <2>1, <2>2, SumConstant
  <2>4. SumOver(e, 1..n) <= SumOver(lens, 1..n)
    BY <1>6, <1>7, <2>1, <2>2, SumMonotone
  <2>5. SumOver(lens, 1..n) \in Nat
    BY <1>7, <2>1, SumRemove
  <2> QED
    BY <1>5, <1>6, <1>8, <2>1, <2>3, <2>4, <2>5
<1>10. n <= L \div S
  <2> DEFINE q == L \div S
  <2> HIDE DEF n, L, S
  <2>1. q \in Int /\ L % S \in 0..(S - 1) /\ L = q * S + (L % S)
    BY <1>6, <1>9, Quotients
  <2> HIDE DEF q
  <2>2. (n - q) * S < S
    BY <1>5, <1>6, <1>9, <2>1
  <2> DEFINE x == n - q
  <2>3. x \in Int /\ x * S < S
    BY <1>5, <2>1, <2>2
  <2> HIDE DEF x
  <2>4. x <= 0
    BY <1>6, <2>3
  <2> QED
    BY <1>5, <2>1, <2>4 DEF x, q
<1> QED
  BY <1>2, <1>3, <1>4, <1>10 DEF check_header

LEMMA Described ==
    ASSUME NEW c \in Columns(Int), NEW e, e = descriptor(c),
           NEW p, p = type_id_and_parameters(c.type)
    PROVE  Describes(e, c, p) /\ p \in Seq(Nat) /\ c.name \in Seq(Nat)
<1>1. c.type \in LogicalTypes(Int) /\ c.name \in Text
  BY DEF Columns
<1>2. c.name \in Seq(Nat)
  BY <1>1, TextCells
<1>3. p \in Seq(Nat)
  BY <1>1, RecordType
<1>4. Describes(e, c, p)
  BY DescriptorCells
<1> QED
  BY <1>2, <1>3, <1>4

\* The fields and the parts read of cells that hold the descriptor of a column.
ReadAs(d, e, c, p) ==
    /\ d.length = Len(e) /\ d.length \in Nat /\ d.length % Alignment = 0
    /\ d.column_id = c.id /\ d.type_id = c.type.id
    /\ d.flags = (IF c.nullable THEN NULLABLE_COLUMN_FLAG ELSE 0)
    /\ d.name_length = Len(c.name) /\ d.name_length \in Nat
    /\ d.parameters_length = Len(p) /\ d.parameters_length \in Nat
    /\ DescriptorSize + d.name_length + d.parameters_length <= d.length
    /\ read_name(d) = c.name /\ read_parameters(d) = p

\* The cells of a descriptor are there in a payload.
LiesAt(cells, at, e) ==
    /\ cells \in Seq(Nat) /\ at \in Nat /\ at + Len(e) <= Len(cells)
    /\ \A j \in 1..Len(e) : cells[at + j] = e[j]

\* What a descriptor that lies at a place is read as.
LEMMA OwnFields ==
    ASSUME NEW c, NEW e, NEW p, Describes(e, c, p), p \in Seq(Nat), c.name \in Seq(Nat),
           NEW cells, cells = frame.payload, NEW at, at = position, LiesAt(cells, at, e),
           NEW d, d = parse_descriptor_fields
    PROVE  Remaining \in Nat /\ Remaining >= Len(e) /\ ReadAs(d, e, c, p)
<1> DEFINE S == DescriptorSize
           name == c.name
           N == Len(name)
           P == Len(p)
           E == Len(e)
<1>1. /\ e \in Seq(Nat) /\ N \in Nat /\ P \in Nat /\ E = padded_length(S + N + P)
      /\ e[1] = E /\ e[2] = c.id /\ e[3] = c.type.id
      /\ e[4] = (IF c.nullable THEN NULLABLE_COLUMN_FLAG ELSE 0)
      /\ e[5] = N /\ e[6] = P
      /\ \A i \in 1..N : e[S + i] = name[i]
      /\ \A i \in 1..P : e[S + N + i] = p[i]
  BY DEF Describes
<1>2. S \in Nat /\ S >= 6
  BY Sizes
<1>3. name \in Seq(Nat) /\ p \in Seq(Nat)
  OBVIOUS
<1>4. cells \in Seq(Nat) /\ Len(cells) \in Nat /\ at \in Nat /\ at + E <= Len(cells)
  BY DEF LiesAt
<1>5. \A j \in 1..E : cells[at + j] = e[j]
  BY DEF LiesAt
<1> DEFINE content == S + N + P
<1>6. E = padded_length(content)
  BY <1>1
<1>7. Remaining = Len(cells) - at
  BY DEF Remaining
<1> HIDE DEF S, name, N, P, E
<1>8. content \in Nat
  BY <1>1, <1>2
<1>9. E \in Nat /\ E >= content /\ E % Alignment = 0
  <2> HIDE DEF content
  <2> QED
    BY <1>6, <1>8, PaddedLength
<1>10. E \in Nat /\ E >= S + N + P
  BY <1>9
<1>11. N \in Nat /\ P \in Nat
  BY <1>1
<1>12. Len(cells) - at \in Nat /\ Len(cells) - at >= E
  BY <1>4, <1>10
<1>13. \A j \in 1..6 : j \in 1..E
  BY <1>11, <1>2, <1>10
<1>14. \A j \in 1..6 : cells[at + j] = e[j]
  BY <1>5, <1>13
<1>15. /\ cells[at + 1] = e[1] /\ cells[at + 2] = e[2] /\ cells[at + 3] = e[3]
      /\ cells[at + 4] = e[4] /\ cells[at + 5] = e[5] /\ cells[at + 6] = e[6]
  BY <1>14
<1>16. /\ d.length = cells[at + 1] /\ d.column_id = cells[at + 2]
       /\ d.type_id = cells[at + 3] /\ d.flags = cells[at + 4]
       /\ d.name_length = cells[at + 5] /\ d.parameters_length = cells[at + 6]
  BY DEF parse_descriptor_fields
<1>17. /\ d.length = E /\ d.column_id = c.id /\ d.type_id = c.type.id
       /\ d.flags = (IF c.nullable THEN NULLABLE_COLUMN_FLAG ELSE 0)
       /\ d.name_length = N /\ d.parameters_length = P
  BY <1>1, <1>15, <1>16
<1>18. read_name(d) = name
  <2> DEFINE a == at + S
  <2>1. read_name(d) = SubSeq(cells, a + 1, a + N)
    BY <1>17 DEF read_name, Part, S
  <2>2. a \in Nat
    BY <1>4, <1>2
  <2>3. ASSUME NEW i \in 1..N PROVE cells[a + i] = name[i]
    <3> DEFINE j == S + i
    <3>1. j \in 1..E /\ a + i = at + j
      BY <1>4, <1>11, <1>2, <1>10
    <3>2. e[j] = name[i]
      BY <1>1
    <3> HIDE DEF j, a
    <3> QED
      BY <1>5, <3>1, <3>2
  <2> HIDE DEF a
  <2>4. SubSeq(cells, a + 1, a + N) = name
    BY <1>3, <1>4, <2>2, <2>3, SliceIs DEF N
  <2> QED
    BY <2>1, <2>4
<1>19. read_parameters(d) = p
  <2> DEFINE a == at + S + N
  <2>1. read_parameters(d) = SubSeq(cells, a + 1, a + P)
    BY <1>17 DEF read_parameters, Part, S
  <2>2. a \in Nat
    BY <1>4, <1>11, <1>2
  <2>3. ASSUME NEW i \in 1..P PROVE cells[a + i] = p[i]
    <3> DEFINE j == S + N + i
    <3>1. j \in 1..E /\ a + i = at + j
      BY <1>4, <1>11, <1>2, <1>10
    <3>2. e[j] = p[i]
      BY <1>1
    <3> HIDE DEF j, a
    <3> QED
      BY <1>5, <3>1, <3>2
  <2> HIDE DEF a
  <2>4. SubSeq(cells, a + 1, a + P) = p
    BY <1>3, <1>4, <2>2, <2>3, SliceIs DEF P
  <2> QED
    BY <2>1, <2>4
<1>20. ReadAs(d, e, c, p)
  BY <1>11, <1>9, <1>10, <1>17, <1>18, <1>19 DEF ReadAs, S, N, P, E, name
<1> QED
  BY <1>12, <1>7, <1>20 DEF E

\* The next descriptor passes every check, and what is read of it is the column.
LEMMA OwnDescriptor ==
    ASSUME schema \in Schemas, Written, FollowsSchema, columns \in Seq(Columns(Int)),
           NEW k, k = Len(columns) + 1, k <= Len(schema.columns),
           NEW d, d = parse_descriptor_fields
    PROVE  /\ Remaining >= DescriptorSize /\ check_descriptor_fields(d)
           /\ Utf8(read_name(d)) /\ type_ok(d.type_id, read_parameters(d)) /\ insert(d)
           /\ schema.columns[k] = [ id |-> d.column_id, name |-> read_name(d),
                 type |-> parse_type(d.type_id, read_parameters(d)),
                 nullable |-> d.flags = NULLABLE_COLUMN_FLAG ]
           /\ position + d.length = Placed(schema.columns, k)
<1> DEFINE list == schema.columns
           n == Len(list)
           S == DescriptorSize
           c == list[k]
           e == descriptor(c)
           p == type_id_and_parameters(c.type)
           name == c.name
           cells == frame.payload
<1>1. list \in Seq(Columns(Int)) /\ n \in Nat
  BY SchemaColumns
<1>2. k \in 1..n /\ k - 1 = Len(columns) /\ k - 1 \in 0..n
  BY <1>1
<1>3. /\ c \in Columns(Scales) /\ c \in Columns(Int) /\ c.id # 0 /\ has_parameters(c.type)
      /\ Len(name) <= MaxFieldLength /\ Len(p) <= MaxFieldLength
      /\ \A i \in 1..n : i # k => list[i].id # c.id /\ list[i].name # name
  BY <1>2, OwnColumn DEF Written
<1>4. cells = descriptors(list)
  BY BuiltFrame DEF Written
<1>5. cells \in Seq(Nat)
  BY <1>1, <1>4, DescriptorsType
<1>6. /\ position = Placed(list, k - 1) /\ position \in Nat
      /\ Placed(list, k) = position + Len(e) /\ Placed(list, k) <= Placed(list, n)
      /\ Len(cells) = Placed(list, n) /\ Placed(list, n) \in Nat
      /\ \A j \in 1..Len(e) : cells[position + j] = e[j]
  <2>1. position = Placed(list, k - 1)
    BY <1>2 DEF FollowsSchema
  <2>2. /\ \A m \in 0..n : Placed(list, m) \in Nat
        /\ \A m \in 1..n : Placed(list, m) = Placed(list, m - 1) + Len(descriptor(list[m]))
        /\ \A m \in 0..n : Placed(list, m) <= Placed(list, n)
        /\ Len(descriptors(list)) = Placed(list, n)
        /\ \A m \in 1..n : \A j \in 1..Len(descriptor(list[m])) :
              descriptors(list)[Placed(list, m - 1) + j] = descriptor(list[m])[j]
    BY <1>1, DescriptorsLie
  <2> HIDE DEF list, n, cells
  <2>3. k \in 0..n /\ n \in 0..n
    BY <1>1, <1>2
  <2> QED
    BY <1>2, <1>4, <2>1, <2>2, <2>3
<1>7. Describes(e, c, p) /\ p \in Seq(Nat) /\ name \in Seq(Nat)
  BY <1>3, Described
<1>8. Remaining \in Nat /\ Remaining >= Len(e) /\ ReadAs(d, e, c, p)
  <2> HIDE DEF e, c, p, list, n
  <2>1. LiesAt(cells, position, e)
    <3> HIDE DEF cells
    <3> QED
      BY <1>5, <1>6 DEF LiesAt
  <2> QED
    BY <1>7, <2>1, OwnFields
<1>9. /\ d.length = Len(e) /\ d.length \in Nat /\ d.length % Alignment = 0
       /\ d.column_id = c.id /\ d.type_id = c.type.id
       /\ d.flags = (IF c.nullable THEN NULLABLE_COLUMN_FLAG ELSE 0)
       /\ d.name_length = Len(name) /\ d.name_length \in Nat
       /\ d.parameters_length = Len(p) /\ d.parameters_length \in Nat
       /\ S + d.name_length + d.parameters_length <= d.length
       /\ read_name(d) = name /\ read_parameters(d) = p
       /\ S \in Nat /\ d.length >= S /\ d.length <= Remaining /\ Remaining >= S
  <2>1. S \in Nat
    BY Sizes
  <2>2. /\ d.length = Len(e) /\ d.length \in Nat /\ d.length % Alignment = 0
        /\ d.column_id = c.id /\ d.type_id = c.type.id
        /\ d.flags = (IF c.nullable THEN NULLABLE_COLUMN_FLAG ELSE 0)
        /\ d.name_length = Len(name) /\ d.name_length \in Nat
        /\ d.parameters_length = Len(p) /\ d.parameters_length \in Nat
        /\ S + d.name_length + d.parameters_length <= d.length
        /\ read_name(d) = name /\ read_parameters(d) = p
    BY <1>8 DEF ReadAs
  <2>3. /\ d.length \in Nat /\ d.name_length \in Nat /\ d.parameters_length \in Nat
        /\ S + d.name_length + d.parameters_length <= d.length
        /\ Remaining \in Nat /\ d.length <= Remaining
    BY <1>8, <2>2
  <2> HIDE DEF S, e, name, p, c
  <2>4. d.length >= S
    BY <2>1, <2>3
  <2>5. Remaining >= S
    BY <2>1, <2>3, <2>4
  <2> QED
    BY <2>1, <2>2, <2>3, <2>4, <2>5
<1>10. check_descriptor_fields(d)
  <2>1. d.flags \in {0, NULLABLE_COLUMN_FLAG}
    BY <1>9
  <2> HIDE DEF e, name, p
  <2> QED
    BY <1>3, <1>9, <2>1 DEF check_descriptor_fields
<1>11. name \in Text /\ name \in Seq(Nat) /\ Utf8(name)
  BY <1>3, TextCells DEF Columns
<1> HIDE DEF cells, c, list, name, p, e, S
<1>12. type_ok(c.type.id, p) /\ parse_type(c.type.id, p) = c.type
  <2>1. c.type \in LogicalTypes(Scales)
    BY <1>3 DEF Columns
  <2> QED
    BY <1>3, <2>1, TypeSurvives DEF p
<1>13. insert(d)
  <2>1. \A i \in DOMAIN columns : i \in 1..n /\ i # k /\ columns[i] = list[i]
    BY <1>1, <1>2 DEF FollowsSchema, list
  <2> QED
    BY <1>3, <1>9, <2>1 DEF insert, name
<1>14. c = [id |-> c.id, name |-> name, type |-> c.type, nullable |-> c.nullable]
       /\ c.nullable \in BOOLEAN
  BY <1>3 DEF Columns, name
<1>15. (d.flags = NULLABLE_COLUMN_FLAG) = c.nullable
  BY <1>9, <1>14 DEF NULLABLE_COLUMN_FLAG
<1>16. c = [ id |-> d.column_id, name |-> read_name(d),
             type |-> parse_type(d.type_id, read_parameters(d)),
             nullable |-> d.flags = NULLABLE_COLUMN_FLAG ]
  BY <1>9, <1>12, <1>14, <1>15
<1>17. position + d.length = Placed(list, k)
  BY <1>6, <1>9
<1> QED
  BY <1>9, <1>10, <1>11, <1>12, <1>13, <1>16, <1>17 DEF S, c, list

\* Whatever another writer sets differently, it is a frame still.
LEMMA AlteredFrame ==
    ASSUME frame \in Frames, NEW g \in Alterations
    PROVE  g \in Frames
<1> DEFINE cells == frame.payload
<1>1. /\ frame.schema_id \in Nat /\ frame.column_count \in Nat /\ frame.primary_column_id \in Nat
      /\ frame.flags \in Nat /\ cells \in Seq(Nat) /\ Len(cells) \in Nat
  BY DEF Frames
<1>2. ASSUME NEW field \in {"schema_id", "column_count", "primary_column_id", "flags"},
             g \in With(field)
      PROVE  g \in Frames
  <2>1. PICK v \in 0..3 : g = [frame EXCEPT ![field] = v]
    BY <1>2 DEF With
  <2> QED
    BY <2>1 DEF Frames
<1>3. ASSUME NEW list \in Seq(Nat), g = [frame EXCEPT !.payload = list]
      PROVE  g \in Frames
  BY <1>3 DEF Frames
<1>4. ASSUME NEW k \in DOMAIN cells, NEW v \in Cells, g = [frame EXCEPT !.payload[k] = v]
      PROVE  g \in Frames
  <2>1. v \in Nat
    BY SchemaAssumption
  <2> DEFINE list == [cells EXCEPT ![k] = v]
  <2>2. list \in Seq(Nat)
    BY <1>1, <2>1
  <2>3. g = [frame EXCEPT !.payload = list]
    BY <1>4
  <2> HIDE DEF list
  <2> QED
    BY <1>3, <2>2, <2>3
<1>5. ASSUME g = [frame EXCEPT !.payload = cells \o Zeros(Alignment)]
      PROVE  g \in Frames
  <2> DEFINE list == cells \o Zeros(Alignment)
  <2>1. Zeros(Alignment) \in Seq(Nat)
    BY Sizes, ZeroCells
  <2>2. list \in Seq(Nat)
    BY <1>1, <2>1
  <2>3. g = [frame EXCEPT !.payload = list]
    BY <1>5
  <2> HIDE DEF list
  <2> QED
    BY <1>3, <2>2, <2>3
<1>6. ASSUME g = [frame EXCEPT !.payload = SubSeq(cells, 1, Len(cells) - Alignment)]
      PROVE  g \in Frames
  <2> DEFINE l == Len(cells) - Alignment
             list == SubSeq(cells, 1, l)
  <2>1. Alignment \in Nat /\ l \in Int /\ l <= Len(cells)
    BY <1>1, Sizes
  <2>2. list \in Seq(Nat)
    <3> HIDE DEF l
    <3> QED
      BY <1>1, <2>1
  <2>3. g = [frame EXCEPT !.payload = list]
    BY <1>6
  <2> HIDE DEF list
  <2> QED
    BY <1>3, <2>2, <2>3
<1>7. ASSUME g \in CellSet PROVE g \in Frames
  <2>1. PICK k \in DOMAIN cells : g \in {[frame EXCEPT !.payload[k] = v] : v \in Cells}
    BY <1>7 DEF CellSet
  <2>2. PICK v \in Cells : g = [frame EXCEPT !.payload[k] = v]
    BY <2>1
  <2> QED
    BY <1>4, <2>2
<1>8. ASSUME g \in Resized PROVE g \in Frames
  <2>1. \/ g = [frame EXCEPT !.payload = cells \o Zeros(Alignment)]
        \/ g = [frame EXCEPT !.payload = SubSeq(cells, 1, Len(cells) - Alignment)]
    BY <1>8 DEF Resized
  <2> QED
    BY <1>5, <1>6, <2>1
<1> QED
  BY <1>2, <1>7, <1>8 DEF Alterations

\* The primary column of an accepted schema is one of its columns.
LEMMA OwnPrimary ==
    ASSUME schema \in Schemas, Written
    PROVE  /\ {frame.primary_column_id} \ {NO_PRIMARY_COLUMN_ID} = schema.primary
           /\ \/ frame.primary_column_id = NO_PRIMARY_COLUMN_ID
              \/ \E i \in 1..Len(schema.columns) :
                   /\ schema.columns[i].id = frame.primary_column_id
                   /\ is_primary_candidate(schema.columns[i])
<1> DEFINE list == schema.columns
           id == frame.primary_column_id
<1>1. /\ schema.primary = {} => id = 0
      /\ schema.primary # {} => schema.primary = {id}
  BY BuiltFrame DEF Written
<1>2. list \in Seq(Columns(Int)) /\ DOMAIN list = 1..Len(list)
  BY SchemaColumns
<1>3. /\ \A i \in 1..Len(list) : list[i].id # 0
      /\ \A x \in schema.primary : \E i \in 1..Len(list) :
            list[i].id = x /\ is_primary_candidate(list[i])
  BY <1>2 DEF Written, create_accepts, validate_schema
<1> HIDE DEF list, id
<1>4. schema.primary # {} => id # 0 /\ \E i \in 1..Len(list) :
                                  list[i].id = id /\ is_primary_candidate(list[i])
  BY <1>1, <1>3
<1> QED
  BY <1>1, <1>4 DEF list, id, NO_PRIMARY_COLUMN_ID

LEMMA SchemaStarts ==
    ASSUME SchemaInit
    PROVE  SchemaInv
BY DEF SchemaInit, SchemaInv

LEMMA CreateStep ==
    ASSUME SchemaInv, Create
    PROVE  SchemaInv'
<1>1. /\ schema \in Schemas /\ altered \in Nat /\ columns = <<>> /\ position = 0
      /\ UNCHANGED <<schema, altered, columns, position>>
  BY DEF SchemaInv, Create
<1>2. CASE create_accepts(schema)
  <2>1. frame' = build_schema_frame(schema) /\ phase' = "written"
    BY <1>2 DEF Create
  <2>2. frame' \in Frames
    BY <1>1, <2>1, BuiltFrame
  <2>3. create_accepts(schema') /\ frame' = build_schema_frame(schema')
    BY <1>1, <1>2, <2>1
  <2> QED
    BY <1>1, <2>1, <2>2, <2>3 DEF SchemaInv, Written
<1>3. CASE ~create_accepts(schema)
  <2>1. phase' = "refused"
    BY <1>3 DEF Create
  <2> QED
    BY <1>1, <2>1 DEF SchemaInv
<1> QED
  BY <1>2, <1>3

LEMMA CreateElsewhereStep ==
    ASSUME SchemaInv, CreateElsewhere
    PROVE  SchemaInv'
<1>1. /\ schema \in Schemas /\ altered \in Nat /\ columns = <<>> /\ position = 0
      /\ UNCHANGED <<schema, columns, position>>
      /\ frame' = build_schema_frame(schema) /\ phase' = "written" /\ altered' = altered + 1
  BY DEF SchemaInv, CreateElsewhere
<1>2. frame' \in Frames
  BY <1>1, BuiltFrame
<1>3. altered' \in Nat /\ altered' # 0
  BY <1>1
<1> QED
  BY <1>1, <1>2, <1>3 DEF SchemaInv

LEMMA AlterStep ==
    ASSUME SchemaInv, Alter
    PROVE  SchemaInv'
<1>1. /\ schema \in Schemas /\ altered \in Nat /\ columns = <<>> /\ position = 0
      /\ phase = "written" /\ frame \in Frames
      /\ UNCHANGED <<schema, columns, position, phase>>
      /\ frame' \in Alterations /\ altered' = altered + 1
  BY DEF SchemaInv, Alter
<1>2. frame' \in Frames
  BY <1>1, AlteredFrame
<1>3. altered' \in Nat /\ altered' # 0
  BY <1>1
<1> QED
  BY <1>1, <1>2, <1>3 DEF SchemaInv

LEMMA ReadHeaderStep ==
    ASSUME SchemaInv, ReadHeader
    PROVE  SchemaInv'
<1>1. /\ schema \in Schemas /\ altered \in Nat /\ columns = <<>> /\ position = 0
      /\ frame \in Frames
      /\ altered = 0 => Written
      /\ UNCHANGED <<schema, frame, altered, columns, position>>
  BY DEF SchemaInv, ReadHeader, Fails
<1> DEFINE Ok == Len(frame.payload) <= MaxPayloadLength /\ check_header
<1>2. CASE Ok
  <2>1. phase' = "columns"
    BY <1>2 DEF ReadHeader
  <2>2. <<>> \in Seq(Columns(Int)) /\ Len(<<>>) = 0
    OBVIOUS
  <2>3. Len(descriptors(<<>>)) = 0
    <3> DEFINE list == <<>>
    <3>1. list \in Seq(Columns(Int)) /\ Len(list) = 0
      OBVIOUS
    <3> HIDE DEF list
    <3>2. Len(descriptors(list)) = Placed(list, Len(list)) /\ Placed(list, 0) = 0
      BY <3>1, DescriptorsLie
    <3> QED
      BY <3>1, <3>2 DEF list
  <2>4. frame.column_count \in Nat /\ Len(frame.payload) \in Nat
    BY <1>1 DEF Frames
  <2>5. ReadInv
    BY <1>1, <1>2, <2>2, <2>3, <2>4 DEF ReadInv
  <2>6. ReadInv'
    BY <1>1, <2>5 DEF ReadInv, check_header
  <2>7. ASSUME altered = 0 PROVE FollowsSchema
    <3>1. schema.columns \in Seq(Columns(Int)) /\ Len(schema.columns) \in Nat
      BY <1>1, SchemaColumns
    <3>2. Placed(schema.columns, 0) = 0
      BY <3>1, DescriptorsLie
    <3> QED
      BY <1>1, <2>2, <3>1, <3>2 DEF FollowsSchema
  <2>8. altered' = 0 => Written' /\ FollowsSchema'
    BY <1>1, <2>7 DEF Written, FollowsSchema
  <2> QED
    BY <1>1, <2>1, <2>6, <2>8 DEF SchemaInv
<1>3. CASE ~Ok
  <2>1. phase' = "failed"
    BY <1>3 DEF ReadHeader, Fails
  <2>2. altered # 0
    BY <1>1, <1>3, OwnHeader
  <2> QED
    BY <1>1, <2>1, <2>2 DEF SchemaInv
<1> QED
  BY <1>2, <1>3

LEMMA ReadEndStep ==
    ASSUME SchemaInv, ReadEnd
    PROVE  SchemaInv'
<1>1. /\ schema \in Schemas /\ altered \in Nat /\ frame \in Frames /\ ReadInv
      /\ altered = 0 => Written /\ FollowsSchema
      /\ Len(columns) = frame.column_count
      /\ UNCHANGED <<schema, frame, altered, columns, position>>
  BY DEF SchemaInv, ReadEnd, Fails
<1> DEFINE Ok == Remaining = 0 /\ resolve_primary
<1>2. CASE Ok
  <2>1. phase' = "read" /\ resolve_primary
    BY <1>2 DEF ReadEnd
  <2>2. ReadInv' /\ resolve_primary' /\ Len(columns') = frame'.column_count
    BY <1>1, <2>1 DEF ReadInv, check_header, resolve_primary
  <2>3. altered' = 0 => Written' /\ FollowsSchema'
    BY <1>1 DEF Written, FollowsSchema
  <2> QED
    BY <1>1, <2>1, <2>2, <2>3 DEF SchemaInv
<1>3. CASE ~Ok
  <2>1. phase' = "failed"
    BY <1>3 DEF ReadEnd, Fails
  <2>2. ASSUME altered = 0 PROVE Ok
    <3> DEFINE list == schema.columns
    <3>1. Written /\ FollowsSchema /\ list \in Seq(Columns(Int)) /\ Len(list) \in Nat
      BY <1>1, <2>2, SchemaColumns
    <3>2. frame.column_count = Len(list) /\ frame.payload = descriptors(list)
      BY <1>1, <3>1, BuiltFrame DEF Written
    <3>3. Len(columns) = Len(list)
      BY <1>1, <3>2
    <3>4. position = Placed(list, Len(list))
      BY <3>1, <3>3 DEF FollowsSchema
    <3>5. Len(descriptors(list)) = Placed(list, Len(list)) /\ position \in Nat
      BY <1>1, <3>1, DescriptorsLie DEF ReadInv
    <3>6. Remaining = 0
      BY <3>2, <3>4, <3>5 DEF Remaining
    <3>7. DOMAIN columns = 1..Len(list) /\ \A i \in 1..Len(list) : columns[i] = list[i]
      BY <1>1, <3>1, <3>3 DEF FollowsSchema, ReadInv
    <3>8. \/ frame.primary_column_id = NO_PRIMARY_COLUMN_ID
          \/ \E i \in 1..Len(list) : /\ list[i].id = frame.primary_column_id
                                     /\ is_primary_candidate(list[i])
      BY <1>1, <3>1, OwnPrimary
    <3> HIDE DEF list
    <3>9. resolve_primary
      BY <3>7, <3>8 DEF resolve_primary
    <3> QED
      BY <3>6, <3>9
  <2>3. altered # 0
    BY <1>3, <2>2
  <2> QED
    BY <1>1, <2>1, <2>3 DEF SchemaInv
<1> QED
  BY <1>2, <1>3

LEMMA ReadDescriptorStep ==
    ASSUME SchemaInv, ReadDescriptor
    PROVE  SchemaInv'
<1>1. /\ schema \in Schemas /\ altered \in Nat /\ frame \in Frames /\ ReadInv
      /\ phase = "columns" /\ Len(columns) < frame.column_count
      /\ UNCHANGED <<schema, frame, altered>>
  BY DEF SchemaInv, ReadDescriptor
<1>2. altered = 0 => Written /\ FollowsSchema
  BY <1>1 DEF SchemaInv
<1>3. PICK d : d = parse_descriptor_fields
  OBVIOUS
<1> DEFINE Ok == /\ check_descriptor_fields(d)
                 /\ Utf8(read_name(d)) /\ type_ok(d.type_id, read_parameters(d)) /\ insert(d)
           Room == Remaining >= DescriptorSize
           next == [ id |-> d.column_id, name |-> read_name(d),
                     type |-> parse_type(d.type_id, read_parameters(d)),
                     nullable |-> d.flags = NULLABLE_COLUMN_FLAG ]
<1>4. /\ columns \in Seq(Columns(Int)) /\ Len(columns) \in Nat
      /\ position \in Nat /\ position <= Len(frame.payload)
      /\ frame.column_count \in Nat /\ frame.payload \in Seq(Nat) /\ Len(frame.payload) \in Nat
  BY <1>1 DEF ReadInv, Frames
<1>5. Remaining \in Int /\ DescriptorSize \in Nat
  BY <1>4, Sizes DEF Remaining
<1>6. ASSUME altered = 0
      PROVE  /\ Room /\ Ok
             /\ Len(columns) + 1 <= Len(schema.columns)
             /\ schema.columns[Len(columns) + 1] = next
             /\ position + d.length = Placed(schema.columns, Len(columns) + 1)
  <2>1. Written /\ FollowsSchema /\ Len(schema.columns) \in Nat
    BY <1>1, <1>2, <1>6, SchemaColumns
  <2>2. frame.column_count = Len(schema.columns)
    BY <1>1, <2>1, BuiltFrame DEF Written
  <2>3. Len(columns) + 1 <= Len(schema.columns)
    BY <1>1, <1>4, <2>1, <2>2
  <2> QED
    BY <1>1, <1>3, <1>4, <2>1, <2>3, OwnDescriptor
<1>7. CASE Room /\ Ok
  <2>1. /\ columns' = Append(columns, next) /\ position' = position + d.length
        /\ phase' = phase
    BY <1>3, <1>5, <1>7 DEF ReadDescriptor
  <2>2. /\ Accepted(next) /\ d.length \in Nat
        /\ position + d.length <= Len(frame.payload)
        /\ Len(descriptor(next)) <= d.length
        /\ \A i \in DOMAIN columns : columns[i].id # next.id /\ columns[i].name # next.name
    BY <1>1, <1>3, <1>4, <1>7, AcceptedDescriptor
  <2> DEFINE k == Len(columns) + 1
  <2>3. altered = 0 => /\ k <= Len(schema.columns) /\ schema.columns[k] = next
                       /\ position' = Placed(schema.columns, k)
    BY <1>6, <2>1
  <2> HIDE DEF next
  <2>4. next \in Columns(Int)
    BY <2>2 DEF Accepted
  <2>5. /\ columns' \in Seq(Columns(Int)) /\ Len(columns') = k /\ columns'[k] = next
        /\ \A i \in 1..Len(columns) : columns'[i] = columns[i]
        /\ DOMAIN columns = 1..Len(columns)
    BY <1>4, <2>1, <2>4
  <2>6. Len(descriptors(columns')) <= position'
    <3>1. Len(descriptors(columns')) = Len(descriptors(columns)) + Len(descriptor(next))
      BY <1>4, <2>1, <2>4, DescriptorsAppend
    <3>2. Len(descriptors(columns)) \in Nat /\ Len(descriptors(columns)) <= position
      BY <1>1, <1>4, DescriptorsType DEF ReadInv
    <3>3. Len(descriptor(next)) \in Nat
      BY <2>4, DescriptorCells DEF Describes
    <3> QED
      BY <1>4, <2>1, <2>2, <3>1, <3>2, <3>3
  <2>7. \A i \in 1..k : i \in 1..Len(columns) \/ i = k
    BY <1>4
  <2>8. \A i \in 1..k : Accepted(columns'[i])
    BY <1>1, <2>2, <2>5, <2>7 DEF ReadInv
  <2>9. \A i, j \in 1..k : i # j => columns'[i].id # columns'[j].id
                                     /\ columns'[i].name # columns'[j].name
    <3>1. \A i, j \in 1..Len(columns) :
            i # j => columns[i].id # columns[j].id /\ columns[i].name # columns[j].name
      BY <1>1 DEF ReadInv
    <3> QED
      BY <2>2, <2>5, <2>7, <3>1
  <2>10. position' \in Nat /\ position' <= Len(frame.payload) /\ k <= frame.column_count
    BY <1>1, <1>4, <2>1, <2>2
  <2>11. ReadInv'
    <3>1. Len(frame'.payload) <= MaxPayloadLength /\ check_header'
      BY <1>1 DEF ReadInv, check_header
    <3> QED
      BY <1>1, <2>5, <2>6, <2>8, <2>9, <2>10, <3>1 DEF ReadInv
  <2>12. ASSUME altered = 0 PROVE Written' /\ FollowsSchema'
    <3>1. Written /\ \A i \in 1..Len(columns) : columns[i] = schema.columns[i]
      BY <1>2, <2>12 DEF FollowsSchema
    <3>2. \A i \in 1..k : columns'[i] = schema.columns[i]
      BY <2>3, <2>5, <2>7, <2>12, <3>1
    <3>3. FollowsSchema'
      BY <1>1, <2>3, <2>5, <2>12, <3>2 DEF FollowsSchema
    <3> QED
      BY <1>1, <3>1, <3>3 DEF Written
  <2> QED
    BY <1>1, <2>1, <2>11, <2>12 DEF SchemaInv
<1>8. CASE ~(Room /\ Ok)
  <2>1. phase' = "failed"
    BY <1>3, <1>5, <1>8 DEF ReadDescriptor, Fails
  <2>2. altered # 0
    BY <1>6, <1>8
  <2> QED
    BY <1>1, <2>1, <2>2 DEF SchemaInv
<1> QED
  BY <1>7, <1>8

LEMMA SchemaStutters ==
    ASSUME SchemaInv, UNCHANGED schemaVars
    PROVE  SchemaInv'
<1>1. UNCHANGED <<schema, frame, altered, columns, position, phase>>
  BY DEF schemaVars
<1>2. ReadInv => ReadInv'
  BY <1>1 DEF ReadInv, check_header
<1>3. /\ Written => Written'
      /\ FollowsSchema => FollowsSchema'
      /\ resolve_primary => resolve_primary'
  BY <1>1 DEF Written, FollowsSchema, resolve_primary
<1> QED
  BY <1>1, <1>2, <1>3 DEF SchemaInv

\* The invariant the two properties rest on: what a reader has taken so far of any
\* writer's schema frame this writer would take as well, in no more room than the
\* reader has passed; and while nobody altered the frame of Writer::create, the
\* reader stands at the descriptor of the next column of the schema.
THEOREM SchemaInvariant == SchemaSpec => []SchemaInv
<1>1. SchemaInit => SchemaInv
  BY SchemaStarts
<1>2. SchemaInv /\ [SchemaNext]_schemaVars => SchemaInv'
  BY CreateStep, CreateElsewhereStep, AlterStep, ReadHeaderStep, ReadDescriptorStep,
     ReadEndStep, SchemaStutters DEF SchemaNext
<1> QED
  BY <1>1, <1>2, PTL DEF SchemaSpec

LEMMA InvSurvives ==
    ASSUME SchemaInv
    PROVE  SchemasSurvive
<1> SUFFICES ASSUME altered = 0, phase = "read" PROVE parsed = schema
  BY DEF SchemaInv, SchemasSurvive
<1> DEFINE list == schema.columns
<1>1. /\ schema \in Schemas /\ Written /\ FollowsSchema /\ ReadInv
      /\ Len(columns) = frame.column_count
  BY DEF SchemaInv
<1>2. list \in Seq(Columns(Int)) /\ columns \in Seq(Columns(Int))
  BY <1>1, SchemaColumns DEF ReadInv
<1>3. frame.schema_id = schema.schema_id /\ frame.column_count = Len(list)
  BY <1>1, BuiltFrame DEF Written
<1>4. columns = list
  <2>1. Len(columns) = Len(list) /\ \A i \in 1..Len(columns) : columns[i] = list[i]
    BY <1>1, <1>3 DEF FollowsSchema
  <2> DEFINE I == Columns(Int)
  <2>2. list \in Seq(I) /\ columns \in Seq(I)
    BY <1>2
  <2> HIDE DEF list, I
  <2> QED
    BY <2>1, <2>2
<1>5. {frame.primary_column_id} \ {NO_PRIMARY_COLUMN_ID} = schema.primary
  BY <1>1, OwnPrimary
<1>6. schema = [schema_id |-> schema.schema_id, columns |-> list, primary |-> schema.primary]
  <2>1. schema \in [schema_id : Nat, primary : SUBSET Nat, columns : Seq(Columns(Scales))]
    BY <1>1, Inputs
  <2> QED
    BY <2>1
<1> HIDE DEF list
<1> QED
  BY <1>3, <1>4, <1>5, <1>6 DEF parsed

\* Every schema that Writer::create accepts is read back from its file as it was:
\* for every size of a name, number of columns and set of schemas.
THEOREM SchemasReadBack == SchemaSpec => []SchemasSurvive
BY SchemaInvariant, InvSurvives, PTL

LEMMA InvReopens ==
    ASSUME SchemaInv
    PROVE  AcceptedSchemaReopens
<1> SUFFICES ASSUME phase = "read"
             PROVE  /\ create_accepts(parsed)
                    /\ Len(build_schema_frame(parsed).payload) <= Len(frame.payload)
  BY DEF AcceptedSchemaReopens
<1>1. /\ frame \in Frames /\ ReadInv /\ Len(columns) = frame.column_count /\ resolve_primary
  BY DEF SchemaInv
<1>2. /\ parsed.schema_id = frame.schema_id /\ parsed.columns = columns
      /\ parsed.primary = {frame.primary_column_id} \ {NO_PRIMARY_COLUMN_ID}
  BY DEF parsed
<1>3. build_schema_frame(parsed).payload = descriptors(columns)
  BY <1>2 DEF build_schema_frame
<1>4. Len(descriptors(columns)) <= Len(frame.payload) /\ Len(descriptors(columns)) <= MaxPayloadLength
  <2>1. /\ Len(descriptors(columns)) <= position /\ position <= Len(frame.payload)
        /\ Len(frame.payload) <= MaxPayloadLength
        /\ position \in Nat /\ columns \in Seq(Columns(Int))
    BY <1>1 DEF ReadInv
  <2>2. Len(descriptors(columns)) \in Nat
    BY <2>1, DescriptorsType
  <2>3. Len(frame.payload) \in Nat /\ MaxPayloadLength \in Nat
    BY <1>1, Sizes DEF Frames
  <2> QED
    BY <2>1, <2>2, <2>3
<1>5. DOMAIN columns = 1..Len(columns)
  BY <1>1 DEF ReadInv
<1>6. validate_schema(parsed)
  <2>1. parsed.schema_id # 0 /\ Len(parsed.columns) \in 1..MaxSchemaColumns
    BY <1>1, <1>2 DEF ReadInv, check_header
  <2>2. \A i \in DOMAIN parsed.columns :
          /\ parsed.columns[i].id # 0
          /\ has_parameters(parsed.columns[i].type)
          /\ Len(parsed.columns[i].name) <= MaxFieldLength
    BY <1>1, <1>2, <1>5 DEF ReadInv, Accepted
  <2>3. Distinct(parsed, "id") /\ Distinct(parsed, "name")
    BY <1>1, <1>2, <1>5 DEF ReadInv, Distinct
  <2>4. \A id \in parsed.primary : \E i \in DOMAIN parsed.columns :
          parsed.columns[i].id = id /\ is_primary_candidate(parsed.columns[i])
    BY <1>1, <1>2 DEF resolve_primary
  <2> QED
    BY <2>1, <2>2, <2>3, <2>4 DEF validate_schema
<1>7. within_limits(parsed)
  <2>1. \A i \in DOMAIN parsed.columns :
          Len(type_id_and_parameters(parsed.columns[i].type)) <= MaxFieldLength
    BY <1>1, <1>2, <1>5 DEF ReadInv, Accepted
  <2> QED
    BY <1>3, <1>4, <2>1 DEF within_limits
<1> QED
  BY <1>3, <1>4, <1>6, <1>7 DEF create_accepts

\* A schema frame a reader accepts of any writer passes every check of
\* Writer::create, which would need no more room for it: Writer::open goes on with
\* every file that Reader::open reads, whoever wrote the schema.
THEOREM AcceptedFramesReopen == SchemaSpec => []AcceptedSchemaReopens
BY SchemaInvariant, InvReopens, PTL

=============================================================================
