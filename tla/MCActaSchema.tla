---------------------------- MODULE MCActaSchema ----------------------------
(* Schemas of one to three columns, in cells aligned to four.              *)
EXTENDS ActaSchema

Column(id, name, type, nullable) == [id |-> id, name |-> name, type |-> type, nullable |-> nullable]

Plain(id) == [id |-> id]
Decimal(precision, scale) == [id |-> TYPE_DECIMAL64, precision |-> precision, scale |-> scale]
Timestamp(zone, name) == [id |-> TYPE_TIMESTAMP64, unit |-> 3, zone |-> zone, name |-> name]
Categorical(ordered) == [id |-> TYPE_CATEGORICAL, ordered |-> ordered]
FixedBinary(width) == [id |-> TYPE_FIXED_BINARY, byte_width |-> width]

Name(length) == [i \in 1..length |-> 1]

\* Every type, records at and past their limits, names with and without padding.
Types == { Plain(id) : id \in {1, TYPE_DATE32} }
    \cup { Decimal(p, s) : p \in {0, 1, 18, 19}, s \in {-16, -1, 0, 15} }
    \cup { Timestamp("Naive", <<>>), Timestamp("Utc", <<>>) }
    \cup { Timestamp("Iana", Name(n)) : n \in 0..5 }
    \cup { Categorical(o) : o \in BOOLEAN } \cup { FixedBinary(w) : w \in {0, 1, 31} }

OneColumn ==
    { [schema_id |-> i, primary |-> p, columns |-> <<Column(c, Name(n), t, nullable)>>] :
        i \in {0, 7}, p \in {{}, {0}, {1}, {2}}, c \in {0, 1}, n \in {0, 1, 4, 8, 9},
        t \in Types, nullable \in BOOLEAN }

Few == { Plain(1), Plain(TYPE_DATE32), Decimal(18, -1), Timestamp("Iana", Name(2)) }

TwoColumns ==
    { [schema_id |-> 7, primary |-> p,
       columns |-> <<Column(2, Name(1), t, FALSE), Column(c, Name(n), u, nullable)>>] :
        p \in {{}, {1}, {2}}, c \in {1, 2}, n \in {0, 1, 5}, t \in Few, u \in Few,
        nullable \in BOOLEAN }

ThreeColumns ==
    { [schema_id |-> 7, primary |-> {},
       columns |-> [i \in 1..3 |-> Column(i, Name(i), Plain(1), FALSE)]] }

\* The schemas another writer had a hand in.
ForeignSchemas ==
    { [schema_id |-> 7, primary |-> {2},
       columns |-> <<Column(2, Name(1), Timestamp("Iana", Name(2)), FALSE),
                     Column(1, Name(2), t, TRUE)>>] :
        t \in {Plain(1), Categorical(TRUE)} }
    \cup { [schema_id |-> 7, primary |-> {},
            columns |-> <<Column(1, Name(3), Decimal(18, -1), TRUE), Column(2, <<>>, Plain(1), FALSE)>>] }
MCSchemas == OneColumn \cup TwoColumns \cup ThreeColumns \cup ForeignSchemas

MCMaxAlterations(schema_asked) == IF schema_asked \in ForeignSchemas THEN 2 ELSE 0
=============================================================================
