---------------------------- MODULE MCActaFrame -----------------------------
(* Two or three columns of up to two streams, in bytes aligned to two.     *)
EXTENDS ActaFrame

Column(id, nullable) == [id |-> id, nullable |-> nullable]

\* Ids in and out of schema order, with and without a primary column.
ForeignSchemas == { [id |-> 7, primary |-> 1, columns |-> <<Column(2, TRUE), Column(1, FALSE)>>],
                    [id |-> 7, primary |-> 0, columns |-> <<Column(1, TRUE), Column(3, TRUE)>>] }

WideSchemas == { [id |-> 7, primary |-> 2,
                  columns |-> <<Column(5, TRUE), Column(2, FALSE), Column(3, TRUE)>>] }

Encoding(streams, nulls, layout, statistics) ==
    [streams |-> streams, null_count |-> nulls, layout |-> layout, statistics |-> statistics]

Values(length) == [kind |-> 2, length |-> length]
Validity == [kind |-> 1, length |-> 1]

\* Streams of every shape for the three columns the writer lays out, fewer for
\* the two another writer had a hand in.
WideEncodings ==
    { Encoding(<<Values(2)>>, 0, 0, 2), Encoding(<<Values(0)>>, 0, 0, 0),
      Encoding(<<Validity, Values(1)>>, 1, 0, 1), Encoding(<<>>, 2, 0, 0),
      Encoding(<<Values(5), Values(1)>>, 0, 2, 3), Encoding(<<Values(0), Values(0)>>, 0, 1, 0) }

ForeignEncodings ==
    { Encoding(<<Values(2)>>, 0, 0, 2), Encoding(<<Validity, Values(3)>>, 1, 0, 0) }

MCSchemas == WideSchemas \cup ForeignSchemas

MCEncodings(s) == IF s \in WideSchemas THEN WideEncodings ELSE ForeignEncodings

MCMaxAlterations(s) == IF s \in WideSchemas THEN 0 ELSE 2
=============================================================================
