----------------------------- MODULE MCActaScan -----------------------------
(* Two columns, one of two streams; blocks of the writer and blocks whose  *)
(* claims, checksums or contents are false.                                *)
EXTENDS ActaScan

MCColumns == <<"t", "v">>
MCStreams == [c \in {"t", "v"} |-> IF c = "t" THEN <<"t">> ELSE <<"v?", "v">>]
MCValueBytes == [s \in {"t", "v?", "v"} |-> IF s = "v?" THEN 1 ELSE 2]
MCPackedBytes == [s \in {"t", "v?", "v"} |-> 1]

Written(values) ==
    LET truth == primary_metadata(values)
    IN  [values |-> values, min |-> truth.min, max |-> truth.max,
         sorted |-> truth.sorted, wrong |-> {}, packed |-> {}, broken |-> {}]

Ascending == [Written(<<1, 1, 2>>) EXCEPT !.packed = {"v"}]
Disguised == [Written(<<3, 1, 2>>) EXCEPT !.sorted = TRUE]
Truncated == [Written(<<2>>) EXCEPT !.packed = {"v"}, !.broken = {Step("transformed", "v")}]

\* No snapshot has room for a third block: any one will do.
MCBlocks(position) ==
    CASE position = 1 -> { Written(<<1>>), Ascending, Written(<<3, 1, 2>>), Disguised,
                           [Written(<<1, 3>>) EXCEPT !.max = 2],
                           [Written(<<2>>) EXCEPT !.wrong = {"v"}], Truncated }
      [] position = 2 -> {Ascending, Written(<<1, 3>>)}
      [] OTHER -> {Written(<<1>>)}

MCProjections == {<<"v">>, <<"v", "t">>, <<"v", "v">>, <<"x">>}

MCRanges == { [type |-> "timestamp", start |-> 2, end |-> 3],
              [type |-> "timestamp", start |-> 1, end |-> 1],
              [type |-> "date", start |-> 1, end |-> 3] }
=============================================================================
