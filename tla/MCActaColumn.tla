---------------------------- MODULE MCActaColumn ----------------------------
(* Bytes of three bits and words of two bytes.  Each column is on one of    *)
(* three trials: many values, long runs of few values, or few values        *)
(* another writer had a hand in.                                            *)
EXTENDS ActaColumn

Type(trial, family, width, signed, nullable) ==
    [family |-> family, width |-> width, signed |-> signed, nullable |-> nullable,
     primary |-> family = "timestamp", trial |-> trial]

MCColumns ==
    { Type("values", "bool", 1, FALSE, TRUE), Type("values", "bool", 1, FALSE, FALSE),
      Type("values", "number", 1, TRUE, TRUE), Type("values", "number", 2, TRUE, FALSE),
      Type("values", "number", 2, FALSE, TRUE), Type("values", "timestamp", 2, TRUE, FALSE),
      Type("values", "float", 1, FALSE, TRUE), Type("values", "fixed_binary", 2, FALSE, FALSE),
      Type("values", "text", 0, FALSE, TRUE), Type("values", "binary", 0, FALSE, FALSE) }
    \cup UNION
    { { Type(trial, "bool", 1, FALSE, TRUE), Type(trial, "number", 1, TRUE, TRUE),
        Type(trial, "float", 1, FALSE, TRUE), Type(trial, "fixed_binary", 2, FALSE, FALSE),
        Type(trial, "text", 0, FALSE, TRUE) } : trial \in {"runs", "foreign"} }

\* Extremes of each type, and values next to one another.
ManyCells(type) ==
    CASE type.family = "bool" -> BOOLEAN
      [] type.family = "number" /\ type.width = 1 -> {-4, -1, 0, 1, 3}
      [] type.family = "number" /\ type.signed -> {-32, -31, 0, 1, 31}
      [] type.family = "number" /\ ~type.signed -> {0, 1, 2, 31, 32, 63}
      [] type.family = "timestamp" -> {-32, -30, -20, -10, 0, 31}
      [] type.family = "float" -> {<<0>>, <<1>>, <<2>>, <<3>>, <<4>>, <<7>>}
      [] type.family = "fixed_binary" -> {<<0, 1>>, <<1, 0>>, <<7, 7>>}
      [] type.family = "text" -> {<<>>, <<1>>, <<1, 2>>}
      [] type.family = "binary" -> {<<>>, <<7>>, <<7, 7, 7>>}

FewCells(type) ==
    CASE type.family = "bool" -> BOOLEAN
      [] type.family = "number" -> {-4, 3}
      [] type.family = "float" -> {<<0>>, <<7>>}
      [] type.family = "fixed_binary" -> {<<1, 0>>, <<0, 1>>}
      [] type.family = "text" -> {<<>>, <<1>>}

MCCells(type) == IF type.trial = "values" THEN ManyCells(type) ELSE FewCells(type)

MCMaxRows(type) ==
    CASE type.trial = "values" -> IF type.family = "bool" THEN 6 ELSE 4
      [] type.trial = "runs" -> 24
      [] type.trial = "foreign" -> 3

MCBatchSizes(type) == IF type.trial = "runs" THEN {7, 8} ELSE {1}

MCMaxAlterations(type) == IF type.trial = "foreign" THEN 1 ELSE 0

MCPolicies == {"Adaptive"} \cup DOMAIN rank
=============================================================================
