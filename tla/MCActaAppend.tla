---------------------------- MODULE MCActaAppend ----------------------------
(* One nullable variable-width column beside one of floats.                *)
EXTENDS ActaAppend

MCSchema == << [kind |-> "variable", width |-> 0, primary |-> FALSE],
               [kind |-> "fixed", width |-> 8, primary |-> FALSE] >>

Text(n) == [valid |-> TRUE, bytes |-> n, nan |-> FALSE]
Null == [valid |-> FALSE, bytes |-> 0, nan |-> FALSE]
Float == [valid |-> TRUE, bytes |-> 0, nan |-> FALSE]
NaN == [valid |-> TRUE, bytes |-> 0, nan |-> TRUE]

\* A short row, one with a null and a NaN, one larger than the byte target, and
\* one larger than any block.
Short == <<Text(3), Float>>
Sparse == <<Null, NaN>>
Wide == <<Text(100), Float>>
Huge == <<Text(480), Float>>

MCRows == {Short, Sparse, Wide, Huge}
=============================================================================
