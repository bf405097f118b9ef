------------------------------ MODULE ActaLog ------------------------------
(***************************************************************************)
(* What an Acta path promises its users, whatever processes write, repair  *)
(* and die on it: a log of committed data frames that grows by one frame   *)
(* at a time, with contiguous sequence numbers and row IDs, of which a     *)
(* loss of power takes at most a suffix that nobody was told is durable.   *)
(***************************************************************************)
EXTENDS Integers, Sequences

CONSTANT RowIds     \* whether frames carry implicit row IDs

VARIABLES
    log,        \* the committed data frames
    durable     \* the frames last reported durable

Init == log = <<>> /\ durable = <<>>

\* The frame that may follow the frames of s.
Continues(s, frame) ==
    /\ frame.sequence = Len(s) + 1
    /\ frame.row_count > 0
    /\ RowIds => frame.base_row_id =
                   IF s = <<>> THEN 0
                   ELSE s[Len(s)].base_row_id + s[Len(s)].row_count

\* Losing nothing is the common case: the disjunct a checker should try first.
Lose ==
    /\ UNCHANGED durable
    /\ LET left == log'
           held == log
       IN  /\ Len(left) \in Len(durable)..Len(held)
           /\ left = SubSeq(held, 1, Len(left))

Publish ==
    /\ UNCHANGED durable
    /\ LET grown == log'
           held == log
       IN  /\ Len(grown) = Len(held) + 1
           /\ SubSeq(grown, 1, Len(held)) = held
           /\ Continues(held, grown[Len(held) + 1])

Acknowledge ==
    /\ durable' = log
    /\ UNCHANGED log

Next == Lose \/ Publish \/ Acknowledge

Spec == Init /\ [][Next]_<<log, durable>>
=============================================================================
