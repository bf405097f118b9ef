------------------------------ MODULE ActaFile ------------------------------
(***************************************************************************)
(* The bytes of one Acta file, as the discovery walk of format/scan.rs     *)
(* sees them.                                                              *)
(*                                                                         *)
(* A file is the sequence of the runs of bytes that write_all calls have   *)
(* left in it.  The first run is the prologue with the schema frame        *)
(* (sequence 0), every other one a data frame.  A run records what its     *)
(* prefix and header declare (sequence, base row ID, row count), what its  *)
(* payload holds, the offset of its first byte and how much of it has      *)
(* reached the file, in units: the first unit of a frame is its prefix,    *)
(* and the more rows a frame has the more units it takes.  A run with      *)
(* fewer units than its frame is one whose write stopped half way.         *)
(*                                                                         *)
(* Left out: checksums (a run that another one interrupts fails its CRC)   *)
(* and column contents (a payload is one of a set of bodies).              *)
(***************************************************************************)
EXTENDS Integers, Sequences, FiniteSets

CONSTANTS
    Bodies,         \* what the payload of a frame may hold
    NoBody,         \* the payload of a schema frame
    RowIds,         \* whether the prologue enables implicit row IDs
    UNAVAILABLE_BASE_ROW_ID     \* what a file without them stores: UINT64_MAX

ASSUME BodiesAssumption == NoBody \notin Bodies
ASSUME RowIdsAssumption == RowIds \in BOOLEAN /\ UNAVAILABLE_BASE_ROW_ID \in Nat

\* A frame as its writer builds it, and a run of its bytes in a file.
FrameSet == [sequence : Nat, base_row_id : Nat, row_count : Nat,
             body : Bodies \cup {NoBody}]

Run == [sequence : Nat, base_row_id : Nat, row_count : Nat,
        body : Bodies \cup {NoBody}, offset : Nat, units : Nat \ {0}]

FrameOf(run) == [ sequence |-> run.sequence, base_row_id |-> run.base_row_id,
                  row_count |-> run.row_count, body |-> run.body ]

\* The length a frame's prefix declares.  The prologue and the schema frame are
\* written one after the other; a data frame grows with its rows.
TotalLength(frame) == IF frame.sequence = 0 THEN 2 ELSE frame.row_count + 1

FileSize(f) == IF f = <<>> THEN 0 ELSE f[Len(f)].offset + f[Len(f)].units

\* The first implicit row ID.
FIRST_BASE_ROW_ID == 0

SCHEMA_FRAME_SEQUENCE == 0

FIRST_DATA_FRAME_SEQUENCE == 1

\* The base row ID the walk requires of run k, carried from the run before it.
ExpectedBase(f, k) ==
    IF ~RowIds THEN UNAVAILABLE_BASE_ROW_ID
    ELSE IF k <= 2 THEN FIRST_BASE_ROW_ID
    ELSE f[k-1].base_row_id + f[k-1].row_count

\* A frame present in full whose prefix, trailer and row-ID chain all agree.
CompleteFrame(f, k) ==
    /\ f[k].units = TotalLength(f[k])
    /\ f[k].sequence = k - 1
    /\ k > 1 => f[k].base_row_id = ExpectedBase(f, k)

\* How many frames the walk accepts before it stops, schema frame included.
FrameCount(f) ==
    Cardinality({n \in 1..Len(f) : \A k \in 1..n : CompleteFrame(f, k)})

(***************************************************************************)
(* The walk of a file.  The run it stops at is an interrupted append when  *)
(* its prefix is sound and the declared length passes the end of the file; *)
(* a run that is present in full, or filled up by the bytes of a later     *)
(* one, and still not a valid frame, is corruption.                        *)
(***************************************************************************)
IncompleteTailAt(f, n) ==
    /\ f[n+1].sequence = n
    /\ f[n+1].units < TotalLength(f[n+1])
    /\ FileSize(f) - f[n+1].offset < TotalLength(f[n+1])

Walk(f) ==
    LET n == FrameCount(f) IN
    [ frame_count      |-> n,
      file_size        |-> FileSize(f),
      last_good_offset |-> IF n = 0 THEN 0 ELSE f[n].offset + f[n].units,
      next_sequence    |-> n,
      next_row_id      |-> IF n = 0 \/ ~RowIds THEN FIRST_BASE_ROW_ID
                           ELSE ExpectedBase(f, n + 1),
      incomplete_tail  |-> n < Len(f) /\ IncompleteTailAt(f, n),
      corruption       |-> n < Len(f) /\ ~IncompleteTailAt(f, n) ]

\* What a walk returns (Walk and RecoveryPlan).
Plans == [ frame_count : Nat, file_size : Nat, last_good_offset : Nat,
           next_sequence : Nat, next_row_id : Nat,
           incomplete_tail : BOOLEAN, corruption : BOOLEAN ]

\* FileScan::from_file fails before any walk when the file ends inside its
\* prologue or its schema frame: nothing declares columns yet.
HasSchemaFrame(f) == FrameCount(f) >= 1

\* The committed data frames: what a reader of the file may expose.
DataFrames(f) ==
    LET n == FrameCount(f) IN
    IF n = 0 THEN <<>>
    ELSE [ k \in 1..(n - 1) |-> FrameOf(f[k+1]) ]

\* A file in which every frame follows the one before it and only the last may
\* be cut short: what sessions that cooperate leave behind.
WellFormedAt(f, k) ==
    /\ f[k].sequence = k - 1
    /\ f[k].offset = IF k = 1 THEN 0 ELSE f[k-1].offset + f[k-1].units
    /\ f[k].units <= TotalLength(f[k])
    /\ k < Len(f) => f[k].units = TotalLength(f[k])
    /\ k > 1 => f[k].row_count > 0
    /\ k > 1 => f[k].base_row_id = ExpectedBase(f, k)

WellFormed(f) == \A k \in 1..Len(f) : WellFormedAt(f, k)

\* The prologue and the schema frame are there in full.
HeaderComplete(f) == f # <<>> /\ f[1].units = TotalLength(f[1])

\* A file that ends with a complete frame.
Whole(f) == WellFormed(f) /\ f # <<>> /\ f[Len(f)].units = TotalLength(f[Len(f)])

(***************************************************************************)
(* One more unit of a frame reaches the end of the file.  Every handle is  *)
(* opened in append mode, so a write continues its own run only while that *)
(* run is still the last one.                                              *)
(***************************************************************************)
AppendUnit(f, frame, done) ==
    IF /\ done > 0
       /\ f # <<>>
       /\ FrameOf(f[Len(f)]) = frame
       /\ f[Len(f)].units = done
    THEN [f EXCEPT ![Len(f)].units = done + 1]
    ELSE Append(f, [ sequence    |-> frame.sequence,
                     base_row_id |-> frame.base_row_id,
                     row_count   |-> frame.row_count,
                     body        |-> frame.body,
                     offset      |-> FileSize(f),
                     units       |-> 1 ])

\* What a disk that lost its cache may hold of f: some prefix of its bytes.
CutTo(f, k, u) ==
    IF u = 0 \/ k >= Len(f) THEN SubSeq(f, 1, k)
    ELSE Append(SubSeq(f, 1, k), [f[k+1] EXCEPT !.units = u])
=============================================================================
