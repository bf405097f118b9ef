------------------------------ MODULE ActaLive ------------------------------
(***************************************************************************)
(* A reader and its tail (ActaReader) following a path on which processes  *)
(* of ActaSession create, append, die and repair.  They share nothing but  *)
(* the path and the bytes of its files.  Power is not lost here: no reader *)
(* survives it, and one that starts afterwards meets complete and torn     *)
(* files, which the death of a writing process leaves as well.             *)
(***************************************************************************)
EXTENDS ActaSession

CONSTANTS
    NoFrame,        \* bytes that are not a frame
    MaxBlocks       \* Limits::max_blocks

ASSUME MaxBlocksAssumption == MaxBlocks \in Nat

VARIABLES rpc, snapshot, scan, tail, outcome

R == INSTANCE ActaReader

readerVars == <<rpc, snapshot, scan, tail, outcome>>

lvars == <<vars, readerVars>>

LiveInit == Init /\ R!ReaderInit

LiveNext ==
    \/ ProcessNext /\ UNCHANGED readerVars
    \/ R!ReaderNext /\ UNCHANGED vars

LiveSpec == LiveInit /\ [][LiveNext]_lvars

-----------------------------------------------------------------------------
(* Properties                                                              *)

BlockFrames == [k \in 1..Len(snapshot.blocks) |-> snapshot.blocks[k].frame]

\* A reader exposes committed frames only, in order and without a gap, although
\* it reads without the lock while frames are written, torn, cut off by repair
\* and written again in the same place (Reader::open, Reader::refresh).
SnapshotIsCommitted ==
    /\ Len(BlockFrames) <= Len(Committed)
    /\ BlockFrames = SubSeq(Committed, 1, Len(BlockFrames))

\* The resume point a snapshot carries is where its last block ends in the file,
\* so the next refresh neither skips nor repeats a frame (resume_point).
ResumesAfterLastBlock ==
    R!HasSnapshot /\ snapshot.source = path =>
        LET n == Len(snapshot.blocks) + 1
            last == data[path][n]
        IN  /\ snapshot.next_sequence = n
            /\ snapshot.last_good_offset = last.offset + last.units
            /\ snapshot.commit_anchor = FrameOf(last)
            /\ RowIds => snapshot.next_row_id = ExpectedBase(data[path], n + 1)

\* Writers and repairs that cooperate never make a refresh refuse its own file:
\* neither as replaced nor as truncated (expect_own_committed_bytes).
NoFalseRefusal ==
    R!HasSnapshot /\ snapshot.identity = snapshot.source =>
        outcome \notin {"file_replaced", "file_truncated"}

\* A poll that returns None has dispatched every block that was committed when
\* it began: a caller that waits on None never waits on data that had arrived
\* (Tail::poll_next).
NoneMeansCaughtUp ==
    tail.live /\ outcome = "pending" /\ ~tail.polling => tail.next_block >= tail.asked

\* The batch a poll returns is the committed block at the tail's position: none
\* is skipped, repeated or taken from another frame (decode_next).
TailDeliversCommitted ==
    tail.live /\ outcome = "batch" /\ tail.batch # NoFrame =>
        tail.batch = Committed[tail.next_block]

\* A call that fails leaves the snapshot untouched, and one that succeeds only
\* extends it (the staged commit at the end of Reader::refresh).
SnapshotOnlyExtends ==
    [][ R!HasSnapshot /\ snapshot' # R!NoSnapshot =>
          /\ outcome' # outcome /\ outcome' \in R!Failures => snapshot' = snapshot
          /\ Len(snapshot.blocks) <= Len(snapshot'.blocks)
          /\ SubSeq(snapshot'.blocks, 1, Len(snapshot.blocks)) = snapshot.blocks
          /\ snapshot'.identity = snapshot.identity ]_lvars
=============================================================================
