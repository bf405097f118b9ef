----------------------------- MODULE ActaReader -----------------------------
(***************************************************************************)
(* One Reader and its Tail (read/reader.rs, read/tail.rs) over a path that *)
(* other processes change while it reads: Reader::open, Reader::refresh,   *)
(* Tail::poll_next and the discovery walk of format/scan.rs they share.    *)
(* The reader never takes the lock, so every read of the file is a step of *)
(* its own.  The files themselves (path, data) belong to the module that   *)
(* composes this one with the processes that write them.                   *)
(*                                                                         *)
(* Left out: projection, ranges and budgets (a decoded block may yield a   *)
(* batch, nothing, or an error), schema contents.                          *)
(***************************************************************************)
EXTENDS ActaFile

CONSTANTS
    None,           \* no file
    NoFrame,        \* bytes that are not a frame
    MaxBlocks       \* Limits::max_blocks

VARIABLES
    path,           \* the file the path names, or None
    data,           \* the contents of every file
    rpc,            \* where the reader is in its call
    snapshot,       \* the Reader: FileMetadata, blocks and identity
    scan,           \* the FileScan of the call in progress
    tail,           \* the Tail of the reader
    outcome         \* how the last call ended

\* The errors of Reader::open and Reader::refresh.
Failures == {"io", "corruption", "incomplete_schema", "file_replaced",
             "file_truncated", "resource_limit"}

NoSnapshot == [ identity |-> None, source |-> None, header |-> NoFrame, blocks |-> <<>>,
                file_size |-> 0, last_good_offset |-> 0, next_sequence |-> 0,
                next_row_id |-> 0, commit_anchor |-> NoFrame, incomplete_tail |-> FALSE ]

NoScan == [ identity |-> None, handle |-> None, header |-> NoFrame, file_size |-> 0,
            offset |-> 0, sequence |-> 0, expected_base |-> 0, prefix |-> NoFrame,
            staged |-> <<>>, incomplete_tail |-> FALSE ]

NoTail == [ live |-> FALSE, polling |-> FALSE, next_block |-> 0, file |-> None,
            asked |-> 0, batch |-> NoFrame ]

HasSnapshot == snapshot # NoSnapshot

ReaderInit ==
    /\ rpc = "closed"
    /\ snapshot = NoSnapshot
    /\ scan = NoScan
    /\ tail = NoTail
    /\ outcome = "none"

-----------------------------------------------------------------------------
(* Reads of a file that may have changed since its extent was captured.    *)

Starts(f, offset) == {k \in 1..Len(f) : f[k].offset = offset}

\* The prefix at an offset; bytes that no frame starts at are not one.
PrefixAt(f, offset) ==
    IF Starts(f, offset) = {} THEN NoFrame
    ELSE FrameOf(f[CHOOSE k \in Starts(f, offset) : TRUE])

\* The complete frame that starts at an offset: what a read of its header,
\* payload and trailer finds, once they pass the body CRC.
FrameAt(f, offset) ==
    LET whole == {k \in Starts(f, offset) : f[k].units = TotalLength(f[k])}
    IN  IF whole = {} THEN NoFrame ELSE FrameOf(f[CHOOSE k \in whole : TRUE])

\* The body CRC covers the prefix already read too, so the rest of a frame is
\* accepted only behind the same prefix; payload bytes are not part of it.
SamePrefix(a, b) ==
    /\ a.sequence = b.sequence
    /\ a.base_row_id = b.base_row_id
    /\ a.row_count = b.row_count

\* read_commit_trailer: the frame that ends at an offset, as its trailer names it.
CommitTrailer(f, end) ==
    LET ending == {k \in 1..Len(f) : /\ f[k].offset + f[k].units = end
                                     /\ f[k].units = TotalLength(f[k])}
    IN  IF ending = {} THEN NoFrame ELSE FrameOf(f[CHOOSE k \in ending : TRUE])

-----------------------------------------------------------------------------
(* Calls that fail leave the snapshot as it was.                           *)

\* Mutant: the blocks found before the failure are kept.
FailCall_KeepsStaged(kind) ==
    /\ rpc' = IF HasSnapshot THEN "ready" ELSE "closed"
    /\ outcome' = kind
    /\ scan' = NoScan
    /\ tail' = [tail EXCEPT !.polling = FALSE]
    /\ snapshot' = IF HasSnapshot
                   THEN [snapshot EXCEPT !.blocks = @ \o scan.staged]
                   ELSE snapshot

FailCall(kind) ==
    /\ rpc' = IF HasSnapshot THEN "ready" ELSE "closed"
    /\ outcome' = kind
    /\ scan' = NoScan
    /\ tail' = [tail EXCEPT !.polling = FALSE]
    /\ UNCHANGED snapshot

\* Mutant: a poll that had to refresh always reports that nothing is pending.
Refreshed_NoLoop(added) ==
    /\ scan' = NoScan
    /\ rpc' = "ready"
    /\ tail' = [tail EXCEPT !.polling = FALSE]
    /\ outcome' = IF tail.polling THEN "pending" ELSE "refreshed"

\* A refresh that succeeds: a poll goes on to the blocks it added, or returns
\* None when there are none.
Refreshed(added) ==
    /\ scan' = NoScan
    /\ IF tail.polling /\ added > 0
       THEN /\ rpc' = "poll"
            /\ UNCHANGED <<tail, outcome>>
       ELSE /\ rpc' = "ready"
            /\ tail' = [tail EXCEPT !.polling = FALSE]
            /\ outcome' = IF tail.polling THEN "pending" ELSE "refreshed"

-----------------------------------------------------------------------------
(* Reader::open                                                            *)

\* FileIdentity::capture, before the file is opened.
OpenIdentity ==
    /\ rpc = "closed"
    /\ path # None
    /\ scan' = [NoScan EXCEPT !.identity = path]
    /\ rpc' = "open_file"
    /\ outcome' = "none"
    /\ UNCHANGED <<snapshot, tail>>

\* FileScan::from_file: capture the extent, validate prologue and schema frame.
StartScan(handle, offset, sequence, base) ==
    LET f == data[handle] IN
    /\ Len(f) >= 1 /\ f[1].units = TotalLength(f[1])
    /\ scan' = [ NoScan EXCEPT !.identity = scan.identity, !.handle = handle,
                   !.header = FrameOf(f[1]), !.file_size = FileSize(f), !.offset = offset,
                   !.sequence = sequence, !.expected_base = base ]
    /\ rpc' = "walk"
    /\ UNCHANGED <<snapshot, tail, outcome>>

\* The file ends inside its prologue or schema frame.
HeaderMissing(f) == Len(f) = 0 \/ f[1].units < TotalLength(f[1])

OpenFile ==
    /\ rpc = "open_file"
    /\ IF path = None THEN FailCall("io")
       ELSE IF HeaderMissing(data[path]) THEN FailCall("incomplete_schema")
       ELSE StartScan(path, TotalLength(data[path][1]),
                      FIRST_DATA_FRAME_SEQUENCE, FIRST_BASE_ROW_ID)

-----------------------------------------------------------------------------
(* Reader::refresh                                                         *)

\* expect_unchanged: the path must still name the file captured at open.
RefreshIdentity ==
    IF path = None THEN FailCall("io")
    ELSE IF path # snapshot.identity THEN FailCall("file_replaced")
    ELSE /\ rpc' = "refresh_open"
         /\ outcome' = "none"
         /\ UNCHANGED <<snapshot, scan, tail>>

Refresh ==
    /\ rpc = "ready"
    /\ ~tail.live
    /\ RefreshIdentity

\* Mutant: the file must not be shorter than the extent last observed.
RefreshOpen_AtOldExtent ==
    /\ rpc = "refresh_open"
    /\ IF path = None THEN FailCall("io")
       ELSE IF FileSize(data[path]) < snapshot.file_size
       THEN FailCall("file_truncated")
       ELSE /\ scan' = [NoScan EXCEPT !.handle = path, !.identity = snapshot.identity,
                                      !.file_size = FileSize(data[path])]
            /\ rpc' = "refresh_anchor"
            /\ UNCHANGED <<snapshot, tail, outcome>>

\* The second open of the path, and the extent it observes.
RefreshOpen ==
    /\ rpc = "refresh_open"
    /\ IF path = None THEN FailCall("io")
       ELSE IF FileSize(data[path]) < snapshot.last_good_offset
       THEN FailCall("file_truncated")
       ELSE /\ scan' = [NoScan EXCEPT !.handle = path, !.identity = snapshot.identity,
                                      !.file_size = FileSize(data[path])]
            /\ rpc' = "refresh_anchor"
            /\ UNCHANGED <<snapshot, tail, outcome>>

\* expect_own_committed_bytes; at the committed boundary nothing is left to do
\* but to correct the extent and the tail.
RefreshAnchor ==
    /\ rpc = "refresh_anchor"
    /\ LET f == data[scan.handle]
           boundary == snapshot.last_good_offset
       IN  IF FileSize(f) < boundary THEN FailCall("io")
           ELSE IF CommitTrailer(f, boundary) # snapshot.commit_anchor
           THEN FailCall("file_replaced")
           ELSE IF scan.file_size = boundary
           THEN /\ snapshot' = [snapshot EXCEPT !.file_size = boundary,
                                                !.incomplete_tail = FALSE]
                /\ Refreshed(0)
           ELSE /\ rpc' = "refresh_scan"
                /\ UNCHANGED <<snapshot, scan, tail, outcome>>

\* Mutant: the walk restarts at the first data frame.
RefreshScan_FromStart ==
    /\ rpc = "refresh_scan"
    /\ IF HeaderMissing(data[scan.handle]) THEN FailCall("incomplete_schema")
       ELSE StartScan(scan.handle, TotalLength(snapshot.header),
                      FIRST_DATA_FRAME_SEQUENCE, FIRST_BASE_ROW_ID)

\* A second look at the extent, expect_own_file_header, and the resume point.
RefreshScan ==
    /\ rpc = "refresh_scan"
    /\ LET f == data[scan.handle]
       IN  IF HeaderMissing(f) THEN FailCall("incomplete_schema")
           ELSE IF FrameOf(f[1]) # snapshot.header THEN FailCall("file_replaced")
           ELSE StartScan(scan.handle, snapshot.last_good_offset,
                          snapshot.next_sequence, snapshot.next_row_id)

-----------------------------------------------------------------------------
(* walk_data_frames_from, one read at a time                               *)

\* The loop head and the prefix of the next frame.
WalkPrefix ==
    /\ rpc = "walk"
    /\ LET f == data[scan.handle]
           prefix == PrefixAt(f, scan.offset)
       IN  IF scan.offset >= scan.file_size
           THEN rpc' = "walk_end" /\ UNCHANGED <<snapshot, scan, tail, outcome>>
           ELSE IF FileSize(f) <= scan.offset THEN FailCall("io")
           ELSE IF prefix = NoFrame THEN FailCall("corruption")
           ELSE IF prefix.sequence # scan.sequence THEN FailCall("corruption")
           ELSE IF TotalLength(prefix) > scan.file_size - scan.offset
           THEN /\ scan' = [scan EXCEPT !.incomplete_tail = TRUE]
                /\ rpc' = "walk_end"
                /\ UNCHANGED <<snapshot, tail, outcome>>
           ELSE /\ scan' = [scan EXCEPT !.prefix = prefix]
                /\ rpc' = "walk_body"
                /\ UNCHANGED <<snapshot, tail, outcome>>

\* The rest of the frame, its row-ID chain, and the caller's block limit.
WalkBody ==
    /\ rpc = "walk_body"
    /\ LET f == data[scan.handle]
           frame == FrameAt(f, scan.offset)
           end == scan.offset + TotalLength(scan.prefix)
       IN  IF FileSize(f) < end THEN FailCall("io")
           ELSE IF frame = NoFrame THEN FailCall("corruption")
           ELSE IF ~SamePrefix(frame, scan.prefix) THEN FailCall("corruption")
           ELSE IF frame.base_row_id # IF RowIds THEN scan.expected_base
                                       ELSE UNAVAILABLE_BASE_ROW_ID
           THEN FailCall("corruption")
           ELSE IF Len(snapshot.blocks) + Len(scan.staged) >= MaxBlocks
           THEN FailCall("resource_limit")
           ELSE /\ scan' = [scan EXCEPT
                              !.staged = Append(@, [frame |-> frame, offset |-> scan.offset]),
                              !.offset = end,
                              !.sequence = @ + 1,
                              !.expected_base = IF RowIds THEN @ + frame.row_count ELSE @,
                              !.prefix = NoFrame]
                /\ rpc' = "walk"
                /\ UNCHANGED <<snapshot, tail, outcome>>

\* Mutant: the resume point keeps the row ID the walk started from.
WalkedSnapshot_OldRowId(f) ==
    [ identity         |-> scan.identity,
      source           |-> scan.handle,
      header           |-> scan.header,
      blocks           |-> snapshot.blocks \o scan.staged,
      file_size        |-> scan.file_size,
      last_good_offset |-> scan.offset,
      next_sequence    |-> scan.sequence,
      next_row_id      |-> snapshot.next_row_id,
      commit_anchor    |-> CommitTrailer(f, scan.offset),
      incomplete_tail  |-> scan.incomplete_tail ]

\* FileMetadata and blocks as the walk leaves them; f is the file walked.
WalkedSnapshot(f) ==
    [ identity         |-> scan.identity,
      source           |-> scan.handle,
      header           |-> scan.header,
      blocks           |-> snapshot.blocks \o scan.staged,
      file_size        |-> scan.file_size,
      last_good_offset |-> scan.offset,
      next_sequence    |-> scan.sequence,
      next_row_id      |-> scan.expected_base,
      commit_anchor    |-> CommitTrailer(f, scan.offset),
      incomplete_tail  |-> scan.incomplete_tail ]

\* The new commit anchor is read, then blocks and metadata change in one step.
WalkEnd ==
    /\ rpc = "walk_end"
    /\ LET f == data[scan.handle]
       IN  IF FileSize(f) < scan.offset THEN FailCall("io")
           ELSE /\ snapshot' = WalkedSnapshot(f)
                /\ IF HasSnapshot THEN Refreshed(Len(scan.staged))
                   ELSE /\ rpc' = "ready"
                        /\ outcome' = "opened"
                        /\ scan' = NoScan
                        /\ UNCHANGED tail

-----------------------------------------------------------------------------
(* Tail                                                                    *)

\* Reader::tail begins after the blocks the snapshot holds.
StartTail ==
    /\ rpc = "ready"
    /\ ~tail.live
    /\ tail' = [NoTail EXCEPT !.live = TRUE, !.next_block = Len(snapshot.blocks)]
    /\ outcome' = "none"
    /\ UNCHANGED <<rpc, snapshot, scan>>

DropTail ==
    /\ rpc = "ready"
    /\ tail.live
    /\ tail' = NoTail
    /\ outcome' = "none"
    /\ UNCHANGED <<rpc, snapshot, scan>>

\* poll_next begins; asked records how many blocks were committed by then.
BeginPoll ==
    /\ rpc = "ready"
    /\ tail.live
    /\ tail' = [tail EXCEPT !.polling = TRUE, !.batch = NoFrame,
                  !.asked = IF path = None THEN 0 ELSE Len(DataFrames(data[path]))]
    /\ rpc' = "poll"
    /\ outcome' = "none"
    /\ UNCHANGED <<snapshot, scan>>

\* The handle decoding reads from: opened by path once, then kept.
TailFile == IF tail.file = None THEN path ELSE tail.file

\* Mutant: the newest block is decoded instead of the next one.
NextBlock_Newest == snapshot.blocks[Len(snapshot.blocks)]

\* The first block the tail has not dispatched.
NextBlock == snapshot.blocks[tail.next_block + 1]

\* The frame decoding a block of the snapshot reads: revalidated at the block's
\* offset and sequence, against the row ID the snapshot recorded.
DecodedFrame(file, block) ==
    LET frame == IF file = None THEN NoFrame ELSE FrameAt(data[file], block.offset)
    IN  IF frame = NoFrame THEN NoFrame
        ELSE IF frame.sequence # block.frame.sequence THEN NoFrame
        ELSE IF frame.base_row_id # block.frame.base_row_id THEN NoFrame
        ELSE IF block.offset + TotalLength(frame) > snapshot.file_size THEN NoFrame
        ELSE frame

\* decode_next consumes the block first; then it is pruned or filtered to
\* nothing, decoded to a batch, or fails (also on a spent budget).
DecodeNext ==
    /\ rpc = "poll"
    /\ tail.next_block < Len(snapshot.blocks)
    /\ LET frame == DecodedFrame(TailFile, NextBlock)
       IN  \/ /\ \E file \in {tail.file, TailFile} :
                   tail' = [tail EXCEPT !.next_block = @ + 1, !.file = file]
              /\ UNCHANGED <<rpc, outcome>>
           \/ /\ frame # NoFrame
              /\ tail' = [tail EXCEPT !.next_block = @ + 1, !.file = TailFile,
                                      !.polling = FALSE, !.batch = frame]
              /\ rpc' = "ready"
              /\ outcome' = "batch"
           \/ /\ tail' = [tail EXCEPT !.next_block = @ + 1, !.file = TailFile,
                                      !.polling = FALSE]
              /\ rpc' = "ready"
              /\ outcome' = "decode_error"
    /\ UNCHANGED <<snapshot, scan>>

\* Nothing is left to decode: the poll refreshes the reader.
PollRefresh ==
    /\ rpc = "poll"
    /\ tail.next_block >= Len(snapshot.blocks)
    /\ RefreshIdentity

\* The Reader is dropped.
Close ==
    /\ rpc = "ready"
    /\ ~tail.live
    /\ rpc' = "closed"
    /\ snapshot' = NoSnapshot
    /\ outcome' = "none"
    /\ UNCHANGED <<scan, tail>>

\* The steps of a call in progress.
ReaderStep ==
    \/ OpenFile \/ RefreshOpen \/ RefreshAnchor \/ RefreshScan
    \/ WalkPrefix \/ WalkBody \/ WalkEnd \/ DecodeNext \/ PollRefresh

ReaderNext ==
    \/ OpenIdentity \/ Refresh \/ StartTail \/ DropTail \/ BeginPoll \/ Close
    \/ ReaderStep
=============================================================================
