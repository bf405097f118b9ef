---------------------------- MODULE ActaRewrite -----------------------------
(***************************************************************************)
(* A reader and its tail (ActaReader) over a file that a process ignoring  *)
(* the lock truncates and grows in place, at any moment: the path keeps    *)
(* naming the same file, so identity sees nothing and only the commit      *)
(* anchor stands between a snapshot and another file's frames              *)
(* (expect_own_committed_bytes in read/reader.rs).                         *)
(*                                                                         *)
(* Whoever rewrites the file writes whole frames that continue what is     *)
(* there; torn frames are in ActaLive.                                     *)
(***************************************************************************)
EXTENDS ActaFile

CONSTANTS
    File,           \* the one file
    None,           \* no file
    NoFrame,        \* bytes that are not a frame
    MaxBlocks,      \* Limits::max_blocks
    MaxRows,        \* bound: rows of a frame
    MaxFrames,      \* bound: data frames in the file
    MaxTruncations  \* bound: how often the file is cut

VARIABLES
    path, data,     \* the directory entry and the contents
    truncations,    \* how often the file was cut
    calm,           \* history: the file was not cut inside a call of this reader
    rpc, snapshot, scan, tail, outcome

R == INSTANCE ActaReader

readerVars == <<rpc, snapshot, scan, tail, outcome>>

rewriteVars == <<path, data, truncations, calm, readerVars>>

HeaderRun == [ sequence |-> SCHEMA_FRAME_SEQUENCE, base_row_id |-> FIRST_BASE_ROW_ID,
               row_count |-> 0, body |-> NoBody, offset |-> 0, units |-> 2 ]

\* The next frame of a writer: the AppendState it takes from the file.
ContinuingRun(f, rows, body) ==
    [ sequence |-> Len(f), base_row_id |-> ExpectedBase(f, Len(f) + 1), row_count |-> rows,
      body |-> body, offset |-> FileSize(f), units |-> rows + 1 ]

RewriteInit ==
    /\ path = File
    /\ data = [f \in {File} |-> <<HeaderRun>>]
    /\ truncations = 0 /\ calm = TRUE
    /\ R!ReaderInit

Grow ==
    /\ Len(data[File]) <= MaxFrames
    /\ \E rows \in 1..MaxRows, body \in Bodies :
         data' = [data EXCEPT ![File] = Append(@, ContinuingRun(@, rows, body))]
    /\ UNCHANGED <<path, truncations, calm, readerVars>>

\* set_len by someone else, down to a frame boundary.
Truncate ==
    /\ truncations < MaxTruncations
    /\ \E n \in 1..Len(data[File]) - 1 :
         data' = [data EXCEPT ![File] = SubSeq(@, 1, n)]
    /\ truncations' = truncations + 1
    /\ calm' = (calm /\ rpc \in {"closed", "ready"})
    /\ UNCHANGED <<path, readerVars>>

\* A reader that opens begins in calm.
Read ==
    /\ R!ReaderNext
    /\ calm' = (calm \/ rpc = "closed")
    /\ UNCHANGED <<path, data, truncations>>

RewriteNext == Grow \/ Truncate \/ Read

RewriteSpec == RewriteInit /\ [][RewriteNext]_rewriteVars

-----------------------------------------------------------------------------
(* Properties                                                              *)

\* A refresh that adds blocks, from a file that was cut between calls only: the
\* anchor is read after the walk, so a cut in between can make it another frame's.
Extends ==
    /\ calm /\ R!HasSnapshot /\ snapshot' # R!NoSnapshot
    /\ Len(snapshot'.blocks) > Len(snapshot.blocks)

InFile(k) ==
    /\ k <= Len(DataFrames(data[File]))
    /\ snapshot'.blocks[k].frame = DataFrames(data[File])[k]

\* "Identity alone would let a refresh resume a walk inside a stranger's file and
\* append its frames to this snapshot [...] The commit trailer can [separate the
\* two]" (the comment on expect_own_committed_bytes): a snapshot that a refresh
\* extends is that of the file it reads, not of two.
SnapshotIsOfOneFile ==
    [][ Extends => \A k \in 1..Len(snapshot'.blocks) : InFile(k) ]_rewriteVars
=============================================================================
