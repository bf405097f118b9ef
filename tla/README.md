# Acta: a TLA+ model of its files, sessions, recovery and readers

Acta is an append-only columnar file format with a Rust library
(`src/rust/`).  One file is a prologue, a schema frame and a chain of data
frames; each frame is checksummed, carries its sequence number and, if the file
has implicit row IDs, the ID of its first row.  One process at a time appends;
any number of readers follow the file without taking a lock; an append that was
cut short leaves an *incomplete tail*, which only an explicit repair removes.

This directory models what makes that work: the discovery walk, the append
session, the lock, the repair, the reader and its tail, run against each other
with crashes, failing system calls and loss of power; how a writer packs the
rows it is given into blocks; and what happens to rows on their way through
encodings, streams, frames and scans, with frames that another writer or a
damaged disk supplied.  TLC checks small
instances; TLAPS proves every safety property the passing runs check, for every instance.

## 1. Inventory

| part | source | state | operations | interacts with |
|---|---|---|---|---|
| file scan and frame envelope | `format/scan.rs`, `format/frame.rs` | none: a walk over bytes | `FileScan::open/from_file`, `walk_data_frames(_from)`, `read_frame` | writer open, repair, reader open and refresh all use it |
| append session | `write/writer.rs` | `AppendState` (length, next sequence, next row ID), buffer, `Health` | `create`, `open`, `append`, `flush`, `sync`, `finish`, drop | the file through one append-mode handle; the lock |
| block buffer, row sizing | `write/buffer.rs` | buffered rows, per-column footprints, price | `push`, `clear`, `block_size_with_statistics` | the append loop (`fitting_prefix`, `publish_if_complete`) |
| framing, encoders | `write/framing.rs`, `write/encode/` | none | `write_initial`, `build_data_frame`, choice of encodings | `publish_buffer` |
| writer lock | `lock.rs` | `flock` per open file | acquire without waiting, release | writers and repairs |
| recovery | `recovery.rs` | `RecoveryPlan` | `inspect_recovery`, `repair_incomplete_tail` | lock, walk, truncation, `sync_all` |
| reader | `read/reader.rs`, `read/identity.rs`, `read/block.rs` | `FileMetadata`, blocks, identity, resume point, commit anchor | `open`, `refresh`, `read_block`, `tail`, `scan` | the path, looked up anew at every refresh |
| tail | `read/tail.rs` | next block, kept handle, scan plan | `poll_next` | `refresh` of its reader |
| scan, pruning, budget | `read/scan.rs`, `read/budget.rs` | position, kept handle, remaining allowances, metrics | iterator, `size_hint` | blocks of a snapshot; the tail shares plan and budget |
| block decoding | `read/decode.rs`, `read/values.rs` | remaining bytes of one block | decode a selection of columns | frame layout, transforms, statistics |
| transforms, compression, CRC | `codec/`, `crc32c.rs` | none | pure functions | encoders, decoders |
| frame layouts | `format/data_frame.rs`, `schema_frame.rs`, `prologue.rs` | none | encode and parse | walk, decoder |
| validation, statistics | `validate/` | none | whole-file check | the walk and the decoders |
| arrays, batches, schemas, limits, errors, tools | `array.rs`, `batch.rs`, `schema.rs`, `limits.rs`, `error.rs`, `bin/` | values | constructors | everything |

What is hard here, and what would make each part correct:

* **Interleaving.**  `create` makes the file, then locks it: another process can
  get in between, and the failed `create` removes the path *by name*.  Correct:
  the path of a live writer is never removed, no two processes are past the lock
  on one file.
* **Partial failure.**  `write_all` can fail anywhere inside a frame.  Correct:
  the writer is poisoned, nothing is ever written behind a torn frame, the file
  stays repairable.
* **Crash and power loss.**  Between any two system calls.  Correct: what `sync`
  or `finish` reported durable stays; every other committed frame goes only with
  a loss of power, and only as a suffix.
* **Stale state.**  `AppendState` is computed once at `open` and maintained by
  `commit`; a repair's plan is computed before its truncation; a reader's resume
  point before its next refresh.  Correct: each is what a fresh walk would say.
* **Reading without a lock.**  The walk reads prefix and body separately while
  the bytes at that offset are written, torn, truncated and rewritten.  Correct:
  only committed frames are exposed, in order, once.
* **Liveness.**  The append loop keeps a full buffer when a frame cannot be
  built; `poll_next` returning `None` tells a caller to wait.  Correct: calls
  return, and `None` never hides a block that had been committed.
* **Packing rows into blocks.**  A block is priced from counters before a row is
  taken and built from the rows later; a batch may be split, refused in its
  middle, or stay buffered when its block cannot be built.  Correct: accepted
  rows are kept once and in order, no target is passed, a price covers its
  frame, the counters describe the file.
* **Numeric and resource edges.**  Checked additions in `commit`, the block
  limit, decoding budgets, a byte target that is met exactly.
* **Choosing an encoding.**  A candidate is priced from a profile, stored by other
  code, and decoded by a third piece.  Correct: rows come back as they were at
  the extremes of every type, an estimate is the price, and the shortlist costs
  no more than trying everything.
* **Bytes of another writer.**  Counts, offsets, run lengths, statistics, order
  claims and descriptors are stored apart from what they describe.  Correct: what a
  reader accepts is sound by its own values and has no second encoding.
* **Scans over failing blocks.**  A scan charges shared allowances, prunes by
  stored bounds and goes on after a failure.  Correct: answers are exactly the rows of
  the range, every block is consumed once, the counters are what the blocks came to.
* **Rewriting in place.**  A process that ignores the lock keeps the path and the
  inode.  Correct: the frames of a snapshot are frames of one file (they need not
  be: section 3, finding 3).

The full list, with lines, is under `hazards` in `PROJECT.json`.

## 2. Modules

```
ActaFile ---------- ActaSession ---------- ActaLive ---- MCActaLive
   |                  |    |   \__ MCActaSession   |
   |                  |    |                       |
   |               ActaLog |                   ActaReader (also on ActaFile)
   |                       |
ActaSessionProofs (also on ActaFile and ActaLive)

ActaBlock -- ActaAppend -- MCActaAppend
                  |
ActaFoldProofs -- ActaAppendProofs
   |      |
   |   ActaScanProofs (also on ActaScan)
   |
ActaFrameProofs (also on ActaFrame)
ActaSchemaProofs (also on ActaSchema)
ActaStreamProofs (also on ActaStream) -- ActaColumnProofs (also on ActaColumn)
ActaSessionProofs, above

ActaTransform -- ActaStream
      |
      +-- ActaEncode --+
      |                +-- ActaColumn -- MCActaColumn
      +-- ActaDecode --+

ActaReader -- ActaRewrite      ActaScan -- MCActaScan
ActaFrame -- MCActaFrame       ActaSchema -- MCActaSchema
```

**ActaFile** is the file and its walk.  A file is a sequence of *runs*, one per
`write_all`: what the prefix declares (`sequence`, `base_row_id`, `row_count`),
the payload, the offset, and how many *units* of it are in the file.  The first
unit of a data frame is its prefix, then one unit per row; the header run is the
prologue and the schema frame.  `Walk(f)` is the result of
`walk_data_frames_from`: accepted frames, last good offset, the resume point, and
whether it stopped at an incomplete tail or at corruption.  `AppendUnit` is one
more piece of a `write_all` on an append-mode handle: the bytes go to the end
of the file, wherever that is by now.

**ActaSession** has several processes on one path.

| variable | code |
|---|---|
| `path`, `data` | directory entry and file contents as processes see them |
| `synced`, `undone` | how much of a file is on disk; the contents before a truncation that `sync_all` has not yet covered |
| `lock`, `fd` | the `flock` of each file, the handle of each process |
| `pc` | position inside `create`, `open`, `append`, `flush`/`sync`/`finish`, `repair_incomplete_tail`; `"ready"` and `"poisoned"` are `Health` |
| `writer` | `AppendState`, `buffered` rows, rows of the batch still to take, bytes of the frame already written |
| `plan` | `Walk` / `RecoveryPlan` taken under the lock |
| `reply` | how the last repair ended: the message class its error carries |
| `acked` | history: the data frames most recently reported durable |

Every system call that changes shared state is an action, and so is every
failure of one: `Create`, `CreateLock(Fails)`, `WriteInitial(Fails)`, `Cleanup`
(`Writer::create` and its clean-up); `Open`, `OpenLock(Fails)`,
`OpenScan(Fails)`, `OpenCheck(Fails)` (`open_internal`); `BeginAppend`,
`AppendLoop`, `BuildFrame(Fails)`, `WriteFrame(Fails)` (`append`,
`publish_buffer`, `commit`); `BeginFlush`, `FlushDone`, `FlushFails`,
`ReleaseFails`, `Drop`; `RepairOpen`, `RepairLock(Fails)`, `RepairScan(Fails)`,
`RepairTruncate(Fails)`, `RepairSync(Fails)`, `RepairVerify(Fails)`
(`repair_locked_file`); `Kill(p)` ends a process inside any call; `PowerLoss`
ends all and leaves on disk some prefix that holds at least what was synced,
possibly of the contents before an unsynced truncation.

**ActaLog** is the abstract specification of a path: a log that grows by one
continuing frame at a time (`Publish`), an acknowledgement of the whole log
(`Acknowledge`), a loss of an unacknowledged suffix (`Lose`).  `ImplementsLog`
maps `log` to the committed data frames of the file under the path and `durable`
to `acked`.

**ActaReader** is one `Reader` with its `Tail`: `OpenIdentity`, `OpenFile`,
`WalkPrefix`, `WalkBody`, `WalkEnd` (`open_with_limits`, `walk_data_frames_from`,
`read_frame`); `Refresh`, `RefreshOpen`, `RefreshAnchor`, `RefreshScan`
(`refresh`, `expect_unchanged`, `expect_own_committed_bytes`,
`expect_own_file_header`); `StartTail`, `BeginPoll`, `DecodeNext`, `PollRefresh`,
`DropTail`, `Close`.  Each read of the file is an action of its own, and sees the
file as it is at that moment.  The snapshot's `source` (the file it was really
read from) and the tail's `asked` (blocks committed when a poll began) are
history, read by properties only.

**ActaLive** composes ActaSession and ActaReader over the same `path` and `data`.

**ActaBlock** is what a block costs, twice: `block_size_with_statistics`, from
the counters of `ColumnFootprint`, and `BuiltFrame`, from the rows as the raw
encoder writes them.  A row is a sequence of cells; of a value only validity,
length and whether it is NaN are kept.  Layout constants and alignment are those
of the format; the limits and the two constants of the automatic statistics
policy are parameters, so that small blocks meet them.

**ActaAppend** is one `Writer` between two restarts, at the level of rows:
`call` and `pc` are the call in progress, `buffer` is `BlockBuffer`, `counters`
the accounting fields, `blocks` the data frames of the session and `synced` how
many of them a sync covers; `encoding` is the policy the session was given, raw
or a fixed constant, which some blocks do not fit.  `AppendTurn` is one turn of the loop in `append`
(the whole-batch path of the code is a loop of one turn); `Publish`, `BuildFails`,
`IoFails` and `PublishNothing` are the outcomes of `publish_buffer`; `Flushed`
and `Synced` those of `flush`, `sync` and `finish`.  `before`, `given` and the
fields `by` and `rest` of a block are history.  It is the counterpart of
ActaSession: that one has files, locks and crashes and counts rows only, this
one has sizes and targets and no other process.

A frame that is written may still fail in `commit`: `Overflows` says which of its
counters would pass `U64_MAX`, and the Writer is then poisoned with the block in
the file and none of the counters advanced.

**ActaTransform** has the streams of `codec/transform.rs`: for each transform the
function that writes it and the decoder, with every check the decoder makes.
Numbers keep a width: a byte has `ByteBits` bits, the word `WordBytes` bytes, so
that sums and differences leave them on small inputs.  **ActaStream** gives every
decoder every short string of bytes.

**ActaEncode** is the writer's side of a column (`write/encode/`): the prepared
values, their profile, which encodings are offered, the estimate of each, the
shortlist of two, the margin below raw, the choice for validity, and the streams
and statistics that are stored.  **ActaDecode** is the reader's side
(`read/decode.rs`, `read/values.rs`, `validate/statistics.rs`): layout and count
checks, dictionary, run and constant layouts, scatter of nulls, and the
comparison of stored statistics with the values.  **ActaColumn** joins them:
`AppendRow` makes rows, `EncodeColumn` stores them under a policy, `Alter` sets one
field as another writer might have, `DecodeColumn` reads the column.

**ActaFrame** is the header and payload of a data frame, as
`build_data_frame_with_statistics` lays it out and as `data_frame.rs` accepts it
under a projection: `EncodeColumn` and `BuildFrame` are the writer, `Alter` another
one, `ReadLayout` the reader.  The unstable sort of streams by offset is any order that
sorts.  **ActaSchema** is the same for the schema frame: `create`'s rules and
layout, and the reader's walk over the descriptors, one `ReadDescriptor` per turn.

**ActaScan** is one scan or tail over the blocks of a snapshot.

| variable | code |
|---|---|
| `primary`, `file`, `damage` | the type of the primary column; the committed blocks, with what their headers claim; the stream ranges damaged since |
| `mode`, `plan` | a `Scan` or a `Tail`; projection and range of `ScanPlan` |
| `blocks`, `next_index`, `handle` | the snapshot's blocks, the next one, whether the file was opened |
| `budget`, `remaining` | rows and bytes left of `ScanBudget`; what is left of one block's `Budget` |
| `work`, `done` | the charges of the block being decoded, and how many of them are made |
| `metrics` | `ScanMetrics` |
| `pc` | position inside `next` or `poll_next` |
| `reads` | history: what each stream read of the block being decoded found |
| `answers` | history: what became of each block, with the charges that went through and the reads made |

`Open`, `Project` and `PrimaryRange` build the plan, with every refusal of the code.
`Call` is one `next` or `poll_next`; `Consume` takes or prunes the next block,
`ReadFrame` verifies and accounts for its frame.  `DecodeStep` is one charge and what it
pays for: a stream is read and checked, or decompressed, or its values are built, or the
primary is verified.  `Finish` cuts the batch to the range and records it; `ScanDone` and
`Refresh` are what happens behind the last block.  Between any two of these, `Commit`
adds blocks and `Damage` spoils bytes of committed ones.  The header of a block may be
false, and so may the checksums of its streams (`wrong`); a stream may be compressed
(`packed`) and may fail to decompress or to decode (`broken`).

**ActaRewrite** runs the reader of ActaReader against a process that ignores the lock
and truncates and grows the file in place.

Definitions whose name ends in `_Something` behind a comment "Mutant:" are
faulty variants of the definition below them.  No specification uses them; each
shows that a property notices the fault.

## 3. Runs

| run | instance | checks | result |
|---|---|---|---|
| `sessions` | 2 processes, 2 files, row IDs, batches to 3 rows, row target 2, 2 data frames | `TypeOK`, `OneWriter`, `NeverCorrupt`, `AckedSurvive`, `SessionContinuesFile`, `SessionOwnsPath`, `PostRepairValidates`, `RepairNamesItsSide` | holds, 247,908 states |
| `sessions_fair` | the same with 1 process, weak fairness | `CallsReturn`, `ImplementsLog`, `CommittedOnlyGrows` | holds, 49,492 states |
| `live` | 1 writing or repairing process, 1 reader with its tail, block limit 2 | `SnapshotIsCommitted`, `ResumesAfterLastBlock`, `NoFalseRefusal`, `NoneMeansCaughtUp`, `TailDeliversCommitted`, `SnapshotOnlyExtends` | holds, 1,120,877 states |
| `append` | a text and a float column; rows short, sparse (null and NaN), oversize and unwritable; both encoding policies; row target 2, byte target 456, automatic statistics, 3 rows per session | `AcceptedRowsKept`, `BlocksWithinTargets`, `BlocksMaximal`, `PriceCoversFrame`, `CountersDescribeFile`, `AppendReturns` | holds, 73,504 states |
| `append_refusal` | the same rows, raw, row target 3 | `RefusalChangesNothing` | violated: finding 1 |
| `streams` | strings of up to 6 bytes over 7 byte values, up to 4 elements | `AcceptedFitsTheColumn`, `AcceptedIsCanonical` | holds, 137,257 states |
| `columns` | 20 columns of every family, all policies, three trials | `RowsSurviveEncoding`, `EstimatesArePrices`, `AdaptiveIsCheapest`, `AcceptedColumnIsSound` | holds, 332,387 states |
| `scans` | 2 columns of 3 streams, up to 3 blocks of 8 kinds, 4 projections, 3 ranges, 1 damaged stream range | `AnswersAreExact`, `BatchesAreVerified`, `EachBlockOnce`, `AllowancesBound`, `MetricsDescribeAnswers`, `EveryBlockReached` | holds, 242,739 states |
| `frames` | 2 or 3 columns, up to 2 streams each, up to 2 alterations | `WriterFramesAreRead`, `AcceptedRangesAreApart`, `ProjectionLosesNoCheck` | holds, 263,350 states |
| `frame_empty` | the same, smaller payload limit | `EmptyOverlapsNothing` | violated: finding 2 |
| `schemas` | 1 to 3 columns of every type, at and past each limit, up to 2 alterations | `SchemasSurvive`, `AcceptedSchemaReopens` | holds, 1,019,782 states |
| `rewrite_mixed` | 1 file, 2 payloads, 3 frames, 1 truncation | `SnapshotIsOfOneFile` | violated: finding 3 |

**Bounds of sessions and readers.**  `Procs`: two are enough for every race the
lock decides (writer against writer, writer against repair, two creates); in
`live` one process does, because writers and repairs exclude each other and the
reader is the second actor; that process can die and come back as a creator, an
appender or a repairer.  The refinement and liveness are checked with one process
over several sessions; two processes that exclude each other by the lock are one
after the other to the path, which `sessions` checks.  `Inodes`: two, so that a
path can be created, lost to a failed create and created again, while an old
handle still holds the first file.  `RowTarget = 2` with `MaxBatch = 3`: a batch
can fill a block, split over two, or leave a part buffered.  `MaxFrames` bounds
when an `append` may begin, not what it may publish, so files reach one or two
frames beyond it; a frame of one row and one of two rows have different lengths,
so a torn frame and its replacement need not end at the same place.  `MaxBlocks`
lets a reader meet its limit.  `RowIds` is `TRUE` in the runs, the stricter case;
the proofs cover both.  `UNAVAILABLE_BASE_ROW_ID` is `u64::MAX` in the code and any
number out of the reach of the row IDs here.

**Bounds of `append`.**  The byte target is the price of a short and a sparse row
together, so that a block meets it exactly; an oversize row stands alone, and the
payload limit lies between it and the unwritable row.  With two values as the
threshold of automatic statistics a NaN makes a reserved pair that is never
written.  `U64_MAX = 1000` is passed by the bytes of three blocks, so
`commit` overflows inside a session.

**Bounds of values.**  A byte has 3 bits and the word 2 bytes: every sum,
difference and zigzag of the code then leaves the word on columns of four rows.  A count
has 1 byte in `streams`, and 2 in `columns`, whose columns have up to 24 rows.
`streams` leaves out one byte value (5), whose bits the others have between them.  In
`columns` a column is on one of three trials: up to four rows (six booleans) of the
extremes and neighbours of its type; runs of seven and eight equal rows, up to 24,
long enough for every run-length layout to win; or three rows and one altered field.
The margin below raw is a tenth with a floor of 3 bytes, in place of a hundredth and
64, so that it decides.

**Bounds of frames and schemas.**  The limits of a frame (40 and 16 bytes) lie
inside what three columns can ask for.  Two alterations let one field make another's
value plausible.  A schema is in cells, one per field: descriptors of 8 cells aligned
to 4, fields of at most 8, payloads of at most 40, words of 32, so that a scale wraps.

**Bounds of `scans`.**  Three rows meet the allowance of a block exactly when all is
decoded of uncompressed streams, and pass it when one stream is compressed, which is
charged a third time; two blocks can pass the allowances of the scan, and one cannot.  The
first block is of any of seven kinds, the second of two, enough for what is spent on the
first to decide about the second; the block limit is 2 and a third block may be
committed, which no snapshot holds, so its kind does not matter.  One damaged range can
fall before the frame is read, between that and the read of the stream, or after it.

**Deadlock** is checked wherever the system can always go on (`sessions`,
`sessions_fair`, `live`, `append`); a column, a stream, a frame, a schema and a scan
that ended have nothing left to do, and their runs say so.

**Symmetry** over processes and files is used in `sessions` and `live`, for
invariants and step properties; no run with fairness uses it.

**Fairness.**  `FairSpec` of ActaSession is weak fairness of `Step(p)`, the steps
that carry a call that has begun to its end: every call of the library is
synchronous and runs on its caller's thread, which needs nothing from other
processes (the lock is requested without waiting).  Nothing is assumed about callers
beginning calls, about `Kill` or `PowerLoss`.  `AppendFairSpec` is the same for the
steps of one Writer's call.  `FairSpec` of ActaScan also assumes a caller that keeps
asking for the next item: what it says is that asking is enough.

**Findings.**  Each is a sentence of the documentation that the code does not
keep; lines are in `PROJECT.json`.

1. `append` promises that a rejected batch leaves the writer exactly as it found
   it.  A row that no block can hold is refused only when its turn comes: the rows
   before it, and the buffer of earlier calls, are buffered or published by then.
   `total_rows` still tells how much was accepted (`AcceptedRowsKept`).
2. The format says that an empty stream overlaps nothing.  The reader refuses one
   whose offset lies inside another stream, and one that shares an offset with a
   nonempty stream depending on how the unstable sort orders the two.
3. The commit anchor is meant to keep a refresh from appending a stranger's frames
   to a snapshot.  It compares the last frame only: a file rewritten in place with
   another first frame and the same last one is taken for the same file.

Further disagreements met while modelling, which no run of its own shows:
`repair_incomplete_tail` promises that every failure before the truncation says that
the file is unchanged, but only a failing `set_len` does: a failure to open, lock, scan or
measure the file names no side, and `RepairNamesItsSide` says nothing of such a reply.  The reader's identity comes
from a lookup of its own, so a path that is removed and created again in between
leaves a reader that refuses its own file as replaced.  A frame torn, repaired and
replaced between the read of its prefix and of its body is reported as corruption
although nothing is damaged.  A publication that fails because the frame cannot be
built does not poison the writer, although `append` promises that a failed
publication does.  A byte target that is met exactly makes other blocks of the same
rows when they come singly than when they come as one batch.  A scan whose row
allowance is used up refuses the block that passes it and may return a smaller one
behind it.  `bytes_read` is said to count every byte of every candidate block: it does not
count a frame body that failed to be read or verified, a stream whose checksum fails, or
the frames read by a refresh that fails.  `MetricsDescribeAnswers` states what it does
count.

## 4. Proofs

The theorems hold for every value of the constants that the modules' assumptions
admit, which TLC evaluates on every run: any sets of processes, files and bodies, any
positive row target, with and without row IDs (`BodiesAssumption`,
`RowIdsAssumption`, `TargetsAssumption`, `NoneAssumption`, `MaxBlocksAssumption`); any
schema, statistics policy, format limits and targets that `validate_options` accepts
(`SchemaAssumption`, `StatisticsAssumption`, `BlockLimitsAssumption`,
`RowsAssumption`, `OptionsAssumption`); any columns, projections, ranges, limits and
blocks with at least one row (`ScanAssumption`; the reader refuses a frame without
rows); any schema, any encoded columns, any limits and any sizes that are multiples of
the alignment (`FrameAssumption`); any schemas with at most one primary column, any
alterations, and limits and sizes of which the descriptor's is a multiple of the
alignment with room for its six fields (`SchemaAssumption` of ActaSchema; a cell holds
an even number of values, as an i16 does); any sizes of a byte, a word and a count, of
which a byte can hold the width of a word and a word a count (`WidthAssumption`), any
bytes, and any number of elements that a count can hold (`StreamBoundsAssumption`: the
format's row and value counts are uint32); any columns of the format's families, numbers
no wider than a word, any values of their types, any policies, any alignment, margin,
dictionary limits and thresholds of statistics, and rows and lengths of values that a
count can hold (`EncodeAssumption`, `ColumnAssumption`; `NullAssumption`: the mark of a
null is no value).
Each safety property below follows from an inductive invariant, which is
stronger than it because the property alone is not kept by every step.

**Sessions and repairs** have three layers, each on top of the last.

1. `LockInv` (in ActaSessionProofs) = `TypeOK`, `HandlesHoldLocks`,
   `PlanIsCurrent`.  `OneWriter` alone is not inductive, because a step that
   acquires a lock must know that no one else is past it: `HandlesHoldLocks` ties
   control points, handles and lock owners together.  `PlanIsCurrent` follows
   since only a process past the lock writes a file (`StepWritesOwnFile`).
   Theorems: `TypeCorrect`, `MutualExclusion`.
2. `StructInv` (in the same module) adds `FilesWellFormed`, `PointsKnowFile` (what
   each control point knows of the file it locked: `ContinuesFile` at rest,
   `WritingFrame` inside `write_all`) and `PathIsCreators`.  That a file is never
   corrupt is not inductive without the first two: a write keeps a file sound only if
   the writer continues it exactly.  That the clean-up of a failed `create` hits
   no writer needs the third: while anyone creates, the header of the file under the
   path is incomplete, so nobody else can have opened it for appending.
   Theorems: `FilesNeverCorrupt`, `WritersContinueFiles`, `WritersOwnPath`,
   `RepairsValidate`.
3. `DurableInv` (in the same module) adds `SyncedIsKept` and `AckedIsSynced`.
   The hard case is a truncation that power loss undoes: the contents it would
   bring back must agree with the file on everything that was synced, and the
   synced runs below a truncation must be complete frames, or a later append
   could have changed one of them.  Theorems: `CommittedFramesStay` (an action
   property), `SafetyInvariant` (`SafetyInv`, the conjunction of the three
   layers), `AcknowledgedSurvive`, `RepairsNameTheirSide` (an action property: a side that
   a reply names is the true one).

`PathIsLog` is the refinement of ActaLog: initial states map to the empty log, a
`write_all` that completes a frame publishes it, a flush that syncs acknowledges, a
loss of power loses a suffix that is not acknowledged, every other step stutters.  It
needs `LogInv`, which adds `UndoneIsKept`: the contents a lost truncation brings back
have no committed frame that the file has not.  Without it power loss could make the
log longer.

**Readers and tails** (also in ActaSessionProofs, for the composition ActaLive): `LiveInv` is
`StructInv` and `ReaderInv`, what the reader knows at each of its control points of the
file under the path.  `SnapshotOf` and `ScanOf` say that blocks, published or staged,
are the first data frames of the file, and that the walk goes on at the end of the
last one.  `TailOf` carries a poll's promise through its refresh: the frames committed
when it began lie within the extent the refresh captures, and have been found when its
walk ends.  A walk reads prefix and body in two steps, and a
repair may pass between them, so nothing is stated of a prefix that was kept: the
frame that the body step accepts is the one the file holds then.
Theorems: `ReadersSeeCommitted`,
`ResumePointsHold`, `RefusalsAreReal`, `PendingIsCaughtUp`, `TailsDeliverCommitted`,
`SnapshotsOnlyExtend` (an action property).

**Block assembly** (ActaAppendProofs): `AppendInv` (theorem `AppendInvariant`) =
`CallInv` (types, and what each control point knows of the call in progress),
`PricedInv` (every block and the buffer is within limits and targets), `HeldInv` (file
and buffer together are the rows accepted before the call and those it has consumed),
`CountInv` (the counters are sums over a prefix of the blocks; one block more only if
its commit overflowed) and `MaximalInv`.  The last relates each short block to the row
it could not take, which is first in the call, then in the buffer, then in the next
block.  Theorems: `AcceptedRowsAreKept`, `TargetsHold`, `CountersAreTrue`,
`BlocksAreMaximal`, and `PriceCovers`, which needs no history: the price from counters
is compared with the frame from rows column by column, for every schema.

**Scans** (ActaScanProofs): `ScanInv` (theorem `ScanInvariant`) = `ShapeInv` (types);
`OrderInv` (`EachBlockOnce`, and that the answers begin at a block); `DecodeInv` (what is
left of the allowance of the block in flight, and, in `Checked`, what the charges made
have established of it: their streams were read and found intact, they decoded, a verified
primary bears out the header); `EntriesInv` (each answer is `True`: what it says of its
block holds, and `Fair`: it was refused only for lack of room); `BooksInv` (field by
field, allowances and counters are the `Tally` of the answers and what the block in flight
comes to so far).  Neither allowances nor counters are inductive alone: a decode that
fails half-way keeps what it took, so a step needs to know which charges the block in
flight has made and which of them its failure still spends.  Whether a stream matched is
a fact of the moment of its read, since damage can come later; so `Checked` speaks of
`reads`, never of the file.  The sums rest on `TallyNext`, that a tally grows by the entry
added; that a batch read all its streams on `StepsCover`, which charges a selection
consists of.  That a batch is exact rests on two lemmas about every sequence of integers:
`SearchFinds`, that halving finds the partition point of values in order, and `KeptExact`,
that the search one by one keeps the rows in the range; and on `HonestMeans`, that bounds
which were verified bound every row.
Theorems: `AnswersExact`, `BatchesVerified`, `BlocksAreOrdered`, `AllowancesHold`,
`MetricsDescribe`.

**Frames** (ActaFrameProofs): `FrameInv` (theorem `FrameInvariant`) = `ColumnsInv`,
`Shape` (what is kept by every alteration: a descriptor for each column and for each
stream that the header makes room for), `Built` (a frame nobody altered is the one
`build_data_frame` lays out, within its limits) and `Verdict` (the reader's answer is
that of `parse_layout` for some order its sort may leave).  `FramesAreRead` then says
what the writer's offsets address: the payload is a concatenation, and by `FlattenAt`
byte b of its k-th part is at the sum of the parts before it plus b; sums of padded
lengths are multiples of the alignment and strictly increase, since an empty stream
takes room too, so the only order a sort can leave is the order of the table.
`RangesAreApart` is about every writer's header: an order is injective, hence onto
(`OrdersAreOnto`), so comparing neighbours compares all pairs.  `ProjectionChecksAll`
shows stream by stream that making readable what a projection leaves out changes no
other check.

**Schemas** (ActaSchemaProofs): `SchemaInv` (theorem `SchemaInvariant`) has two halves.
For any writer's frame, `ReadInv`: the columns read so far are ones `create` would take,
distinct in id and name, and the descriptors it would write for them need no more
room than the reader has passed.  The room alone is not inductive: that a descriptor
fits in the length it declares follows from what `parse_type` accepted (`TypeRead`: the
record of an accepted type is as long as the one read), and from that length being
aligned.  For a frame nobody altered, `FollowsSchema`: the columns read are the first
of the schema and the position is where the next one's descriptor lies (`Placed`, a sum
of lengths).  Each turn of the loop then rests on `DescriptorCells`, the descriptor
cell by cell, `TypeSurvives`, that the record of every type parses to that type
(negative scales modulo the word, zones with and without a name), and
`DescriptorsLie`, where a list's descriptors are in the payload.  Theorems:
`SchemasReadBack`, `AcceptedFramesReopen`.

**Streams** (ActaStreamProofs): the state is one string of bytes, so the invariant is its
type and all the work is in the decoders.  A number is the sum of its digits times powers
of two (`Number`), whether the digits are bytes or bits: `NumberDigit` recovers a digit of
a number, `NumberOfDigits` a number modulo a power from its digits, both also below zero,
where a quotient rounds down.  With them bytes and integers are each other's inverse
(`ReadInteger`, `WrittenInteger`), as are bits and bytes (`BytesOfBits`, `BitsOfBytes`,
where the zeros of the last byte come in) and values and packed payloads (`Packed`,
`Unpacked`).  Each decoder of integers then has one lemma, `RawIntegers` to `DeltaOfDelta`:
what it accepts fits the column and is what the writer lays down again.  The raw bytes
are equal parts end to end (`FlattenChunks`), a delta stream is running sums and their
differences (`PartialSumsAt`, `DeltasOfSums`) of zigzag codes (`UnZigZagged`).  For
booleans, `RunsReadBack`: the starts of the runs are numbered by rank (`NthOf`,
`NthAround`), the lengths before a run add up to where it starts (`RunsOf`), so laying
the runs out again is the sequence (`RunsExpand`).  It needs the run count and the longest
run to fit a uint32, which is why the number of elements is bounded; without
the bound the count is cut off and the statement is false.  Theorems:
`AcceptedFitsTheColumnHolds`, `AcceptedIsCanonicalHolds`.

**Columns** (ActaColumnProofs, on the lemmas about streams): `ColumnInv` says that the rows
are values of the column's type or nulls, that what is stored is a column of some writer
(`StoredColumns`), that one nobody altered is what the policy stores of the rows, and that
the result is what is decoded of it.  The properties speak of the end of these steps only;
the invariant carries what is stored to the read.  The four theorems take four arguments.

1. *What a candidate stores.*  `EncodedAs` says of a candidate's streams, at once, that they
   have the lengths it was priced at and that every stored column that carries them decodes
   to its values, however else it was made.  There is one lemma for each family of candidate
   (`RawEncoded`, `ConstantEncoded`, `DictionaryEncoded`, `RunLengthEncoded`,
   `TransformEncoded`, joined in `Encoded`): the converse of the lemmas about streams, with
   the writer's widths and bases from its profile (`Profile`).  Differences
   may leave the word; `ProfileFits` says that a candidate with a width has none that do.
   `EstimatesArePricesHolds` is the half about lengths; `Overpriced` is the stream of nothing
   but false, which is priced at one bit a value and stored at width zero.
2. *What is stored is read.*  Whatever is selected is a validity and a candidate
   (`Selects`), whose streams differ in kind, so the reader finds each where the writer
   put it (`TakenApart`).  Its checks then pass one after another (`DecodeFollows`):
   validity (`ValidityRead`), values (`DenseRead`), the scatter, which puts the n-th value
   at the n-th valid row (`ScatteredBack`, ranks again), and the statistics, whose bounds
   are the extremes of the very keys the reader compares (`StatisticsStored`).  Theorem:
   `RowsSurviveEncodingHolds`.
3. *The choice.*  The shortlist is the two least of a strict order on cost and rank
   (`Cheapest`), the loop over it keeps `Chosen`, and `Rivals` are raw and all the
   candidates that beat it by the margin.  That two suffice is not evident, since an
   estimate may be too high: the overpriced candidate can be missing from the shortlist
   although it is cheap.  Then all the values are equal, the constant layout is offered and costs no
   more (`ConstantInstead`).  Theorem: `AdaptiveIsCheapestHolds`.
4. *Other writers.*  Every alteration leaves a column of `StoredColumns`
   (`AlteredColumnType`), and for every such column `AcceptedColumn` follows the reader's
   checks: what a layout returns fits the type (`DenseValues`), what the scatter makes of it
   has the declared nulls (`Scattered`), and verified statistics bound every value
   (`StatisticsBound`).  Theorem: `AcceptedColumnIsSoundHolds`.

**Lemmas.**  ActaSessionProofs begins with what the session layers cite about files: what a unit
appended to a well-formed file makes of it, that `FrameCount` of a well-formed
file is its length or one less, what truncation and loss of a suffix keep, and
that committed frames depend on the accepted runs only.  ActaFoldProofs has induction
over numbers and over finite sets, stated for a *set* that holds the good cases rather
than for a predicate (`SetInduction`, `SubsetInduction`, from `LeastElement`), and with
it what the folds of the community modules compute: sums over finite sets
(`SumRemove`, `SumAdd`, `SumSubset`, `SumExtend`) and over prefixes (`PrefixSum`,
`PrefixMonotone`), the extremes of a set, and `FlattenSeq` with where its parts lie
(`FlattenAt`).  Each recursive function is first shown to exist (`SumRecursion`,
`JoinRecursion`, `SearchRecursion`, `KeptRecursion`), layer by layer.

**Only model-checked.**  `CallsReturn`, `AppendReturns` and `EveryBlockReached`:
liveness under fairness is outside what TLAPS can do.  Every other property of a passing
run is stated by a theorem.  The three findings are counterexamples, which are TLC's.

## 5. What the model leaves out

* In ActaFile and the modules above it a payload is one of a set of bodies; a frame
  that is not whole, or that mixes two frames, fails its checksum.  CRC-32C itself is
  not modelled.
* Compression: zstd is a library, and a stored stream is its transform's bytes.  ActaScan
  has compressed streams, with their charge, their length and their failure, but not
  their contents.  It charges the values of a stream once, and has no stored statistics.
  Frame sizes in ActaAppend are those of the raw encoding; a session with a fixed
  constant is sized by the same prices and its frames are not measured, since a constant
  column is never longer than its raw values.
* The prologue, a fixed record, and the byte cursor, a bounds check.
* Checks that nothing modelled can fail: that a frame ends within the captured size
  (`read_commit_trailer`), because the walk of ActaReader never goes past that size; and
  that the columns of a data frame are within `max_schema_columns`, because ActaFrame
  requires as many as the schema has, and the schema was admitted under the same limit.
* The whole-file validator, which repeats the walk and the decoders over every block
  and keeps no state of its own; the tools, which print.
* Overflow of the scan's metrics, saturation of 64-bit sizes in the price of a block,
  failing allocations, and `MAX_ROWS_PER_BLOCK` in the build of a frame, which the row
  target already keeps.
* Prefixes cut in the middle: a unit is the least that is written.  A file that
  ends inside a prefix is treated by the walk like one that ends inside a body.
* A loss of power that keeps later bytes and loses earlier ones, or that loses
  the directory entry (the code never syncs a directory); of several unsynced
  truncations only the last one is remembered.  In `ActaLive` power is not lost:
  no reader survives it.
* In ActaRewrite, torn frames: whoever rewrites the file writes whole ones.
* A call on a path that does not exist, or `create` on one that does: it fails
  before any state changes, so it is no step.
* `read_block`, which decodes as a scan without a plan does, and the accessors: they
  change nothing.  In ActaReader a decoded block may yield a batch, nothing (pruned or
  filtered) or an error; why is ActaScan's.

## 6. Plan

Done: the modules of section 2, the runs of section 3 and the proofs of section 4, which
cover every safety property of the passing runs.  What is left is to model more:

* compression, as a partial inverse that may also fail, between ActaTransform and the
  frames of ActaFrame, and the statistics a scan reads, with their allowance, in ActaScan;
* the whole-file validator, as an action over ActaFrame and ActaDecode, shown to accept
  what a scan without a plan accepts;
* the directory entry of a file that was created and not yet on disk when power is lost.
