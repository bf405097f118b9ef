----------------------------- MODULE ActaAppend -----------------------------
(***************************************************************************)
(* How one Writer assembles blocks from the batches it is given: append    *)
(* with its row and byte targets, publication, and the accounting of a     *)
(* session (write/writer.rs).  What a block costs is ActaBlock's; files,   *)
(* locks and crashes are ActaSession's.                                    *)
(*                                                                         *)
(* Left out: file length, sequence numbers and row IDs (in ActaSession).   *)
(***************************************************************************)
EXTENDS ActaBlock, SequencesExt

CONSTANTS
    Rows,               \* the rows a batch may hold
    RowTarget,          \* WriterOptions::row_block_target
    ByteTarget,         \* WriterOptions::byte_block_target
    Encodings,          \* the values of WriterOptions::encoding a session may have
    U64_MAX,            \* the largest value of a counter
    MaxBatch,           \* bound: rows of the largest batch
    MaxRows             \* bound: rows a session is given at most

ASSUME RowsAssumption == \A row \in Rows : row \in [Columns -> Cell]
\* validate_options
ASSUME OptionsAssumption ==
    /\ RowTarget \in 1..MAX_ROWS_PER_BLOCK
    /\ ByteTarget \in 1..MAX_FRAME_PAYLOAD_LENGTH
    /\ Encodings \subseteq {"Raw", "Fixed(Constant)"}
    /\ {U64_MAX, MaxBatch, MaxRows} \subseteq Nat

VARIABLES
    encoding,       \* WriterOptions::encoding of the session
    pc,             \* where the Writer is in its call
    call,           \* the call: its kind, its batch and the rows of it consumed
    buffer,         \* the rows of BlockBuffer
    counters,       \* published and durable rows and bytes
    poisoned,
    blocks,         \* the blocks in the file; history: the kind of call that wrote
                    \* each and the rows of its batch still to come
    synced,         \* how many of them a completed sync covers
    outcome,        \* how the last call ended
    before,         \* history: the Writer when the call in progress began
    given           \* history: the rows callers were told are accepted

avars == <<encoding, pc, call, buffer, counters, poisoned, blocks, synced, outcome,
           before, given>>

Batches == SeqOf(Rows, MaxBatch) \ {<<>>}

\* The function f.  (The comparison makes it a table that TLC computes once.)
Table(f) == IF f = f THEN f ELSE f

\* The price of every block the row target admits, and the raw frame built from it.
Price == Table([rows \in SeqOf(Rows, RowTarget) |-> block_size_with_statistics(rows)])

Built == Table([rows \in SeqOf(Rows, RowTarget) |-> BuiltFrame(rows)])

\* BlockBuffer::frame_bytes: an empty buffer is priced at zero.
FrameBytes(rows) == IF rows = <<>> THEN 0 ELSE Price[rows].frame_bytes

NoCall == [kind |-> "none", batch |-> <<>>, consumed |-> 0]

NoCounters == [ published_rows |-> 0, published_bytes |-> 0,
                durable_rows |-> 0, durable_bytes |-> 0, blocks_written |-> 0 ]

\* WriteAccounting::total_rows.
total_rows == counters.published_rows + Len(buffer)

\* What a caller can observe of the Writer.
WriterState == [ buffer |-> buffer, blocks |-> blocks, poisoned |-> poisoned,
                 total_rows |-> total_rows ]

\* from_append_session: the counters describe this session alone.
AppendInit ==
    /\ encoding \in Encodings
    /\ pc = "ready"
    /\ call = NoCall
    /\ buffer = <<>>
    /\ counters = NoCounters
    /\ poisoned = FALSE
    /\ blocks = <<>>
    /\ synced = 0
    /\ outcome = "none"
    /\ before = WriterState
    /\ given = <<>>

-----------------------------------------------------------------------------
(* Calls begin and end.                                                    *)

Begin(kind, batch, label) ==
    /\ pc = "ready"
    /\ call' = [kind |-> kind, batch |-> batch, consumed |-> 0]
    /\ before' = WriterState
    /\ outcome' = "none"
    /\ pc' = label
    /\ UNCHANGED <<buffer, counters, poisoned, blocks, synced, given>>

\* The rows the counters say were accepted since the call began, which is how a
\* caller learns how much of a batch a failed append took.
AcceptedOfCall == SubSeq(call.batch, 1, total_rows' - before.total_rows)

\* A call returns; finish consumes the Writer whatever its outcome.
ReturnFrom(how) ==
    /\ pc' = IF call.kind = "finish" THEN "finished" ELSE "ready"
    /\ outcome' = how
    /\ call' = NoCall
    /\ given' = given \o IF how = "ok" THEN call.batch ELSE AcceptedOfCall
    /\ UNCHANGED before

\* ensure_healthy refuses every call of a poisoned Writer.
RefusePoisoned ==
    /\ pc = "ready"
    /\ poisoned
    /\ outcome' = "poisoned"
    /\ before' = WriterState
    /\ UNCHANGED <<pc, call, buffer, counters, poisoned, blocks, synced, given>>

\* Another schema, no rows, or a value its column cannot hold.
RefuseBatch ==
    /\ pc = "ready"
    /\ ~poisoned
    /\ outcome' = "invalid"
    /\ before' = WriterState
    /\ UNCHANGED <<pc, call, buffer, counters, poisoned, blocks, synced, given>>

BeginAppend ==
    /\ ~poisoned
    /\ \E batch \in Batches :
         /\ Len(given) + Len(batch) <= MaxRows
         /\ Begin("append", batch, "append")

\* flush, sync and finish publish what is buffered first.
BeginFlush ==
    /\ ~poisoned
    /\ \E kind \in {"flush", "sync", "finish"} : Begin(kind, <<>>, "publish")

-----------------------------------------------------------------------------
(* append                                                                  *)

\* Mutant: the exception for an oversize row does not ask for an empty buffer.
FitsTargets_OversizeAnywhere(buffered, rows) ==
    \/ FrameBytes(rows) <= ByteTarget
    \/ Len(rows) = Len(buffered) + 1

\* Mutant: a block may not reach its byte target exactly.
FitsTargets_Below(buffered, rows) ==
    \/ FrameBytes(rows) < ByteTarget
    \/ buffered = <<>> /\ Len(rows) = 1

\* The byte target, which one row alone may pass.
FitsTargets(buffered, rows) ==
    \/ FrameBytes(rows) <= ByteTarget
    \/ buffered = <<>> /\ Len(rows) = 1

\* How many rows of the batch the block being assembled can still take.
fitting_prefix(buffered, batch, start) ==
    LET capacity == RowTarget - Len(buffered)
        max_rows == IF Len(batch) - start < capacity THEN Len(batch) - start ELSE capacity
        joined(n) == buffered \o SubSeq(batch, start + 1, start + n)
        fits(n) == /\ within_format_limits(Price[joined(n)], Len(joined(n)))
                   /\ FitsTargets(buffered, joined(n))
    IN  Max({0} \cup {n \in 1..max_rows : \A m \in 1..n : fits(m)})

\* publish_if_complete
Complete(rows) == Len(rows) >= RowTarget \/ FrameBytes(rows) >= ByteTarget

\* Mutant: the row no block can hold is not told from a full buffer.
Unwritable_Never(take) == FALSE

\* fitting_prefix reports an error: not one row fits an empty block.
Unwritable(take) == take = 0 /\ buffer = <<>>

\* One turn of the append loop.  No row fits an empty block: the row is refused.
\* No row fits the buffer: it is published first.
AppendTurn ==
    /\ pc = "append"
    /\ UNCHANGED <<counters, poisoned, blocks, synced>>
    /\ LET take == fitting_prefix(buffer, call.batch, call.consumed)
           pushed == buffer \o SubSeq(call.batch, call.consumed + 1, call.consumed + take)
       IN  IF call.consumed = Len(call.batch)
           THEN UNCHANGED buffer /\ ReturnFrom("ok")
           ELSE IF Unwritable(take)
           THEN UNCHANGED buffer /\ ReturnFrom("invalid")
           ELSE /\ buffer' = pushed
                /\ call' = [call EXCEPT !.consumed = @ + take]
                /\ pc' = IF take = 0 \/ Complete(pushed) THEN "publish" ELSE "append"
                /\ UNCHANGED <<outcome, before, given>>

-----------------------------------------------------------------------------
(* publish_buffer                                                          *)

\* Where publication returns to in the call that asked for it.
AfterPublish == IF call.kind = "append" THEN "append" ELSE "flush"

PublishNothing ==
    /\ pc = "publish"
    /\ buffer = <<>>
    /\ pc' = AfterPublish
    /\ UNCHANGED <<call, buffer, counters, poisoned, blocks, synced, outcome, before, given>>

\* fixed_column_candidate: a constant column needs all its values equal.
Describable(rows) ==
    \A c \in Columns : \A j, k \in ValidRows(c, rows) : rows[j][c] = rows[k][c]

\* build_data_frame_with_statistics succeeds.  The one value of a constant column
\* is never longer than the raw values that were priced.
Buildable(rows) ==
    IF encoding = "Raw" THEN within_format_limits(Built[rows], Len(rows))
    ELSE Describable(rows)

Committed(rows) ==
    [counters EXCEPT !.published_rows = @ + Len(rows),
                     !.published_bytes = @ + FrameBytes(rows),
                     !.blocks_written = @ + 1]

Overflows(rows) ==
    LET advanced == Committed(rows)
    IN  \E counter \in DOMAIN advanced : advanced[counter] > U64_MAX

\* Mutant: the call fails and the Writer stays usable.
CommitFails_Healthy ==
    /\ UNCHANGED <<counters, poisoned>>
    /\ ReturnFrom("overflow")

CommitFails ==
    /\ poisoned' = TRUE
    /\ UNCHANGED counters
    /\ ReturnFrom("overflow")

\* All counters advance, or none and the Writer is poisoned.
commit(rows) ==
    IF Overflows(rows) THEN CommitFails
    ELSE /\ counters' = Committed(rows)
         /\ pc' = AfterPublish
         /\ UNCHANGED <<call, poisoned, outcome, before, given>>

\* The frame reaches the file, then the buffer is cleared and counted.
Publish ==
    /\ pc = "publish"
    /\ buffer # <<>>
    /\ Buildable(buffer)
    /\ blocks' = Append(blocks, [ rows |-> buffer, by |-> call.kind,
                                  rest |-> SubSeq(call.batch, call.consumed + 1, Len(call.batch)) ])
    /\ buffer' = <<>>
    /\ commit(buffer)
    /\ UNCHANGED synced

\* Mutant: the buffer is cleared before the frame is known to build.
BuildFails_Cleared ==
    /\ pc = "publish"
    /\ buffer # <<>>
    /\ ~Buildable(buffer)
    /\ buffer' = <<>>
    /\ UNCHANGED <<counters, poisoned, blocks, synced>>
    /\ ReturnFrom("unbuildable")

\* The frame cannot be built: the buffer stays as it is.
BuildFails ==
    /\ pc = "publish"
    /\ buffer # <<>>
    /\ ~Buildable(buffer)
    /\ UNCHANGED <<buffer, counters, poisoned, blocks, synced>>
    /\ ReturnFrom("unbuildable")

\* write_all, flush or sync of the sink fails.
IoFails ==
    /\ \/ pc = "publish" /\ buffer # <<>> /\ Buildable(buffer)
       \/ pc \in {"flush", "sync"}
    /\ poisoned' = TRUE
    /\ UNCHANGED <<buffer, counters, blocks, synced>>
    /\ ReturnFrom("io")

\* The sink is flushed; flush returns, sync and finish go on.
Flushed ==
    /\ pc = "flush"
    /\ IF call.kind = "flush"
       THEN UNCHANGED <<buffer, counters>> /\ ReturnFrom("ok")
       ELSE /\ pc' = "sync"
            /\ UNCHANGED <<call, buffer, counters, outcome, before, given>>
    /\ UNCHANGED <<poisoned, blocks, synced>>

Durable == [counters EXCEPT !.durable_rows = counters.published_rows,
                            !.durable_bytes = counters.published_bytes]

Synced ==
    /\ pc = "sync"
    /\ synced' = Len(blocks)
    /\ counters' = Durable
    /\ UNCHANGED <<buffer, poisoned, blocks>>
    /\ ReturnFrom("ok")

\* After finish, or after a drop, which performs no I/O, another session begins.
Restart ==
    /\ pc \in {"ready", "finished"}
    /\ encoding' \in Encodings
    /\ pc' = "ready"
    /\ call' = NoCall
    /\ buffer' = <<>>
    /\ counters' = NoCounters
    /\ poisoned' = FALSE
    /\ blocks' = <<>>
    /\ synced' = 0
    /\ outcome' = "none"
    /\ before' = [buffer |-> <<>>, blocks |-> <<>>, poisoned |-> FALSE, total_rows |-> 0]
    /\ given' = <<>>

\* The options of a session never change.
Begins ==
    /\ RefusePoisoned \/ RefuseBatch \/ BeginAppend \/ BeginFlush
    /\ UNCHANGED encoding

GoesOn ==
    /\ \/ AppendTurn \/ PublishNothing \/ Publish \/ BuildFails \/ IoFails
       \/ Flushed \/ Synced
    /\ UNCHANGED encoding

AppendNext == Begins \/ GoesOn \/ Restart

AppendSpec == AppendInit /\ [][AppendNext]_avars

\* A call that has begun runs to its end.
AppendFairSpec == AppendSpec /\ WF_avars(GoesOn)

-----------------------------------------------------------------------------
(* Properties                                                              *)

RowsOf(bs) == FlattenSeq([k \in DOMAIN bs |-> bs[k].rows])

\* The rows of each block of the session and, last, those being assembled.
Assembled ==
    LET published == [k \in DOMAIN blocks |-> blocks[k].rows]
    IN  IF buffer = <<>> THEN published ELSE Append(published, buffer)

\* Between calls, file and buffer hold the rows callers were told are accepted,
\* in order and no other: those of every append that succeeded and, of one that
\* failed, the prefix total_rows names (the documentation of Writer::append).
\* Only a block the counters could not take may hold rows nobody was told of.
AcceptedRowsKept ==
    pc \in {"ready", "finished"} =>
        LET held == RowsOf(blocks) \o buffer
        IN  /\ IsPrefix(given, held)
            /\ counters.blocks_written = Len(blocks) => given = held

\* No block and no buffer passes a target, but for the byte target and a single
\* row (the documentation of WriterOptions).
BlocksWithinTargets ==
    \A k \in DOMAIN Assembled :
        /\ Len(Assembled[k]) <= RowTarget
        /\ FrameBytes(Assembled[k]) <= ByteTarget \/ Len(Assembled[k]) = 1

\* A block an append publishes has reached a target, or has no room for the next
\* row of the batch; that row then begins the next block, unless no block at all
\* can hold it.  A buffer that has reached a target is left for the next call
\* only if it cannot be built.  So many small appends make whole blocks
\* (fitting_prefix, publish_if_complete).
BlocksMaximal ==
    /\ \A k \in DOMAIN blocks :
         LET next == SubSeq(blocks[k].rest, 1, 1)
             joined == blocks[k].rows \o next
         IN  (/\ blocks[k].by = "append"
              /\ Len(blocks[k].rows) < RowTarget
              /\ FrameBytes(blocks[k].rows) < ByteTarget) =>
               /\ blocks[k].rest # <<>>
               /\ \/ FrameBytes(joined) > ByteTarget
                  \/ ~within_format_limits(Price[joined], Len(joined))
               /\ k < Len(Assembled) =>
                    \/ Head(Assembled[k+1]) = Head(next)
                    \/ ~within_format_limits(Price[next], 1)
    /\ pc = "ready" /\ ~poisoned /\ (Len(buffer) >= RowTarget \/ FrameBytes(buffer) >= ByteTarget)
         => ~Buildable(buffer)

\* The price a block was accepted at covers the frame that is built from it, so
\* no block is assembled that the limits then refuse to publish
\* (block_size_with_statistics against build_data_frame_with_statistics).
PriceCoversFrame ==
    buffer # <<>> =>
        LET price == Price[buffer]
            frame == Built[buffer]
        IN  /\ frame.payload_bytes = price.payload_bytes
            /\ frame.header_bytes <= price.header_bytes
            /\ within_format_limits(frame, Len(buffer))

\* The counters describe the blocks in the file, all of them together, and the
\* durable ones exactly those a completed sync covers.  Only the last block may
\* be missing from them, where it would have overflown one, and the Writer then
\* writes no other (commit, Writer::sync).
CountersDescribeFile ==
    LET bytes(n) == SumFunction([k \in 1..n |-> FrameBytes(blocks[k].rows)])
        counted == counters.blocks_written
    IN  /\ \/ Len(blocks) = counted
           \/ /\ Len(blocks) = counted + 1
              /\ poisoned /\ Overflows(blocks[counted + 1].rows)
        /\ counters.published_rows = Len(RowsOf(SubSeq(blocks, 1, counted)))
        /\ counters.published_bytes = bytes(counted)
        /\ counters.durable_rows = Len(RowsOf(SubSeq(blocks, 1, synced)))
        /\ counters.durable_bytes = bytes(synced)

\* Every append, flush, sync and finish returns; the append loop cannot go on
\* publishing for ever (fitting_prefix refuses a row no empty block can hold).
AppendReturns == (pc \notin {"ready", "finished"}) ~> (pc \in {"ready", "finished"})

\* A batch that is refused leaves the Writer exactly as it was found (the
\* documentation of Writer::append).
RefusalChangesNothing ==
    pc = "ready" /\ outcome = "invalid" => WriterState = before
=============================================================================
