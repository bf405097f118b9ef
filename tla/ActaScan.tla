------------------------------ MODULE ActaScan ------------------------------
(***************************************************************************)
(* What a Scan (read/scan.rs) or a Tail (read/tail.rs) makes of the blocks *)
(* of its reader: projection, pruning by the stored primary bounds, the    *)
(* decode of the selected columns (read/decode.rs), the filter of a        *)
(* primary range, and the allowances all of it is charged to               *)
(* (read/budget.rs).  A decode is one step per charge, so that commits and *)
(* damage to the file fall between two of them.                            *)
(*                                                                         *)
(* A block is its rows' primary values, the bounds and the TS_SORTED flag  *)
(* its header claims, and the streams that do not match their own          *)
(* checksums or do not decode.  Another writer made it, so the claims may  *)
(* be false.  Each column is decoded from streams of its own.              *)
(*                                                                         *)
(* Two variables observe and guide nothing: what the stream reads of the   *)
(* block being decoded found, and the answers given so far.                *)
(*                                                                         *)
(* Left out: the contents of columns other than the primary (ActaDecode),  *)
(* stored statistics, the steps of a refresh (ActaReader), overflow of the *)
(* 64-bit metrics.                                                         *)
(***************************************************************************)
EXTENDS Integers, Sequences, SequencesExt, FiniteSetsExt

CONSTANTS
    Columns,            \* the schema's columns, in schema order
    PrimaryColumn,      \* the column a primary, if there is one, is in
    NoRange,            \* the scan was given no primary range
    Blocks(_),          \* the blocks a commit may add at a position of the file
    Projections,        \* the name lists callers ask for
    Ranges,             \* the primary ranges callers ask for
    Streams,            \* the streams of each column, in the order they are decoded
    ValueBytes,         \* bytes of a value of each stream
    PackedBytes,        \* and those it is stored in where it is compressed
    KeyBytes,           \* bytes of a decoded primary value
    HeaderBytes,        \* length of a block header
    MaxRowsPerScan, MaxScanBytes, MaxBlockBytes, MaxBlocks,     \* Limits
    FileBlocks,         \* bound: the blocks ever committed
    MaxDamage           \* bound: the stream ranges ever damaged

Names == Range(Columns)

AllStreams == UNION {Range(Streams[c]) : c \in Names}

\* One charge of a decode: its stage, and the stream or the primary it is for.
Step(stage, of) == [stage |-> stage, of |-> of]

\* A block as another writer's frame describes it: check_schema_agreement turns away
\* one without rows.
BlockShape(block) ==
    /\ block.values \in Seq(Int) /\ block.values # <<>>
    /\ block.min \in Int /\ block.max \in Int /\ block.sorted \in BOOLEAN
    /\ block.wrong \subseteq AllStreams /\ block.packed \subseteq AllStreams
    /\ block.broken \subseteq [stage : {"transformed", "values"}, of : AllStreams]

ASSUME ScanAssumption ==
    /\ Columns \in Seq(Names) /\ PrimaryColumn \in Names
    /\ \A names \in Projections : names \in Seq(Range(names))
    /\ \A range \in Ranges : range.start \in Int /\ range.end \in Int
    /\ \A k \in 1..FileBlocks : \A block \in Blocks(k) : BlockShape(block)
    /\ Streams \in [Names -> Seq(AllStreams)]
    /\ ValueBytes \in [AllStreams -> Nat] /\ PackedBytes \in [AllStreams -> Nat]
    /\ {KeyBytes, HeaderBytes, MaxRowsPerScan, MaxScanBytes, MaxBlockBytes,
        MaxBlocks, FileBlocks, MaxDamage} \subseteq Nat

VARIABLES
    primary,        \* the type of the primary column, or "none"
    file,           \* the committed blocks
    damage,         \* <<block, stream>>: stream ranges damaged since
    mode,           \* "scan" or "tail"
    pc,             \* where the consumer is
    plan,           \* ScanPlan: projection and range
    blocks,         \* blocks of the reader's snapshot
    next_index,     \* blocks consumed
    handle,         \* Scan.file: the file was opened
    budget,         \* ScanBudget: remaining rows and bytes
    remaining,      \* Budget: what is left for the block being decoded
    work,           \* the charges its decode makes
    done,           \* those of them it has made
    metrics,        \* ScanMetrics
    reads,          \* observed: what each stream read of that block found
    answers         \* observed: one entry per block consumed, what became of it

environment == <<primary, file, damage>>
decoding == <<work, done, reads>>
vars == <<environment, mode, pc, plan, blocks, next_index, handle, budget,
          remaining, metrics, decoding, answers>>

-----------------------------------------------------------------------------
(* A block and what its header says of it.                                 *)

Rows(block) == Len(block.values)

\* The primary_metadata of the writer: bounds and order of the rows.
primary_metadata(values) ==
    [ min |-> Min(Range(values)), max |-> Max(Range(values)),
      sorted |-> \A i \in 1..Len(values) - 1 : values[i] <= values[i + 1] ]

StoredBytes(block, stream) ==
    Rows(block) * (IF stream \in block.packed THEN PackedBytes[stream] ELSE ValueBytes[stream])

total_length(block) ==
    HeaderBytes + SumFunction([s \in AllStreams |-> StoredBytes(block, s)])

Primaries == IF primary = "none" THEN {} ELSE {PrimaryColumn}

Empty == plan.range.start = plan.range.end

InRange(value) == plan.range.start <= value /\ value < plan.range.end

-----------------------------------------------------------------------------
(* ScanPlan                                                                *)

Refused == pc' = "refused" /\ UNCHANGED plan

\* project: exact names, none twice; replaces the whole projection.
Project ==
    /\ pc = "configure"
    /\ \E names \in Projections :
         IF Range(names) \subseteq Names /\ Cardinality(Range(names)) = Len(names)
         THEN plan' = [plan EXCEPT !.projection = names] /\ UNCHANGED pc
         ELSE Refused
    /\ UNCHANGED <<environment, mode, blocks, next_index, handle, budget, remaining,
                   metrics, decoding, answers>>

\* primary_range: an ordered range of the type of the primary column.
PrimaryRange ==
    /\ pc = "configure"
    /\ \E range \in Ranges :
         IF range.start <= range.end /\ range.type = primary
         THEN plan' = [plan EXCEPT !.range = range] /\ UNCHANGED pc
         ELSE Refused
    /\ UNCHANGED <<environment, mode, blocks, next_index, handle, budget, remaining,
                   metrics, decoding, answers>>

\* The primary a block is decoded with: to filter, or because it was asked for.
internal_primary ==
    {c \in Primaries : plan.range # NoRange \/ c \in Range(plan.projection)}

\* Mutant: the end of a range is taken as part of it.
should_prune_Open(block) ==
    /\ plan.range # NoRange
    /\ Empty \/ block.max <= plan.range.start \/ block.min >= plan.range.end

should_prune(block) ==
    /\ plan.range # NoRange
    /\ Empty \/ block.max < plan.range.start \/ block.min >= plan.range.end

\* The slices of a sequence: where one begins, and its length.
Slices(values) == {slice \in (1..Len(values)) \X (1..Len(values)) :
                      slice[1] + slice[2] <= Len(values) + 1}

\* partition_point of a slice: the first index whose value is not below the
\* limit, found by halving, which says nothing when the values are not ordered.
partition_point(values, limit) ==
    LET search[slice \in Slices(values)] ==
            LET base == slice[1]  size == slice[2]  half == size \div 2
            IN  IF size = 1 THEN IF values[base] < limit THEN base + 1 ELSE base
                ELSE search[<<IF values[base + half] < limit THEN base + half ELSE base,
                              size - half>>]
    IN  search[<<1, Len(values)>>]

\* The rows of a decoded block that the plan keeps: those between two partition
\* points of a block in order, and those found in the range one by one otherwise.
filter_batch(sorted, values) ==
    IF sorted
    THEN [k \in 1..partition_point(values, plan.range.end)
                       - partition_point(values, plan.range.start) |->
            partition_point(values, plan.range.start) + k - 1]
    ELSE LET found[n \in 0..Len(values)] ==
                 IF n = 0 THEN <<>>
                 ELSE IF InRange(values[n]) THEN Append(found[n - 1], n) ELSE found[n - 1]
         IN  found[Len(values)]

-----------------------------------------------------------------------------
(* The reader behind the consumer.                                         *)

Damaged(k) == \E s \in AllStreams : <<k, s>> \in damage

\* Scan::new and Tail::new, over a reader opened on intact blocks.
Open ==
    /\ pc = "closed"
    /\ ~\E k \in 1..Len(file) : Damaged(k)
    /\ Len(file) <= MaxBlocks
    /\ \E m \in {"scan", "tail"} :
         /\ mode' = m
         /\ next_index' = IF m = "tail" THEN Len(file) ELSE 0
    /\ blocks' = Len(file)
    /\ pc' = "configure"
    /\ UNCHANGED <<environment, plan, handle, budget, remaining, metrics, decoding,
                   answers>>

\* The caller asks for the next item.
Call ==
    /\ pc \in {"configure", "idle"}
    /\ pc' = "next"
    /\ UNCHANGED <<environment, mode, plan, blocks, next_index, handle, budget, remaining,
                   metrics, decoding, answers>>

\* A scan that has consumed its snapshot returns None, now and ever after.
ScanDone ==
    /\ pc = "next" /\ mode = "scan" /\ next_index = blocks
    /\ pc' = "done"
    /\ UNCHANGED <<environment, mode, plan, blocks, next_index, handle, budget, remaining,
                   metrics, decoding, answers>>

\* A tail that has consumed its snapshot refreshes it.  A frame that does not
\* validate, or one past max_blocks, fails the refresh and adds nothing.
Refresh ==
    /\ pc = "next" /\ mode = "tail" /\ next_index = blocks
    /\ IF Len(file) > MaxBlocks \/ \E k \in blocks + 1..Len(file) : Damaged(k)
       THEN pc' = "idle" /\ UNCHANGED <<blocks, metrics>>
       ELSE /\ blocks' = Len(file)
            /\ metrics' = [metrics EXCEPT !.bytes_read =
                 @ + SumFunction([k \in blocks + 1..Len(file) |-> total_length(file[k])])]
            /\ pc' = IF blocks' = blocks THEN "idle" ELSE "next"
    /\ UNCHANGED <<environment, mode, plan, next_index, handle, budget, remaining,
                   decoding, answers>>

-----------------------------------------------------------------------------
(* Consuming a block.  The index moves first, whatever becomes of it.      *)

\* What became of a block: its rows, the charges that went through, the reads made.
Entry(k, kind, rows, steps, seen) ==
    [block |-> k, kind |-> kind, rows |-> rows, steps |-> steps, reads |-> seen]

Answer(k, kind, rows, seen) ==
    /\ answers' = Append(answers, Entry(k, kind, rows, done, seen))
    /\ work' = <<>> /\ done' = 0 /\ reads' = <<>>

\* Mutant: a block that fails is left to be tried again.
Fail_Retries(k, kind, seen) ==
    /\ Answer(k, kind, <<>>, seen)
    /\ next_index' = k - 1
    /\ pc' = "idle"

\* An item that is an error.
Fail(k, kind, seen) ==
    /\ Answer(k, kind, <<>>, seen)
    /\ next_index' = k
    /\ pc' = "idle"

record_block(pruned) ==
    [metrics EXCEPT !.blocks_considered = @ + 1,
                    !.blocks_pruned = @ + (IF pruned THEN 1 ELSE 0)]

\* next of a Scan and decode_next of a Tail, up to the decode: prune, open the
\* file once, charge the rows the block claims.
Consume ==
    /\ pc = "next" /\ next_index < blocks
    /\ LET k == next_index + 1
           pruned == should_prune(file[k])
       IN  /\ metrics' = record_block(pruned)
           /\ \/ /\ pruned
                 /\ Answer(k, "pruned", <<>>, <<>>)
                 /\ next_index' = k
                 /\ UNCHANGED <<pc, handle, budget>>
              \/ /\ ~pruned /\ ~handle
                 /\ Fail(k, "io", <<>>)
                 /\ UNCHANGED <<handle, budget>>
              \/ /\ ~pruned
                 /\ handle' = TRUE
                 /\ IF Rows(file[k]) > budget.rows
                    THEN Fail(k, "scan_rows", <<>>) /\ UNCHANGED budget
                    ELSE /\ budget' = [budget EXCEPT !.rows = @ - Rows(file[k])]
                         /\ next_index' = k
                         /\ pc' = "frame"
                         /\ UNCHANGED <<decoding, answers>>
    /\ UNCHANGED <<environment, mode, plan, blocks, remaining>>

\* The charges that decode a stream: its stored bytes, which are read and checked,
\* those it decompresses to, and its values.
StreamSteps(block, stream) ==
    <<Step("stored", stream)>>
    \o (IF stream \in block.packed THEN <<Step("transformed", stream)>> ELSE <<>>)
    \o <<Step("values", stream)>>

\* The charges of a decode: those of the streams of each column, and then the
\* primary, where there is one to verify.
StepsFor(block, columns, verified) ==
    LET sources == FlattenSeq([i \in 1..Len(columns) |-> Streams[columns[i]]])
    IN  FlattenSeq([i \in 1..Len(sources) |-> StreamSteps(block, sources[i])])
        \o [i \in 1..Cardinality(verified) |-> Step("primary", PrimaryColumn)]

\* The columns selected, and the primary after them if it was not.
Decoded == plan.projection \o SetToSeq(internal_primary \ Range(plan.projection))

Selection(block) == StepsFor(block, Decoded, internal_primary)

\* Reading the frame of a block: it is accounted for with its header, and the decode
\* begins on the columns.
Begin ==
    /\ metrics' = [metrics EXCEPT !.bytes_read =
                     @ + (total_length(file[next_index]) + HeaderBytes)]
    /\ remaining' = MaxBlockBytes
    /\ work' = Selection(file[next_index])
    /\ pc' = "decode"
    /\ UNCHANGED <<done, reads, answers, next_index>>

\* Mutant: a frame that does not check is read again, until it does.
ReadFrame_Waits ==
    /\ pc = "frame"
    /\ ~Damaged(next_index)
    /\ Begin
    /\ UNCHANGED <<environment, mode, plan, blocks, handle, budget>>

\* decode_selected_block_at: read the whole frame against its commit trailer.
ReadFrame ==
    /\ pc = "frame"
    /\ IF Damaged(next_index)
       THEN Fail(next_index, "bad_frame", <<>>) /\ UNCHANGED <<metrics, remaining>>
       ELSE Begin
    /\ UNCHANGED <<environment, mode, plan, blocks, handle, budget>>

\* Bounds are those of the values, and TS_SORTED is only claimed of values that
\* do not decrease.
verify_primary_column(block) ==
    LET truth == primary_metadata(block.values)
    IN  /\ block.min = truth.min /\ block.max = truth.max
        /\ block.sorted => truth.sorted

\* The bytes a read of a stream finds.
Contents(k, stream) ==
    IF <<k, stream>> \in damage THEN "damaged"
    ELSE IF stream \in file[k].wrong THEN "mismatched"
    ELSE "intact"

\* Mutant: bytes that the checksum of the body covered are taken on trust.
Intact_Trusting(contents) == contents # "mismatched"

\* The bytes read match the checksum of the descriptor of their stream.
Intact(contents) == contents = "intact"

\* What a charge pays for succeeds, given what it reads.
Succeeds(block, step, contents) ==
    /\ step.stage = "stored" => Intact(contents)
    /\ step.stage = "primary" => verify_primary_column(block)
    /\ step \notin block.broken

Charge(block, step) ==
    IF step.stage = "primary" THEN Rows(block) * KeyBytes
    ELSE IF step.stage = "stored" THEN StoredBytes(block, step.of)
    ELSE Rows(block) * ValueBytes[step.of]

\* Mutant: the scan pays each charge twice.
charge_Twice(bytes) ==
    /\ remaining' = remaining - bytes
    /\ budget' = [budget EXCEPT !.bytes = @ - 2 * bytes]

\* A charge is taken from the block's allowance and from the scan's, or from neither.
charge(bytes) ==
    /\ remaining' = remaining - bytes
    /\ budget' = [budget EXCEPT !.bytes = @ - bytes]

\* A stream is recorded when its bytes are there: decompressed, where they have to be.
Records(block, step) ==
    step.stage = IF step.of \in block.packed THEN "transformed" ELSE "stored"

\* Mutant: the bytes of a stream are left out of those read.
record_stream_Apart(bytes) ==
    [metrics EXCEPT !.streams_decoded = @ + 1, !.stream_bytes_decoded = @ + bytes]

record_stream(bytes) ==
    [metrics EXCEPT !.streams_decoded = @ + 1,
                    !.stream_bytes_decoded = @ + bytes,
                    !.bytes_read = @ + bytes]

\* One charge of the decode, and what it pays for: a stream is read and checked, or
\* decompressed, or its values are built, or the primary is verified.  What was
\* charged stays spent when that fails.
DecodeStep ==
    /\ pc = "decode" /\ done < Len(work)
    /\ LET k == next_index
           block == file[k]
           step == work[done + 1]
           bytes == Charge(block, step)
           contents == Contents(k, step.of)
           seen == IF step.stage # "stored" THEN reads
                   ELSE Append(reads, [stream |-> step.of, contents |-> contents])
       IN  IF bytes > remaining THEN /\ Fail(k, "block_bytes", reads)
                                     /\ UNCHANGED <<budget, remaining, metrics>>
           ELSE IF bytes > budget.bytes THEN /\ Fail(k, "scan_bytes", reads)
                                             /\ UNCHANGED <<budget, remaining, metrics>>
           ELSE /\ charge(bytes)
                /\ IF Succeeds(block, step, contents)
                   THEN /\ done' = done + 1 /\ reads' = seen
                        /\ metrics' = IF Records(block, step)
                                      THEN record_stream(StoredBytes(block, step.of))
                                      ELSE metrics
                        /\ UNCHANGED <<pc, work, answers, next_index>>
                   ELSE Fail(k, "corruption", seen) /\ UNCHANGED metrics
    /\ UNCHANGED <<environment, mode, plan, blocks, handle>>

record_rows(rows) == [metrics EXCEPT !.rows_returned = @ + Len(rows)]

\* The decoded block is filtered and yielded; one without a row in the range is
\* passed over and the loop goes on.
Finish ==
    /\ pc = "decode" /\ done = Len(work)
    /\ LET block == file[next_index]
           all == [k \in 1..Rows(block) |-> k]
           sorted == internal_primary # {} /\ block.sorted
           rows == IF plan.range = NoRange THEN all ELSE filter_batch(sorted, block.values)
       IN  IF plan.range # NoRange /\ rows = <<>>
           THEN /\ Answer(next_index, "empty", <<>>, reads)
                /\ pc' = "next"
                /\ UNCHANGED metrics
           ELSE /\ Answer(next_index, "batch", rows, reads)
                /\ pc' = "idle"
                /\ metrics' = record_rows(rows)
    /\ UNCHANGED <<environment, mode, plan, blocks, next_index, handle, budget, remaining>>

-----------------------------------------------------------------------------
(* Other processes.                                                        *)

Commit ==
    /\ Len(file) < FileBlocks
    /\ pc = "closed" \/ mode = "tail"
    /\ \E block \in Blocks(Len(file) + 1) : file' = Append(file, block)
    /\ UNCHANGED <<primary, damage, mode, pc, plan, blocks, next_index, handle, budget,
                   remaining, metrics, decoding, answers>>

\* Stored bytes change under the reader.
Damage ==
    /\ pc # "closed"
    /\ Cardinality(damage) < MaxDamage
    /\ \E k \in 1..Len(file), s \in AllStreams : damage' = damage \cup {<<k, s>>}
    /\ UNCHANGED <<primary, file, mode, pc, plan, blocks, next_index, handle, budget,
                   remaining, metrics, decoding, answers>>

Init ==
    /\ primary \in {"timestamp", "none"}
    /\ file = <<>> /\ damage = {}
    /\ mode = "scan" /\ pc = "closed"
    /\ plan = [projection |-> Columns, range |-> NoRange]
    /\ blocks = 0 /\ next_index = 0 /\ handle = FALSE
    /\ budget = [rows |-> MaxRowsPerScan, bytes |-> MaxScanBytes]
    /\ remaining = 0 /\ work = <<>> /\ done = 0 /\ reads = <<>>
    /\ metrics = [ blocks_considered |-> 0, blocks_pruned |-> 0, streams_decoded |-> 0,
                   stream_bytes_decoded |-> 0, bytes_read |-> 0, rows_returned |-> 0 ]
    /\ answers = <<>>

Advance == Call \/ ScanDone \/ Refresh \/ Consume \/ ReadFrame \/ DecodeStep \/ Finish

Next == Open \/ Project \/ PrimaryRange \/ Advance \/ Commit \/ Damage

Spec == Init /\ [][Next]_vars

\* A caller that goes on asking for items.
FairSpec == Spec /\ WF_vars(Advance)

-----------------------------------------------------------------------------
(* Properties                                                              *)

Reference(block) ==
    {k \in 1..Rows(block) : plan.range = NoRange \/ InRange(block.values[k])}

InFileOrder(rows) == \A i, j \in 1..Len(rows) : i < j => rows[i] < rows[j]

Honest(block) == LET truth == primary_metadata(block.values)
                 IN  block.min = truth.min /\ block.max = truth.max
                     /\ (block.sorted => truth.sorted)

\* A batch holds exactly the rows of its block in the range, in their order,
\* whatever the header claims of them; a block passed over after its decode has
\* none; and a block pruned unread has none if its bounds are true.
AnswersAreExact ==
    \A i \in 1..Len(answers) :
        LET answer == answers[i]
            block == file[answer.block]
        IN  /\ answer.kind = "batch" => /\ Range(answer.rows) = Reference(block)
                                        /\ InFileOrder(answer.rows)
            /\ answer.kind = "empty" => Reference(block) = {}
            /\ answer.kind = "pruned" /\ Honest(block) => Reference(block) = {}

\* A batch, or a block passed over after its decode, was read from every stream of
\* its columns and no other; each matched its checksum at the moment it was read,
\* whatever became of the file since its body was checked; all of it decoded; and
\* when the primary was decoded, the claims of the header about it are true.
BatchesAreVerified ==
    \A i \in 1..Len(answers) :
        LET answer == answers[i]
            block == file[answer.block]
            found == Range(answer.reads)
        IN  answer.kind \in {"batch", "empty"} =>
                /\ {read.stream : read \in found} = UNION {Range(Streams[c]) : c \in Range(Decoded)}
                /\ \A read \in found : read.contents = "intact"
                /\ Range(Selection(block)) \cap block.broken = {}
                /\ internal_primary # {} => Honest(block)

InFlight == IF pc \in {"frame", "decode"} THEN 1 ELSE 0

\* The blocks before those answered.
First == next_index - InFlight - Len(answers)

\* Every block behind the position was dealt with exactly once and in file
\* order, failures and empty results included, except the one being decoded.
EachBlockOnce ==
    /\ \A i \in 1..Len(answers) : answers[i].block = First + i
    /\ mode = "scan" => First = 0

\* What one charge is worth: bytes charged, and the stream it brings in.
Worth(block, step, what) ==
    CASE what = "bytes" -> Charge(block, step)
      [] what = "streams" -> IF Records(block, step) THEN 1 ELSE 0
      [] what = "stream_bytes" ->
            IF Records(block, step) THEN StoredBytes(block, step.of) ELSE 0

Upto(block, steps, n, what) == SumFunction([i \in 1..n |-> Worth(block, steps[i], what)])

Opened(answer) == answer.kind \notin {"pruned", "io", "scan_rows"}

\* The charges taken for a block: one that was refused is not spent, and one whose
\* check failed is.
Charges(answer) == answer.steps + (IF answer.kind = "corruption" THEN 1 ELSE 0)

\* The bytes of its frame, once that has checked, and of its header.
Framed(answer, block) ==
    IF Opened(answer) /\ answer.kind \notin {"frame", "bad_frame"}
    THEN total_length(block) + HeaderBytes ELSE 0

\* What a block comes to, told from how far it got.
Account(answer, block, steps, field) ==
    CASE field = "considered" -> 1
      [] field = "pruned" -> IF answer.kind = "pruned" THEN 1 ELSE 0
      [] field = "rows" -> IF Opened(answer) THEN Rows(block) ELSE 0
      [] field = "bytes" -> Upto(block, steps, Charges(answer), field)
      [] field \in {"streams", "stream_bytes"} -> Upto(block, steps, answer.steps, field)
      [] field = "read" ->
            Framed(answer, block) + Upto(block, steps, answer.steps, "stream_bytes")
      [] field = "returned" -> Len(answer.rows)

\* The answers, and the block being read as it stands.
Dealt == IF InFlight = 0 THEN answers
         ELSE Append(answers, Entry(next_index, pc, <<>>, done, reads))

Total(field, n) ==
    SumFunction([i \in 1..n |->
        Account(Dealt[i], file[Dealt[i].block], Selection(file[Dealt[i].block]), field)])

\* However many polls and failures lie between them, the blocks a scan or a tail
\* deals with stay together within the rows and bytes of the scan, and each of them
\* within the bytes of a block; and none is refused that would still have fitted.
AllowancesBound ==
    /\ Total("rows", Len(Dealt)) <= MaxRowsPerScan
    /\ Total("bytes", Len(Dealt)) <= MaxScanBytes
    /\ \A i \in 1..Len(Dealt) :
         LET answer == Dealt[i]
             block == file[answer.block]
             own == Account(answer, block, Selection(block), "bytes")
             next == Charge(block, Selection(block)[answer.steps + 1])
         IN  /\ own <= MaxBlockBytes
             /\ answer.kind = "scan_rows" => Total("rows", i) + Rows(block) > MaxRowsPerScan
             /\ answer.kind = "block_bytes" => own + next > MaxBlockBytes
             /\ answer.kind = "scan_bytes" => Total("bytes", i) + next > MaxScanBytes

\* The frames the refreshes of a tail read; a scan discovers nothing.
Discovered ==
    IF mode = "scan" THEN 0
    ELSE SumFunction([k \in First + 1..blocks |-> total_length(file[k])])

\* The counters are, exactly and at any time, what the blocks dealt with so far and
\* the frames discovered come to.
MetricsDescribeAnswers ==
    metrics = [ blocks_considered |-> Total("considered", Len(Dealt)),
                blocks_pruned |-> Total("pruned", Len(Dealt)),
                streams_decoded |-> Total("streams", Len(Dealt)),
                stream_bytes_decoded |-> Total("stream_bytes", Len(Dealt)),
                bytes_read |-> Discovered + Total("read", Len(Dealt)),
                rows_returned |-> Total("returned", Len(Dealt)) ]

\* A scan whose caller goes on asking comes to its end, whatever fails on the way,
\* and a tail has then dealt with every block its snapshot came to hold.
EveryBlockReached ==
    (pc = "next") ~> (IF mode = "scan" THEN pc = "done"
                      ELSE next_index = blocks /\ InFlight = 0)
=============================================================================
