---------------------------- MODULE ActaSession ----------------------------
(***************************************************************************)
(* Append sessions and recovery on one path: Writer::create, Writer::open, *)
(* append, flush, sync, finish and drop (write/writer.rs), the cooperative *)
(* lock (lock.rs) and repair_incomplete_tail (recovery.rs), run by several *)
(* processes, with process death at any step and loss of power.            *)
(*                                                                         *)
(* One action is the work between two points where another process, a      *)
(* crash or a failing system call can intervene: a system call that        *)
(* changes shared state starts an action of its own.  A call that fails    *)
(* without changing anything (the path exists, the lock is held by         *)
(* another handle on open) is the step back to "idle".                     *)
(*                                                                         *)
(* Left out: values and encodings (a batch is a number of rows), the byte  *)
(* target, the accounting counters, processes that ignore the lock.        *)
(***************************************************************************)
EXTENDS ActaFile

CONSTANTS
    Procs,          \* processes that may write or repair
    Inodes,         \* file identities the path may name over time
    None,           \* no process, no file
    RowTarget,      \* WriterOptions::row_block_target
    MaxBatch,       \* bound: rows of the largest appended batch
    MaxFrames       \* bound: frames after which no append call begins

ASSUME TargetsAssumption ==
    /\ RowTarget \in Nat \ {0}
    /\ MaxBatch \in Nat
    /\ MaxFrames \in Nat
ASSUME NoneAssumption == None \notin Procs /\ None \notin Inodes

VARIABLES
    path,       \* the file the path names, or None
    data,       \* the contents of each file, as every process sees them
    synced,     \* how many runs of each file are known to be on disk
    undone,     \* contents before a truncation that is not yet on disk
    lock,       \* the process that holds the writer lock of each file
    fd,         \* the handle a process has open
    pc,         \* where each process is in its call
    writer,     \* the Writer of a process: AppendState, buffer, call in progress
    plan,       \* the walk a process captured from its handle
    reply,      \* how the last repair call of a process ended
    acked       \* history: the data frames reported durable to a caller

vars == <<path, data, synced, undone, lock, fd, pc, writer, plan, reply, acked>>

-----------------------------------------------------------------------------
(* Control points.                                                         *)

\* Writer::create between create_new and its return.
Creating == {"create_lock", "write_initial", "cleanup"}

\* Writer::open between open(2) and its return.
Opening == {"open_lock", "open_scan", "open_check"}

\* A live Writer: at rest, poisoned, or inside one of its calls.
Appending == {"ready", "append", "publish", "write_frame", "flushed", "poisoned"}

\* repair_incomplete_tail between open(2) and its return.
Repairing == {"repair_lock", "repair_scan", "repair_truncate",
              "repair_sync", "repair_verify"}

Labels == {"idle"} \cup Creating \cup Opening \cup Appending \cup Repairing

\* The points at which a process holds the writer lock.
Locked == (Appending \cup Repairing \cup {"write_initial", "open_scan", "open_check"})
              \ {"repair_lock"}

Calls == {"none", "append", "flush", "sync", "finish"}

Replies == {"none", "ok", "refused", "unchanged", "removed"}

\* AppendState::new, and the state of a process without a Writer.
NoWriter == [ file_length |-> 0, next_sequence |-> FIRST_DATA_FRAME_SEQUENCE,
              next_row_id |-> FIRST_BASE_ROW_ID, buffered |-> 0,
              remaining |-> 0, body |-> NoBody, written |-> 0, call |-> "none" ]

NoPlan == Walk(<<>>)

\* The frames a reader of the path could see.
Committed == IF path = None THEN <<>> ELSE DataFrames(data[path])

SchemaFrame == [ sequence |-> SCHEMA_FRAME_SEQUENCE, base_row_id |-> FIRST_BASE_ROW_ID,
                 row_count |-> 0, body |-> NoBody ]

Init ==
    /\ path = None
    /\ data = [i \in Inodes |-> <<>>]
    /\ synced = [i \in Inodes |-> 0]
    /\ undone = [i \in Inodes |-> <<>>]
    /\ lock = [i \in Inodes |-> None]
    /\ fd = [p \in Procs |-> None]
    /\ pc = [p \in Procs |-> "idle"]
    /\ writer = [p \in Procs |-> NoWriter]
    /\ plan = [p \in Procs |-> NoPlan]
    /\ reply = [p \in Procs |-> "none"]
    /\ acked = <<>>

-----------------------------------------------------------------------------
(* Steps shared by the calls.                                              *)

At(p, label) == pc[p] = label

Goto(p, label) == pc' = [pc EXCEPT ![p] = label]

\* Open a handle on the file the path names.
OpenHandle(p, label) ==
    /\ At(p, "idle")
    /\ path # None
    /\ fd' = [fd EXCEPT ![p] = path]
    /\ reply' = [reply EXCEPT ![p] = "none"]
    /\ Goto(p, label)
    /\ UNCHANGED <<path, data, synced, undone, lock, writer, plan, acked>>

\* Mutant: a lock that another handle holds is not noticed.
AcquireLock_Ignored(p, label) ==
    /\ lock' = [lock EXCEPT ![fd[p]] = p]
    /\ Goto(p, label)
    /\ UNCHANGED <<path, data, synced, undone, fd, writer, plan, reply, acked>>

\* flock(LOCK_EX | LOCK_NB) succeeds.
AcquireLock(p, label) ==
    /\ lock[fd[p]] = None
    /\ lock' = [lock EXCEPT ![fd[p]] = p]
    /\ Goto(p, label)
    /\ UNCHANGED <<path, data, synced, undone, fd, writer, plan, reply, acked>>

\* Closing the handle releases its lock; the Writer and the plan go with it.
CloseHandle(p, label) ==
    /\ fd' = [fd EXCEPT ![p] = None]
    /\ lock' = [i \in Inodes |-> IF lock[i] = p THEN None ELSE lock[i]]
    /\ writer' = [writer EXCEPT ![p] = NoWriter]
    /\ plan' = [plan EXCEPT ![p] = NoPlan]
    /\ Goto(p, label)

\* A call returns without changing a file any further, and says how it ended.
Return(p, how) ==
    /\ CloseHandle(p, "idle")
    /\ reply' = [reply EXCEPT ![p] = how]
    /\ UNCHANGED <<path, data, synced, undone, acked>>

-----------------------------------------------------------------------------
(* Writer::create                                                          *)

\* Mutant: create without create_new, which adopts an existing file.
Create_NotExclusive(p) ==
    /\ At(p, "idle")
    /\ \E i \in Inodes :
        /\ IF path = None THEN \A q \in Procs : fd[q] # i ELSE i = path
        /\ path' = i
        /\ fd' = [fd EXCEPT ![p] = i]
    /\ reply' = [reply EXCEPT ![p] = "none"]
    /\ Goto(p, "create_lock")
    /\ UNCHANGED <<data, synced, undone, lock, writer, plan, acked>>

\* OpenOptions::create_new: the path must not exist.
Create(p) ==
    /\ At(p, "idle")
    /\ path = None
    /\ \E i \in Inodes :
        /\ \A q \in Procs : fd[q] # i
        /\ path' = i
        /\ data' = [data EXCEPT ![i] = <<>>]
        /\ synced' = [synced EXCEPT ![i] = 0]
        /\ undone' = [undone EXCEPT ![i] = <<>>]
        /\ fd' = [fd EXCEPT ![p] = i]
    /\ reply' = [reply EXCEPT ![p] = "none"]
    /\ Goto(p, "create_lock")
    /\ UNCHANGED <<lock, writer, plan, acked>>

CreateLock(p) ==
    /\ At(p, "create_lock")
    /\ AcquireLock(p, "write_initial")

\* The lock is held or flock fails: the handle is dropped, then the path removed.
CreateLockFails(p) ==
    /\ At(p, "create_lock")
    /\ CloseHandle(p, "cleanup")
    /\ UNCHANGED <<path, data, synced, undone, reply, acked>>

\* write_initial, one unit at a time; the last unit makes the Writer.
WriteInitial(p) ==
    /\ At(p, "write_initial")
    /\ LET done == writer[p].written
           f == AppendUnit(data[fd[p]], SchemaFrame, done)
       IN  /\ data' = [data EXCEPT ![fd[p]] = f]
           /\ IF done + 1 = TotalLength(SchemaFrame)
              THEN /\ writer' = [writer EXCEPT ![p] =
                                   [NoWriter EXCEPT !.file_length = TotalLength(SchemaFrame)]]
                   /\ Goto(p, "ready")
              ELSE /\ writer' = [writer EXCEPT ![p].written = done + 1]
                   /\ UNCHANGED pc
    /\ UNCHANGED <<path, synced, undone, lock, fd, plan, reply, acked>>

WriteInitialFails(p) ==
    /\ At(p, "write_initial")
    /\ CloseHandle(p, "cleanup")
    /\ UNCHANGED <<path, data, synced, undone, reply, acked>>

\* std::fs::remove_file(path): whatever file the path names by now.
Cleanup(p) ==
    /\ At(p, "cleanup")
    /\ path' = None
    /\ Goto(p, "idle")
    /\ UNCHANGED <<data, synced, undone, lock, fd, writer, plan, reply, acked>>

-----------------------------------------------------------------------------
(* Writer::open                                                            *)

Open(p) == OpenHandle(p, "open_lock")

OpenLock(p) ==
    /\ At(p, "open_lock")
    /\ AcquireLock(p, "open_scan")

\* WriterLocked, or any other failure of flock.
OpenLockFails(p) ==
    /\ At(p, "open_lock")
    /\ Return(p, "none")

\* A walk that ends where an append may continue.
Appendable(f) == HasSchemaFrame(f) /\ ~Walk(f).incomplete_tail /\ ~Walk(f).corruption

\* Discovery on the locked handle captures the extent and walks it.
OpenScan(p) ==
    /\ At(p, "open_scan")
    /\ Appendable(data[fd[p]])
    /\ plan' = [plan EXCEPT ![p] = Walk(data[fd[p]])]
    /\ Goto(p, "open_check")
    /\ UNCHANGED <<path, data, synced, undone, lock, fd, writer, reply, acked>>

\* The walk refuses the file, the schema guard or row_ids disagrees with it,
\* or a read fails; all of them before any byte is written.
OpenScanFails(p) ==
    /\ At(p, "open_scan")
    /\ Return(p, "none")

\* The length recheck, and the AppendState the walk determines.
OpenCheck(p) ==
    /\ At(p, "open_check")
    /\ FileSize(data[fd[p]]) = plan[p].file_size
    /\ writer' = [writer EXCEPT ![p] =
         [NoWriter EXCEPT !.file_length = plan[p].file_size,
                          !.next_sequence = plan[p].next_sequence,
                          !.next_row_id = plan[p].next_row_id]]
    /\ plan' = [plan EXCEPT ![p] = NoPlan]
    /\ Goto(p, "ready")
    /\ UNCHANGED <<path, data, synced, undone, lock, fd, reply, acked>>

\* The length moved, or it could not be read.
OpenCheckFails(p) ==
    /\ At(p, "open_check")
    /\ Return(p, "none")

-----------------------------------------------------------------------------
(* Writer::append, flush, sync, finish and drop                            *)

\* append, past ensure_healthy and the validation of the whole batch.
BeginAppend(p) ==
    /\ At(p, "ready")
    /\ writer[p].next_sequence <= MaxFrames
    /\ \E rows \in 1..MaxBatch :
         writer' = [writer EXCEPT ![p].remaining = rows, ![p].call = "append"]
    /\ Goto(p, "append")
    /\ UNCHANGED <<path, data, synced, undone, lock, fd, plan, reply, acked>>

\* Mutant: the room left in the block being assembled is not subtracted.
fitting_prefix_WholeBatch(w) == w.remaining

\* How many of the remaining rows the block being assembled still takes.
fitting_prefix(w) ==
    LET capacity == RowTarget - w.buffered
    IN  IF w.remaining < capacity THEN w.remaining ELSE capacity

\* One turn of the append loop: take what fits, publish a block that is full.
AppendLoop(p) ==
    /\ At(p, "append")
    /\ LET w == writer[p]
           take == fitting_prefix(w)
       IN  IF w.remaining = 0
           THEN /\ writer' = [writer EXCEPT ![p].call = "none"]
                /\ Goto(p, "ready")
           ELSE /\ writer' = [writer EXCEPT ![p].buffered = w.buffered + take,
                                            ![p].remaining = w.remaining - take]
                /\ Goto(p, IF w.buffered + take >= RowTarget THEN "publish" ELSE "append")
    /\ UNCHANGED <<path, data, synced, undone, lock, fd, plan, reply, acked>>

\* flush, sync and finish start by publishing a nonempty buffer.
BeginFlush(p) ==
    /\ At(p, "ready")
    /\ \E call \in {"flush", "sync", "finish"} :
         writer' = [writer EXCEPT ![p].call = call]
    /\ Goto(p, IF writer[p].buffered = 0 THEN "flushed" ELSE "publish")
    /\ UNCHANGED <<path, data, synced, undone, lock, fd, plan, reply, acked>>

\* publish_buffer: the frame is built, its bytes are about to be written.
BuildFrame(p) ==
    /\ At(p, "publish")
    /\ \E body \in Bodies : writer' = [writer EXCEPT ![p].body = body]
    /\ Goto(p, "write_frame")
    /\ UNCHANGED <<path, data, synced, undone, lock, fd, plan, reply, acked>>

\* The call returns an error.  finish consumes the Writer, so it closes too.
ReturnError(p, label) ==
    IF writer[p].call = "finish"
    THEN CloseHandle(p, "idle")
    ELSE /\ writer' = [writer EXCEPT ![p].remaining = 0, ![p].written = 0,
                                     ![p].body = NoBody, ![p].call = "none"]
         /\ Goto(p, label)
         /\ UNCHANGED <<lock, fd, plan>>

\* Mutant: the append loop retries a frame that cannot be built.
BuildFrameFails_Retried(p) ==
    /\ At(p, "publish")
    /\ IF writer[p].call = "append" THEN Goto(p, "append") ELSE Goto(p, "publish")
    /\ UNCHANGED <<path, data, synced, undone, lock, fd, writer, plan, reply, acked>>

\* The frame cannot be built: nothing was written, the rows stay buffered.
BuildFrameFails(p) ==
    /\ At(p, "publish")
    /\ ReturnError(p, "ready")
    /\ UNCHANGED <<path, data, synced, undone, reply, acked>>

PendingFrame(w) ==
    [ sequence    |-> w.next_sequence,
      base_row_id |-> IF RowIds THEN w.next_row_id ELSE UNAVAILABLE_BASE_ROW_ID,
      row_count   |-> w.buffered,
      body        |-> w.body ]

\* Mutant: the next row ID is not advanced.
CommittedWriter_SameRowId(w) ==
    [w EXCEPT !.file_length = w.file_length + TotalLength(PendingFrame(w)),
              !.next_sequence = w.next_sequence + 1,
              !.buffered = 0,
              !.body = NoBody,
              !.written = 0]

\* commit: the frame is in the file, clear the buffer and advance AppendState.
CommittedWriter(w) ==
    [w EXCEPT !.file_length = w.file_length + TotalLength(PendingFrame(w)),
              !.next_sequence = w.next_sequence + 1,
              !.next_row_id = IF RowIds THEN w.next_row_id + w.buffered ELSE w.next_row_id,
              !.buffered = 0,
              !.body = NoBody,
              !.written = 0]

\* sink.write_all, one unit at a time; the last unit commits the frame.
WriteFrame(p) ==
    /\ At(p, "write_frame")
    /\ LET w == writer[p]
       IN  /\ data' = [data EXCEPT ![fd[p]] = AppendUnit(@, PendingFrame(w), w.written)]
           /\ IF w.written + 1 = TotalLength(PendingFrame(w))
              THEN /\ writer' = [writer EXCEPT ![p] = CommittedWriter(w)]
                   /\ Goto(p, IF w.call = "append" THEN "append" ELSE "flushed")
              ELSE /\ writer' = [writer EXCEPT ![p].written = w.written + 1]
                   /\ UNCHANGED pc
    /\ UNCHANGED <<path, synced, undone, lock, fd, plan, reply, acked>>

\* Mutant: a failed write does not poison the Writer.
WriteFrameFails_NotPoisoned(p) ==
    /\ At(p, "write_frame")
    /\ ReturnError(p, "ready")
    /\ UNCHANGED <<path, data, synced, undone, reply, acked>>

\* write_all fails after any part of the frame, none included: poison_io.
WriteFrameFails(p) ==
    /\ At(p, "write_frame")
    /\ ReturnError(p, "poisoned")
    /\ UNCHANGED <<path, data, synced, undone, reply, acked>>

\* Mutant: sync reports durability without sync_all.
FlushDone_NoSync(p) ==
    /\ At(p, "flushed")
    /\ acked' = IF writer[p].call = "flush" THEN acked ELSE DataFrames(data[fd[p]])
    /\ IF writer[p].call = "finish"
       THEN CloseHandle(p, "idle")
       ELSE /\ writer' = [writer EXCEPT ![p].call = "none"]
            /\ Goto(p, "ready")
            /\ UNCHANGED <<lock, fd, plan>>
    /\ UNCHANGED <<path, data, synced, undone, reply>>

\* flush returns; sync and finish reach sync_all first, which makes everything
\* in the file durable, and report so.  finish then releases the lock.
FlushDone(p) ==
    /\ At(p, "flushed")
    /\ IF writer[p].call = "flush"
       THEN UNCHANGED <<synced, undone, acked>>
       ELSE /\ synced' = [synced EXCEPT ![fd[p]] = Len(data[fd[p]])]
            /\ undone' = [undone EXCEPT ![fd[p]] = <<>>]
            /\ acked' = DataFrames(data[fd[p]])
    /\ IF writer[p].call = "finish"
       THEN CloseHandle(p, "idle")
       ELSE /\ writer' = [writer EXCEPT ![p].call = "none"]
            /\ Goto(p, "ready")
            /\ UNCHANGED <<lock, fd, plan>>
    /\ UNCHANGED <<path, data, reply>>

\* finish synchronizes, then release_lock fails: an error, although all is durable.
ReleaseFails(p) ==
    /\ At(p, "flushed")
    /\ writer[p].call = "finish"
    /\ synced' = [synced EXCEPT ![fd[p]] = Len(data[fd[p]])]
    /\ undone' = [undone EXCEPT ![fd[p]] = <<>>]
    /\ CloseHandle(p, "idle")
    /\ UNCHANGED <<path, data, reply, acked>>

\* sink.flush or sync_all fails: poison_io.
FlushFails(p) ==
    /\ At(p, "flushed")
    /\ ReturnError(p, "poisoned")
    /\ UNCHANGED <<path, data, synced, undone, reply, acked>>

\* Dropping a Writer performs no I/O: buffered rows are discarded.
Drop(p) ==
    /\ pc[p] \in {"ready", "poisoned"}
    /\ CloseHandle(p, "idle")
    /\ UNCHANGED <<path, data, synced, undone, reply, acked>>

-----------------------------------------------------------------------------
(* repair_incomplete_tail                                                  *)

RepairOpen(p) == OpenHandle(p, "repair_lock")

RepairLock(p) ==
    /\ At(p, "repair_lock")
    /\ AcquireLock(p, "repair_scan")

RepairLockFails(p) ==
    /\ At(p, "repair_lock")
    /\ Return(p, "refused")

\* The plan of a file whose walk ends in an incomplete data frame.
Repairable(f) == HasSchemaFrame(f) /\ Walk(f).incomplete_tail

RepairScan(p) ==
    /\ At(p, "repair_scan")
    /\ Repairable(data[fd[p]])
    /\ plan' = [plan EXCEPT ![p] = Walk(data[fd[p]])]
    /\ Goto(p, "repair_truncate")
    /\ UNCHANGED <<path, data, synced, undone, lock, fd, writer, reply, acked>>

\* Corruption, an incomplete schema frame, a complete file or a failed read.
RepairScanFails(p) ==
    /\ At(p, "repair_scan")
    /\ Return(p, "refused")

\* Mutant: the last complete frame goes with the incomplete one.
RepairTruncate_OneFrameTooMany(p) ==
    /\ At(p, "repair_truncate")
    /\ data' = [data EXCEPT ![fd[p]] = SubSeq(@, 1, plan[p].frame_count - 1)]
    /\ Goto(p, "repair_sync")
    /\ UNCHANGED <<path, synced, undone, lock, fd, writer, plan, reply, acked>>

\* The length recheck and set_len(last_good_offset).
RepairTruncate(p) ==
    /\ At(p, "repair_truncate")
    /\ FileSize(data[fd[p]]) = plan[p].file_size
    /\ data' = [data EXCEPT ![fd[p]] = SubSeq(@, 1, plan[p].frame_count)]
    /\ undone' = [undone EXCEPT ![fd[p]] = data[fd[p]]]
    /\ synced' = [synced EXCEPT ![fd[p]] = IF @ > plan[p].frame_count
                                           THEN plan[p].frame_count ELSE @]
    /\ Goto(p, "repair_sync")
    /\ UNCHANGED <<path, lock, fd, writer, plan, reply, acked>>

\* The length moved or could not be read, or set_len failed; only the last of
\* them is reported as leaving the file unchanged.
RepairTruncateFails(p) ==
    /\ At(p, "repair_truncate")
    /\ \/ Return(p, "refused")
       \/ FileSize(data[fd[p]]) = plan[p].file_size /\ Return(p, "unchanged")

RepairSync(p) ==
    /\ At(p, "repair_sync")
    /\ synced' = [synced EXCEPT ![fd[p]] = Len(data[fd[p]])]
    /\ undone' = [undone EXCEPT ![fd[p]] = <<>>]
    /\ Goto(p, "repair_verify")
    /\ UNCHANGED <<path, data, lock, fd, writer, plan, reply, acked>>

RepairSyncFails(p) ==
    /\ At(p, "repair_sync")
    /\ Return(p, "removed")

\* The second scan must find exactly the complete file the plan promised.
PostPlanAgrees(f, before) ==
    /\ HasSchemaFrame(f)
    /\ ~Walk(f).incomplete_tail /\ ~Walk(f).corruption
    /\ Walk(f).file_size = before.last_good_offset
    /\ Walk(f).last_good_offset = before.last_good_offset

RepairVerify(p) ==
    /\ At(p, "repair_verify")
    /\ PostPlanAgrees(data[fd[p]], plan[p])
    /\ Return(p, "ok")

\* The second scan finds something else, or a read fails.
RepairVerifyFails(p) ==
    /\ At(p, "repair_verify")
    /\ Return(p, "removed")

-----------------------------------------------------------------------------
(* Crashes                                                                 *)

\* The process dies inside a call: its handle closes, what it wrote stays.
Kill(p) ==
    /\ pc[p] \notin {"idle", "ready", "poisoned"}
    /\ CloseHandle(p, "idle")
    /\ UNCHANGED <<path, data, synced, undone, reply, acked>>

\* Power is lost: every process dies, and of the file under the path the disk
\* holds some prefix, at least what was synchronized.  A truncation that was
\* not synchronized may be undone.
PowerLoss ==
    /\ path # None
    /\ \E f \in {data[path], undone[path]} :
         \E k \in synced[path]..Len(f) :
           \E u \in 0..(IF k < Len(f) THEN f[k+1].units ELSE 0) :
             LET left == CutTo(f, k, u) IN
             /\ data' = [i \in Inodes |-> IF i = path THEN left ELSE <<>>]
             /\ synced' = [i \in Inodes |-> IF i = path THEN Len(left) ELSE 0]
    /\ undone' = [i \in Inodes |-> <<>>]
    /\ lock' = [i \in Inodes |-> None]
    /\ fd' = [p \in Procs |-> None]
    /\ pc' = [p \in Procs |-> "idle"]
    /\ writer' = [p \in Procs |-> NoWriter]
    /\ plan' = [p \in Procs |-> NoPlan]
    /\ reply' = [p \in Procs |-> "none"]
    /\ UNCHANGED <<path, acked>>

-----------------------------------------------------------------------------
\* What a process decides to do while it is at rest.
Caller(p) == Create(p) \/ Open(p) \/ RepairOpen(p) \/ BeginAppend(p) \/ BeginFlush(p) \/ Drop(p)

\* The steps that carry a call that has begun to its end.
Step(p) ==
    \/ CreateLock(p) \/ CreateLockFails(p)
    \/ WriteInitial(p) \/ WriteInitialFails(p) \/ Cleanup(p)
    \/ OpenLock(p) \/ OpenLockFails(p) \/ OpenScan(p) \/ OpenScanFails(p)
    \/ OpenCheck(p) \/ OpenCheckFails(p)
    \/ AppendLoop(p) \/ BuildFrame(p) \/ BuildFrameFails(p)
    \/ WriteFrame(p) \/ WriteFrameFails(p) \/ FlushDone(p)
    \/ ReleaseFails(p) \/ FlushFails(p)
    \/ RepairLock(p) \/ RepairLockFails(p) \/ RepairScan(p) \/ RepairScanFails(p)
    \/ RepairTruncate(p) \/ RepairTruncateFails(p)
    \/ RepairSync(p) \/ RepairSyncFails(p)
    \/ RepairVerify(p) \/ RepairVerifyFails(p)

ProcessNext == \E p \in Procs : Caller(p) \/ Step(p) \/ Kill(p)

Next == PowerLoss \/ ProcessNext

Spec == Init /\ [][Next]_vars

\* Every call is synchronous: once begun, its thread keeps running.
FairSpec == Spec /\ \A p \in Procs : WF_vars(Step(p))

-----------------------------------------------------------------------------
(* Properties                                                              *)

Writers == [ file_length : Nat, next_sequence : Nat, next_row_id : Nat,
             buffered : 0..RowTarget, remaining : 0..MaxBatch,
             body : Bodies \cup {NoBody}, written : Nat, call : Calls ]

\* Every variable holds a value of its type (the fields of Writer, AppendState
\* and Walk in write/writer.rs and format/scan.rs).
TypeOK ==
    /\ path \in Inodes \cup {None}
    /\ data \in [Inodes -> Seq(Run)]
    /\ synced \in [Inodes -> Nat]
    /\ undone \in [Inodes -> Seq(Run)]
    /\ lock \in [Inodes -> Procs \cup {None}]
    /\ fd \in [Procs -> Inodes \cup {None}]
    /\ pc \in [Procs -> Labels]
    /\ writer \in [Procs -> Writers]
    /\ plan \in [Procs -> Plans]
    /\ reply \in [Procs -> Replies]
    /\ acked \in Seq(FrameSet)

\* Two processes are never both past the lock on one file: neither two Writers
\* nor a Writer and a repair (acquire_writer_lock on the appending handle).
OneWriter ==
    \A p, q \in Procs :
        pc[p] \in Locked /\ pc[q] \in Locked /\ fd[p] = fd[q] => p = q

\* A handle is open exactly during a call or a session, and the lock of a file
\* belongs to the one process past acquire_writer_lock on a handle of that file.
HandlesHoldLocks ==
    /\ \A p \in Procs : fd[p] = None <=> pc[p] \in {"idle", "cleanup"}
    /\ \A p \in Procs : pc[p] \in Locked => lock[fd[p]] = p
    /\ \A p \in Procs, i \in Inodes :
         lock[i] = p => pc[p] \in Locked /\ fd[p] = i

\* Between a scan under the lock and its use nothing changes what was scanned
\* (open_internal and repair_locked_file keep the one locked handle).
PlanIsCurrent ==
    \A p \in Procs :
        pc[p] \in {"open_check", "repair_truncate"} => plan[p] = Walk(data[fd[p]])

\* No interleaving of sessions, failed writes, deaths, repairs and power losses
\* leaves a file the walk calls corrupt: whatever is left is a complete file or
\* one with an incomplete tail, which repair accepts (publish_buffer, poison_io).
NeverCorrupt ==
    \A i \in Inodes : ~Walk(data[i]).corruption

\* The frames sync or finish reported durable are still the first frames of the
\* file, whatever happened since (Writer::sync, RepairOperations::set_len).
AckedSurvive ==
    /\ Len(acked) <= Len(Committed)
    /\ \A k \in 1..Len(acked) : acked[k] = Committed[k]

\* A Writer at rest continues the file exactly: its AppendState is what a fresh
\* walk of the file would return (AppendState, commit, open_internal).
SessionContinuesFile ==
    \A p \in Procs : At(p, "ready") =>
        /\ Appendable(data[fd[p]])
        /\ writer[p].file_length = FileSize(data[fd[p]])
        /\ writer[p].next_sequence = Walk(data[fd[p]]).next_sequence
        /\ RowIds => writer[p].next_row_id = Walk(data[fd[p]]).next_row_id

\* A Writer always appends to the file its path names: create's cleanup removes
\* the path by name, and never under a Writer another call has returned.
SessionOwnsPath ==
    \A p \in Procs : pc[p] \in Appending => fd[p] = path

\* The scan after a truncation finds the complete file the plan promised, so a
\* repair among cooperating processes never fails its own validation.
PostRepairValidates ==
    \A p \in Procs :
        At(p, "repair_verify") => PostPlanAgrees(data[fd[p]], plan[p])

\* No step but a loss of power takes a committed frame away or alters one: not a
\* failed create, not a repair, not another session (remove_file, set_len).
CommittedOnlyGrows ==
    [][ \/ PowerLoss
        \/ /\ Len(Committed) <= Len(Committed')
           /\ SubSeq(Committed', 1, Len(Committed)) = Committed ]_vars

\* A repair that says the tail is still there or says it was removed is right
\* when it says so: under the lock nobody cuts, completes or tears the file
\* again between the truncation and the reply (BEFORE_TRUNCATION and
\* AFTER_TRUNCATION in recovery.rs).
RepairNamesItsSide ==
    [][ \A p \in Procs : reply'[p] # reply[p] =>
          LET tail == fd[p] # None /\ Walk(data[fd[p]]).incomplete_tail
          IN  /\ reply'[p] = "unchanged" => tail
              /\ reply'[p] \in {"removed", "ok"} => ~tail ]_vars

\* Every file, and every file a lost truncation could bring back, is well formed.
FilesWellFormed ==
    \A i \in Inodes : WellFormed(data[i]) /\ WellFormed(undone[i])

\* An AppendState that continues a complete file.
ContinuesFile(w, f) ==
    /\ Whole(f)
    /\ w.written = 0
    /\ w.next_sequence = Len(f)
    /\ w.file_length = FileSize(f)
    /\ RowIds => w.next_row_id = ExpectedBase(f, Len(f) + 1)

\* A frame of which the last run of the file holds a part.
WritingFrame(w, f) ==
    /\ w.next_sequence > 0
    /\ w.written > 0
    /\ Len(f) = w.next_sequence + 1
    /\ FrameOf(f[Len(f)]) = PendingFrame(w)
    /\ f[Len(f)].units = w.written
    /\ w.written < TotalLength(PendingFrame(w))
    /\ FileSize(f) = w.file_length + w.written

\* What each control point knows of the file under the lock.
PointsKnowFile(p) ==
    LET f == data[fd[p]]
        w == writer[p]
    IN  /\ pc[p] \notin Appending \cup {"write_initial"} => w = NoWriter
        /\ pc[p] = "create_lock" => f = <<>>
        /\ pc[p] = "write_initial" =>
             \/ w = NoWriter /\ f = <<>>
             \/ /\ w = [NoWriter EXCEPT !.written = 1]
                /\ Len(f) = 1 /\ FrameOf(f[1]) = SchemaFrame /\ f[1].units = 1
        /\ pc[p] \in {"ready", "append", "publish", "flushed"} => ContinuesFile(w, f)
        /\ pc[p] \in {"publish", "write_frame"} => w.buffered > 0
        /\ pc[p] = "write_frame" => ContinuesFile(w, f) \/ WritingFrame(w, f)
        /\ pc[p] \in {"write_frame", "poisoned"} => HeaderComplete(f)
        /\ pc[p] = "open_check" => Appendable(f)
        /\ pc[p] = "repair_truncate" => Repairable(f)
        /\ pc[p] \in {"repair_sync", "repair_verify"} =>
             Whole(f) /\ FileSize(f) = plan[p].last_good_offset

\* One process at most creates the file under the path, whose header is not
\* complete until create is done; a handle on any other file meets no header.
PathIsCreators ==
    /\ \A p, q \in Procs : pc[p] \in Creating /\ pc[q] \in Creating => p = q
    /\ \A p \in Procs : pc[p] \in Creating => path # None /\ ~HeaderComplete(data[path])
    /\ \A p \in Procs : pc[p] \in {"create_lock", "write_initial"} => fd[p] = path
    /\ \A p \in Procs : fd[p] # None /\ fd[p] # path => ~HeaderComplete(data[fd[p]])

\* What was synchronized is in the file, and a truncation that is not yet on
\* disk cut off none of it.
SyncedIsKept ==
    \A i \in Inodes :
        /\ synced[i] <= Len(data[i])
        /\ undone[i] # <<>> =>
             /\ synced[i] <= Len(undone[i])
             /\ \A k \in 1..synced[i] :
                  /\ undone[i][k] = data[i][k]
                  /\ data[i][k].units = TotalLength(data[i][k])

\* What was reported durable is synchronized.
AckedIsSynced ==
    acked # <<>> =>
        /\ path # None
        /\ Len(acked) + 1 <= synced[path]
        /\ Len(acked) + 1 <= FrameCount(data[path])
        /\ \A k \in 1..Len(acked) : acked[k] = FrameOf(data[path][k+1])

\* The inductive invariant behind the safety properties above.
SafetyInv ==
    /\ HandlesHoldLocks
    /\ PlanIsCurrent
    /\ FilesWellFormed
    /\ \A p \in Procs : PointsKnowFile(p)
    /\ PathIsCreators
    /\ SyncedIsKept
    /\ AckedIsSynced

\* The path behaves as the append-only log of ActaLog.
Log == INSTANCE ActaLog WITH log <- Committed, durable <- acked

ImplementsLog == Log!Spec

\* Every call returns: the append loop and the publication it drives end, also
\* when a frame cannot be built and the full buffer is kept.
CallsReturn ==
    \A p \in Procs :
        pc[p] \notin {"idle", "ready", "poisoned"} ~> pc[p] \in {"idle", "ready", "poisoned"}
=============================================================================
