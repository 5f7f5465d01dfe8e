# A TLA+ verification of ADIOS: staging streams, BP files and scheduled reads

ADIOS is an I/O library for parallel programs.  A program describes its
variables once and a *method*, chosen at run time, moves them: to a BP file
through POSIX or MPI-IO, to HDF5 or NetCDF, or, without a file, to another
running program ("staging").  This project models the parts of ADIOS that carry
state over many calls and in which several processes, threads or programs have
to agree:

* **Flexpath**, a parallel writer and a separately started parallel reader that
  share a stream of steps by messages;
* **DataSpaces and DIMES**, the same through servers with locks and versions;
* **ICEE**, the same through a pool of sending threads and a list of steps that
  receiving threads build;
* **BP files**: the write API, the buffer pool and the POSIX method that append
  to a file, and the BP reader that follows the file while it grows;
* **scheduled reads**: the read API, the transform layer, the info cache and the
  list of requests of the BP method.

Contents: 1 inventory, 2 plan, 3 the modules and the code, 4 the runs, 5 the
proofs, 6 where code and documentation disagree, 7 what is not modelled.
Paths below are relative to the repository's `src/`; `PROJECT.json` has the
line-by-line map.

## 1. Inventory

### Flexpath, writer side (`src/write/adios_flexpath.c`)

*State.*  Per process: a data queue of buffers, one per step; a control queue
of messages from the readers; the step the readers are at
(`currentStep`/`readerStep`), `openCount` and a table `bridges[]` of readers
with an `opened` flag; the variables each reader asked for; the count of steps
written.  The EVPath *multiqueue stone* keeps its own queues: step messages,
group messages, flush (request) messages.

*Operations.*  `adios_flexpath_open`, `_write`, `_close`, `_finalize` on the
application thread; `var_handler`, `flush_handler`, `op_handler` on the
communication thread; `control_thread` with `process_open_msg`,
`process_close_msg`, `process_data_flush`, `process_var_msg`; the action
program `multiqueue_action` inside the stone.  All threads meet in
`threaded_enqueue`, `threaded_dequeue`, `threaded_peek`.

*Interaction.*  `close` puts the buffer into the data queue, exchanges the
distribution of global arrays with the other writers (`MPI_Allgather`) and
publishes a step message and a group message.  Readers send OPEN, CLOSE, VAR
and flush messages; the control thread answers from the *oldest* buffer.  When
the last reader closes a step, its buffer and its group message are dropped.

*Hard.*  Three threads and a stone per process, a condition variable shared by
three kinds of waiters, a broadcast after the unlock, reference counting of
steps over messages of several readers, a group-message queue kept in step with
the data queue only by counting, collectives while queues are full.

*Correct when* nothing is lost or reordered in the queues, no wakeup is lost,
a buffer outlives every reader that needs it and nothing else, and the program
ends.

### Flexpath, reader side (`src/read/read_flexpath.c`)

*State.*  `bridges[]` with `created` and `opened`; `mystep`,
`last_writer_step`, `writer_finalized`; the group message `gp`; per variable one
selection, one user buffer and the displacements; `sendees`;
`req.num_pending` and `req.num_completed`.

*Operations.*  `open`, `schedule_read_byid`, `perform_reads`, `release_step`,
`advance_step`, `close`; the handlers `update_step_msg_handler`,
`group_msg_handler`, `op_msg_handler`, `raw_handler` on the communication thread.

*Interaction.*  Every request is a message and a wait on a `CMCondition`; the
readers meet in `MPI_Barrier`.

*Hard.*  Handlers run between any two statements of the application thread;
answers about the writer are old when they are used; which bridges are open
depends on all earlier steps; the geometry is written with unsigned ends of
intervals and keeps offsets and counts of 64 bits in ints.

*Correct when* all data of a step belong to that step, a read is filled from
exactly the writers that hold a part of it, the calls return, and the end of
the stream is seen after the last step and never before.

### DataSpaces and DIMES (`write/adios_dataspaces.c`, `write/adios_dimes.c`, `read/read_dataspaces.c`, `read/read_dimes.c`)

*State.*  In the servers, which are outside the repository: the objects
`VERSION@` (last version, terminated), `FILE@` and `GROUP@` of each version,
`READ_STATUS@`, a reader/writer lock per stream, and with DATASPACES the
arrays; DIMES keeps the arrays in the writers.  The writers keep `time_index`,
the readers `current_step` and `last_version`.

*Operations.*  open (lock), write, close (barrier, three puts, unlock) and
finalize of the writers; open and advance_step (lock, poll for the next version
that still exists), release_step and close of the readers.

*Hard.*  Two programs under one lock, servers that evict versions, one clock per
reader rank inside a loop of collective calls, writers that wait for a reader
that may be gone.  *Correct when* an open step is whole, the ranks of a program
stay together, a step is skipped only when it is gone, and both programs end.

### ICEE (`write/adios_icee.c`, `read/read_icee.c`)

*State.*  A thread pool (job list, idle and active threads, wait flag); the list
of steps of the reader, with the chunks merged into each.

*Operations.*  open, write, close (`thr_pool_queue`, `thr_pool_wait`,
`MPI_Allreduce` of the number of chunks); `worker_thread`, `dosubmit`; the
handler with `icee_fileinfo_append`; open, schedule_read and advance_step of the
reader, which take no lock.

*Hard.*  Chunks overtake each other on different connections; the reading thread
frees list entries that handlers walk over; one signal per job.  *Correct when*
no step is split or comes back, a read is whole, close returns only when all is
sent, and everything arrives.

### Write API, buffer pool, POSIX method (`core/common_adios.c`, `core/buffer.c`, `core/adios_internals.c`, `write/adios_posix.c`, `core/adios_bp_v1.c`)

*State.*  The pool (`adios_buffer_size_max`, `_remaining`); per open file the
shared buffer or none, `base_offset`, `offset`, `pg_start_in_file`, the old
index; per group the time index and the internal attributes; the file.

*Operations.*  allocate_buffer, open in four modes, group_size (buffer or not),
write, close with the flush of the buffer and of the index.

*Hard.*  Four offsets that move together, buffered and not; sessions of
different modes on one file; a pool that is shared and can be enlarged.
*Correct when* an index names what was written, old data survive, time indices
increase and no pool bytes are lost.

### BP reader as a stream (`read/read_bp.c`, `core/bp_utils.c`)

*State.*  The parsed index, current and last step, the variables of the step.
*Operations.*  open_stream, advance_step, get_new_step with its polling, close.
*Hard.*  Four looks at a file another program writes.  *Correct when* an index
once parsed stays readable and the steps come one after the other.

### Read API, transforms, info cache (`core/common_read.c`, `core/transforms/`, `core/adios_infocache.c`, `read/read_bp.c`)

*State.*  Group in view, data view, cached infos, the list of request groups, the
method's list of requests.  *Operations.*  schedule_read, perform_reads,
check_reads, advance_step, group_view, set_data_view, close.

*Hard.*  Answers are matched to requests by equal selections; a call may fail
half way; ids change their meaning with the step and the view.  *Correct when*
every block is decoded from its own data, every read is answered once and
whole, and it is planned with the infos of its own variable.

### The rest of ADIOS

| Part | State and operations | Hard |
|---|---|---|
| Flexpath handshake and FFS format | contact and ready files; type translation both ways | stale files after a crash; a missing `break` |
| Staged BP readers (`read/read_bp_staged*.c`) | aggregated reads | communication in fixed patterns |
| MPI, AMR, Lustre, HDF5, NetCDF methods (`write/adios_mpi*.c`, ...) | offsets from collectives, I/O threads | joined before their results are used |
| Research methods that are not built (`write/adios_adaptive.c`, ...) | - | cannot be selected |
| Query (`query/`) | query trees over an external index | evaluation in time-step slices |
| XML, Fortran bindings, utilities, vendored code | - | no protocol of their own |

`PROJECT.json` lists every part with its status, and under `hazards` what in
this code is hard to test, at the line where it bites, with the properties that
watch it.

## 2. Plan

In place, in the order of work:

1. **BoundedFifo, FlexpathQueue** - the locked queue and its abstract
   specification; every other thread interaction of the writer rests on it.
2. **FlexpathStream** - the protocol of writers and readers.  It uses the queue
   as the atomic FIFO that step 1 shows it to be.
3. **FlexpathSelection** - which writers a read asks and what it copies; inside
   a step of FlexpathStream, so one array and one step suffice.
4. **...Proofs** - one module of theorems for each of the three, and since for
   DataSpaces, IceeStream and TransformReads and one (BpFileProofs) for PosixWrite
   with BpStream.  **FiniteSums** has the lemmas about sums and sizes of finite sets
   that several of them need.
5. **PosixWrite** - pool, write API and POSIX method, composed in one module,
   because the pool decides the path a session takes.
6. **BpStream** - extends PosixWrite with the reader of the same file.
7. **DataSpaces** - both methods; they differ in who keeps the arrays.
8. **IceeStream** - pool, connections, handlers, reader.
9. **TransformReads** - read API, request groups, info cache, request list.

Next:

10. A *step stream* (writers append steps, each reader consumes each once and in
    order) as the abstract specification of FlexpathStream.
11. FlexpathFormat (`set_field`, `ffs_type_to_adios_type` against the identity on
    types) and the geometry of `adios_subvolume.c` and `adios_copyspec.c`.
12. The gathering of a global metadata file by several POSIX writers.

## 3. The modules and the code

### BoundedFifo, FlexpathQueue

One linked list with one mutex and one condition variable.  An action is the
code between two points where the mutex is taken, released or waited on; what a
thread does under the mutex is invisible to the others.

| Model | Code |
|---|---|
| `queue` (head is the oldest) | the list and `queue_count` |
| `mutex`, `waiting` | the mutex; the threads in `pthread_cond_wait` |
| `pc` | the position of each thread in its call |
| `EnqueueLock/Wait/Push` | `threaded_enqueue` |
| `DequeueLock/Wait/Take/Broadcast` | `threaded_dequeue` (broadcast after the unlock) |
| `PeekLock/Wait/Return` | `threaded_peek` (an `if`, not a loop) |
| `FinalizeLock/Wait/Return` | the wait of `adios_flexpath_finalize` |
| `Spurious` | POSIX lets `pthread_cond_wait` return without a broadcast |
| `taken`, `peeked`, `produced` | history of results |

`MaxSize`, `SignalDequeue` and `Finalizes` tell the data queue from the control
queue.  BoundedFifo is what a caller expects: Put when there is room, Get when
there is something, in order, and neither for ever refused.

### FlexpathStream

| Model | Code |
|---|---|
| `CloseEnqueue`, `Allgather`, `PublishStep`, `PublishGroup` | `adios_flexpath_close`, in its order |
| `FinalizeAnnounce`, `FinalizeReturn` | `adios_flexpath_finalize` |
| `MultiqueueAction` (`KeepNewest`, `AfterDrop`, `AnswerFlush`) | the stone's action `multiqueue_action` |
| `ProcessVar`, `ProcessDataFlush`, `ProcessOpen` | the cases of `control_thread` and the functions they call |
| `ProcessClose`, `CloseDequeue`, `CloseAck` | `process_close_msg`; cut where it waits for a buffer and for the drop |
| `AnswerStep`, `AnswerGroup`, `RawHandler` | the reader's handlers of the replies |
| `OpenNext`, `Fetch`, `FetchGroup` | `adios_read_flexpath_open` and the end of `advance_step` |
| `ScheduleReads`, `VarOpen`, `VarSend` | the messages of `schedule_read_byid` (`send_var_message`) |
| `PerformReads`, `PerformSend`, `PerformPending`, `PerformBatchDone`, `PerformReturn` | `perform_reads`, with the assignment of `num_pending` *after* the send |
| `ReleaseBarrier`, `ReleaseReturn` | `release_step` |
| `AdvanceBarrier`, `PollSend`, `PollReturn`, `CloseNext`, `CloseLoopDone`, `StepBarrier` | `advance_step` and `adios_read_flexpath_close` |

`readerStep`, `openCount`, `bridgeOpened`, `created`, `opened`, `numPending`,
`numCompleted`, `lastStep`, `finalized`, `gp` are the fields of the same
names.  Data is abstracted to the step number it belongs to; `got` is a history
of what `raw_handler` received, with a mark whether the arrays the reader asked
for were in it (`copy_buffer` blanks the others).

*Messages.*  EVPath delivers reliably and in order between two processes.
Per reader at most one request is outstanding that it waits for; the VAR
messages, which it does not wait for, only have to precede the DATA request to
the same writer.  So nobody can tell a message in flight from one that is not
sent yet, nor a reply in flight from a reader that is not scheduled: a send
enters the receiver's queue and a reply runs its handler in the same step.  The
one place where a reply can overtake the sender's next statement,
`num_pending` in `perform_reads`, is cut into separate actions.

### FlexpathSelection

One array, one round of reads after another.

| Model | Code |
|---|---|
| `ScheduleRead` (`ScheduleBox`, `ScheduleBlock`, `SchedulePoints`) | `schedule_read_byid` |
| `need_writer`, `get_writer_displacements`, `reverse_dims`, `copy_selection` | the functions of these names (`copy_selection` in `src/core/util.c`) |
| `AddSendees` | `send_var_message` |
| `RawHandler`, `Received` | `raw_handler` for an array |
| `extract_selection_from_partial`, `find_offset`, `increment_index`, `index_in_selection`, `map_*` | the functions of these names |
| `CopyBlock` | the `memcpy` of a write-block selection |
| `PerformReturn` | the end of `perform_reads`, which frees selections and displacements |

An element's value is its writer and its place in the global array, so that a
copy to a wrong offset or from a wrong writer shows.  Offsets and sizes are
`uint64_t`: arithmetic is modulo `Word`.  What the code keeps in an `int` goes
through `ToInt`: the starts and counts of `get_writer_displacements`, the result of
`find_offset`, the offset in bytes (a product of two ints, which where it overflows
wraps or does not, the choice `wraps`), and the dimensions of a written block.  The
loop over a writer's array is the
function `PartialIndex`, the sequence of indices the loop visits; memory that
lies behind a message is `Garbage`.  `Expected` is the reference definition the
copied memory is compared with, written with boxes and without any of the
functions above.

### PosixWrite

A file is a sequence of cells.  A cell is the bytes of one item (header, unit of
payload, attribute, index entry, minifooter) and names the session that wrote
it.  Sizes and offsets count cells, so that all the arithmetic of the code is
there and overwritten data shows.

| Model | Code |
|---|---|
| `pool`, `Alloc`, `Taken`, `Freed`, `AllocateBuffer` | `buffer.c` |
| `Open` (`OpenTime`, `OldIndex`, `NextTime`) | `common_adios_open`, `adios_posix_open` |
| `GroupSize` (`GroupSizeBuffered`, `GroupSizeDirect`, `Overhead`, `Attrs`) | `common_adios_group_size`, `adios_posix_should_buffer` |
| `Write` (`WriteBuffered`, `WriteDirect`, `DirectPayload`) | `common_adios_write_byid`, `adios_posix_write` |
| `Close`, then `FlushBuffer` and `WriteIndex` | `common_adios_close`, `adios_posix_close`, `adios_posix_do_write`; each `write(2)` is a step |
| `BuildIndex`, `IndexStart`, `IndexCells` | `adios_build_index_v1`, `adios_write_index_v1`, `adios_write_version_v1` |
| `LastPgVars` | `adios_posix_do_read` |
| `log`, `readback` | history of the sessions and of what reads returned |

### BpStream

Extends PosixWrite: a second program shares nothing but the file.
`CheckBpValidity`, `BpReadOpen`, `BpReadMinifooter` and the parse (`OpenStream`,
`GetNewStep`, `NoNewStep`, `BpParseFails`) are the four looks of `open_file`;
`AdvanceInIndex` and `AdvanceReopen` the two branches of
`adios_read_bp_advance_step`; `AfterTimeout` is a second call after
err_step_notready; `CloseStream` is `adios_read_bp_close`.

### DataSpaces

| Model | Code |
|---|---|
| `Open`, `LockOnWrite`, `Write`, `CloseBarrier`, `PutGroup`, `PutFile`, `PutVersion`, `UnlockOnWrite` | open, write and close of the writers, in their order |
| `Finalize`, `LastVersionRead`, `CheckTimeout`, `FinalLock`, `FinalPut`, `FinalUnlock`, `Disconnect` | finalize, with `check_read_status_var` of DIMES |
| `LockOnRead`, `GetVersion`, `GetFile`, `GetGroup`, `Poll`, `TimeoutExpired` | `get_step`, in the loop that open and advance_step share |
| `ReadOpen`, `ReleaseStep`, `AdvanceStep`, `ReadClose` | the reader's calls |
| `version`, `files`, `groups`, `readStatus`, `writeLock`, `lockedFname`, `Put` | the servers (external) |
| `call` | method, lock mode, `last`, timeout, release, retry and close of this run |

A call on a communicator (lock, the get of metadata with its broadcast, barrier)
is one step of all ranks.  What ranks do alone is separate: whether the clock of
a reader has passed the timeout, and the writes.

### IceeStream

| Model | Code |
|---|---|
| `Open`, `Write`, `CloseSubmit`, `CloseReduce`, `Allreduce`, `ThrPoolQueue`, `ThrPoolWait` | the writer's calls and the pool's |
| `WorkerTakesJob`, `Dosubmit`, `WorkerWaits` (`Notifies`) | `worker_thread`, `dosubmit`, `job_cleanup`, `notify_waiters` |
| `wire` | EVPath: in order within a connection |
| `HandlerLock`, `HandlerAppend` (`Merged`), `HandlerReadsFreed` | `icee_fileinfo_handler`, `icee_fileinfo_append` |
| `ReadOpen`, `OpenMerged`, `ScheduleRead`, `CopyRead`, `AdvanceStep`, `FileinfoFree` | the reader's calls, cut where they wait and where they touch the list |

### TransformReads

| Model | Code |
|---|---|
| `Info`, `InqInfo`, `Invalidated` | `adios_infocache.c` and the inquiries that fill it |
| `GroupView`, `SetDataView` | `common_read_group_view`, `common_read_set_data_view` |
| `ScheduleTransformed` (`Registered`, `RawReads`), `ScheduleRaw` | `common_read_schedule_read_byid`, `adios_transform_generate_read_reqgroup`, `adios_read_bp_schedule_read_byid` |
| `PerformReads`, `PerformRefused` | `common_read_perform_reads`, `adios_read_bp_perform_reads`, `adios_transform_process_all_reads` |
| `CheckReads`, then `CheckRaw`, `CheckSubrequest`, `CheckUnmatched`, `CheckNothingLeft` or `CheckFailed` | `common_read_check_reads`, an iteration of its loop at a time, with `adios_read_bp_check_reads` and `adios_transform_process_read_chunk` |
| `Live`, `Matches`, `Returns`, `Decoded` | clean-up, matching, result modes, the plugin |
| `AdvanceStep`, `ReadClose` | the calls, through all layers |
| `reads`, `lost`, `got`, `returned` | history |

A buffer's content is the block, variable and step BP read into it, so that a
block decoded from a buffer that was not filled, or filled for another read,
shows.  With `Subfiles` any read may fail inside BP, at any time: a blocking call
drops it and returns 0 all the same (`failed` in PerformReads), `check_reads` leaves
it at the head of the list (CheckFailed).

*"undefined".*  Where the code reads freed or uninitialised memory, dereferences
NULL or fails an assertion, BpStream, IceeStream and TransformReads have a step
to a state "undefined" and do not follow the program further; the properties are
about the behaviours up to there.  `hazards` names these places.

The MC modules hold the constants a `.cfg` cannot write down.

## 4. The runs

| Run | Instance | Checks |
|---|---|---|
| queue_data | 1 producer, 4 items, MaxSize 1, 2 peeks, finalize, spurious wakeups | TypeOK, QueueBound, NoLostWakeup, InOrderOnce, FinalizeDrains, ImplementsFifo |
| stream_two_writers | 2 writers, 1 reader, 3 steps, global arrays, release, any set of writers needed | TypeOK, QueueIsWindow, EndOfStreamAtLastStep, StepConsistency, ReadsComplete, StreamEnds |
| stream_two_by_two | 2 writers, 2 readers, 2 steps, cross reads, no global arrays | StepConsistency, OpenStepRetained, OpenCountExact, BufferDroppedAfterUse, StreamEnds |
| selection_reads | 4 x 2 array, any block and one of two others, up to two requests of any kind per round | LastReadFilled, NoHolderMissed, DisplacementsExact |
| dataspaces | 2 writers, 2 readers, 4 steps, 2 versions kept, every way to call | OpenStepComplete, NoUnexpectedState, EndMeansAllSeen, RanksAgree, SkipsOnlyGoneSteps, ProgramsFinish |
| posix_write | 2 groups, 4 modes, 2 variables of payload 3 announced as 2, pools of 8 and 20 in 16 cells of memory, 3 sessions | NothingLeaked, IndexedIntact, TimesIncrease, ReadReturnsLast, AppendKeepsOld |
| bp_stream | 1 group in append mode, payloads 1 and 3, 3 sessions, every `last`, timeout and retry | StaleIndexStillReads, CompleteStreamInOrder |
| icee | 2 writers, 2 steps; 1 sending thread with 2 and 1 variables, 2 threads with 1 and 1 or with 2 and 0 | WaitMeansSubmitted, StepsNotSplit, ReadsWhole, StepsArrive |
| transform_reads | 2 steps with a variable missing in the second, 2 blocks of 2 segments, an undecodable block or none, failed reads, 2 reads, 1 group, selected at any time | OwnDataDecoded, ReadsDelivered, InfoOfVariable |

Three more runs end in a counterexample; section 6 lists them.

*What they show.*  The data queue is the abstract queue, liveness included.  A
Flexpath reader walks through all steps of two writers, what it reads belongs to
the step, and a buffer lives exactly as long as a reader needs it, also when the
readers read from each other's coordinator and group messages are published
twice.  The writers a read asks are those that hold a part of it, and what one
read leaves behind does not spoil the next.  A DataSpaces or DIMES reader never
has half a step, its ranks never part, it misses only steps that are gone, and
the programs end with any of the 96 ways to call.  Buffered sessions, in any
order of modes, leave an index that names intact data, and appending does not
touch what was there, also in the eyes of a reader that holds an old index.  The
pool of ICEE loses no job, and the reader's list is right for every order of
arrival.  Reads of transformed data reach the program once and whole for every
mix of blocking and chunked calls, although chunks carry no request number.

*Bounds.*  Queue and Flexpath: `MaxQueueSize = 1` lets a writer be two buffers
ahead, so the queue is empty, partly filled and full; three steps let a step
begin in the state that a complete earlier step left, with another one behind
it.  Two writers and two readers are the least for a count above one, a second
bridge, a reader that waits behind another's flush, and a collective that waits.
`NItems = 4` exceeds the queue's three possible fill levels.  A dimension of
size 4 is the smallest in which a block lies strictly inside a selection; two
dimensions are the least for row-major order to matter, two writers for gaps,
overlaps and the order of replies.  The tests on a writer's block do not look at
the other writers, so it is enough to let one writer's block range over all of
them.  `Word = 1024` is far above every offset, so that wrapping occurs exactly
where it does with 64 bits: below zero.  `IntWord = 32` and `ElementSize = 2` put
the end of the array, 16 bytes, exactly at the end of an int.  The requests of
selection_reads leave
out the index `num_bridges` and its layouts the empty blocks (section 6).

DataSpaces: four steps and two versions let a reader fall behind by more than
what is kept, twice.  PosixWrite: three sessions are the least in which an index
holds the PGs of two others; the pool sizes make a session unbuffered, buffered
and dependent on what the other group holds, and the announced size is smaller
than what is written, so that the buffer has to grow.  MaxWrite stays above the
size of a PG (section 6).  BpStream: three sessions let two of them pass between
two looks of the reader.  ICEE: two steps and two connections are the least for
a chunk to overtake one of the next step.  TransformReads: two reads of the same
variable are the least that can be confused, two blocks and two segments the
least for a read, and a block, to be half done; the second step shifts the ids,
and `Subfiles = TRUE` lets any read fail.  `Views = {0}`: the program goes from the
full view to the one group and not back, which would change the number of ids and
not what they stand for; the theorem about the infos has no such bound.
Symmetry is used for the two groups of posix_write, which no definition tells
apart; ranks are numbers everywhere else.

*Fairness.*  Queue: each thread is scheduled (weak fairness) and a contended
mutex goes to every thread that keeps asking for it (strong fairness of the
lock actions); wakeups without a broadcast and calls of `threaded_peek` are not
promised.  Flexpath stream: weak fairness of each writer's application thread,
stone and control thread, of each reader, and of the collectives, which complete
when all have entered.  DataSpaces: weak fairness of each program and of its
collectives, with the polling loops, and strong fairness of the lock, which the
servers give to every program that keeps asking; that a timeout expires is not
promised.  ICEE: weak fairness of every writer, pool thread, handler and the
reader and of the Allreduce; spurious wakeups are possible and not promised.
The programs call what the API asks of them: `close` for each step, then
`finalize`; the readers advance until the end of the stream.  The other
specifications state no fairness and are checked for safety only.

*StreamEnds* is about behaviours in which no read needs more than one writer:
with two, `perform_reads` may hang (section 6).  The deadlock check is off where
programs come to their end or the bound on sessions, steps or reads is reached,
and in stream_two_writers, whose reads of two writers may hang; StreamEnds,
ProgramsFinish and StepsArrive say there that the end is the right one.

## 5. The proofs

All proofs are checked by TLAPS, for every value of the constants that
satisfies the named assumptions.

**FiniteSums** (no constants) - lemmas that the other modules cite.  The sum that
the community modules' `MapThenSumSet` computes takes the elements of a set in the
order of `CHOOSE`; it is the same for any order (SumsUnique), so that one element
more adds its value (SumSetIs, SumsSame).  A counterexample of least size replaces
the induction (SmallestSet, LeastNumber).  UnionSize and FullSequence say how
large a union of disjoint sets is, and that a sequence without repetition as long
as a finite set is large has all its elements.

**FlexpathQueueProofs** (QueueAssumption: the threads are distinct, sizes are
integers; SignalAssumption: a queue somebody waits on for a dequeue signals
it, which both queues of the code do).

* `QueueTypeCorrect` - TypeOK is not inductive alone: a producer in the middle
  of `threaded_enqueue` must still have an item to put.  `TypeInv = TypeOK /\
  CallsInProgress` is.
* `QueueMutualExclusion` - "in the critical section iff holder of the mutex" is
  inductive in this form; the weaker "at most one" is not.
* `QueueIsBounded` - the push tests the length and pushes under one mutex.
* `QueueNoLostWakeup` - needs mutual exclusion: a thread tests its condition and
  begins to wait without anybody between, and after a dequeue the broadcast is
  still to come (`"dequeued"`) until it has been made.
* `QueueInOrderOnce`, `QueueFinalizeDrains` - over the history `taken \o queue`,
  which a push extends and a dequeue leaves alone.
* `QueueImplementsFifo` - the safety part of the refinement: each step is a Put,
  a Get or a stutter.

**FlexpathStreamProofs** (StreamAssumption: at least one writer, reader and step,
any queue size, any Needs).

* `StreamTypeCorrect` - with PublishingInv (a thread in the middle of `close` has
  a step to publish) and PerformingInv (a reader that waits in `perform_reads`
  has a sendee).  It says more than types: step numbers are those of published
  steps and requests address writers that exist (lemma BridgesExist on the
  arithmetic of `open`).
* `StreamBufferBound`, `StreamQueueIsWindow` - by WindowFrame: only `close` and
  the dequeue of the last CLOSE move the window of a queue, and appending and
  dropping keep a window a window.
* `StreamLockstep` - from the stronger "all writers have come out of the Allgather
  equally often"; the stated difference of one is not inductive (WritersInLockstep
  is not checked by a run: it follows from the Allgather alone).

The second part of the module is about what the two programs may rely on.  None of
these properties is inductive; they rest on invariants that build on each other:

* *ProtocolInv* (`StreamProtocolInvariant`).  For each reader: a message under way
  finds its sender where it was sent (DueInv), there is at most one that its
  sender waits for (SingleInv), the two ends of a bridge agree but for the
  operation under way (BridgeInv), an acknowledgement is waited for only in the
  loops that send the operation (AwaitInv), and sendees and the coordinator are
  open (OpenInv).  For each writer: while it drops a step no bridge is open and
  one reader waits for the acknowledgement of its CLOSE (CloserInv).  The readers
  have the same step and pass the barrier of `advance_step` together
  (TogetherInv).  SingleInv is what makes the conditions safe: an answer can only
  be the one that is waited for.
* `StreamOpenCountExact` is part of it: that an OPEN finds its bridge closed and a
  CLOSE finds it open needs both BridgeInv and AwaitInv.
* `StreamOpenStepRetained` - with QueueIsWindow: a writer with an open bridge is not
  dropping a step, so the head of its queue is the readers' step.
* `StreamStepConsistency` - GotInv for the buffers; GroupInv for the group messages:
  with global arrays the coordinator's group messages are the window from the
  step last dropped to the one last published.  The drop message of a step finds
  its group message because every reader has seen it by then.
* `StreamReadsComplete` - AskedInv: a writer on a reader's list has processed the
  VAR message or has it in its queue before any data request of that reader;
  WantInv: a wanted writer is still needed, on the list, or has answered, and the
  condition in `perform_reads` is signalled by that answer only.
* `StreamBufferDroppedAfterUse` - when a buffer is dequeued CloserInv and TogetherInv
  put every reader past `perform_reads`, where WantInv gives its replies.
* `StreamEndsAtLastStep` - from AnnouncedInv: an announcement of the end names the
  last step, under way and at the reader.

**FlexpathSelectionProofs** (SelectionAssumption: the boxes asked for are not empty,
offset + size does not wrap in `uint64_t`, and an int has no more values than that).
The hypotheses on sizes are those of the ints the code uses; without them the
statements are false of the code.

* `SelectionNoHolderMissed` - for any number of dimensions and any layout,
  `need_writer` recognises every overlap.  The lemma NeedWriterComplete reduces
  it to one dimension, IntervalsOverlap is the arithmetic of the three tests.
  The invariant SelectionInv keeps the selection's shape and that the
  displacements in force are those of the selection in force.
* `SelectionDisplacementsExact` - what `get_writer_displacements` computes for a
  writer that is asked is the part of its block in the selection.  Hypothesis:
  BlocksInInt, that every size of a block is below half of the values of an int
  (2^31).  Then no start and no count changes in the int, because both lie between 0
  and that size (IntExact).  IntervalExact
  is the arithmetic in one dimension; it also covers the writers that
  `need_writer` takes although their block ends right before the selection, whose
  part must come out empty and not as a negative count.  That every element of a
  block lies within the block's bounds in each dimension (ElementInBlock) is a
  fact about `Elements` and `ElementAt`, which are recursive over the dimensions.
  It is proved from the least dimension at which it would fail (LeastNumber),
  after showing that the recursive functions exist and so unfold
  (ProductsExist).
* `SelectionLastReadFilled` - when `perform_reads` returns, the last read holds its
  selection and nothing beside it.  Hypotheses: no Fortran, because there
  the copy in use is taken before `reverse_dims` turns the selection (section 6);
  BlocksFit, that no block is empty or larger than the array, because the
  do-while loop of `extract_selection_from_partial` takes an element before it looks
  for the end; BlocksInInt; and RequestsFit, that a box that is asked for has at most
  2^31 bytes, so that an int holds the offset of each of its elements.  The argument:
  - The row-major offset (RowMajor) stays below the number of elements (RankBound),
    `ElementAt` undoes it (StrideDivides, Unrank), so no two places have the same
    offset (OnePlace), and `increment_index` goes to the next one (IncrementIndex).
    Each is an induction over the dimensions, by the least one (UpTo).
  - `find_offset`, which cuts the offset down to an int in every dimension, computes
    it: what it has in a dimension is below the product of the sizes so far, and these
    rise (ProductsRise, FindOffsetExact).  The offset in bytes does not overflow, and
    two offsets are apart in bytes when they are in elements (BytesExact, CopiedToIs).
  - So the walk over a writer's array is at the element with offset k in round k and
    ends behind the last (WalkMeetsAll), what it copies belongs where it is copied to
    (CopiedRight), and all that the writer has of the selection is copied (AllCopied):
    ExtractIs.
  - The invariant (FillInv: SelectionInv, DisplacementsInv, RoundInv, LastReadInv) says
    of every element of the last read's memory that it is in place, or untouched with
    everyone who holds it still to be asked.  That the holders are asked is
    NeedWriterComplete and SendeesAdded.

**DataSpacesProofs** (DataSpacesAssumption and, in the theorems, `MaxVersions > 1`).

* `DataSpacesRanksAgree`, `DataSpacesNoUnexpectedState`,
  `DataSpacesEndMeansAllSeen`, `DataSpacesOpenStepComplete` - from one inductive
  invariant, IInv.  WriterInv says what the servers hold at each point of the
  writers: VERSION@, FILE@, GROUP@ and the arrays are there for a window of
  versions each, and a version is announced after its objects.  LockInv says who
  holds the lock, ReaderInv where a reader's search is and that every step it
  passed over is gone; the ranks of the reader program have the same current step
  and make each attempt together (TogetherInv), and those that still read ask for
  the same step (WantedInv).  DrainInv says what DIMES writers wait for at the end.
  RanksAgree is not inductive: two ranks with the same step agree on the next one
  only because what either of them may still find lies in the same window.
* `DataSpacesSkipsOnlyGoneSteps` - the action property, from the same invariant.
* The hypothesis `MaxVersions > 1` is needed: with one version the search of
  `get_step` increments the step also in the branch "not ready", while a rank
  that timed out starts again from the step it had, and TLC finds two ranks at
  different steps.  The manual's configuration has max_versions = 5.
  OpenStepComplete needs, with DIMES, a second writer rank: rank 0 does not wait
  for the readers in `adios_finalize` (`if (info->iam_rank0 == 0)`), so that with one
  rank nobody does, and TLC finds the arrays of the open step gone.  The run has
  DIMES with two writers.

**BpFileProofs** (PosixWriteAssumption: any finite set of groups, any sizes, payloads
and modes among the four; BpStreamAssumption).  PosixWrite and the reader of BpStream.

* The inductive invariant has two layers.  LayoutInv says where the parts of a
  file are: an index has process groups at increasing offsets with consecutive
  times; a file at rest that ends in a minifooter has its whole index before it;
  an open session writes from the end of the old process groups on.  ContentInv
  says what is in the cells: every variable of a buffered session that an index
  names is there, the buffer of an open session has what `adios_write` put into it,
  and what of it was written is in the file.
* `PosixTypeCorrect`, `PosixTimesIncrease`, `PosixAppendKeepsOld` rest on LayoutInv and
  hold for every MaxWrite and for sessions without a buffer too.  Times increase
  because `adios_posix_open` takes the largest time of the index, which is the last
  (lemma NextTimeAfterLast); that needs the invariant for the old index.
* `PosixIndexedIntact`, `PosixReadReturnsLast` rest on both layers and on
  `[]FitsOneWrite`: no buffer is longer than MAX_MPIWRITE_SIZE.  The loop of
  `adios_posix_do_write` starts every round at the beginning of the buffer, so
  without the hypothesis the second round writes the first part again.
* `BpStaleIndexStillReads` - the invariant of the reader, StaleInv, is about every
  cell of an index that lies in the file, also one that a session has half
  overwritten, because the reader takes minifooter, index and size at different
  moments: whichever index it parses, and however long it keeps it, names
  variables before the place where the session in progress writes (Reach), and
  those cells do not change.  Hypotheses, beside FitsOneWrite: the sessions of the
  stream are buffered (StreamBuffered; in a direct one the payload is in the file
  twice and the entries are off), and no session creates the file anew once the
  reader has found it valid (NotTruncated).  The run's instance meets all three.
* `BpCompleteStreamInOrder` - two halves.  StreamFileInv, of the writer: the index at
  rest has the process groups of the sessions in the log, one each and in order,
  with the first variable of every session that wrote (Describes), and a cell of an
  index, also a left-over one, lies behind the process groups and has a time.
  StepsInv, of the reader: once the last session is closed the index that it parses
  is the one the minifooter points at (ParsedIndex), and it has been at the steps
  0, 1, ... of it.  StepTime does the arithmetic: the times of the first variable
  are consecutive, so the one that `get_time` finds by counting the earlier ones is
  the first plus the step.  One hypothesis more, NotUpdated: `adios_write` calls
  `adios_copy_var_written` in write and append mode only, so the variables of an
  update are not in the index and `get_time` misses that step (TLC shows the
  property violated with mode "u").

* `PosixNothingLeaked` - the buffers that the open files hold are a sum over the
  groups, and each operation changes what one group holds (HeldIsSum,
  FiniteSums).  With the types and LayoutInv, which says that a session that asks
  for its size holds no buffer yet, it is inductive as it stands (PoolInv).  It
  needs that the groups are finitely many.

**IceeStreamProofs** (IceeAssumption).

* `IceeWaitMeansSubmitted` - not inductive alone: the pool has to stay empty from
  the return of one `close` to the Allreduce of the next (PoolAtRest).  A thread
  that takes or submits a job then proves that the writer is still in `close`.
* `IceeStepsNotSplit`, `IceeReadsWhole` - from FlowInv, which follows every chunk from
  the queue of its writer to the entry of its step.  JobsInv: the jobs in a queue
  are the variables of the current step queued last, in order, so that a chunk that
  left it does not return (Issued).  OnceInv: a chunk is in one place - with a
  thread of the pool, on a connection, with a handler, or in the list.  ListInv: an
  entry has chunks of its own step and none twice.  ReaderInv: of a step the reader
  has left, nothing is still to come (Gone).  The argument turns on counting: a
  step has as many chunks as each of them says (StepSize, the sum that the
  Allreduce of `close` computes), so an entry that is as long has all of them
  (CompleteHasAll).  Hence a complete entry gets no further chunk, a read of it
  finds the blocks of every writer, and the walk of a handler that begins at the
  entry just unlinked passes it by (AppendGrows).

**TransformReadsProofs** (no assumption on the constants is used).

* `TransformInfoOfVariable` - the cached infos are those of the variables they are
  asked for under, at the step the reader is at, through any views, reads and
  advances.  Its hypothesis, that the group in view begins with the first variable
  (`Offset = 0`), is what the code needs to be right: the transinfo is looked up
  without the offset (section 6).  `TransformInfoInFirstGroup` draws the conclusion
  for a program that selects no group but the first, as in the run.
* `ReadsDecodeOwnData` and `ReadsAreDelivered` - every block is decoded from the
  buffers of its own read, and every read is answered once and in full.  A chunk
  does not say which read it is for: `adios_transform_process_read_chunk` takes the
  first group with the same variable and an open subrequest of the same selection.
  What keeps reads of the same blocks apart is that BP's list, the subrequests of a
  block and the request groups are all built from their ends.  The inductive
  invariant (`ReadInv`, with the parts of `Sound`) says so: BP's list has the latest
  read in front and every entry once (EntriesOk), the groups are in the same order
  (GroupsOk), a live group waits for exactly the entries its read has in the list
  and has filled the others (MatchOk), and what the program has been given is what
  the list no longer has (GotOk, WholeOk, AnsweredOk).  The main lemma is
  MatchedServed: the chunk is of the latest read that is left, the groups in front
  of its own are completed or of other variables, so the first match is its own.
  Reads whose two ids differ (`SameId`) are served to the wrong place or not at all;
  the invariant keeps track of them only so far that they do not disturb the rest.
  The hypothesis `[]OneName` - within a step, an id stands for one variable and a
  variable for one id - excludes a program that asks for a variable under two ids,
  of the full view and of a group that does not come first, because then a group
  matches the chunks of another variable.  `ReadsInFirstGroup` shows that it is
  always true when the program selects no group but the first and no step lists a
  variable twice, as in the run (`NamesInv`).  The order of the lists is `Ascending`
  in the model, SetToSortSeq with its places spelt out, because the library's
  definition recurses where a proof has to count.

*Only model-checked*: all liveness and the liveness part of ImplementsFifo
(fairness is outside the prover).

## 6. Where the code and its documentation disagree

Each of these is a run with one property that TLC finds violated; `PROJECT.json`
(`findings`) quotes the line that states it.

| Run | Property | The code |
|---|---|---|
| stream_no_release | AdvanceReturns | a Flexpath reader with several bridges that advances without `adios_release_step` waits for ever for the acknowledgement of an OPEN of a future step |
| stream_perform_reads | PerformReadsReturns | with two sendees, a reply counted before `num_pending` is set signals nobody |
| bp_stream_next | AdvanceIsNext | a BP reader that opens the file again to advance goes to the step after the newest one |

The fairness of the first two is that of the passing runs, so their
counterexamples are hangs and not a thread that stopped.

More are in the models and have no run of their own; `hazards` has the lines.

* *Flexpath.*  `threaded_peek` waits in an `if`, so that a spurious wakeup makes it
  return NULL, which its caller dereferences.  `finalize` returns when the queue
  is empty, with the acknowledgement of the last CLOSE still owed.  The second
  read of a variable in a round replaces the first one's selection and buffer.
  Offsets of a copy are ints, in elements and in bytes, so that a selection of more
  than 2 GiB is copied to wrong addresses, and dimensions from 2^31 on are
  misread; `adios_selection.h` gives sizes 64 bits.
  In Fortran mode the copy of the selection that is used is not the one that is
  reversed.  A writer with an empty block counts as one that overlaps the
  selection.  The write-block index `num_bridges` is one too large and accepted.
* *POSIX.*  An unbuffered write sends the payload twice and counts it once; the
  index then overwrites data.  A PG above MAX_MPIWRITE_SIZE is written in pieces
  that all start at the beginning of the buffer.  IndexedIntact is therefore
  about buffered sessions.
* *BP stream.*  After err_step_notready the file is closed, and the next call uses
  it.  The result of `bp_open` is not looked at.
* *DIMES.*  All ranks but the first announce the end; with one writer nobody does.
  DataSpaces and DIMES skip evicted steps without err_step_disappeared.
* *ICEE.*  The reader frees a list entry without the lock of the handlers.
* *Reads.*  A refused blocking call decodes buffers nobody filled, and so does one in
  which a read failed; it returns 0.  `check_reads` returns 0 for a read that failed
  and leaves it at the head of the list.  With nothing left it does not set the
  chunk to NULL.  Ids in the file and ids of
  the program are compared: behind a missing variable, or in the view of a later
  group, transformed data reaches the program as raw bytes.  The info cache is
  not emptied by `adios_group_view`, and the transform info is looked up without
  the group's offset: with two groups InfoOfVariable fails.

## 7. What is not modelled

* *Flexpath*: the handshake over files (a run starts after it), the FFS
  description of formats, buffer contents, the metadata calls
  (`inq_var`, attributes), scalars cached by `raw_handler`, and the attribute
  list that two threads of the writer share.  All stream runs have NW and NR
  that divide one another.  A crash of one program is not modelled, as the code
  has no handling of one after the handshake.
* *DataSpaces, DIMES, ICEE*: how the programs find each other, the layout of the
  descriptions, the geometry of a read.  The servers are what the calls show of
  them.
* *POSIX and write API*: several processes that gather one metadata file,
  `adios_read`, `get_write_buffer`, transforms on write, XML.
* *Read side*: the geometry of transformed and BP reads, file mode, local arrays
  through transforms, the inquiries, meshes, the staged readers.
* *Other methods*: the MPI-IO, Lustre, AMR, HDF5 and NetCDF writers produce the
  layout of PosixWrite with offsets from collectives, or call other libraries.
  Several more (`adios_adaptive.c`, `adios_mpi_stripe.c`, ...) are not compiled
  and cannot be selected.
* *Query, XML, Fortran bindings, utilities, vendored code*: evaluation over
  external libraries, parsing and argument conversion, without a protocol of
  their own.

The map covers a small share of the repository's lines.  A large part are
generated or argument-converting wrappers (`wrappers/`), and most of the rest
are file formats written out field by field, variants of one method for one
file system each, statistics, command-line tools and disabled methods.  They
have no interleavings, failures or long call sequences of their own, and a model
of them would be a transliteration.
