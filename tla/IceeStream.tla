------------------------------ MODULE IceeStream ------------------------------
(***************************************************************************)
(* The ICEE staging method: NW writer processes (write/adios_icee.c) that  *)
(* push their variables through a pool of submitting threads, and a reader *)
(* (read/read_icee.c) whose communication threads merge what arrives into  *)
(* a list of steps that the reading application walks through.             *)
(*                                                                         *)
(* With num_parallel = 1 a writer sends a step as one chunk.  Otherwise    *)
(* each variable is a chunk of its own, submitted by a thread of the pool  *)
(* over a connection drawn at random.  EVPath keeps the order within a     *)
(* connection and none between two of them.  The reader has a thread for   *)
(* each connection.                                                        *)
(*                                                                         *)
(* A region of code under the pool's mutex, between a lock and an unlock   *)
(* or a wait, is one step.  The reading application takes no lock; a       *)
(* handler that starts its walk at an entry the application frees reads    *)
(* freed memory, and the model does not follow the reader further.         *)
(***************************************************************************)
EXTENDS Integers, Sequences, FiniteSets, SequencesExt, FiniteSetsExt

CONSTANTS
  NW,          \* number of writer processes
  NSteps,      \* bound: steps written
  Loads        \* num_parallel, the same on both sides, and the number of
               \* variables each writer writes in a step

ASSUME IceeAssumption ==
  /\ {NW, NSteps} \subseteq Nat \ {0}
  /\ Loads \subseteq [parallel : Nat \ {0}, nvars : [0 .. NW - 1 -> Nat]]
  /\ \A load \in Loads : load.parallel = 1 => \A w \in 0 .. NW - 1 : load.nvars[w] > 0

Writers == 0 .. NW - 1

VARIABLES
  load,        \* the configuration of this run
  wpc,         \* where each writer is
  timestep,    \* its timestep
  nvars,       \* fp->nvars, while closing the jobs queued so far
  jobs,        \* pool_head: the FIFO of jobs
  poolWait,    \* POOL_WAIT in pool_flags
  worker,      \* the threads of each pool
  chan,        \* the chunks under way on each connection
  handler,     \* the communication threads of the reader
  list,        \* icee_filelist: the steps, from head->item on
  old,         \* the entry advance_step has unlinked and not freed yet
  removed,     \* number of entries unlinked so far
  rpc,         \* where the reading application is
  want,        \* the variable of the read in progress
  got,         \* what the reads of the current step returned
  seen         \* the steps the reader has been at

poolVars == <<jobs, poolWait, worker>>
writerVars == <<wpc, timestep, nvars>>
readerVars == <<list, old, removed, rpc, want, got, seen>>
vars == <<load, writerVars, poolVars, chan, handler, readerVars>>

Threads == 1 .. load.parallel
Vars == 1 .. Max({load.nvars[w] : w \in Writers})
Holders(v) == {w \in Writers : v <= load.nvars[w]}
NoChunk == [w |-> -1, step |-> -1, vars |-> <<>>, nchunks |-> 0]

Init ==
  /\ load \in Loads
  /\ wpc = [w \in Writers |-> "open"]
  /\ timestep = [w \in Writers |-> 0]
  /\ nvars = [w \in Writers |-> 0]
  /\ jobs = [w \in Writers |-> <<>>]
  /\ poolWait = [w \in Writers |-> FALSE]
  /\ worker = [w \in Writers |-> [k \in Threads |-> [st |-> "none", job |-> NoChunk]]]
  /\ chan = [w \in Writers |-> [k \in Threads |-> <<>>]]
  /\ handler = [k \in Threads |-> [st |-> "idle", chunk |-> NoChunk, root |-> 0]]
  /\ list = <<>> /\ old = <<>> /\ removed = 0
  /\ rpc = "open" /\ want = 0 /\ got = {} /\ seen = <<>>

-----------------------------------------------------------------------------
(* The writing application.                                                *)

Open(w) ==
  /\ wpc[w] = "open"
  /\ timestep[w] < NSteps
  /\ timestep' = [timestep EXCEPT ![w] = @ + 1]
  /\ nvars' = [nvars EXCEPT ![w] = 0]
  /\ wpc' = [wpc EXCEPT ![w] = "write"]
  /\ UNCHANGED <<load, poolVars, chan, handler, readerVars>>

Write(w) ==
  /\ wpc[w] = "write"
  /\ nvars[w] < load.nvars[w]
  /\ nvars' = [nvars EXCEPT ![w] = @ + 1]
  /\ UNCHANGED <<load, wpc, timestep, poolVars, chan, handler, readerVars>>

(* close, num_parallel = 1: one chunk with all the variables.              *)
CloseSubmit(w) ==
  /\ wpc[w] = "write" /\ nvars[w] = load.nvars[w]
  /\ load.parallel = 1
  /\ chan' = [chan EXCEPT ![w][1] =
                Append(@, [w |-> w, step |-> timestep[w],
                           vars |-> [i \in 1 .. load.nvars[w] |-> i], nchunks |-> NW])]
  /\ wpc' = [wpc EXCEPT ![w] = "open"]
  /\ UNCHANGED <<load, timestep, nvars, poolVars, handler, readerVars>>

(* close, num_parallel > 1: the sum of all nvars, a job for each variable, *)
(* and the wait for the pool.                                              *)
CloseReduce(w) ==
  /\ wpc[w] = "write" /\ nvars[w] = load.nvars[w]
  /\ load.parallel > 1
  /\ wpc' = [wpc EXCEPT ![w] = "reduce"]
  /\ UNCHANGED <<load, timestep, nvars, poolVars, chan, handler, readerVars>>

CommNvars == MapThenSumSet(LAMBDA w : load.nvars[w], Writers)

Allreduce ==
  /\ \A w \in Writers : wpc[w] = "reduce"
  /\ wpc' = [w \in Writers |-> "queue"]
  /\ nvars' = [w \in Writers |-> 0]
  /\ UNCHANGED <<load, timestep, poolVars, chan, handler, readerVars>>

InState(w, states) == {k \in Threads : worker[w][k].st \in states}
IdleThreads(w) == InState(w, {"blocked", "woken"})
ActiveThreads(w) == InState(w, {"job", "submitted"})

(* thr_pool_queue: an idle thread is signalled (the signal is lost if all  *)
(* idle threads have been woken already), or a thread is created if there  *)
(* may be more.                                                            *)
Signalled(w) ==
  CASE IdleThreads(w) # {} /\ InState(w, {"blocked"}) # {} ->
         {[worker[w] EXCEPT ![k].st = "woken"] : k \in InState(w, {"blocked"})}
    [] IdleThreads(w) = {} /\ InState(w, {"none"}) # {} ->
         {[worker[w] EXCEPT ![Min(InState(w, {"none"}))].st = "start"]}
    [] OTHER -> {worker[w]}

ThrPoolQueue(w) ==
  /\ wpc[w] = "queue"
  /\ nvars[w] < load.nvars[w]
  /\ nvars' = [nvars EXCEPT ![w] = @ + 1]
  /\ jobs' = [jobs EXCEPT ![w] =
                Append(@, [w |-> w, step |-> timestep[w],
                           vars |-> <<nvars[w] + 1>>, nchunks |-> CommNvars])]
  /\ \E threads \in Signalled(w) : worker' = [worker EXCEPT ![w] = threads]
  /\ UNCHANGED <<load, wpc, timestep, poolWait, chan, handler, readerVars>>

(* Mutant of PoolBusy: the jobs being submitted are not looked at.         *)
PoolBusyQueued(w) == jobs[w] # <<>>

PoolBusy(w) == jobs[w] # <<>> \/ ActiveThreads(w) # {}

ThrPoolWait(w) ==
  /\ wpc[w] = "queue" /\ nvars[w] = load.nvars[w]
  /\ wpc' = [wpc EXCEPT ![w] = IF PoolBusy(w) THEN "waiting" ELSE "open"]
  /\ poolWait' = [poolWait EXCEPT ![w] = @ \/ PoolBusy(w)]
  /\ UNCHANGED <<load, timestep, nvars, jobs, worker, chan, handler, readerVars>>

(* pthread_cond_wait may return without a signal.                          *)
SpuriousWakeup(w) ==
  /\ \/ /\ wpc[w] = "waiting"
        /\ wpc' = [wpc EXCEPT ![w] = "queue"]
        /\ UNCHANGED worker
     \/ /\ \E k \in InState(w, {"blocked"}) :
             worker' = [worker EXCEPT ![w][k].st = "woken"]
        /\ UNCHANGED wpc
  /\ UNCHANGED <<load, timestep, nvars, jobs, poolWait, chan, handler,
                 readerVars>>

-----------------------------------------------------------------------------
(* The threads of a pool.  A thread enters its loop when it starts, when   *)
(* it has been woken, and after job_cleanup, which keeps the mutex.        *)

EntersLoop(w, k) == worker[w][k].st \in {"start", "woken", "submitted"}

WorkerTakesJob(w, k) ==
  /\ EntersLoop(w, k)
  /\ jobs[w] # <<>>
  /\ worker' = [worker EXCEPT ![w][k] = [st |-> "job", job |-> Head(jobs[w])]]
  /\ jobs' = [jobs EXCEPT ![w] = Tail(@)]
  /\ UNCHANGED <<load, writerVars, poolWait, chan, handler, readerVars>>

(* Mutant of Notifies: the thread counts itself among the active ones.     *)
NotifiesOthersOnly(w, k) ==
  /\ worker[w][k].st # "woken"
  /\ poolWait[w]
  /\ ActiveThreads(w) = {}

(* notify_waiters, of job_cleanup and of the top of the loop.              *)
Notifies(w, k) ==
  /\ worker[w][k].st # "woken"
  /\ poolWait[w]
  /\ ActiveThreads(w) \subseteq {k}

WorkerWaits(w, k) ==
  /\ EntersLoop(w, k)
  /\ jobs[w] = <<>>
  /\ worker' = [worker EXCEPT ![w][k] = [st |-> "blocked", job |-> NoChunk]]
  /\ poolWait' = [poolWait EXCEPT ![w] = @ /\ ~Notifies(w, k)]
  /\ wpc' = [wpc EXCEPT ![w] = IF Notifies(w, k) /\ @ = "waiting" THEN "queue" ELSE @]
  /\ UNCHANGED <<load, timestep, nvars, jobs, chan, handler, readerVars>>

Dosubmit(w, k) ==
  /\ worker[w][k].st = "job"
  /\ \E c \in Threads : chan' = [chan EXCEPT ![w][c] = Append(@, worker[w][k].job)]
  /\ worker' = [worker EXCEPT ![w][k].st = "submitted"]
  /\ UNCHANGED <<load, writerVars, jobs, poolWait, handler, readerVars>>

-----------------------------------------------------------------------------
(* The communication threads of the reader: icee_fileinfo_handler.         *)

(* The lock is taken and the walk starts at head->item.                    *)
HandlerLock(k, w) ==
  /\ \A j \in Threads : handler[j].st = "idle"
  /\ rpc # "undefined"
  /\ chan[w][k] # <<>>
  /\ handler' = [handler EXCEPT ![k] =
                   [st |-> "locked", chunk |-> Head(chan[w][k]), root |-> removed + 1]]
  /\ chan' = [chan EXCEPT ![w][k] = Tail(@)]
  /\ UNCHANGED <<load, writerVars, poolVars, readerVars>>

(* Mutant of Merged: only the last entry is compared.                      *)
MergedIntoLast(entries, c) ==
  IF entries # <<>> /\ Last(entries).step = c.step
  THEN [entries EXCEPT ![Len(entries)].chunks = Append(@, c)]
  ELSE Append(entries, [step |-> c.step, nchunks |-> c.nchunks, chunks |-> <<c>>])

(* icee_fileinfo_append: the chunk joins the entry of its step, or a new   *)
(* entry at the end.                                                       *)
Merged(entries, c) ==
  LET same == {i \in DOMAIN entries : entries[i].step = c.step} IN
  IF same # {} THEN [entries EXCEPT ![Min(same)].chunks = Append(@, c)]
  ELSE Append(entries, [step |-> c.step, nchunks |-> c.nchunks, chunks |-> <<c>>])

Unlock(k) == handler' = [handler EXCEPT ![k] = [st |-> "idle", chunk |-> NoChunk, root |-> 0]]

(* The entry the walk starts at is in the list, or unlinked but not freed. *)
HandlerAppend(k) ==
  /\ handler[k].st = "locked"
  /\ rpc # "undefined"
  /\ handler[k].root + Len(old) > removed
  /\ LET passed == IF handler[k].root > removed THEN <<>> ELSE old
         all == Merged(passed \o list, handler[k].chunk)
     IN /\ old' = IF passed = <<>> THEN old ELSE SubSeq(all, 1, 1)
        /\ list' = SubSeq(all, Len(passed) + 1, Len(all))
  /\ Unlock(k)
  /\ UNCHANGED <<load, writerVars, poolVars, chan, removed, rpc, want, got, seen>>

HandlerReadsFreed(k) ==
  /\ handler[k].st = "locked"
  /\ rpc # "undefined"
  /\ handler[k].root + Len(old) <= removed
  /\ rpc' = "undefined"
  /\ Unlock(k)
  /\ UNCHANGED <<load, writerVars, poolVars, chan, list, old, removed, want, got,
                 seen>>

-----------------------------------------------------------------------------
(* The reading application.  It tries again when a call gives up: open     *)
(* without an entry, schedule_read of a variable that has not arrived,     *)
(* advance_step without a next entry.  It reads in every step.             *)

(* Mutant of Complete: one chunk is enough.                                *)
CompleteEarly(e) == Len(e.chunks) > 0

Complete(e) == Len(e.chunks) = e.nchunks

ReadOpen ==
  /\ rpc = "open"
  /\ list # <<>>
  /\ rpc' = "merge"
  /\ UNCHANGED <<load, writerVars, poolVars, chan, handler, list, old, removed,
                 want, got, seen>>

OpenMerged ==
  /\ rpc = "merge"
  /\ Complete(Head(list))
  /\ rpc' = "step"
  /\ seen' = <<Head(list).step>>
  /\ UNCHANGED <<load, writerVars, poolVars, chan, handler, list, old, removed,
                 want, got>>

Blocks(e, v) == {c.w : c \in {x \in ToSet(e.chunks) : v \in ToSet(x.vars)}}

(* schedule_read_byid looks the variable up before it waits for the step.  *)
ScheduleRead(v) ==
  /\ rpc = "step"
  /\ \A g \in got : g.var # v
  /\ Blocks(Head(list), v) # {}
  /\ rpc' = "read"
  /\ want' = v
  /\ UNCHANGED <<load, writerVars, poolVars, chan, handler, list, old, removed,
                 got, seen>>

CopyRead ==
  /\ rpc = "read"
  /\ Complete(Head(list))
  /\ got' = got \cup {[var |-> want, step |-> Head(list).step,
                       blocks |-> Blocks(Head(list), want)]}
  /\ rpc' = "step"
  /\ UNCHANGED <<load, writerVars, poolVars, chan, handler, list, old, removed,
                 want, seen>>

AdvanceStep ==
  /\ rpc = "step"
  /\ got # {}
  /\ Len(list) > 1
  /\ list' = Tail(list)
  /\ old' = <<Head(list)>>
  /\ removed' = removed + 1
  /\ rpc' = "free"
  /\ UNCHANGED <<load, writerVars, poolVars, chan, handler, want, got, seen>>

FileinfoFree ==
  /\ rpc = "free"
  /\ old' = <<>>
  /\ got' = {}
  /\ seen' = Append(seen, Head(list).step)
  /\ rpc' = "step"
  /\ UNCHANGED <<load, writerVars, poolVars, chan, handler, list, removed, want>>

-----------------------------------------------------------------------------
WriterNext(w) ==
  \/ Open(w) \/ Write(w) \/ CloseSubmit(w) \/ CloseReduce(w)
  \/ ThrPoolQueue(w) \/ ThrPoolWait(w)

WorkerNext(w, k) == WorkerTakesJob(w, k) \/ WorkerWaits(w, k) \/ Dosubmit(w, k)

HandlerNext(k) ==
  \/ \E w \in Writers : HandlerLock(k, w)
  \/ HandlerAppend(k)
  \/ HandlerReadsFreed(k)

ReaderNext ==
  \/ ReadOpen \/ OpenMerged
  \/ \E v \in Vars : ScheduleRead(v)
  \/ CopyRead \/ AdvanceStep \/ FileinfoFree

Next ==
  \/ Allreduce
  \/ \E w \in Writers : WriterNext(w) \/ SpuriousWakeup(w)
  \/ \E w \in Writers, k \in Threads : WorkerNext(w, k)
  \/ \E k \in Threads : HandlerNext(k)
  \/ ReaderNext

(* Every thread that can go on does so, and a connection delivers.  No     *)
(* spurious wakeup has to happen.                                          *)
MaxThreads == Max({l.parallel : l \in Loads})

Fairness ==
  /\ WF_vars(Allreduce)
  /\ \A w \in Writers : WF_vars(WriterNext(w))
  /\ \A w \in Writers, k \in 1 .. MaxThreads :
       WF_vars(k \in Threads /\ WorkerNext(w, k))
  /\ \A k \in 1 .. MaxThreads : WF_vars(k \in Threads /\ HandlerNext(k))
  /\ WF_vars(ReaderNext)

Spec == Init /\ [][Next]_vars /\ Fairness

-----------------------------------------------------------------------------
(* Properties.                                                             *)

(* adios_icee_close returns only when the pool has submitted every         *)
(* variable of the step: the program may change its arrays again.          *)
WaitMeansSubmitted ==
  \A w \in Writers : wpc[w] = "open" =>
    /\ jobs[w] = <<>>
    /\ ActiveThreads(w) = {}

(* A step is one entry of the reader's list, whatever the order in which   *)
(* the chunks of several writers, variables and steps arrive: no entry is  *)
(* split, none comes back after the reader has left it, and no chunk is    *)
(* counted twice.                                                          *)
StepsNotSplit ==
  /\ \A i, j \in DOMAIN list : list[i].step = list[j].step => i = j
  /\ rpc \notin {"free", "undefined"} =>
       \A i \in 2 .. Len(list) : list[i].step \notin ToSet(seen)
  /\ \A i \in DOMAIN list : IsInjective(list[i].chunks)

(* A read returns the blocks of every writer of the variable, all of the   *)
(* step the reader is at, although chunks are still being merged while it  *)
(* starts.                                                                 *)
ReadsWhole ==
  \A g \in got : rpc # "free" => g.blocks = Holders(g.var) /\ g.step = Last(seen)

(* Every step comes to the reader and every writer comes to its end: no    *)
(* signal of the pool is lost and no chunk stays behind, unless a handler  *)
(* reads a freed entry.                                                    *)
StepsArrive ==
  <>(/\ \A w \in Writers : wpc[w] = "open" /\ timestep[w] = NSteps
     /\ rpc = "undefined" \/ ToSet(seen) = 1 .. NSteps)
=============================================================================
