--------------------------- MODULE IceeStreamProofs ---------------------------
(***************************************************************************)
(* The proofs about IceeStream, for any number of writers, threads,        *)
(* variables and steps: the thread pool of a writer, and the way of every  *)
(* chunk from the queue of its writer to the entry of its step in the      *)
(* reader's list.                                                          *)
(***************************************************************************)
EXTENDS IceeStream, FiniteSums, TLAPS

(* A chunk counts the chunks of its step, which the number of parallel     *)
(* connections decides.                                                    *)
Chunk == [w : Int, step : Int, vars : Seq(Nat), nchunks : {0, NW, CommNvars}]

(* Where a writer is, and what a thread of its pool does.                  *)
Positions == {"open", "write", "reduce", "queue", "waiting"}
States == {"none", "start", "blocked", "woken", "job", "submitted"}

(* What the writers and their pools hold, by type.                         *)
PoolType ==
  /\ load \in Loads
  /\ wpc \in [Writers -> Positions]
  /\ timestep \in [Writers -> Nat]
  /\ nvars \in [Writers -> Nat]
  /\ jobs \in [Writers -> Seq(Chunk)]
  /\ poolWait \in [Writers -> BOOLEAN]
  /\ worker \in [Writers -> [Threads -> [st : States, job : Chunk]]]

(* Between adios_icee_close and the Allreduce of the next one, not only    *)
(* when close returns, the pool has nothing to do.                         *)
PoolAtRest ==
  \A w \in Writers : wpc[w] \in {"open", "write", "reduce"} =>
    /\ jobs[w] = <<>>
    /\ \A k \in Threads : worker[w][k].st \notin {"job", "submitted"}

(* The inductive invariant.                                                *)
Inv == PoolType /\ PoolAtRest

-----------------------------------------------------------------------------

(* The chunk of a thread that has none.                                    *)
LEMMA NoChunkType == NoChunk \in Chunk
BY DEF NoChunk, Chunk

(* Initially the pools are empty.                                          *)
LEMMA PoolInit == Init => Inv
<1> SUFFICES ASSUME Init PROVE Inv
  OBVIOUS
<1>1. PoolType
  BY NoChunkType DEF Init, PoolType, Positions, States
<1>2. PoolAtRest
  BY DEF Init, PoolAtRest
<1> QED
  BY <1>1, <1>2 DEF Inv

(* What only the configuration decides stays as long as that does.         *)
LEMMA SameLoad ==
  ASSUME load' = load
  PROVE  Chunk' = Chunk /\ Threads' = Threads
<1>1. CommNvars' = CommNvars
  BY DEF CommNvars, MapThenSumSet, MapThenFoldSet
<1> QED
  BY <1>1 DEF Chunk, Threads

(* The steps of the reader and its handlers leave the writers alone.       *)
LEMMA OthersLeavePool ==
  ASSUME Inv, UNCHANGED <<load, wpc, timestep, nvars, jobs, poolWait, worker>>
  PROVE  Inv'
<1>1. Chunk' = Chunk /\ Threads' = Threads
  BY SameLoad
<1>2. PoolType'
  BY <1>1 DEF Inv, PoolType
<1>3. PoolAtRest'
  BY <1>1 DEF Inv, PoolAtRest
<1> QED
  BY <1>2, <1>3 DEF Inv

(* adios_icee_open, write and the branches of close before the pool.       *)
LEMMA ApplicationStep ==
  ASSUME Inv, NEW w \in Writers, Open(w) \/ Write(w) \/ CloseSubmit(w) \/ CloseReduce(w)
  PROVE  Inv'
<1>1. UNCHANGED <<load, jobs, poolWait, worker>>
  BY DEF Open, Write, CloseSubmit, CloseReduce, poolVars
<1>2. Chunk' = Chunk /\ Threads' = Threads
  BY <1>1, SameLoad
<1>3. /\ wpc' \in [Writers -> Positions] /\ timestep' \in [Writers -> Nat]
      /\ nvars' \in [Writers -> Nat]
  <2>1. /\ wpc \in [Writers -> Positions] /\ timestep \in [Writers -> Nat]
        /\ nvars \in [Writers -> Nat]
    BY DEF Inv, PoolType
  <2>2. CASE Open(w)
    BY <2>1, <2>2 DEF Positions, Open
  <2>3. CASE Write(w)
    BY <2>1, <2>3 DEF Write
  <2>4. CASE CloseSubmit(w) \/ CloseReduce(w)
    BY <2>1, <2>4 DEF Positions, CloseSubmit, CloseReduce
  <2> QED
    BY <2>2, <2>3, <2>4
<1>4. PoolType'
  BY <1>1, <1>2, <1>3 DEF Inv, PoolType
<1>5. \A v \in Writers : wpc'[v] \in {"open", "write", "reduce"} =>
                           wpc[v] \in {"open", "write", "reduce"}
  BY DEF Inv, PoolType, Open, Write, CloseSubmit, CloseReduce
<1>6. PoolAtRest'
  BY <1>1, <1>2, <1>5 DEF Inv, PoolAtRest
<1> QED
  BY <1>4, <1>6 DEF Inv

(* The Allreduce lets every writer queue.                                  *)
LEMMA AllreduceStep ==
  ASSUME Inv, Allreduce
  PROVE  Inv'
<1>1. UNCHANGED <<load, timestep, jobs, poolWait, worker>>
  BY DEF Allreduce, poolVars
<1>2. Chunk' = Chunk /\ Threads' = Threads
  BY <1>1, SameLoad
<1>3. /\ wpc' \in [Writers -> Positions] /\ nvars' \in [Writers -> Nat]
      /\ \A v \in Writers : wpc'[v] = "queue"
  BY DEF Allreduce, Positions
<1>4. PoolType'
  BY <1>1, <1>2, <1>3 DEF Inv, PoolType
<1>5. PoolAtRest'
  BY <1>3 DEF PoolAtRest
<1> QED
  BY <1>4, <1>5 DEF Inv

(* thr_pool_queue wakes or creates a thread; it starts no job.             *)
LEMMA SignalledType ==
  ASSUME Inv, NEW w \in Writers, NEW threads \in Signalled(w)
  PROVE  threads \in [Threads -> [st : States, job : Chunk]]
<1>1. worker[w] \in [Threads -> [st : States, job : Chunk]]
  BY DEF Inv, PoolType
<1>2. \A k \in Threads : /\ [worker[w] EXCEPT ![k].st = "woken"]
                               \in [Threads -> [st : States, job : Chunk]]
                         /\ [worker[w] EXCEPT ![k].st = "start"]
                               \in [Threads -> [st : States, job : Chunk]]
  BY <1>1 DEF States
<1>3. InState(w, {"blocked"}) \subseteq Threads /\ InState(w, {"none"}) \subseteq Threads
  BY DEF InState
<1>4. CASE IdleThreads(w) # {} /\ InState(w, {"blocked"}) # {}
  <2>1. threads \in {[worker[w] EXCEPT ![k].st = "woken"] : k \in InState(w, {"blocked"})}
    BY <1>4 DEF Signalled
  <2>2. PICK k \in Threads : threads = [worker[w] EXCEPT ![k].st = "woken"]
    BY <1>3, <2>1
  <2> QED
    BY <1>2, <2>2
<1>5. CASE IdleThreads(w) = {} /\ InState(w, {"none"}) # {}
  <2> DEFINE k == Min(InState(w, {"none"}))
  <2>1. threads = [worker[w] EXCEPT ![k].st = "start"]
    BY <1>5 DEF Signalled
  <2> HIDE DEF k
  <2>2. CASE k \in Threads
    BY <1>2, <2>1, <2>2
  <2>3. CASE k \notin Threads
    BY <1>1, <2>1, <2>3
  <2> QED
    BY <2>2, <2>3
<1>6. CASE /\ ~(IdleThreads(w) # {} /\ InState(w, {"blocked"}) # {})
           /\ ~(IdleThreads(w) = {} /\ InState(w, {"none"}) # {})
  BY <1>1, <1>6 DEF Signalled
<1> QED
  BY <1>4, <1>5, <1>6

(* A job is queued while the writer is in close.                           *)
LEMMA ThrPoolQueueStep ==
  ASSUME Inv, NEW w \in Writers, ThrPoolQueue(w)
  PROVE  Inv'
<1>1. UNCHANGED <<load, wpc, timestep, poolWait>> /\ wpc[w] = "queue"
  BY DEF ThrPoolQueue
<1>2. Chunk' = Chunk /\ Threads' = Threads
  BY <1>1, SameLoad
<1> DEFINE job == [w |-> w, step |-> timestep[w], vars |-> <<nvars[w] + 1>>,
                   nchunks |-> CommNvars]
<1>3. job \in Chunk
  <2>1. w \in Int /\ timestep[w] \in Int /\ nvars[w] + 1 \in Nat
    <3>1. NW \in Int /\ w \in 0 .. NW - 1
      BY IceeAssumption DEF Writers
    <3>2. timestep[w] \in Nat /\ nvars[w] \in Nat
      BY DEF Inv, PoolType
    <3> QED
      BY <3>1, <3>2
  <2> QED
    BY <2>1 DEF Chunk
<1>4. jobs' \in [Writers -> Seq(Chunk)] /\ \A v \in Writers : v # w => jobs'[v] = jobs[v]
  <2>1. jobs' = [jobs EXCEPT ![w] = Append(jobs[w], job)]
    BY DEF ThrPoolQueue
  <2> HIDE DEF job
  <2>2. Append(jobs[w], job) \in Seq(Chunk)
    BY <1>3 DEF Inv, PoolType
  <2> QED
    BY <2>1, <2>2 DEF Inv, PoolType
<1>5. PICK threads \in Signalled(w) : worker' = [worker EXCEPT ![w] = threads]
  BY DEF ThrPoolQueue
<1>6. threads \in [Threads -> [st : States, job : Chunk]]
  BY SignalledType
<1>7. /\ worker' \in [Writers -> [Threads -> [st : States, job : Chunk]]]
      /\ \A v \in Writers : v # w => worker'[v] = worker[v]
  BY <1>5, <1>6 DEF Inv, PoolType
<1>8. nvars' \in [Writers -> Nat]
  BY DEF ThrPoolQueue, Inv, PoolType
<1>9. PoolType'
  BY <1>1, <1>2, <1>4, <1>7, <1>8 DEF Inv, PoolType
<1>10. PoolAtRest'
  BY <1>1, <1>2, <1>4, <1>7 DEF Inv, PoolAtRest
<1> QED
  BY <1>9, <1>10 DEF Inv

(* thr_pool_wait returns only when the queue is empty and no thread has a  *)
(* job, which it sees under the mutex.                                     *)
LEMMA ThrPoolWaitStep ==
  ASSUME Inv, NEW w \in Writers, ThrPoolWait(w)
  PROVE  Inv'
<1>1. UNCHANGED <<load, timestep, nvars, jobs, worker>>
  BY DEF ThrPoolWait
<1>2. Chunk' = Chunk /\ Threads' = Threads
  BY <1>1, SameLoad
<1>3. /\ wpc' \in [Writers -> Positions]
      /\ \A v \in Writers : v # w => wpc'[v] = wpc[v]
      /\ wpc'[w] = IF PoolBusy(w) THEN "waiting" ELSE "open"
  BY DEF ThrPoolWait, Inv, PoolType, Positions
<1>4. poolWait' \in [Writers -> BOOLEAN]
  <2>1. poolWait' = [poolWait EXCEPT ![w] = poolWait[w] \/ PoolBusy(w)]
    BY DEF ThrPoolWait
  <2>2. (poolWait[w] \/ PoolBusy(w)) \in BOOLEAN
    BY DEF Inv, PoolType
  <2> QED
    BY <2>1, <2>2 DEF Inv, PoolType
<1>5. PoolType'
  BY <1>1, <1>2, <1>3, <1>4 DEF Inv, PoolType
<1>6. ~PoolBusy(w) => /\ jobs[w] = <<>>
                      /\ \A k \in Threads : worker[w][k].st \notin {"job", "submitted"}
  BY DEF PoolBusy, ActiveThreads, InState
<1>7. PoolAtRest'
  BY <1>1, <1>2, <1>3, <1>6 DEF Inv, PoolAtRest
<1> QED
  BY <1>5, <1>7 DEF Inv

(* A spurious wakeup makes nobody leave close.                             *)
LEMMA SpuriousWakeupStep ==
  ASSUME Inv, NEW w \in Writers, SpuriousWakeup(w)
  PROVE  Inv'
<1>1. UNCHANGED <<load, timestep, nvars, jobs, poolWait>>
  BY DEF SpuriousWakeup
<1>2. Chunk' = Chunk /\ Threads' = Threads
  BY <1>1, SameLoad
<1>3. CASE wpc[w] = "waiting" /\ wpc' = [wpc EXCEPT ![w] = "queue"] /\ UNCHANGED worker
  <2>1. /\ wpc' \in [Writers -> Positions] /\ wpc'[w] = "queue"
        /\ \A v \in Writers : v # w => wpc'[v] = wpc[v]
    BY <1>3 DEF Inv, PoolType, Positions
  <2>2. PoolType'
    BY <1>1, <1>2, <1>3, <2>1 DEF Inv, PoolType
  <2>3. PoolAtRest'
    BY <1>1, <1>2, <1>3, <2>1 DEF Inv, PoolAtRest
  <2> QED
    BY <2>2, <2>3 DEF Inv
<1>4. CASE /\ \E k \in InState(w, {"blocked"}) : worker' = [worker EXCEPT ![w][k].st = "woken"]
           /\ UNCHANGED wpc
  <2>1. PICK k \in Threads : worker' = [worker EXCEPT ![w][k].st = "woken"]
    BY <1>4 DEF InState
  <2>2. /\ worker' \in [Writers -> [Threads -> [st : States, job : Chunk]]]
        /\ worker'[w][k].st = "woken"
        /\ \A v \in Writers, j \in Threads : v # w \/ j # k => worker'[v][j] = worker[v][j]
    <3>1. worker[w][k] \in [st : States, job : Chunk] /\ "woken" \in States
      BY DEF Inv, PoolType, States
    <3>2. [worker[w][k] EXCEPT !.st = "woken"] \in [st : States, job : Chunk]
      BY <3>1
    <3> QED
      BY <2>1, <3>2 DEF Inv, PoolType
  <2>3. PoolType'
    BY <1>1, <1>2, <1>4, <2>2 DEF Inv, PoolType
  <2>4. PoolAtRest'
    BY <1>1, <1>2, <1>4, <2>2 DEF Inv, PoolAtRest
  <2> QED
    BY <2>3, <2>4 DEF Inv
<1> QED
  BY <1>3, <1>4 DEF SpuriousWakeup

(* The threads of the pool: one that takes a job finds one, and one that   *)
(* submits has one, so the writer is still in thr_pool_wait or before it.  *)
LEMMA WorkerStep ==
  ASSUME Inv, NEW w \in Writers, NEW k \in Threads, WorkerNext(w, k)
  PROVE  Inv'
<1>1. CASE WorkerTakesJob(w, k)
  <2>1. UNCHANGED <<load, wpc, timestep, nvars, poolWait>> /\ jobs[w] # <<>>
    BY <1>1 DEF WorkerTakesJob, writerVars
  <2>2. Chunk' = Chunk /\ Threads' = Threads
    BY <2>1, SameLoad
  <2>3. Head(jobs[w]) \in Chunk /\ Tail(jobs[w]) \in Seq(Chunk)
    <3>1. jobs[w] \in Seq(Chunk)
      BY DEF Inv, PoolType
    <3> QED
      BY <2>1, <3>1
  <2>4. /\ jobs' \in [Writers -> Seq(Chunk)]
        /\ \A v \in Writers : v # w => jobs'[v] = jobs[v]
    BY <1>1, <2>3 DEF WorkerTakesJob, Inv, PoolType
  <2>5. /\ worker' \in [Writers -> [Threads -> [st : States, job : Chunk]]]
        /\ \A v \in Writers : v # w => worker'[v] = worker[v]
    BY <1>1, <2>3 DEF WorkerTakesJob, Inv, PoolType, States
  <2>6. PoolType'
    BY <2>1, <2>2, <2>4, <2>5 DEF Inv, PoolType
  <2>7. PoolAtRest'
    BY <2>1, <2>2, <2>4, <2>5 DEF Inv, PoolAtRest
  <2> QED
    BY <2>6, <2>7 DEF Inv
<1>2. CASE WorkerWaits(w, k)
  <2>1. UNCHANGED <<load, timestep, nvars, jobs>>
    BY <1>2 DEF WorkerWaits
  <2>2. Chunk' = Chunk /\ Threads' = Threads
    BY <2>1, SameLoad
  <2>3. /\ worker' \in [Writers -> [Threads -> [st : States, job : Chunk]]]
        /\ worker'[w][k].st = "blocked"
        /\ \A v \in Writers, j \in Threads : v # w \/ j # k => worker'[v][j] = worker[v][j]
    BY <1>2, NoChunkType DEF WorkerWaits, Inv, PoolType, States
  <2>4. poolWait' \in [Writers -> BOOLEAN]
    <3>1. poolWait' = [poolWait EXCEPT ![w] = poolWait[w] /\ ~Notifies(w, k)]
      BY <1>2 DEF WorkerWaits
    <3>2. (poolWait[w] /\ ~Notifies(w, k)) \in BOOLEAN
      BY DEF Inv, PoolType
    <3> QED
      BY <3>1, <3>2 DEF Inv, PoolType
  <2>5. /\ wpc' \in [Writers -> Positions]
        /\ \A v \in Writers : wpc'[v] = wpc[v] \/ wpc'[v] = "queue"
    BY <1>2 DEF WorkerWaits, Inv, PoolType, Positions
  <2>6. PoolType'
    BY <2>1, <2>2, <2>3, <2>4, <2>5 DEF Inv, PoolType
  <2>7. PoolAtRest'
    BY <2>1, <2>2, <2>3, <2>5 DEF Inv, PoolAtRest
  <2> QED
    BY <2>6, <2>7 DEF Inv
<1>3. CASE Dosubmit(w, k)
  <2>1. UNCHANGED <<load, wpc, timestep, nvars, jobs, poolWait>>
    BY <1>3 DEF Dosubmit, writerVars
  <2>2. Chunk' = Chunk /\ Threads' = Threads
    BY <2>1, SameLoad
  <2>3. /\ worker' \in [Writers -> [Threads -> [st : States, job : Chunk]]]
        /\ \A v \in Writers : v # w => worker'[v] = worker[v]
    <3>1. worker[w][k] \in [st : States, job : Chunk] /\ "submitted" \in States
      BY DEF Inv, PoolType, States
    <3>2. [worker[w][k] EXCEPT !.st = "submitted"] \in [st : States, job : Chunk]
      BY <3>1
    <3> QED
      BY <1>3, <3>2 DEF Dosubmit, Inv, PoolType
  <2>4. wpc[w] \notin {"open", "write", "reduce"}
    BY <1>3 DEF Dosubmit, Inv, PoolAtRest
  <2>5. PoolType'
    BY <2>1, <2>2, <2>3 DEF Inv, PoolType
  <2>6. PoolAtRest'
    BY <2>1, <2>2, <2>3, <2>4 DEF Inv, PoolAtRest
  <2> QED
    BY <2>5, <2>6 DEF Inv
<1> QED
  BY <1>1, <1>2, <1>3 DEF WorkerNext

(* Every step keeps the invariant.                                         *)
LEMMA PoolStep == Inv /\ [Next]_vars => Inv'
<1> SUFFICES ASSUME Inv, [Next]_vars PROVE Inv'
  OBVIOUS
<1>1. CASE Allreduce
  BY <1>1, AllreduceStep
<1>2. ASSUME NEW w \in Writers, WriterNext(w) PROVE Inv'
  BY <1>2, ApplicationStep, ThrPoolQueueStep, ThrPoolWaitStep DEF WriterNext
<1>3. ASSUME NEW w \in Writers, SpuriousWakeup(w) PROVE Inv'
  BY <1>3, SpuriousWakeupStep
<1>4. ASSUME NEW w \in Writers, NEW k \in Threads, WorkerNext(w, k) PROVE Inv'
  BY <1>4, WorkerStep
<1>5. ASSUME NEW k \in Threads, HandlerNext(k) PROVE Inv'
  <2>1. UNCHANGED <<load, writerVars, poolVars>>
    BY <1>5 DEF HandlerNext, HandlerLock, HandlerAppend, HandlerReadsFreed
  <2> QED
    BY <2>1, OthersLeavePool DEF writerVars, poolVars
<1>6. CASE ReaderNext
  <2>1. UNCHANGED <<load, writerVars, poolVars>>
    BY <1>6 DEF ReaderNext, ReadOpen, OpenMerged, ScheduleRead, CopyRead, AdvanceStep,
                FileinfoFree
  <2> QED
    BY <2>1, OthersLeavePool DEF writerVars, poolVars
<1>7. CASE UNCHANGED vars
  BY <1>7, OthersLeavePool DEF vars, writerVars, poolVars
<1> QED
  BY <1>1, <1>2, <1>3, <1>4, <1>5, <1>6, <1>7 DEF Next

(* adios_icee_close returns only when the pool has submitted every         *)
(* variable of the step (thr_pool_wait in write/adios_icee.c), for any     *)
(* number of writers, threads, variables and steps and with spurious       *)
(* wakeups.                                                                *)
THEOREM IceeWaitMeansSubmitted == Spec => []WaitMeansSubmitted
<1>1. Init => Inv
  BY PoolInit
<1>2. Inv /\ [Next]_vars => Inv'
  BY PoolStep
<1>3. Inv => WaitMeansSubmitted
  BY DEF Inv, PoolAtRest, WaitMeansSubmitted, ActiveThreads, InState
<1> QED
  BY <1>1, <1>2, <1>3, PTL DEF Spec

-----------------------------------------------------------------------------
(* The way of a chunk from the application to the reader.                  *)

(* The chunks of a step: one for each writer, or one for each variable.    *)
StepChunk(w, s) == [w |-> w, step |-> s, vars |-> [i \in 1 .. load.nvars[w] |-> i],
                    nchunks |-> NW]
VarChunk(w, s, v) == [w |-> w, step |-> s, vars |-> <<v>>, nchunks |-> CommNvars]
VarChunks(w, s) == {VarChunk(w, s, v) : v \in 1 .. load.nvars[w]}
ChunksOf(s) ==
  IF load.parallel = 1 THEN {StepChunk(w, s) : w \in Writers}
  ELSE UNION {VarChunks(w, s) : w \in Writers}
Chunks == UNION {ChunksOf(s) : s \in 1 .. NSteps}
NChunks == IF load.parallel = 1 THEN NW ELSE CommNvars

Entry == [step : 1 .. NSteps, nchunks : {NChunks}, chunks : Seq(Chunks)]

(* What the connections and the reader hold, by type.                      *)
FlowType ==
  /\ \A w \in Writers, k \in Threads :
       worker[w][k].st = "job" => worker[w][k].job \in Chunks
  /\ chan \in [Writers -> [Threads -> Seq(Chunks)]]
  /\ handler \in [Threads -> [st : {"idle", "locked"}, chunk : Chunks \cup {NoChunk},
                              root : Nat]]
  /\ \A k \in Threads : handler[k].st = "locked" => handler[k].chunk \in Chunks
  /\ list \in Seq(Entry)
  /\ old \in Seq(Entry)
  /\ removed \in Nat
  /\ seen \in Seq(1 .. NSteps)

(* The jobs in the queue of a writer are the variables of its step that it *)
(* queued last, in order.                                                  *)
JobsOf(w) ==
  /\ timestep[w] <= NSteps
  /\ nvars[w] <= load.nvars[w]
  /\ Len(jobs[w]) <= nvars[w]
  /\ wpc[w] # "open" => timestep[w] >= 1
  /\ wpc[w] \in {"reduce", "queue", "waiting"} => load.parallel # 1
  /\ \A i \in 1 .. Len(jobs[w]) :
       jobs[w][i] = VarChunk(w, timestep[w], nvars[w] - Len(jobs[w]) + i)

JobsInv == \A w \in Writers : JobsOf(w)

(* Where a chunk can be.                                                   *)
Submitting(c) == \E w \in Writers, k \in Threads :
                   worker[w][k].st = "job" /\ worker[w][k].job = c
UnderWay(c) == \E w \in Writers, k \in Threads :
                 \E i \in 1 .. Len(chan[w][k]) : chan[w][k][i] = c
Handled(c) == \E k \in Threads : handler[k].st = "locked" /\ handler[k].chunk = c
Pending(c) == Submitting(c) \/ UnderWay(c) \/ Handled(c)
InEntry(c, e) == \E j \in 1 .. Len(e.chunks) : e.chunks[j] = c
InEntries(c, q) == \E i \in 1 .. Len(q) : InEntry(c, q[i])
InList(c) == InEntries(c, list) \/ InEntries(c, old)

(* The chunks that have left the queue of their writer.                    *)
Issued(c) ==
  /\ c.step <= timestep[c.w]
  /\ c.step = timestep[c.w] =>
       /\ wpc[c.w] \in {"open", "queue", "waiting"}
       /\ load.parallel # 1 => c.vars[1] <= nvars[c.w] - Len(jobs[c.w])

(* A chunk is never in two places.                                         *)
WorkersOnce ==
  \A w, v \in Writers, k, j \in Threads :
    /\ worker[w][k].st = "job" /\ worker[v][j].st = "job"
    /\ worker[w][k].job = worker[v][j].job
    => w = v /\ k = j

ChansOnce ==
  \A w, v \in Writers, k, j \in Threads :
    \A i \in 1 .. Len(chan[w][k]), l \in 1 .. Len(chan[v][j]) :
      chan[w][k][i] = chan[v][j][l] => w = v /\ k = j /\ i = l

LockOnce ==
  \A k, j \in Threads : handler[k].st = "locked" /\ handler[j].st = "locked" => k = j

OnePlace(c) ==
  /\ Submitting(c) => ~UnderWay(c) /\ ~Handled(c) /\ ~InList(c)
  /\ UnderWay(c) => ~Handled(c) /\ ~InList(c)
  /\ Handled(c) => ~InList(c)
  /\ Submitting(c) \/ UnderWay(c) \/ Handled(c) \/ InList(c) => Issued(c)

OnceInv ==
  /\ WorkersOnce /\ ChansOnce /\ LockOnce
  /\ \A c \in Chunks : OnePlace(c)

(* Each entry holds chunks of its own step, none of them twice, and no two *)
(* entries are of the same step.                                           *)
GoodEntry(e) ==
  /\ \A i, j \in 1 .. Len(e.chunks) : e.chunks[i] = e.chunks[j] => i = j
  /\ \A i \in 1 .. Len(e.chunks) : e.chunks[i].step = e.step

ListInv ==
  /\ \A i \in 1 .. Len(list) : GoodEntry(list[i])
  /\ \A i, j \in 1 .. Len(list) : list[i].step = list[j].step => i = j

(* A step the reader has left: nothing of it is still to come.             *)
Gone(s) ==
  /\ \A c \in ChunksOf(s) : Issued(c) /\ ~Pending(c)
  /\ \A i \in 1 .. Len(list) : list[i].step # s

(* The reader has left the steps it has been at, but the one it is at.     *)
LeftGone ==
  rpc # "undefined" =>
    \A i \in 1 .. Len(seen) : (rpc \in {"step", "read"} /\ i = Len(seen)) \/ Gone(seen[i])

(* The reading application and the list.                                   *)
ReaderInv ==
  /\ rpc \notin {"free", "undefined"} => old = <<>>
  /\ rpc \in {"open", "merge"} => seen = <<>> /\ got = {}
  /\ rpc \in {"merge", "step", "read", "free"} => list # <<>>
  /\ rpc \in {"step", "read"} => /\ seen # <<>>
                                 /\ seen[Len(seen)] = list[1].step
                                 /\ got # {} => Complete(list[1])
  /\ rpc = "free" => /\ Len(old) = 1
                     /\ seen # <<>>
                     /\ seen[Len(seen)] = old[1].step
  /\ LeftGone
  /\ rpc = "read" => want \in Nat \ {0}
  /\ \A g \in got : g.blocks = Holders(g.var) /\ g.step = seen[Len(seen)]

FlowInv == FlowType /\ JobsInv /\ OnceInv /\ ListInv /\ ReaderInv

-----------------------------------------------------------------------------
(* The chunks of a step.                                                   *)

(* The configuration: what the types say about it.                         *)
LEMMA LoadType ==
  ASSUME load \in Loads
  PROVE  /\ load.parallel \in Nat \ {0}
         /\ \A w \in Writers : load.nvars[w] \in Nat
         /\ IsFiniteSet(Writers) /\ Cardinality(Writers) = NW
         /\ Writers \subseteq Nat
<1>1. NW \in Nat \ {0}
  BY IceeAssumption
<1>2. load \in [parallel : Nat \ {0}, nvars : [0 .. NW - 1 -> Nat]]
  BY IceeAssumption
<1>3. IsFiniteSet(0 .. NW - 1)
      /\ Cardinality(0 .. NW - 1) = IF 0 > NW - 1 THEN 0 ELSE (NW - 1) - 0 + 1
  BY <1>1, FS_Interval
<1>4. Cardinality(0 .. NW - 1) = NW
  BY <1>1, <1>3
<1> QED
  BY <1>1, <1>2, <1>3, <1>4 DEF Writers

(* A chunk with a variable.                                                *)
LEMMA VarChunksSize ==
  ASSUME load \in Loads, NEW w \in Writers, NEW s
  PROVE  IsFiniteSet(VarChunks(w, s)) /\ Cardinality(VarChunks(w, s)) = load.nvars[w]
<1>1. load.nvars[w] \in Nat
  BY LoadType
<1> DEFINE N == 1 .. load.nvars[w]
           f == [v \in N |-> VarChunk(w, s, v)]
<1>2. IsFiniteSet(N) /\ Cardinality(N) = IF 1 > load.nvars[w] THEN 0 ELSE load.nvars[w] - 1 + 1
  BY <1>1, FS_Interval, SMTT(30)
<1>3. Cardinality(N) = load.nvars[w]
  BY <1>1, <1>2
<1>4. \A x, y \in N : f[x] = f[y] => x = y
  BY DEF VarChunk
<1>5. VarChunks(w, s) = {f[v] : v \in N}
  BY DEF VarChunks
<1> HIDE DEF f, N
<1> QED
  BY <1>2, <1>3, <1>4, <1>5, ImageSize

(* The Allreduce of close gives every writer the number of chunks of a     *)
(* step.                                                                   *)
LEMMA StepSize ==
  ASSUME load \in Loads, NEW s
  PROVE  IsFiniteSet(ChunksOf(s)) /\ Cardinality(ChunksOf(s)) = NChunks /\ NChunks \in Nat
<1>0. IsFiniteSet(Writers) /\ Cardinality(Writers) = NW /\ \A w \in Writers : load.nvars[w] \in Nat
  BY LoadType
<1>a. NW \in Nat
  BY IceeAssumption
<1>1. CASE load.parallel = 1
  <2> DEFINE f == [w \in Writers |-> StepChunk(w, s)]
  <2>1. \A x, y \in Writers : f[x] = f[y] => x = y
    BY DEF StepChunk
  <2>2. ChunksOf(s) = {f[w] : w \in Writers}
    BY <1>1 DEF ChunksOf
  <2> HIDE DEF f
  <2> QED
    BY <1>0, <1>1, <1>a, <2>1, <2>2, ImageSize DEF NChunks
<1>2. CASE load.parallel # 1
  <2> DEFINE B == [w \in Writers |-> VarChunks(w, s)]
             h == load.nvars
  <2>1. \A w \in Writers : IsFiniteSet(B[w]) /\ Cardinality(B[w]) = h[w]
    BY VarChunksSize
  <2>2. \A x, y \in Writers : x # y => B[x] \cap B[y] = {}
    BY DEF VarChunks, VarChunk
  <2>3. ChunksOf(s) = UNION {B[w] : w \in Writers}
    BY <1>2 DEF ChunksOf
  <2>4. CommNvars = SumOver(h, Writers)
    BY DEF CommNvars, SumOver, MapThenSumSet, MapThenFoldSet
  <2>5. \A w \in Writers : h[w] \in Nat
    BY <1>0
  <2> HIDE DEF B, h
  <2>6. PICK F : Sums(F, h, Writers)
    BY <1>0, <2>5, SumsExist
  <2>8. CommNvars = F[Writers]
    BY <1>0, <2>4, <2>5, <2>6, SumSetIs
  <2>9. F[Writers] \in Nat
    BY <2>6 DEF Sums
  <2>10. IsFiniteSet(UNION {B[w] : w \in Writers})
         /\ Cardinality(UNION {B[w] : w \in Writers}) = F[Writers]
    BY <1>0, <2>1, <2>2, <2>6, UnionSize
  <2> QED
    BY <1>2, <2>3, <2>8, <2>9, <2>10 DEF NChunks
<1> QED
  BY <1>1, <1>2

(* What a chunk is.                                                        *)
LEMMA ChunkFields ==
  ASSUME load \in Loads, NEW c \in Chunks
  PROVE  /\ c.w \in Writers /\ c.step \in 1 .. NSteps /\ c.nchunks = NChunks
         /\ c \in ChunksOf(c.step)
         /\ load.parallel # 1 => c.vars[1] \in 1 .. load.nvars[c.w]
<1>1. PICK s \in 1 .. NSteps : c \in ChunksOf(s)
  BY DEF Chunks
<1>2. CASE load.parallel = 1
  <2>1. PICK w \in Writers : c = StepChunk(w, s)
    BY <1>1, <1>2 DEF ChunksOf
  <2>2. c.w = w /\ c.step = s /\ c.nchunks = NW
    BY <2>1 DEF StepChunk
  <2> QED
    BY <1>1, <1>2, <2>2 DEF NChunks
<1>3. CASE load.parallel # 1
  <2>1. PICK w \in Writers : c \in VarChunks(w, s)
    BY <1>1, <1>3 DEF ChunksOf
  <2>2. PICK v \in 1 .. load.nvars[w] : c = VarChunk(w, s, v)
    BY <2>1 DEF VarChunks
  <2>3. c.w = w /\ c.step = s /\ c.nchunks = CommNvars /\ c.vars[1] = v
    BY <2>2 DEF VarChunk
  <2> QED
    BY <1>1, <1>3, <2>2, <2>3 DEF NChunks
<1> QED
  BY <1>2, <1>3

(* The chunk a writer sends without a pool ...                             *)
LEMMA StepChunkIs ==
  ASSUME load.parallel = 1, NEW w \in Writers, NEW s \in 1 .. NSteps
  PROVE  StepChunk(w, s) \in Chunks /\ StepChunk(w, s).w = w /\ StepChunk(w, s).step = s
<1>1. StepChunk(w, s) \in ChunksOf(s)
  BY DEF ChunksOf
<1> QED
  BY <1>1 DEF Chunks, StepChunk

(* ... and one of those it sends through the pool.                         *)
LEMMA VarChunkIs ==
  ASSUME load.parallel # 1, NEW w \in Writers, NEW s \in 1 .. NSteps,
         NEW v \in 1 .. load.nvars[w]
  PROVE  /\ VarChunk(w, s, v) \in Chunks /\ VarChunk(w, s, v).w = w
         /\ VarChunk(w, s, v).step = s /\ VarChunk(w, s, v).vars[1] = v
<1>1. VarChunk(w, s, v) \in VarChunks(w, s)
  BY DEF VarChunks
<1>2. VarChunk(w, s, v) \in ChunksOf(s)
  BY <1>1 DEF ChunksOf
<1> QED
  BY <1>2 DEF Chunks, VarChunk

(* An entry that the reader finds complete has every chunk of its step ... *)
LEMMA CompleteHasAll ==
  ASSUME load \in Loads, NEW e \in Entry, GoodEntry(e), Complete(e),
         NEW c \in ChunksOf(e.step)
  PROVE  InEntry(c, e)
<1> DEFINE q == e.chunks
           n == Len(e.chunks)
           S == ChunksOf(e.step)
<1>1. q \in Seq(Chunks) /\ e.nchunks = NChunks /\ e.step \in 1 .. NSteps
  BY DEF Entry
<1>2. n \in Nat /\ n = NChunks
  BY <1>1 DEF Complete
<1>3. IsFiniteSet(S) /\ Cardinality(S) = NChunks
  BY StepSize
<1>4. \A i \in 1 .. n : q[i] \in Chunks /\ q[i].step = e.step
  BY <1>1 DEF GoodEntry
<1>5. \A i \in 1 .. n : q[i] \in S
  BY <1>4, ChunkFields
<1>6. \A i, j \in 1 .. n : q[i] = q[j] => i = j
  BY DEF GoodEntry
<1>7. \A x \in S : \E i \in 1 .. n : q[i] = x
  <2> HIDE DEF q, n, S
  <2> QED
    BY <1>2, <1>3, <1>5, <1>6, FullSequence
<1> QED
  BY <1>7 DEF InEntry

(* ... so that a read of it returns the blocks of all writers.             *)
LEMMA CompleteHasBlocks ==
  ASSUME load \in Loads, NEW e \in Entry, GoodEntry(e), Complete(e), NEW v \in Nat \ {0}
  PROVE  Blocks(e, v) = Holders(v)
<1> DEFINE q == e.chunks
<1>1. q \in Seq(Chunks) /\ e.step \in 1 .. NSteps
  BY DEF Entry
<1>2. \A c : c \in ToSet(q) <=> c \in ChunksOf(e.step)
  <2>1. ToSet(q) = {q[i] : i \in 1 .. Len(q)}
    BY <1>1 DEF ToSet
  <2>2. \A c \in ChunksOf(e.step) : c \in ToSet(q)
    BY <2>1, CompleteHasAll DEF InEntry
  <2>3. \A i \in 1 .. Len(q) : q[i] \in Chunks /\ q[i].step = e.step
    BY <1>1 DEF GoodEntry
  <2>4. \A i \in 1 .. Len(q) : q[i] \in ChunksOf(e.step)
    BY <2>3, ChunkFields
  <2> QED
    BY <2>1, <2>2, <2>4
<1>3. Blocks(e, v) = {c.w : c \in {x \in ChunksOf(e.step) : v \in ToSet(x.vars)}}
  BY <1>2 DEF Blocks
<1>4. \A w \in Writers : load.nvars[w] \in Nat
  BY LoadType
<1>5. CASE load.parallel = 1
  <2>1. \A w \in Writers : StepChunk(w, e.step).w = w
                           /\ (v \in ToSet(StepChunk(w, e.step).vars) <=> v <= load.nvars[w])
    <3> TAKE w \in Writers
    <3>1. StepChunk(w, e.step).vars = [i \in 1 .. load.nvars[w] |-> i]
      BY DEF StepChunk
    <3>2. ToSet([i \in 1 .. load.nvars[w] |-> i]) = 1 .. load.nvars[w]
      BY DEF ToSet
    <3>3. v \in 1 .. load.nvars[w] <=> v <= load.nvars[w]
      BY <1>4
    <3> QED
      BY <3>1, <3>2, <3>3 DEF StepChunk
  <2>2. ChunksOf(e.step) = {StepChunk(w, e.step) : w \in Writers}
    BY <1>5 DEF ChunksOf
  <2> QED
    BY <1>3, <2>1, <2>2 DEF Holders
<1>6. CASE load.parallel # 1
  <2>1. \A w \in Writers : \A u \in 1 .. load.nvars[w] :
          /\ VarChunk(w, e.step, u).w = w
          /\ (v \in ToSet(VarChunk(w, e.step, u).vars) <=> v = u)
    <3> TAKE w \in Writers
    <3> TAKE u \in 1 .. load.nvars[w]
    <3>1. VarChunk(w, e.step, u).vars = <<u>>
      BY DEF VarChunk
    <3>2. ToSet(<<u>>) = {u}
      BY DEF ToSet
    <3> QED
      BY <3>1, <3>2 DEF VarChunk
  <2>2. \A c : c \in ChunksOf(e.step) <=>
               \E w \in Writers : \E u \in 1 .. load.nvars[w] : c = VarChunk(w, e.step, u)
    BY <1>6 DEF ChunksOf, VarChunks
  <2>3. \A w \in Writers : v \in 1 .. load.nvars[w] <=> v <= load.nvars[w]
    BY <1>4
  <2>4. Blocks(e, v) \subseteq Holders(v)
    BY <1>3, <2>1, <2>2, <2>3 DEF Holders
  <2>5. Holders(v) \subseteq Blocks(e, v)
    <3> SUFFICES ASSUME NEW w \in Writers, v <= load.nvars[w] PROVE w \in Blocks(e, v)
      BY DEF Holders
    <3>1. v \in 1 .. load.nvars[w]
      BY <2>3
    <3> DEFINE x == VarChunk(w, e.step, v)
    <3>2. x \in ChunksOf(e.step) /\ x.w = w /\ v \in ToSet(x.vars)
      BY <2>1, <2>2, <3>1
    <3> QED
      BY <1>3, <3>2
  <2> QED
    BY <2>4, <2>5
<1> QED
  BY <1>5, <1>6

-----------------------------------------------------------------------------
(* The queues of jobs, and the chunks that have left them.                 *)

(* What only the configuration decides.                                    *)
LEMMA SameChunks ==
  ASSUME load' = load
  PROVE  /\ Threads' = Threads /\ NChunks' = NChunks /\ CommNvars' = CommNvars
         /\ Chunks' = Chunks /\ Entry' = Entry
         /\ \A s : ChunksOf(s)' = ChunksOf(s)
         /\ \A w, s, v : VarChunk(w, s, v)' = VarChunk(w, s, v)
<1>1. CommNvars' = CommNvars
  BY DEF CommNvars, MapThenSumSet, MapThenFoldSet
<1>2. NChunks' = NChunks /\ Threads' = Threads
  BY <1>1 DEF NChunks, Threads
<1>3. \A w, s, v : VarChunk(w, s, v)' = VarChunk(w, s, v)
  BY <1>1 DEF VarChunk
<1>4. \A w, s : VarChunks(w, s)' = VarChunks(w, s)
  BY <1>3, Zenon DEF VarChunks
<1>5. \A w, s : StepChunk(w, s)' = StepChunk(w, s)
  BY DEF StepChunk
<1>6. \A s : ChunksOf(s)' = ChunksOf(s)
  BY <1>4, <1>5, Zenon DEF ChunksOf
<1>7. Chunks' = Chunks
  BY <1>6, Zenon DEF Chunks
<1>8. Entry' = Entry
  BY <1>2, <1>7 DEF Entry
<1> QED
  BY <1>1, <1>2, <1>3, <1>6, <1>7, <1>8

(* A writer's queue stays in order and no chunk returns to it.             *)
Onward(w) ==
  /\ JobsOf(w)'
  /\ \A c \in Chunks : c.w = w /\ Issued(c) => Issued(c)'

(* The numbers of a writer.                                                *)
LEMMA WriterType ==
  ASSUME Inv, NEW w \in Writers
  PROVE  /\ timestep[w] \in Nat /\ nvars[w] \in Nat /\ load.nvars[w] \in Nat
         /\ Len(jobs[w]) \in Nat /\ jobs[w] \in Seq(Chunk) /\ NSteps \in Nat
         /\ load \in Loads
         /\ \A c \in Chunks : c.step \in Nat /\ (load.parallel # 1 => c.vars[1] \in Nat)
<1>1. load \in Loads
  BY DEF Inv, PoolType
<1>2. jobs[w] \in Seq(Chunk) /\ timestep[w] \in Nat /\ nvars[w] \in Nat
  BY DEF Inv, PoolType
<1>3. NSteps \in Nat
  BY IceeAssumption
<1>4. \A v \in Writers : load.nvars[v] \in Nat
  BY <1>1, LoadType
<1>5. ASSUME NEW c \in Chunks PROVE c.step \in Nat /\ (load.parallel # 1 => c.vars[1] \in Nat)
  BY <1>1, <1>3, <1>4, <1>5, ChunkFields
<1> QED
  BY <1>1, <1>2, <1>3, <1>4, <1>5

(* A writer that does nothing.                                             *)
LEMMA OnwardSame ==
  ASSUME JobsInv, NEW w \in Writers, load' = load, timestep'[w] = timestep[w],
         nvars'[w] = nvars[w], jobs'[w] = jobs[w], wpc'[w] = wpc[w]
  PROVE  Onward(w)
<1>1. JobsOf(w)
  BY DEF JobsInv
<1>2. JobsOf(w)'
  BY <1>1, SameChunks DEF JobsOf
<1>3. \A c \in Chunks : c.w = w /\ Issued(c) => Issued(c)'
  BY DEF Issued
<1> QED
  BY <1>2, <1>3 DEF Onward

(* The application, up to close.                                           *)
LEMMA OnwardApplication ==
  ASSUME Inv, JobsInv, NEW w \in Writers,
         Open(w) \/ Write(w) \/ CloseSubmit(w) \/ CloseReduce(w)
  PROVE  Onward(w)
<1>1. load' = load /\ jobs'[w] = <<>> /\ jobs[w] = <<>>
  BY DEF Open, Write, CloseSubmit, CloseReduce, poolVars, Inv, PoolAtRest
<1>2. Len(jobs'[w]) = 0 /\ 1 .. Len(jobs'[w]) = {}
  BY <1>1
<1>3. /\ timestep[w] <= NSteps /\ nvars[w] <= load.nvars[w]
      /\ wpc[w] # "open" => timestep[w] >= 1
      /\ wpc[w] \in {"reduce", "queue", "waiting"} => load.parallel # 1
  BY DEF JobsInv, JobsOf
<1>4. /\ timestep[w] \in Nat /\ nvars[w] \in Nat /\ load.nvars[w] \in Nat /\ NSteps \in Nat
      /\ \A c \in Chunks : c.step \in Nat
  BY WriterType
<1>t. timestep \in [Writers -> Nat] /\ nvars \in [Writers -> Nat] /\ wpc \in [Writers -> Positions]
  BY DEF Inv, PoolType
<1>5. CASE Open(w)
  <2>1. timestep'[w] = timestep[w] + 1 /\ nvars'[w] = 0 /\ wpc'[w] = "write" /\ timestep[w] < NSteps
    BY <1>5, <1>t DEF Open
  <2>2. JobsOf(w)'
    BY <1>1, <1>2, <1>3, <1>4, <2>1 DEF JobsOf
  <2>3. \A c \in Chunks : c.w = w /\ Issued(c) => Issued(c)'
    BY <1>1, <1>4, <2>1 DEF Issued
  <2> QED
    BY <2>2, <2>3 DEF Onward
<1>6. CASE Write(w) \/ CloseSubmit(w) \/ CloseReduce(w)
  <2>1. /\ timestep'[w] = timestep[w] /\ wpc[w] = "write"
        /\ nvars'[w] = nvars[w] \/ (nvars'[w] = nvars[w] + 1 /\ nvars[w] < load.nvars[w])
        /\ wpc'[w] \in {"open", "write", "reduce"}
        /\ wpc'[w] = "reduce" => load.parallel > 1
    BY <1>6, <1>t DEF Write, CloseSubmit, CloseReduce
  <2>2. load.parallel > 1 => load.parallel # 1
    OBVIOUS
  <2>3. nvars'[w] \in Nat /\ nvars'[w] <= load.nvars[w]
    BY <1>3, <1>4, <2>1
  <2>4. JobsOf(w)'
    BY <1>1, <1>2, <1>3, <1>4, <2>1, <2>2, <2>3 DEF JobsOf
  <2>5. \A c \in Chunks : c.w = w /\ Issued(c) => Issued(c)'
    BY <1>1, <1>4, <2>1 DEF Issued
  <2> QED
    BY <2>4, <2>5 DEF Onward
<1> QED
  BY <1>5, <1>6

(* The Allreduce of close: the writers start to queue.                     *)
LEMMA OnwardAllreduce ==
  ASSUME Inv, JobsInv, NEW w \in Writers, Allreduce
  PROVE  Onward(w)
<1>1. load' = load /\ jobs'[w] = <<>> /\ jobs[w] = <<>> /\ timestep'[w] = timestep[w]
      /\ nvars'[w] = 0 /\ wpc[w] = "reduce" /\ wpc'[w] = "queue"
  BY DEF Allreduce, poolVars, Inv, PoolAtRest
<1>2. Len(jobs'[w]) = 0 /\ 1 .. Len(jobs'[w]) = {}
  BY <1>1
<1>3. timestep[w] <= NSteps /\ timestep[w] >= 1 /\ load.parallel # 1
  BY <1>1 DEF JobsInv, JobsOf
<1>4. /\ timestep[w] \in Nat /\ load.nvars[w] \in Nat /\ NSteps \in Nat
      /\ \A c \in Chunks : c.step \in Nat
  BY WriterType
<1>5. JobsOf(w)'
  BY <1>1, <1>2, <1>3, <1>4 DEF JobsOf
<1>6. \A c \in Chunks : c.w = w /\ Issued(c) => Issued(c)'
  BY <1>1, <1>4 DEF Issued
<1> QED
  BY <1>5, <1>6 DEF Onward

(* thr_pool_queue: one variable and one job more.                          *)
LEMMA OnwardQueue ==
  ASSUME Inv, JobsInv, NEW w \in Writers, ThrPoolQueue(w)
  PROVE  Onward(w)
<1> DEFINE job == VarChunk(w, timestep[w], nvars[w] + 1)
<1>t. nvars \in [Writers -> Nat] /\ jobs \in [Writers -> Seq(Chunk)]
  BY DEF Inv, PoolType
<1>1. /\ load' = load /\ timestep' = timestep /\ wpc' = wpc
      /\ nvars'[w] = nvars[w] + 1 /\ jobs'[w] = Append(jobs[w], job)
      /\ nvars[w] < load.nvars[w] /\ wpc[w] = "queue"
  BY <1>t DEF ThrPoolQueue, VarChunk
<1>2. JobsOf(w)
  BY DEF JobsInv
<1>3. /\ timestep[w] \in Nat /\ nvars[w] \in Nat /\ load.nvars[w] \in Nat
      /\ Len(jobs[w]) \in Nat /\ jobs[w] \in Seq(Chunk)
      /\ \A c \in Chunks : c.step \in Nat /\ (load.parallel # 1 => c.vars[1] \in Nat)
  BY WriterType
<1> HIDE DEF job
<1>4. Len(jobs'[w]) = Len(jobs[w]) + 1 /\ jobs'[w][Len(jobs[w]) + 1] = job
      /\ \A i \in 1 .. Len(jobs[w]) : jobs'[w][i] = jobs[w][i]
  BY <1>1, <1>3
<1>5. nvars'[w] - Len(jobs'[w]) = nvars[w] - Len(jobs[w])
  <2>1. \A a, b \in Nat : (a + 1) - (b + 1) = a - b
    OBVIOUS
  <2> QED
    BY ONLY <1>1, <1>3, <1>4, <2>1
<1>6. ASSUME NEW i \in 1 .. Len(jobs'[w])
      PROVE  jobs'[w][i] = VarChunk(w, timestep[w], nvars'[w] - Len(jobs'[w]) + i)
  <2>1. CASE i = Len(jobs[w]) + 1
    <3>1. nvars'[w] - Len(jobs'[w]) + i = nvars[w] + 1
      BY <2>1, <1>3, <1>5
    <3> QED
      BY <1>4, <2>1, <3>1 DEF job
  <2>2. CASE i # Len(jobs[w]) + 1
    <3>1. i \in 1 .. Len(jobs[w])
      BY <2>2, <1>3, <1>4
    <3>2. jobs[w][i] = VarChunk(w, timestep[w], nvars[w] - Len(jobs[w]) + i)
      BY <1>2, <3>1 DEF JobsOf
    <3> QED
      BY <1>4, <1>5, <3>1, <3>2
  <2> QED
    BY <2>1, <2>2
<1>7. nvars'[w] <= load.nvars[w] /\ Len(jobs'[w]) <= nvars'[w]
  BY <1>1, <1>2, <1>3, <1>4 DEF JobsOf
<1>8. JobsOf(w)'
  BY <1>1, <1>2, <1>6, <1>7, SameChunks DEF JobsOf
<1>9. \A c \in Chunks : c.w = w /\ Issued(c) => Issued(c)'
  BY <1>1, <1>5 DEF Issued
<1> QED
  BY <1>8, <1>9 DEF Onward

(* The waits change only where the writer is in close, or let it leave.    *)
LEMMA OnwardWait ==
  ASSUME Inv, JobsInv, NEW w \in Writers, load' = load, timestep' = timestep,
         nvars' = nvars, jobs' = jobs, wpc[w] \in {"queue", "waiting"},
         wpc'[w] \in {"open", "queue", "waiting"}
  PROVE  Onward(w)
<1>1. JobsOf(w)
  BY DEF JobsInv
<1>2. JobsOf(w)'
  BY <1>1, SameChunks DEF JobsOf
<1>3. \A c \in Chunks : c.w = w /\ Issued(c) => Issued(c)'
  BY DEF Issued
<1> QED
  BY <1>2, <1>3 DEF Onward

(* A thread takes the first job.                                           *)
LEMMA OnwardTake ==
  ASSUME Inv, JobsInv, NEW w \in Writers, NEW k \in Threads, WorkerTakesJob(w, k)
  PROVE  /\ Onward(w)
         /\ \E c \in Chunks : c = Head(jobs[w]) /\ ~Issued(c) /\ Issued(c)'
<1> DEFINE n == Len(jobs[w])
<1>t. jobs \in [Writers -> Seq(Chunk)]
  BY DEF Inv, PoolType
<1>1. /\ load' = load /\ timestep' = timestep /\ wpc' = wpc /\ nvars' = nvars
      /\ jobs'[w] = Tail(jobs[w]) /\ jobs[w] # <<>>
  BY <1>t DEF WorkerTakesJob, writerVars
<1>2. JobsOf(w)
  BY DEF JobsInv
<1>3. /\ timestep[w] \in Nat /\ nvars[w] \in Nat /\ load.nvars[w] \in Nat /\ NSteps \in Nat
      /\ n \in Nat /\ jobs[w] \in Seq(Chunk)
      /\ \A c \in Chunks : c.step \in Nat /\ (load.parallel # 1 => c.vars[1] \in Nat)
  BY WriterType
<1>4. n >= 1 /\ Len(jobs'[w]) = n - 1 /\ Head(jobs[w]) = jobs[w][1]
      /\ \A i \in 1 .. n - 1 : jobs'[w][i] = jobs[w][i + 1]
  BY <1>1, <1>3
<1>5. wpc[w] \in {"queue", "waiting"}
  BY <1>1 DEF Inv, PoolAtRest, PoolType, Positions
<1>6. /\ load.parallel # 1 /\ timestep[w] >= 1 /\ timestep[w] <= NSteps
      /\ nvars[w] <= load.nvars[w] /\ n <= nvars[w]
  BY <1>2, <1>5 DEF JobsOf
<1> HIDE DEF n
<1>7. ASSUME NEW i \in 1 .. Len(jobs'[w])
      PROVE  jobs'[w][i] = VarChunk(w, timestep[w], nvars[w] - Len(jobs'[w]) + i)
  <2>1. i \in 1 .. n - 1 /\ i + 1 \in 1 .. n
    BY <1>3, <1>4
  <2>2. jobs[w][i + 1] = VarChunk(w, timestep[w], nvars[w] - n + (i + 1))
    BY <1>2, <2>1 DEF JobsOf, n
  <2>3. nvars[w] - n + (i + 1) = nvars[w] - Len(jobs'[w]) + i
    <3>1. \A a, b, d \in Nat : a - b + (d + 1) = a - (b - 1) + d
      OBVIOUS
    <3>2. i \in Nat /\ nvars[w] \in Nat /\ n \in Nat /\ Len(jobs'[w]) = n - 1
      BY <1>3, <1>4, <2>1
    <3> QED
      BY ONLY <3>1, <3>2
  <2> QED
    BY <1>4, <2>1, <2>2, <2>3
<1>8. Len(jobs'[w]) <= nvars[w]
  BY <1>3, <1>4, <1>6
<1>9. JobsOf(w)'
  BY <1>1, <1>2, <1>7, <1>8, SameChunks DEF JobsOf
<1>10. nvars[w] - n <= nvars[w] - Len(jobs'[w]) /\ nvars[w] - n \in Int /\ nvars[w] - Len(jobs'[w]) \in Int
  BY <1>3, <1>4
<1>11. ASSUME NEW c \in Chunks, c.w = w, Issued(c)
       PROVE  Issued(c)'
  <2>1. c.step <= timestep[w]
    BY <1>11 DEF Issued
  <2>2. ASSUME c.step = timestep[w] PROVE c.vars[1] <= nvars[w] - Len(jobs'[w])
    <3>1. c.vars[1] <= nvars[w] - n /\ c.vars[1] \in Nat
      BY <1>3, <1>6, <1>11, <2>2 DEF Issued, n
    <3> QED
      BY <1>10, <3>1
  <2> QED
    BY <1>1, <1>5, <1>11, <2>1, <2>2 DEF Issued
<1> DEFINE v == nvars[w] - n + 1
<1>12. Head(jobs[w]) = VarChunk(w, timestep[w], v)
  BY <1>2, <1>3, <1>4 DEF JobsOf, n
<1>13. v \in 1 .. load.nvars[w] /\ timestep[w] \in 1 .. NSteps
  BY <1>3, <1>4, <1>6
<1>14. /\ ~(v <= nvars[w] - n)
       /\ v <= nvars[w] - Len(jobs'[w])
  BY <1>3, <1>4, <1>6
<1> HIDE DEF v
<1>15. PICK c \in Chunks : c = Head(jobs[w])
                           /\ c.w = w /\ c.step = timestep[w] /\ c.vars[1] = v
  BY <1>6, <1>12, <1>13, VarChunkIs
<1>16. ~Issued(c)
  BY <1>6, <1>14, <1>15 DEF Issued, n
<1>17. Issued(c)'
  <2>1. c.step <= timestep'[c.w] /\ wpc'[c.w] \in {"open", "queue", "waiting"}
    BY <1>1, <1>3, <1>5, <1>15
  <2>2. c.vars[1] <= nvars'[c.w] - Len(jobs'[c.w])
    BY ONLY <1>1, <1>14, <1>15
  <2> QED
    BY ONLY <2>1, <2>2 DEF Issued
<1> QED
  BY <1>9, <1>11, <1>15, <1>16, <1>17 DEF Onward

-----------------------------------------------------------------------------
(* The places of a chunk.                                                  *)

(* A step that leaves the reader's side alone, brings back no chunk and    *)
(* makes no chunk pending that was issued before.                          *)
LEMMA ReaderSame ==
  ASSUME ListInv, ReaderInv, FlowType, load' = load, UNCHANGED readerVars,
         \A c \in Chunks : Issued(c) => Issued(c)' /\ (Pending(c)' => Pending(c))
  PROVE  ListInv' /\ ReaderInv'
<1>1. ListInv'
  BY DEF readerVars, ListInv, GoodEntry
<1>2. UNCHANGED <<list, old, removed, rpc, want, got, seen>>
  BY DEF readerVars
<1>3. ASSUME NEW s \in 1 .. NSteps, Gone(s) PROVE Gone(s)'
  <2>1. ChunksOf(s)' = ChunksOf(s) /\ ChunksOf(s) \subseteq Chunks
    BY SameChunks DEF Chunks
  <2>2. \A c \in ChunksOf(s) : Issued(c)' /\ ~Pending(c)'
    BY <1>3, <2>1 DEF Gone
  <2> QED
    BY <1>2, <1>3, <2>1, <2>2 DEF Gone
<1>4. \A i \in 1 .. Len(seen) : seen[i] \in 1 .. NSteps
  <2> DEFINE S == 1 .. NSteps
  <2>1. seen \in Seq(S)
    BY DEF FlowType
  <2> HIDE DEF S
  <2>2. \A i \in 1 .. Len(seen) : seen[i] \in S
    BY <2>1
  <2> QED
    BY <2>2 DEF S
<1>5. LeftGone'
  <2> SUFFICES ASSUME rpc # "undefined", NEW i \in 1 .. Len(seen),
                      ~(rpc \in {"step", "read"} /\ i = Len(seen))
               PROVE  Gone(seen[i])'
    BY <1>2 DEF LeftGone
  <2>1. PICK s \in 1 .. NSteps : s = seen[i]
    BY <1>4
  <2>2. Gone(s)
    BY <2>1 DEF ReaderInv, LeftGone
  <2>3. Gone(s)'
    BY <1>3, <2>2
  <2> QED
    BY <1>2, <2>1, <2>3 DEF Gone
<1>6. \A v : Holders(v)' = Holders(v)
  BY DEF Holders
<1>7. ReaderInv'
  BY <1>2, <1>5, <1>6 DEF ReaderInv, Complete
<1> QED
  BY <1>1, <1>7

(* One chunk is added to a connection ...                                  *)
LEMMA ChanAppend ==
  ASSUME FlowType, ChansOnce, load' = load, NEW w \in Writers, NEW k \in Threads,
         NEW c0 \in Chunks, ~UnderWay(c0),
         chan' = [chan EXCEPT ![w][k] = Append(@, c0)]
  PROVE  /\ chan' \in [Writers -> [Threads -> Seq(Chunks)]]
         /\ ChansOnce'
         /\ \A c : UnderWay(c)' <=> UnderWay(c) \/ c = c0
<1> DEFINE q == chan[w][k]
           p == Append(q, c0)
<1>0. Threads' = Threads
  BY SameChunks
<1>1. chan \in [Writers -> [Threads -> Seq(Chunks)]] /\ q \in Seq(Chunks) /\ Len(q) \in Nat
  BY DEF FlowType
<1>2. p \in Seq(Chunks) /\ Len(p) = Len(q) + 1 /\ p[Len(q) + 1] = c0
      /\ (\A i \in 1 .. Len(q) : p[i] = q[i])
      /\ \A i \in 1 .. Len(p) : i \in 1 .. Len(q) \/ i = Len(q) + 1
  BY <1>1
<1>3. chan'[w][k] = p /\ \A v \in Writers, j \in Threads : v # w \/ j # k => chan'[v][j] = chan[v][j]
  BY <1>1
<1>4. chan' \in [Writers -> [Threads -> Seq(Chunks)]]
  BY <1>1, <1>2
<1> HIDE DEF p, q
<1>5. 1 .. Len(q) \subseteq 1 .. Len(p) /\ Len(q) + 1 \in 1 .. Len(p)
  BY <1>1, <1>2
<1>6. ASSUME NEW c PROVE UnderWay(c)' <=> UnderWay(c) \/ c = c0
  <2>1. UnderWay(c)' <=> \E v \in Writers, j \in Threads :
                            \E i \in 1 .. Len(chan'[v][j]) : chan'[v][j][i] = c
    BY <1>0 DEF UnderWay
  <2>2. ASSUME UnderWay(c)' PROVE UnderWay(c) \/ c = c0
    <3>1. PICK v \in Writers, j \in Threads : \E i \in 1 .. Len(chan'[v][j]) : chan'[v][j][i] = c
      BY <2>1, <2>2
    <3>2. CASE v = w /\ j = k
      BY <1>2, <1>3, <3>1, <3>2 DEF UnderWay, q
    <3>3. CASE v # w \/ j # k
      BY <1>3, <3>1, <3>3 DEF UnderWay
    <3> QED
      BY <3>2, <3>3
  <2>3. ASSUME UnderWay(c) PROVE UnderWay(c)'
    <3>1. PICK v \in Writers, j \in Threads : \E i \in 1 .. Len(chan[v][j]) : chan[v][j][i] = c
      BY <2>3 DEF UnderWay
    <3>2. CASE v = w /\ j = k
      BY <1>2, <1>3, <1>5, <2>1, <3>1, <3>2 DEF q
    <3>3. CASE v # w \/ j # k
      BY <1>3, <2>1, <3>1, <3>3
    <3> QED
      BY <3>2, <3>3
  <2>4. c = c0 => UnderWay(c)'
    BY <1>2, <1>3, <1>5, <2>1
  <2> QED
    BY <2>2, <2>3, <2>4
<1>7. ASSUME NEW v1 \in Writers, NEW v2 \in Writers, NEW j1 \in Threads, NEW j2 \in Threads,
             NEW i1 \in 1 .. Len(chan'[v1][j1]), NEW i2 \in 1 .. Len(chan'[v2][j2]),
             chan'[v1][j1][i1] = chan'[v2][j2][i2]
      PROVE  v1 = v2 /\ j1 = j2 /\ i1 = i2
  <2> DEFINE New(v, j, i) == v = w /\ j = k /\ i = Len(q) + 1
  <2>1. ASSUME NEW v \in Writers, NEW j \in Threads, NEW i \in 1 .. Len(chan'[v][j])
        PROVE  /\ New(v, j, i) => chan'[v][j][i] = c0
               /\ ~New(v, j, i) =>
                    /\ i \in 1 .. Len(chan[v][j]) /\ chan'[v][j][i] = chan[v][j][i]
                    /\ chan[v][j][i] # c0
    <3>1. CASE v = w /\ j = k
      BY <1>2, <1>3, <3>1 DEF q, UnderWay
    <3>2. CASE v # w \/ j # k
      BY <1>3, <3>2 DEF UnderWay
    <3> QED
      BY <3>1, <3>2
  <2>2. CASE New(v1, j1, i1) /\ New(v2, j2, i2)
    BY <2>2
  <2> HIDE DEF New
  <2>3. CASE New(v1, j1, i1) /\ ~New(v2, j2, i2)
    BY <2>1, <2>3, <1>7
  <2>4. CASE ~New(v1, j1, i1) /\ New(v2, j2, i2)
    BY <2>1, <2>4, <1>7
  <2>5. CASE ~New(v1, j1, i1) /\ ~New(v2, j2, i2)
    <3>1. /\ i1 \in 1 .. Len(chan[v1][j1]) /\ chan'[v1][j1][i1] = chan[v1][j1][i1]
          /\ i2 \in 1 .. Len(chan[v2][j2]) /\ chan'[v2][j2][i2] = chan[v2][j2][i2]
      BY <2>1, <2>5
    <3> QED
      BY <1>7, <3>1 DEF ChansOnce
  <2> QED
    BY <2>2, <2>3, <2>4, <2>5
<1>8. ChansOnce'
  BY ONLY <1>0, <1>7 DEF ChansOnce
<1> QED
  BY <1>4, <1>6, <1>8

(* ... and taken from it.                                                  *)
LEMMA ChanTail ==
  ASSUME FlowType, ChansOnce, load' = load, NEW w \in Writers, NEW k \in Threads,
         chan[w][k] # <<>>, NEW c0, c0 = Head(chan[w][k]),
         chan' = [chan EXCEPT ![w][k] = Tail(@)]
  PROVE  /\ chan' \in [Writers -> [Threads -> Seq(Chunks)]]
         /\ c0 \in Chunks /\ UnderWay(c0)
         /\ ChansOnce'
         /\ \A c : UnderWay(c)' => UnderWay(c) /\ c # c0
<1> DEFINE q == chan[w][k]
           p == Tail(q)
<1>0. Threads' = Threads
  BY SameChunks
<1>1. chan \in [Writers -> [Threads -> Seq(Chunks)]] /\ q \in Seq(Chunks) /\ Len(q) \in Nat
  BY DEF FlowType
<1>2. p \in Seq(Chunks) /\ Len(p) = Len(q) - 1 /\ q[1] = c0 /\ 1 \in 1 .. Len(q)
      /\ \A i \in 1 .. Len(p) : i + 1 \in 1 .. Len(q) /\ p[i] = q[i + 1] /\ i + 1 # 1
  BY <1>1
<1>3. chan'[w][k] = p /\ \A v \in Writers, j \in Threads : v # w \/ j # k => chan'[v][j] = chan[v][j]
  BY <1>1
<1>4. chan' \in [Writers -> [Threads -> Seq(Chunks)]]
  BY <1>1, <1>2
<1>5. c0 \in Chunks /\ UnderWay(c0)
  BY <1>1, <1>2 DEF UnderWay
<1> DEFINE At(v, j, i) == IF v = w /\ j = k THEN i + 1 ELSE i
<1>6. ASSUME NEW v \in Writers, NEW j \in Threads, NEW i \in 1 .. Len(chan'[v][j])
      PROVE  /\ At(v, j, i) \in 1 .. Len(chan[v][j])
             /\ chan'[v][j][i] = chan[v][j][At(v, j, i)]
             /\ chan[v][j][At(v, j, i)] # c0
  <2>1. CASE v = w /\ j = k
    <3>1. i + 1 \in 1 .. Len(q) /\ chan'[v][j][i] = q[i + 1] /\ i + 1 # 1
      BY <1>2, <1>3, <2>1
    <3>2. q[i + 1] # q[1]
      BY <1>2, <3>1 DEF ChansOnce
    <3> QED
      BY <1>2, <2>1, <3>1, <3>2
  <2>2. CASE v # w \/ j # k
    <3>1. i \in 1 .. Len(chan[v][j]) /\ chan'[v][j][i] = chan[v][j][i]
      BY <1>3, <2>2
    <3>2. chan[v][j][i] # chan[w][k][1]
      BY <1>2, <2>2, <3>1 DEF ChansOnce
    <3> QED
      BY <1>2, <2>2, <3>1, <3>2
  <2> QED
    BY <2>1, <2>2
<1>7. ASSUME NEW c, UnderWay(c)' PROVE UnderWay(c) /\ c # c0
  <2>1. PICK v \in Writers, j \in Threads : \E i \in 1 .. Len(chan'[v][j]) : chan'[v][j][i] = c
    BY <1>0, <1>7 DEF UnderWay
  <2>2. PICK i \in 1 .. Len(chan'[v][j]) : chan'[v][j][i] = c
    BY <2>1
  <2> HIDE DEF At, p, q
  <2>3. /\ At(v, j, i) \in 1 .. Len(chan[v][j])
        /\ chan'[v][j][i] = chan[v][j][At(v, j, i)]
        /\ chan[v][j][At(v, j, i)] # c0
    BY <1>6
  <2> QED
    BY <2>2, <2>3 DEF UnderWay
<1>8. ASSUME NEW v1 \in Writers, NEW v2 \in Writers, NEW j1 \in Threads, NEW j2 \in Threads,
             NEW i1 \in 1 .. Len(chan'[v1][j1]), NEW i2 \in 1 .. Len(chan'[v2][j2]),
             chan'[v1][j1][i1] = chan'[v2][j2][i2]
      PROVE  v1 = v2 /\ j1 = j2 /\ i1 = i2
  <2>1. v1 = v2 /\ j1 = j2 /\ At(v1, j1, i1) = At(v2, j2, i2)
    <3> HIDE DEF At, p, q
    <3>1. /\ At(v1, j1, i1) \in 1 .. Len(chan[v1][j1])
          /\ chan'[v1][j1][i1] = chan[v1][j1][At(v1, j1, i1)]
      BY <1>6
    <3>2. /\ At(v2, j2, i2) \in 1 .. Len(chan[v2][j2])
          /\ chan'[v2][j2][i2] = chan[v2][j2][At(v2, j2, i2)]
      BY <1>6
    <3>3. PICK a \in 1 .. Len(chan[v1][j1]) : a = At(v1, j1, i1)
      BY <3>1
    <3>4. PICK b \in 1 .. Len(chan[v2][j2]) : b = At(v2, j2, i2)
      BY <3>2
    <3>5. chan[v1][j1][a] = chan[v2][j2][b]
      BY <1>8, <3>1, <3>2, <3>3, <3>4
    <3>6. /\ ChansOnce /\ {v1, v2} \subseteq Writers /\ {j1, j2} \subseteq Threads
          /\ a \in 1 .. Len(chan[v1][j1]) /\ b \in 1 .. Len(chan[v2][j2])
      OBVIOUS
    <3>7. v1 = v2 /\ j1 = j2 /\ a = b
      BY ONLY <3>5, <3>6 DEF ChansOnce
    <3> QED
      BY <3>3, <3>4, <3>7
  <2>2. i1 \in Int /\ i2 \in Int
    BY \A i, j : i \in 1 .. j => i \in Int
  <2> QED
    BY <2>1, <2>2
<1> HIDE DEF At, p, q
<1>9. ChansOnce'
  BY ONLY <1>0, <1>8 DEF ChansOnce
<1> QED
  BY <1>4, <1>5, <1>7, <1>9

(* Steps in which no chunk moves.                                          *)
LEMMA SteadyStep ==
  ASSUME FlowInv, load' = load, UNCHANGED <<chan, handler, readerVars>>,
         \A w \in Writers, k \in Threads :
           /\ worker'[w][k].st = "job" <=> worker[w][k].st = "job"
           /\ worker[w][k].st = "job" => worker'[w][k].job = worker[w][k].job,
         \A c \in Chunks : Issued(c) => Issued(c)'
  PROVE  FlowType' /\ OnceInv' /\ ListInv' /\ ReaderInv'
<1>0. FlowType /\ OnceInv /\ ListInv /\ ReaderInv
  BY DEF FlowInv
<1>1. Threads' = Threads /\ Chunks' = Chunks /\ Entry' = Entry
  BY SameChunks
<1>2. /\ UNCHANGED <<list, old, removed, rpc, want, got, seen>>
      /\ chan' = chan /\ handler' = handler
  BY DEF readerVars
<1>3. FlowType'
  BY <1>0, <1>1, <1>2 DEF FlowType
<1>4. \A c : /\ Submitting(c)' <=> Submitting(c)
             /\ UnderWay(c)' <=> UnderWay(c)
             /\ Handled(c)' <=> Handled(c)
             /\ InList(c)' <=> InList(c)
  <2>1. \A c : Submitting(c)' <=> Submitting(c)
    BY <1>1 DEF Submitting
  <2>2. \A c : /\ UnderWay(c)' <=> UnderWay(c)
               /\ Handled(c)' <=> Handled(c)
               /\ InList(c)' <=> InList(c)
    BY <1>1, <1>2 DEF UnderWay, Handled, InList, InEntries, InEntry
  <2> QED
    BY <2>1, <2>2
<1>5. WorkersOnce' /\ ChansOnce' /\ LockOnce'
  BY <1>0, <1>1, <1>2 DEF OnceInv, WorkersOnce, ChansOnce, LockOnce
<1>6. \A c \in Chunks : OnePlace(c)'
  BY <1>0, <1>4 DEF OnceInv, OnePlace
<1>7. OnceInv'
  BY <1>1, <1>5, <1>6 DEF OnceInv
<1>8. \A c : Pending(c)' <=> Pending(c)
  BY <1>4 DEF Pending
<1>9. ListInv' /\ ReaderInv'
  BY <1>0, <1>8, ReaderSame
<1> QED
  BY <1>3, <1>7, <1>9

(* A new chunk reaches a connection: close without a pool.                 *)
LEMMA SubmitStep ==
  ASSUME FlowInv, load' = load, UNCHANGED <<worker, handler, readerVars>>,
         NEW w \in Writers, NEW k \in Threads, NEW c0 \in Chunks,
         ~Issued(c0), Issued(c0)',
         chan' = [chan EXCEPT ![w][k] = Append(@, c0)],
         \A c \in Chunks : Issued(c) => Issued(c)'
  PROVE  FlowType' /\ OnceInv' /\ ListInv' /\ ReaderInv'
<1>0. FlowType /\ OnceInv /\ ListInv /\ ReaderInv
  BY DEF FlowInv
<1>1. Threads' = Threads /\ Chunks' = Chunks /\ Entry' = Entry
  BY SameChunks
<1>2. /\ UNCHANGED <<list, old, removed, rpc, want, got, seen>>
      /\ worker' = worker /\ handler' = handler
  BY DEF readerVars
<1>3. OnePlace(c0) /\ ChansOnce
  BY <1>0 DEF OnceInv
<1>4. ~Submitting(c0) /\ ~UnderWay(c0) /\ ~Handled(c0) /\ ~InList(c0)
  BY <1>3 DEF OnePlace
<1>5. /\ chan' \in [Writers -> [Threads -> Seq(Chunks)]]
      /\ ChansOnce'
      /\ \A c : UnderWay(c)' <=> UnderWay(c) \/ c = c0
  BY <1>0, <1>3, <1>4, ChanAppend
<1>6. FlowType'
  BY <1>0, <1>1, <1>2, <1>5 DEF FlowType
<1>7. \A c : /\ Submitting(c)' <=> Submitting(c)
             /\ Handled(c)' <=> Handled(c)
             /\ InList(c)' <=> InList(c)
  BY <1>1, <1>2 DEF Submitting, Handled, InList, InEntries, InEntry
<1>8. WorkersOnce' /\ LockOnce'
  BY <1>0, <1>1, <1>2 DEF OnceInv, WorkersOnce, LockOnce
<1>9. \A c \in Chunks : OnePlace(c)'
  <2> SUFFICES ASSUME NEW c \in Chunks PROVE OnePlace(c)'
    OBVIOUS
  <2>1. OnePlace(c)
    BY <1>0 DEF OnceInv
  <2> QED
    BY <1>4, <1>5, <1>7, <2>1 DEF OnePlace
<1>10. OnceInv'
  BY <1>1, <1>5, <1>8, <1>9 DEF OnceInv
<1>11. \A c \in Chunks : Issued(c) => (Pending(c)' => Pending(c))
  BY <1>5, <1>7 DEF Pending
<1>12. ListInv' /\ ReaderInv'
  BY <1>0, <1>11, ReaderSame
<1> QED
  BY <1>6, <1>10, <1>12

(* A thread of the pool takes a new chunk out of the queue ...             *)
LEMMA TakeStep ==
  ASSUME FlowInv, load' = load, UNCHANGED <<chan, handler, readerVars>>,
         NEW w \in Writers, NEW k \in Threads, NEW c0 \in Chunks,
         ~Issued(c0), Issued(c0)',
         worker'[w][k] = [st |-> "job", job |-> c0],
         worker[w][k].st # "job",
         \A v \in Writers, j \in Threads : v # w \/ j # k => worker'[v][j] = worker[v][j],
         \A c \in Chunks : Issued(c) => Issued(c)'
  PROVE  FlowType' /\ OnceInv' /\ ListInv' /\ ReaderInv'
<1>0. FlowType /\ OnceInv /\ ListInv /\ ReaderInv
  BY DEF FlowInv
<1>1. Threads' = Threads /\ Chunks' = Chunks /\ Entry' = Entry
  BY SameChunks
<1>2. /\ UNCHANGED <<list, old, removed, rpc, want, got, seen>>
      /\ chan' = chan /\ handler' = handler
  BY DEF readerVars
<1>3. OnePlace(c0)
  BY <1>0 DEF OnceInv
<1>4. ~Submitting(c0) /\ ~UnderWay(c0) /\ ~Handled(c0) /\ ~InList(c0)
  BY <1>3 DEF OnePlace
<1>5. worker'[w][k].st = "job" /\ worker'[w][k].job = c0
  OBVIOUS
<1>6. ASSUME NEW v \in Writers, NEW j \in Threads, worker'[v][j].st = "job"
      PROVE  worker'[v][j].job \in Chunks
  <2>1. CASE v = w /\ j = k
    BY <1>5, <2>1
  <2>2. CASE v # w \/ j # k
    <3>1. worker'[v][j] = worker[v][j]
      BY <2>2
    <3> QED
      BY <1>0, <1>6, <3>1 DEF FlowType
  <2> QED
    BY <2>1, <2>2
<1>7. FlowType'
  BY <1>0, <1>1, <1>2, <1>6 DEF FlowType
<1>8. \A c : Submitting(c)' <=> Submitting(c) \/ c = c0
  BY <1>1, <1>5 DEF Submitting
<1>9. \A c : /\ UnderWay(c)' <=> UnderWay(c)
             /\ Handled(c)' <=> Handled(c)
             /\ InList(c)' <=> InList(c)
  BY <1>1, <1>2 DEF UnderWay, Handled, InList, InEntries, InEntry
<1>10. ChansOnce' /\ LockOnce'
  BY <1>0, <1>1, <1>2 DEF OnceInv, ChansOnce, LockOnce
<1>11. WorkersOnce'
  <2> SUFFICES ASSUME NEW v1 \in Writers, NEW v2 \in Writers, NEW j1 \in Threads, NEW j2 \in Threads,
                      worker'[v1][j1].st = "job", worker'[v2][j2].st = "job",
                      worker'[v1][j1].job = worker'[v2][j2].job
               PROVE  v1 = v2 /\ j1 = j2
    BY <1>1 DEF WorkersOnce
  <2>1. \A v \in Writers, j \in Threads : worker[v][j].st = "job" => worker[v][j].job # c0
    BY <1>4 DEF Submitting
  <2>2. WorkersOnce
    BY <1>0 DEF OnceInv
  <2> QED
    BY <1>5, <2>1, <2>2 DEF WorkersOnce
<1>12. \A c \in Chunks : OnePlace(c)'
  <2> SUFFICES ASSUME NEW c \in Chunks PROVE OnePlace(c)'
    OBVIOUS
  <2>1. OnePlace(c)
    BY <1>0 DEF OnceInv
  <2> QED
    BY <1>4, <1>8, <1>9, <2>1 DEF OnePlace
<1>13. OnceInv'
  BY <1>1, <1>10, <1>11, <1>12 DEF OnceInv
<1>14. \A c \in Chunks : Issued(c) => (Pending(c)' => Pending(c))
  BY <1>8, <1>9 DEF Pending
<1>15. ListInv' /\ ReaderInv'
  BY <1>0, <1>14, ReaderSame
<1> QED
  BY <1>7, <1>13, <1>15

(* ... and submits it over a connection.                                   *)
LEMMA DosubmitStep ==
  ASSUME Inv, FlowInv, NEW w \in Writers, NEW k \in Threads, Dosubmit(w, k),
         \A c \in Chunks : Issued(c) => Issued(c)'
  PROVE  FlowType' /\ OnceInv' /\ ListInv' /\ ReaderInv'
<1>0. FlowType /\ OnceInv /\ ListInv /\ ReaderInv
  BY DEF FlowInv
<1>a. load' = load /\ handler' = handler /\ UNCHANGED readerVars
  BY DEF Dosubmit
<1>1. Threads' = Threads /\ Chunks' = Chunks /\ Entry' = Entry
  BY <1>a, SameChunks
<1>2. UNCHANGED <<list, old, removed, rpc, want, got, seen>>
  BY <1>a DEF readerVars
<1>b. worker[w][k].st = "job" /\ worker[w][k].job \in Chunks
  BY <1>0 DEF Dosubmit, FlowType
<1>c. PICK c0 \in Chunks : c0 = worker[w][k].job
  BY <1>b
<1>d. PICK l \in Threads : chan' = [chan EXCEPT ![w][l] = Append(@, c0)]
  BY <1>c DEF Dosubmit
<1>3. OnePlace(c0) /\ ChansOnce /\ WorkersOnce /\ LockOnce
  BY <1>0 DEF OnceInv
<1>4. Submitting(c0) /\ ~UnderWay(c0) /\ ~Handled(c0) /\ ~InList(c0) /\ Issued(c0)
  BY <1>3, <1>b, <1>c DEF OnePlace, Submitting
<1>5. /\ chan' \in [Writers -> [Threads -> Seq(Chunks)]]
      /\ ChansOnce'
      /\ \A c : UnderWay(c)' <=> UnderWay(c) \/ c = c0
  BY <1>0, <1>3, <1>4, <1>a, <1>d, ChanAppend
<1>6. /\ worker'[w][k].st # "job"
      /\ \A v \in Writers, j \in Threads : v # w \/ j # k => worker'[v][j] = worker[v][j]
  BY DEF Dosubmit, Inv, PoolType
<1>7. \A v \in Writers, j \in Threads : worker'[v][j].st = "job" => worker'[v][j].job \in Chunks
  BY <1>0, <1>6 DEF FlowType
<1>8. FlowType'
  BY <1>0, <1>1, <1>2, <1>5, <1>7, <1>a DEF FlowType
<1>9. \A c : Submitting(c)' => Submitting(c) /\ c # c0
  BY <1>1, <1>3, <1>6, <1>b, <1>c DEF Submitting, WorkersOnce
<1>10. \A c : /\ Handled(c)' <=> Handled(c)
              /\ InList(c)' <=> InList(c)
  BY <1>1, <1>2, <1>a DEF Handled, InList, InEntries, InEntry
<1>11. WorkersOnce'
  <2> SUFFICES ASSUME NEW v1 \in Writers, NEW v2 \in Writers, NEW j1 \in Threads, NEW j2 \in Threads,
                      worker'[v1][j1].st = "job", worker'[v2][j2].st = "job",
                      worker'[v1][j1].job = worker'[v2][j2].job
               PROVE  v1 = v2 /\ j1 = j2
    BY <1>1 DEF WorkersOnce
  <2> QED
    BY <1>3, <1>6 DEF WorkersOnce
<1>12. LockOnce'
  BY <1>1, <1>3, <1>a DEF LockOnce
<1>13. \A c \in Chunks : OnePlace(c)'
  <2> SUFFICES ASSUME NEW c \in Chunks PROVE OnePlace(c)'
    OBVIOUS
  <2>1. OnePlace(c)
    BY <1>0 DEF OnceInv
  <2> QED
    BY <1>4, <1>5, <1>9, <1>10, <2>1 DEF OnePlace
<1>14. OnceInv'
  BY <1>1, <1>5, <1>11, <1>12, <1>13 DEF OnceInv
<1>15. \A c \in Chunks : Pending(c)' => Pending(c)
  BY <1>4, <1>5, <1>9, <1>10 DEF Pending
<1>16. ListInv' /\ ReaderInv'
  BY <1>0, <1>15, <1>a, ReaderSame
<1> QED
  BY <1>8, <1>14, <1>16

(* A communication thread takes a chunk from its connection.               *)
LEMMA LockStep ==
  ASSUME FlowInv, NEW w \in Writers, NEW k \in Threads, HandlerLock(k, w),
         \A c \in Chunks : Issued(c) => Issued(c)'
  PROVE  FlowType' /\ OnceInv' /\ ListInv' /\ ReaderInv'
<1>0. FlowType /\ OnceInv /\ ListInv /\ ReaderInv
  BY DEF FlowInv
<1>a. load' = load /\ worker' = worker /\ UNCHANGED readerVars
  BY DEF HandlerLock, poolVars
<1>1. Threads' = Threads /\ Chunks' = Chunks /\ Entry' = Entry
  BY <1>a, SameChunks
<1>2. UNCHANGED <<list, old, removed, rpc, want, got, seen>>
  BY <1>a DEF readerVars
<1>b. PICK c0 : c0 = Head(chan[w][k])
  OBVIOUS
<1>c. chan[w][k] # <<>> /\ chan' = [chan EXCEPT ![w][k] = Tail(@)]
  BY DEF HandlerLock
<1>3. ChansOnce /\ WorkersOnce /\ LockOnce
  BY <1>0 DEF OnceInv
<1>4. /\ chan' \in [Writers -> [Threads -> Seq(Chunks)]]
      /\ c0 \in Chunks /\ UnderWay(c0)
      /\ ChansOnce'
      /\ \A c : UnderWay(c)' => UnderWay(c) /\ c # c0
  BY <1>0, <1>3, <1>a, <1>b, <1>c, ChanTail
<1>5. OnePlace(c0)
  BY <1>0, <1>4 DEF OnceInv
<1>6. ~Submitting(c0) /\ ~Handled(c0) /\ ~InList(c0) /\ Issued(c0)
  BY <1>4, <1>5 DEF OnePlace
<1>7. /\ handler \in [Threads -> [st : {"idle", "locked"}, chunk : Chunks \cup {NoChunk}, root : Nat]]
      /\ removed \in Nat
  BY <1>0 DEF FlowType
<1>8. /\ handler'[k] = [st |-> "locked", chunk |-> c0, root |-> removed + 1]
      /\ \A j \in Threads : j # k => handler'[j] = handler[j]
      /\ \A j \in Threads : handler[j].st = "idle"
  BY <1>7, <1>b DEF HandlerLock
<1>9. handler' \in [Threads -> [st : {"idle", "locked"}, chunk : Chunks \cup {NoChunk}, root : Nat]]
  <2>1. [st |-> "locked", chunk |-> c0, root |-> removed + 1]
          \in [st : {"idle", "locked"}, chunk : Chunks \cup {NoChunk}, root : Nat]
    BY <1>4, <1>7
  <2> QED
    BY <1>7, <1>b, <2>1 DEF HandlerLock
<1>10. \A j \in Threads : handler'[j].st = "locked" <=> j = k
  BY <1>8
<1>11. handler'[k].chunk = c0
  BY <1>8
<1>12. FlowType'
  BY <1>0, <1>1, <1>2, <1>4, <1>9, <1>10, <1>11, <1>a DEF FlowType
<1>13. \A c : Handled(c)' <=> c = c0
  BY <1>1, <1>10, <1>11 DEF Handled
<1>14. \A c : /\ Submitting(c)' <=> Submitting(c)
              /\ InList(c)' <=> InList(c)
  BY <1>1, <1>2, <1>a DEF Submitting, InList, InEntries, InEntry
<1>15. LockOnce' /\ WorkersOnce'
  BY <1>1, <1>3, <1>10, <1>a DEF LockOnce, WorkersOnce
<1>16. \A c \in Chunks : OnePlace(c)'
  <2> SUFFICES ASSUME NEW c \in Chunks PROVE OnePlace(c)'
    OBVIOUS
  <2>1. OnePlace(c)
    BY <1>0 DEF OnceInv
  <2> QED
    BY <1>4, <1>6, <1>13, <1>14, <2>1 DEF OnePlace
<1>17. OnceInv'
  BY <1>1, <1>4, <1>15, <1>16 DEF OnceInv
<1>18. \A c \in Chunks : Pending(c)' => Pending(c)
  BY <1>4, <1>13, <1>14 DEF Pending
<1>19. ListInv' /\ ReaderInv'
  BY <1>0, <1>18, <1>a, ReaderSame
<1> QED
  BY <1>12, <1>17, <1>19

-----------------------------------------------------------------------------
(* The list of steps.                                                      *)

Distinct(l) == \A i, j \in 1 .. Len(l) : l[i].step = l[j].step => i = j

NewEntry(c) == [step |-> c.step, nchunks |-> c.nchunks, chunks |-> <<c>>]

(* m is the list l with the chunk c in the entry of its step.              *)
Grown(l, m, c) ==
  /\ m \in Seq(Entry)
  /\ \/ Len(m) = Len(l) /\ \E i \in 1 .. Len(l) : l[i].step = c.step
     \/ /\ Len(m) = Len(l) + 1 /\ m[Len(l) + 1] = NewEntry(c)
        /\ \A i \in 1 .. Len(l) : l[i].step # c.step
  /\ \A i \in 1 .. Len(l) :
       m[i] = IF l[i].step = c.step THEN [l[i] EXCEPT !.chunks = Append(@, c)] ELSE l[i]

(* An entry, new or one chunk longer, is an entry.                         *)
LEMMA EntryGrows ==
  ASSUME load \in Loads, NEW c \in Chunks
  PROVE  /\ NewEntry(c) \in Entry
         /\ \A e \in Entry : [e EXCEPT !.chunks = Append(@, c)] \in Entry
<1>1. c.step \in 1 .. NSteps /\ c.nchunks = NChunks
  BY ChunkFields
<1>2. <<c>> \in Seq(Chunks)
  OBVIOUS
<1>3. NewEntry(c) \in Entry
  BY <1>1, <1>2 DEF Entry, NewEntry
<1>4. ASSUME NEW e \in Entry PROVE [e EXCEPT !.chunks = Append(@, c)] \in Entry
  <2>1. e.chunks \in Seq(Chunks)
    BY DEF Entry
  <2>2. Append(e.chunks, c) \in Seq(Chunks)
    BY <2>1
  <2> QED
    BY <2>2 DEF Entry
<1> QED
  BY <1>3, <1>4

(* icee_fileinfo_append does that.                                         *)
LEMMA MergedGrows ==
  ASSUME load \in Loads, NEW l \in Seq(Entry), Distinct(l), NEW c \in Chunks
  PROVE  Grown(l, Merged(l, c), c)
<1> DEFINE same == {i \in DOMAIN l : l[i].step = c.step}
           m == Merged(l, c)
<1>1. DOMAIN l = 1 .. Len(l) /\ Len(l) \in Nat
  OBVIOUS
<1>2. CASE same = {}
  <2>1. m = Append(l, NewEntry(c))
    BY <1>2 DEF Merged, NewEntry
  <2>2. NewEntry(c) \in Entry
    BY EntryGrows
  <2>3. m \in Seq(Entry) /\ Len(m) = Len(l) + 1 /\ m[Len(l) + 1] = NewEntry(c)
        /\ \A i \in 1 .. Len(l) : m[i] = l[i]
    BY <2>1, <2>2
  <2>4. \A i \in 1 .. Len(l) : l[i].step # c.step
    BY <1>1, <1>2
  <2> HIDE DEF m
  <2>5. Grown(l, m, c)
    BY <2>3, <2>4 DEF Grown
  <2> QED
    BY <2>5 DEF m
<1>3. CASE same # {}
  <2>1. PICK i \in 1 .. Len(l) : l[i].step = c.step
    BY <1>1, <1>3
  <2>2. same = {i}
    BY <1>1, <2>1 DEF Distinct
  <2>3. Min({i}) = i
    <3>1. i \in Int
      BY <1>1
    <3> QED
      BY <3>1 DEF Min
  <2>4. m = [l EXCEPT ![i].chunks = Append(@, c)]
    BY <1>3, <2>2, <2>3 DEF Merged
  <2>5. l[i] \in Entry
    BY <2>1
  <2>6. PICK e \in Entry : e = [l[i] EXCEPT !.chunks = Append(@, c)]
    BY <2>5, EntryGrows
  <2>7. m = [l EXCEPT ![i] = e]
    BY <2>4, <2>6
  <2>8. m \in Seq(Entry) /\ Len(m) = Len(l) /\ m[i] = e
        /\ \A j \in 1 .. Len(l) : j # i => m[j] = l[j]
    BY <2>1, <2>7
  <2>9. \A j \in 1 .. Len(l) : l[j].step = c.step <=> j = i
    BY <2>1 DEF Distinct
  <2> HIDE DEF m, same
  <2>10. \A j \in 1 .. Len(l) :
          m[j] = IF l[j].step = c.step THEN [l[j] EXCEPT !.chunks = Append(@, c)] ELSE l[j]
    BY <2>6, <2>8, <2>9
  <2>11. Grown(l, m, c)
    BY <2>1, <2>8, <2>10 DEF Grown
  <2> QED
    BY <2>11 DEF m
<1> QED
  BY <1>2, <1>3

(* Two sequences, one behind the other.                                    *)
LEMMA ConcatFacts ==
  ASSUME NEW S, NEW o \in Seq(S), NEW l \in Seq(S)
  PROVE  /\ o \o l \in Seq(S) /\ Len(o \o l) = Len(o) + Len(l) /\ Len(l) \in Nat
         /\ \A i \in 1 .. Len(o) : (o \o l)[i] = o[i]
         /\ \A i \in 1 .. Len(l) : (o \o l)[Len(o) + i] = l[i]
<1>1. o \o l \in Seq(S) /\ Len(o \o l) = Len(o) + Len(l) /\ Len(l) \in Nat /\ Len(o) \in Nat
  OBVIOUS
<1>2. \A i \in 1 .. Len(o) : (o \o l)[i] = o[i]
  BY <1>1
<1>3. ASSUME NEW i \in 1 .. Len(l) PROVE (o \o l)[Len(o) + i] = l[i]
  <2>1. /\ Len(o) + i \in 1 .. Len(o) + Len(l) /\ ~(Len(o) + i <= Len(o))
        /\ (Len(o) + i) - Len(o) = i
    BY <1>1
  <2> QED
    BY <2>1
<1> QED
  BY <1>1, <1>2, <1>3

(* An entry of another step in front stays as it is.                       *)
LEMMA GrownBehind ==
  ASSUME NEW o \in Seq(Entry), NEW l \in Seq(Entry), NEW c, NEW m, Len(o) = 1,
         o[1].step # c.step, Grown(o \o l, m, c)
  PROVE  SubSeq(m, 1, 1) = o /\ Grown(l, SubSeq(m, Len(o) + 1, Len(m)), c)
<1> DEFINE ol == o \o l
           n == SubSeq(m, 2, Len(m))
<1>1. ol \in Seq(Entry) /\ Len(ol) = 1 + Len(l) /\ ol[1] = o[1] /\ Len(l) \in Nat
      /\ \A i \in 1 .. Len(l) : ol[i + 1] = l[i] /\ i + 1 \in 1 .. Len(ol)
  <2>a. PICK S : S = Entry
    OBVIOUS
  <2>b. o \in Seq(S) /\ l \in Seq(S)
    BY <2>a
  <2>c. /\ o \o l \in Seq(S) /\ Len(o \o l) = Len(o) + Len(l) /\ Len(l) \in Nat
        /\ \A i \in 1 .. Len(o) : (o \o l)[i] = o[i]
        /\ \A i \in 1 .. Len(l) : (o \o l)[Len(o) + i] = l[i]
    BY ONLY <2>b, ConcatFacts
  <2>1. /\ ol \in Seq(Entry) /\ Len(ol) = Len(o) + Len(l) /\ Len(l) \in Nat
        /\ \A i \in 1 .. Len(o) : ol[i] = o[i]
        /\ \A i \in 1 .. Len(l) : ol[Len(o) + i] = l[i]
    BY <2>a, <2>c, Zenon
  <2> HIDE DEF ol
  <2>2. Len(ol) = 1 + Len(l) /\ 1 \in 1 .. Len(o)
    BY <2>1
  <2>3. \A i \in 1 .. Len(l) : Len(o) + i = i + 1 /\ i + 1 \in 1 .. Len(ol)
    BY <2>1, <2>2
  <2> QED
    BY <2>1, <2>2, <2>3
<1> HIDE DEF ol
<1>2. /\ m \in Seq(Entry)
      /\ \/ Len(m) = Len(ol) /\ \E i \in 1 .. Len(ol) : ol[i].step = c.step
         \/ /\ Len(m) = Len(ol) + 1 /\ m[Len(ol) + 1] = NewEntry(c)
            /\ \A i \in 1 .. Len(ol) : ol[i].step # c.step
      /\ \A i \in 1 .. Len(ol) :
           m[i] = IF ol[i].step = c.step THEN [ol[i] EXCEPT !.chunks = Append(@, c)] ELSE ol[i]
  BY DEF Grown, ol
<1>3. Len(m) \in Nat /\ Len(m) >= 1 /\ 1 \in 1 .. Len(ol)
  BY <1>1, <1>2
<1>4. m[1] = o[1]
  BY <1>1, <1>2, <1>3
<1>5. SubSeq(m, 1, 1) = o
  <2>1. SubSeq(m, 1, 1) \in Seq(Entry) /\ Len(SubSeq(m, 1, 1)) = 1 /\ SubSeq(m, 1, 1)[1] = m[1]
    BY <1>2, <1>3
  <2>2. \A i \in 1 .. 1 : SubSeq(m, 1, 1)[i] = o[i]
    BY <1>4, <2>1
  <2> QED
    BY <2>1, <2>2
<1>6. n \in Seq(Entry) /\ Len(n) = Len(m) - 1
      /\ \A i \in 1 .. Len(m) - 1 : n[i] = m[i + 1]
  BY <1>2, <1>3
<1>a. SubSeq(m, Len(o) + 1, Len(m)) = n
  <2>1. Len(o) + 1 = 2
    OBVIOUS
  <2> QED
    BY <2>1
<1> HIDE DEF n
<1>7. \A i \in 1 .. Len(l) : i \in 1 .. Len(m) - 1
  BY <1>1, <1>2
<1>8. \A i \in 1 .. Len(l) :
        n[i] = IF l[i].step = c.step THEN [l[i] EXCEPT !.chunks = Append(@, c)] ELSE l[i]
  <2> SUFFICES ASSUME NEW i \in 1 .. Len(l)
               PROVE  n[i] = IF l[i].step = c.step
                             THEN [l[i] EXCEPT !.chunks = Append(@, c)] ELSE l[i]
    OBVIOUS
  <2>1. i + 1 \in 1 .. Len(ol) /\ ol[i + 1] = l[i] /\ n[i] = m[i + 1]
    BY <1>1, <1>6, <1>7
  <2>2. m[i + 1] = IF ol[i + 1].step = c.step
                   THEN [ol[i + 1] EXCEPT !.chunks = Append(@, c)] ELSE ol[i + 1]
    BY <1>2, <2>1, Zenon
  <2> QED
    BY <2>1, <2>2, Zenon
<1>9. CASE Len(m) = Len(ol) /\ \E i \in 1 .. Len(ol) : ol[i].step = c.step
  <2>1. PICK i \in 1 .. Len(ol) : ol[i].step = c.step
    BY <1>9
  <2>2. i # 1
    BY <1>1, <2>1
  <2>3. i - 1 \in 1 .. Len(l) /\ (i - 1) + 1 = i
    BY <1>1, <2>1, <2>2
  <2>4. l[i - 1].step = c.step
    BY <1>1, <2>1, <2>3
  <2>5. Len(n) = Len(l)
    BY <1>1, <1>6, <1>9
  <2>6. Grown(l, n, c)
    BY <1>6, <1>8, <2>3, <2>4, <2>5 DEF Grown
  <2> QED
    BY <1>5, <1>a, <2>6
<1>10. CASE /\ Len(m) = Len(ol) + 1 /\ m[Len(ol) + 1] = NewEntry(c)
            /\ \A i \in 1 .. Len(ol) : ol[i].step # c.step
  <2>1. \A i \in 1 .. Len(l) : l[i].step # c.step
    BY <1>1, <1>10
  <2>2. Len(n) = Len(l) + 1 /\ Len(l) + 1 \in 1 .. Len(m) - 1 /\ (Len(l) + 1) + 1 = Len(ol) + 1
    BY <1>1, <1>6, <1>10
  <2>3. n[Len(l) + 1] = NewEntry(c)
    BY <1>6, <1>10, <2>2
  <2>4. Grown(l, n, c)
    BY <1>6, <1>8, <2>1, <2>2, <2>3 DEF Grown
  <2> QED
    BY <1>5, <1>a, <2>4
<1> QED
  BY <1>2, <1>9, <1>10

(* What the list is afterwards.                                            *)
LEMMA GrownResult ==
  ASSUME load \in Loads, NEW l \in Seq(Entry), Distinct(l), NEW c \in Chunks,
         \A i \in 1 .. Len(l) : GoodEntry(l[i]),
         ~InEntries(c, l), NEW m, Grown(l, m, c)
  PROVE  /\ Distinct(m)
         /\ \A i \in 1 .. Len(m) : GoodEntry(m[i])
         /\ \A x : InEntries(x, m) => InEntries(x, l) \/ x = c
         /\ \A i \in 1 .. Len(m) : m[i].step = c.step \/ (i \in 1 .. Len(l) /\ m[i] = l[i])
         /\ \A i \in 1 .. Len(l) : i \in 1 .. Len(m) /\ m[i].step = l[i].step
<1>1. /\ m \in Seq(Entry)
      /\ \/ Len(m) = Len(l) /\ \E i \in 1 .. Len(l) : l[i].step = c.step
         \/ /\ Len(m) = Len(l) + 1 /\ m[Len(l) + 1] = NewEntry(c)
            /\ \A i \in 1 .. Len(l) : l[i].step # c.step
      /\ \A i \in 1 .. Len(l) :
           m[i] = IF l[i].step = c.step THEN [l[i] EXCEPT !.chunks = Append(@, c)] ELSE l[i]
  BY DEF Grown
<1>2. Len(l) \in Nat /\ Len(m) \in Nat
  BY <1>1
<1>3. \A i \in 1 .. Len(m) : i \in 1 .. Len(l)
                             \/ (i = Len(l) + 1 /\ m[i] = NewEntry(c)
                                 /\ \A j \in 1 .. Len(l) : l[j].step # c.step)
  BY <1>1, <1>2
<1>4. ASSUME NEW i \in 1 .. Len(l), l[i].step = c.step
      PROVE  /\ m[i].step = l[i].step /\ GoodEntry(m[i])
             /\ \A x : InEntry(x, m[i]) => InEntry(x, l[i]) \/ x = c
  <2> DEFINE q == l[i].chunks
             p == Append(q, c)
  <2>0. l[i] \in Entry
    OBVIOUS
  <2>1. l[i] \in Entry /\ q \in Seq(Chunks) /\ Len(q) \in Nat
    BY <2>0 DEF Entry
  <2>2. m[i].step = l[i].step /\ m[i].chunks = p
    BY <1>1, <1>4, <2>1 DEF Entry
  <2>3. Len(p) = Len(q) + 1 /\ p[Len(q) + 1] = c
        /\ (\A j \in 1 .. Len(q) : p[j] = q[j])
        /\ \A j \in 1 .. Len(p) : j \in 1 .. Len(q) \/ j = Len(q) + 1
    BY <2>1
  <2>4. \A j \in 1 .. Len(q) : q[j] # c
    BY DEF InEntries, InEntry
  <2>5. /\ \A j, k \in 1 .. Len(q) : q[j] = q[k] => j = k
        /\ \A j \in 1 .. Len(q) : q[j].step = l[i].step
    BY DEF GoodEntry
  <2> HIDE DEF p, q
  <2>6. \A j, k \in 1 .. Len(p) : p[j] = p[k] => j = k
    BY <2>3, <2>4, <2>5
  <2>7. \A j \in 1 .. Len(p) : p[j].step = l[i].step
    BY <1>4, <2>3, <2>5
  <2>8. GoodEntry(m[i])
    BY <2>2, <2>6, <2>7 DEF GoodEntry
  <2>9. \A x : InEntry(x, m[i]) => InEntry(x, l[i]) \/ x = c
    BY <2>2, <2>3 DEF InEntry, q
  <2> QED
    BY <2>2, <2>8, <2>9
<1>5. /\ NewEntry(c).step = c.step /\ GoodEntry(NewEntry(c))
      /\ \A x : InEntry(x, NewEntry(c)) => x = c
  <2>1. NewEntry(c).chunks = <<c>> /\ NewEntry(c).step = c.step
    BY DEF NewEntry
  <2>2. Len(<<c>>) = 1 /\ <<c>>[1] = c /\ \A i \in 1 .. 1 : i = 1
    OBVIOUS
  <2> QED
    BY <2>1, <2>2 DEF GoodEntry, InEntry
<1>6. \A i \in 1 .. Len(l) : i \in 1 .. Len(m) /\ m[i].step = l[i].step /\ GoodEntry(m[i])
        /\ (l[i].step # c.step => m[i] = l[i])
        /\ \A x : InEntry(x, m[i]) => InEntry(x, l[i]) \/ x = c
  <2> SUFFICES ASSUME NEW i \in 1 .. Len(l)
               PROVE  i \in 1 .. Len(m) /\ m[i].step = l[i].step /\ GoodEntry(m[i])
                      /\ (l[i].step # c.step => m[i] = l[i])
                      /\ \A x : InEntry(x, m[i]) => InEntry(x, l[i]) \/ x = c
    OBVIOUS
  <2>1. i \in 1 .. Len(m)
    BY <1>1, <1>2
  <2>2. l[i].step # c.step => m[i] = l[i]
    BY <1>1
  <2> QED
    BY <1>4, <2>1, <2>2
<1>7. \A i \in 1 .. Len(m) : GoodEntry(m[i])
  BY <1>3, <1>5, <1>6
<1>8. \A x : InEntries(x, m) => InEntries(x, l) \/ x = c
  BY <1>3, <1>5, <1>6 DEF InEntries
<1>9. Distinct(m)
  BY <1>3, <1>5, <1>6 DEF Distinct
<1>10. \A i \in 1 .. Len(m) : m[i].step = c.step \/ (i \in 1 .. Len(l) /\ m[i] = l[i])
  BY <1>3, <1>5, <1>6
<1> QED
  BY <1>6, <1>7, <1>8, <1>9, <1>10

(* The steps the reader has been at.                                       *)
LEMMA SeenSteps ==
  ASSUME FlowType
  PROVE  /\ \A i \in 1 .. Len(seen) : seen[i] \in 1 .. NSteps
         /\ Len(seen) \in Nat
         /\ seen # <<>> => Len(seen) \in 1 .. Len(seen)
<1> DEFINE S == 1 .. NSteps
<1>1. seen \in Seq(S)
  BY DEF FlowType
<1> HIDE DEF S
<1>2. \A i \in 1 .. Len(seen) : seen[i] \in S
  BY <1>1
<1>3. Len(seen) \in Nat /\ (seen # <<>> => Len(seen) \in 1 .. Len(seen))
  BY <1>1
<1> QED
  BY <1>2, <1>3 DEF S

(* A step the reader has left stays so, unless it comes back to the list.  *)
LEMMA GoneKept ==
  ASSUME load' = load, NEW s \in 1 .. NSteps, Gone(s),
         \A c \in Chunks : (Issued(c) => Issued(c)') /\ (Pending(c)' => Pending(c)),
         \A i \in 1 .. Len(list') : list'[i].step # s
  PROVE  Gone(s)'
<1>1. ChunksOf(s)' = ChunksOf(s) /\ ChunksOf(s) \subseteq Chunks
  BY SameChunks DEF Chunks
<1>2. \A c \in ChunksOf(s) : Issued(c)' /\ ~Pending(c)'
  BY <1>1 DEF Gone
<1> QED
  BY <1>1, <1>2 DEF Gone

(* The walk of icee_fileinfo_append passes the unlinked entry by: the      *)
(* reader has left its step.                                               *)
LEMMA AppendGrows ==
  ASSUME load \in Loads, FlowInv, NEW k \in Threads, HandlerAppend(k),
         NEW c0 \in Chunks, c0 = handler[k].chunk
  PROVE  old' = old /\ Grown(list, list', c0)
<1>0. FlowType /\ OnceInv /\ ListInv /\ ReaderInv
  BY DEF FlowInv
<1>1. list \in Seq(Entry) /\ old \in Seq(Entry) /\ Distinct(list)
  BY <1>0 DEF FlowType, ListInv, Distinct
<1>2. Handled(c0) /\ rpc # "undefined"
  BY DEF Handled, HandlerAppend
<1>3. CASE handler[k].root > removed \/ old = <<>>
  <2> DEFINE all == Merged(list, c0)
  <2>1. <<>> \o list = list
    BY <1>1
  <2>2. Len(<<>>) + 1 = 1
    OBVIOUS
  <2>3. old' = old /\ list' = SubSeq(all, 1, Len(all))
    BY <1>3, <2>1, <2>2 DEF HandlerAppend
  <2>4. Grown(list, all, c0)
    BY <1>1, MergedGrows
  <2>5. all \in Seq(Entry)
    BY <2>4 DEF Grown
  <2> HIDE DEF all
  <2>6. SubSeq(all, 1, Len(all)) = all
    BY <2>5
  <2> QED
    BY <2>3, <2>4, <2>6
<1>4. CASE ~(handler[k].root > removed \/ old = <<>>)
  <2> DEFINE all == Merged(old \o list, c0)
  <2>1. old' = SubSeq(all, 1, 1) /\ list' = SubSeq(all, Len(old) + 1, Len(all))
    BY <1>4 DEF HandlerAppend
  <2>2. rpc = "free" /\ old # <<>>
    BY <1>0, <1>2, <1>4 DEF ReaderInv
  <2>3. Len(old) = 1 /\ seen # <<>> /\ seen[Len(seen)] = old[1].step /\ LeftGone
    BY <1>0, <2>2 DEF ReaderInv
  <2>4. Gone(old[1].step)
    BY <1>0, <2>2, <2>3, SeenSteps DEF LeftGone
  <2>5. c0 \in ChunksOf(c0.step)
    BY ChunkFields
  <2>6. old[1].step # c0.step
    BY <1>2, <2>4, <2>5 DEF Gone, Pending
  <2>7. \A i \in 1 .. Len(list) : list[i].step # old[1].step
    BY <2>4 DEF Gone
  <2> DEFINE ol == old \o list
  <2>8. /\ ol \in Seq(Entry) /\ Len(ol) = Len(old) + Len(list) /\ Len(list) \in Nat
        /\ \A i \in 1 .. Len(old) : ol[i] = old[i]
        /\ \A i \in 1 .. Len(list) : ol[Len(old) + i] = list[i]
    <3>1. PICK S, o, l : S = Entry /\ o = old /\ l = list
      OBVIOUS
    <3>2. o \in Seq(S) /\ l \in Seq(S)
      BY <1>1, <3>1
    <3>3. /\ o \o l \in Seq(S) /\ Len(o \o l) = Len(o) + Len(l) /\ Len(l) \in Nat
          /\ \A i \in 1 .. Len(o) : (o \o l)[i] = o[i]
          /\ \A i \in 1 .. Len(l) : (o \o l)[Len(o) + i] = l[i]
      BY ONLY <3>2, ConcatFacts
    <3> QED
      BY <3>1, <3>3, Zenon
  <2> HIDE DEF ol
  <2>9. \A i \in 1 .. Len(ol) : i = 1 \/ (i - 1 \in 1 .. Len(list) /\ Len(old) + (i - 1) = i)
    BY <2>3, <2>8
  <2>10. ol[1] = old[1]
    BY <2>3, <2>8
  <2>11. \A i \in 1 .. Len(ol) : i = 1 \/ (i - 1 \in 1 .. Len(list) /\ ol[i] = list[i - 1])
    BY <2>8, <2>9
  <2>12. \A i, j \in 1 .. Len(ol) : i - 1 = j - 1 => i = j
    BY <2>8
  <2>13. Distinct(ol)
    <3> SUFFICES ASSUME NEW i \in 1 .. Len(ol), NEW j \in 1 .. Len(ol), ol[i].step = ol[j].step
                 PROVE  i = j
      BY DEF Distinct
    <3>1. CASE i = 1 \/ j = 1
      BY <2>7, <2>10, <2>11, <3>1
    <3>2. CASE i # 1 /\ j # 1
      <4>1. /\ i - 1 \in 1 .. Len(list) /\ ol[i] = list[i - 1]
            /\ j - 1 \in 1 .. Len(list) /\ ol[j] = list[j - 1]
        BY <2>11, <3>2
      <4>2. i - 1 = j - 1
        BY <1>1, <4>1 DEF Distinct
      <4> QED
        BY <2>12, <4>2
    <3> QED
      BY <3>1, <3>2
  <2>14. Grown(ol, Merged(ol, c0), c0)
    BY <2>8, <2>13, MergedGrows
  <2>15. Grown(old \o list, all, c0)
    BY <2>14 DEF ol
  <2> HIDE DEF all
  <2>16. SubSeq(all, 1, 1) = old /\ Grown(list, SubSeq(all, Len(old) + 1, Len(all)), c0)
    BY <1>1, <2>3, <2>6, <2>15, GrownBehind
  <2> QED
    BY <2>1, <2>16
<1> QED
  BY <1>3, <1>4

(* A communication thread appends its chunk.                               *)
LEMMA AppendStep ==
  ASSUME load \in Loads, FlowInv, NEW k \in Threads, HandlerAppend(k),
         \A c \in Chunks : Issued(c) => Issued(c)'
  PROVE  FlowType' /\ OnceInv' /\ ListInv' /\ ReaderInv'
<1>0. FlowType /\ OnceInv /\ ListInv /\ ReaderInv
  BY DEF FlowInv
<1>a. /\ load' = load /\ worker' = worker /\ chan' = chan /\ removed' = removed /\ rpc' = rpc
      /\ want' = want /\ got' = got /\ seen' = seen /\ rpc # "undefined"
      /\ handler[k].st = "locked"
  BY DEF HandlerAppend, poolVars
<1>1. Threads' = Threads /\ Chunks' = Chunks /\ Entry' = Entry
  BY <1>a, SameChunks
<1>2. PICK c0 \in Chunks : c0 = handler[k].chunk
  BY <1>0, <1>a DEF FlowType
<1>3. old' = old /\ Grown(list, list', c0)
  BY <1>2, AppendGrows
<1>4. WorkersOnce /\ ChansOnce /\ LockOnce /\ OnePlace(c0)
  BY <1>0 DEF OnceInv
<1>5. Handled(c0) /\ ~Submitting(c0) /\ ~UnderWay(c0) /\ ~InList(c0) /\ Issued(c0)
  BY <1>2, <1>4, <1>a DEF OnePlace, Handled
<1>6. list \in Seq(Entry) /\ Distinct(list) /\ \A i \in 1 .. Len(list) : GoodEntry(list[i])
  BY <1>0 DEF FlowType, ListInv, Distinct
<1>7. ~InEntries(c0, list)
  BY <1>5 DEF InList
<1>8. PICK m : m = list'
  OBVIOUS
<1>9. Grown(list, m, c0)
  BY <1>3, <1>8
<1>10. /\ Distinct(m)
       /\ \A i \in 1 .. Len(m) : GoodEntry(m[i])
       /\ \A x : InEntries(x, m) => InEntries(x, list) \/ x = c0
       /\ \A i \in 1 .. Len(m) : m[i].step = c0.step \/ (i \in 1 .. Len(list) /\ m[i] = list[i])
       /\ \A i \in 1 .. Len(list) : i \in 1 .. Len(m) /\ m[i].step = list[i].step
  <2>1. PICK l : l = list
    OBVIOUS
  <2>2. l \in Seq(Entry) /\ Distinct(l) /\ ~InEntries(c0, l) /\ Grown(l, m, c0)
        /\ \A i \in 1 .. Len(l) : GoodEntry(l[i])
    BY <1>6, <1>7, <1>9, <2>1
  <2>3. /\ Distinct(m)
        /\ \A i \in 1 .. Len(m) : GoodEntry(m[i])
        /\ \A x : InEntries(x, m) => InEntries(x, l) \/ x = c0
        /\ \A i \in 1 .. Len(m) : m[i].step = c0.step \/ (i \in 1 .. Len(l) /\ m[i] = l[i])
        /\ \A i \in 1 .. Len(l) : i \in 1 .. Len(m) /\ m[i].step = l[i].step
    BY ONLY <2>2, load \in Loads, c0 \in Chunks, GrownResult
  <2> QED
    BY <2>1, <2>3
<1>11. m \in Seq(Entry)
  BY <1>9 DEF Grown
<1>12. ListInv'
  BY <1>8, <1>10 DEF ListInv, Distinct, GoodEntry
<1>13. handler \in [Threads -> [st : {"idle", "locked"}, chunk : Chunks \cup {NoChunk}, root : Nat]]
  BY <1>0 DEF FlowType
<1>14. /\ handler' \in [Threads -> [st : {"idle", "locked"}, chunk : Chunks \cup {NoChunk}, root : Nat]]
       /\ \A j \in Threads : handler'[j].st = "idle"
  <2>1. handler' = [handler EXCEPT ![k] = [st |-> "idle", chunk |-> NoChunk, root |-> 0]]
    BY DEF HandlerAppend, Unlock
  <2>2. \A j \in Threads : j # k => handler[j].st = "idle"
    BY <1>4, <1>13, <1>a DEF LockOnce
  <2> QED
    BY <1>13, <2>1, <2>2
<1>15. FlowType'
  BY <1>0, <1>1, <1>3, <1>8, <1>11, <1>14, <1>a DEF FlowType
<1>16. \A c : /\ ~Handled(c)'
              /\ Submitting(c)' <=> Submitting(c)
              /\ UnderWay(c)' <=> UnderWay(c)
  BY <1>1, <1>14, <1>a DEF Handled, Submitting, UnderWay
<1>17. \A c : InList(c)' => InList(c) \/ c = c0
  <2>1. \A c : InEntries(c, list)' <=> InEntries(c, m)
    BY <1>8 DEF InEntries, InEntry
  <2>2. \A c : InEntries(c, old)' <=> InEntries(c, old)
    BY <1>3 DEF InEntries, InEntry
  <2> QED
    BY <1>10, <2>1, <2>2 DEF InList
<1>18. WorkersOnce' /\ ChansOnce' /\ LockOnce'
  BY <1>1, <1>4, <1>14, <1>a DEF WorkersOnce, ChansOnce, LockOnce
<1>19. \A c \in Chunks : OnePlace(c)'
  <2> SUFFICES ASSUME NEW c \in Chunks PROVE OnePlace(c)'
    OBVIOUS
  <2>1. OnePlace(c)
    BY <1>0 DEF OnceInv
  <2> QED
    BY <1>5, <1>16, <1>17, <2>1 DEF OnePlace
<1>20. OnceInv'
  BY <1>1, <1>18, <1>19 DEF OnceInv
<1>21. \A c \in Chunks : Pending(c)' => Pending(c)
  BY <1>16 DEF Pending
<1>22. ASSUME NEW s \in 1 .. NSteps, Gone(s) PROVE Gone(s)'
  <2>1. c0 \in ChunksOf(c0.step) /\ Pending(c0)
    BY <1>5, ChunkFields DEF Pending
  <2>2. c0.step # s
    BY <1>22, <2>1 DEF Gone
  <2>3. \A i \in 1 .. Len(list') : list'[i].step # s
    BY <1>8, <1>10, <1>22, <2>2 DEF Gone
  <2> QED
    BY <1>21, <1>22, <1>a, <2>3, GoneKept
<1>23. LeftGone'
  <2> SUFFICES ASSUME NEW i \in 1 .. Len(seen),
                      ~(rpc \in {"step", "read"} /\ i = Len(seen))
               PROVE  Gone(seen[i])'
    BY <1>a DEF LeftGone
  <2>1. PICK s \in 1 .. NSteps : s = seen[i]
    BY <1>0, SeenSteps
  <2>2. Gone(s)
    BY <1>0, <1>a, <2>1 DEF ReaderInv, LeftGone
  <2>3. Gone(s)'
    BY <1>22, <2>2
  <2> QED
    BY <1>a, <2>1, <2>3 DEF Gone
<1>24. list # <<>> => list' # <<>> /\ 1 \in 1 .. Len(list) /\ list'[1].step = list[1].step
  BY <1>6, <1>8, <1>10, <1>11
<1>25. ASSUME list # <<>>, Complete(list[1]) PROVE list'[1] = list[1]
  <2>1. 1 \in 1 .. Len(list) /\ list[1] \in Entry /\ GoodEntry(list[1])
    BY <1>6, <1>25
  <2>2. c0 \in ChunksOf(c0.step)
    BY ChunkFields
  <2>3. CASE list[1].step = c0.step
    <3>1. c0 \in ChunksOf(list[1].step)
      BY <2>2, <2>3
    <3>2. InEntry(c0, list[1])
      BY <1>25, <2>1, <3>1, CompleteHasAll
    <3> QED
      BY <1>7, <2>1, <3>2 DEF InEntries
  <2>4. CASE list[1].step # c0.step
    BY <1>8, <1>10, <2>1, <2>4
  <2> QED
    BY <2>3, <2>4
<1>26. \A v : Holders(v)' = Holders(v)
  BY <1>a DEF Holders
<1>27. ReaderInv'
  <2>1. rpc \in {"step", "read"} => (got # {} => Complete(list[1])')
    BY <1>0, <1>25 DEF ReaderInv, Complete
  <2>2. ReaderInv
    BY <1>0
  <2> QED
    BY <1>3, <1>23, <1>24, <1>26, <1>a, <2>1, <2>2 DEF ReaderInv
<1> QED
  BY <1>12, <1>15, <1>20, <1>27

(* A communication thread that reads a freed entry: the reader's state is  *)
(* undefined from here on.                                                 *)
LEMMA FreedStep ==
  ASSUME FlowInv, NEW k \in Threads, HandlerReadsFreed(k),
         \A c \in Chunks : Issued(c) => Issued(c)'
  PROVE  FlowType' /\ OnceInv' /\ ListInv' /\ ReaderInv'
<1>0. FlowType /\ OnceInv /\ ListInv /\ ReaderInv
  BY DEF FlowInv
<1>a. /\ load' = load /\ worker' = worker /\ chan' = chan /\ removed' = removed
      /\ list' = list /\ old' = old /\ want' = want /\ got' = got /\ seen' = seen
      /\ handler[k].st = "locked" /\ rpc' = "undefined"
  BY DEF HandlerReadsFreed, poolVars
<1>1. Threads' = Threads /\ Chunks' = Chunks /\ Entry' = Entry
  BY <1>a, SameChunks
<1>2. WorkersOnce /\ ChansOnce /\ LockOnce
  BY <1>0 DEF OnceInv
<1>3. handler \in [Threads -> [st : {"idle", "locked"}, chunk : Chunks \cup {NoChunk}, root : Nat]]
  BY <1>0 DEF FlowType
<1>4. /\ handler' \in [Threads -> [st : {"idle", "locked"}, chunk : Chunks \cup {NoChunk}, root : Nat]]
      /\ \A j \in Threads : handler'[j].st = "idle"
  <2>1. handler' = [handler EXCEPT ![k] = [st |-> "idle", chunk |-> NoChunk, root |-> 0]]
    BY DEF HandlerReadsFreed, Unlock
  <2>2. \A j \in Threads : j # k => handler[j].st = "idle"
    BY <1>2, <1>3, <1>a DEF LockOnce
  <2> QED
    BY <1>3, <2>1, <2>2
<1>5. FlowType'
  BY <1>0, <1>1, <1>4, <1>a DEF FlowType
<1>6. \A c : /\ ~Handled(c)'
             /\ Submitting(c)' <=> Submitting(c)
             /\ UnderWay(c)' <=> UnderWay(c)
             /\ InList(c)' <=> InList(c)
  BY <1>1, <1>4, <1>a DEF Handled, Submitting, UnderWay, InList, InEntries, InEntry
<1>7. WorkersOnce' /\ ChansOnce' /\ LockOnce'
  <2>1. WorkersOnce'
    BY <1>1, <1>2, <1>a DEF WorkersOnce
  <2>2. ChansOnce'
    BY <1>1, <1>2, <1>a DEF ChansOnce
  <2>3. LockOnce'
    BY <1>1, <1>4 DEF LockOnce
  <2> QED
    BY <2>1, <2>2, <2>3
<1>8. \A c \in Chunks : OnePlace(c)'
  BY <1>0, <1>6 DEF OnceInv, OnePlace
<1>9. OnceInv'
  BY <1>1, <1>7, <1>8 DEF OnceInv
<1>10. ListInv'
  BY <1>0, <1>a DEF ListInv, GoodEntry
<1>11. \A v : Holders(v)' = Holders(v)
  BY <1>a DEF Holders
<1>12. ReaderInv'
  BY <1>0, <1>11, <1>a DEF ReaderInv, LeftGone
<1> QED
  BY <1>5, <1>9, <1>10, <1>12

-----------------------------------------------------------------------------
(* The steps of the reading application.                                   *)

(* What none of them changes.                                              *)
LEMMA ReaderMoves ==
  ASSUME FlowInv, UNCHANGED <<load, writerVars, poolVars, chan, handler>>,
         list' \in Seq(Entry), old' \in Seq(Entry), removed' \in Nat, seen' \in Seq(1 .. NSteps),
         \A c \in Chunks : InList(c)' => InList(c)
  PROVE  /\ FlowType' /\ OnceInv'
         /\ \A c \in Chunks : (Issued(c) => Issued(c)') /\ (Pending(c)' => Pending(c))
<1>0. FlowType /\ OnceInv
  BY DEF FlowInv
<1>a. /\ load' = load /\ worker' = worker /\ chan' = chan /\ handler' = handler
      /\ timestep' = timestep /\ wpc' = wpc /\ nvars' = nvars /\ jobs' = jobs
  BY DEF writerVars, poolVars
<1>1. Threads' = Threads /\ Chunks' = Chunks /\ Entry' = Entry
  BY <1>a, SameChunks
<1>2. FlowType'
  BY <1>0, <1>1, <1>a DEF FlowType
<1>3. \A c : /\ Handled(c)' <=> Handled(c)
             /\ Submitting(c)' <=> Submitting(c)
             /\ UnderWay(c)' <=> UnderWay(c)
             /\ Issued(c)' <=> Issued(c)
  BY <1>1, <1>a DEF Handled, Submitting, UnderWay, Issued
<1>4. WorkersOnce' /\ ChansOnce' /\ LockOnce'
  BY <1>0, <1>1, <1>a DEF OnceInv, WorkersOnce, ChansOnce, LockOnce
<1>5. \A c \in Chunks : OnePlace(c)'
  BY <1>0, <1>3 DEF OnceInv, OnePlace
<1>6. OnceInv'
  BY <1>1, <1>4, <1>5 DEF OnceInv
<1>7. \A c \in Chunks : (Issued(c) => Issued(c)') /\ (Pending(c)' => Pending(c))
  BY <1>3 DEF Pending
<1> QED
  BY <1>2, <1>6, <1>7

(* The first entry of the list.                                            *)
LEMMA FirstEntry ==
  ASSUME FlowInv, list # <<>>
  PROVE  /\ Head(list) = list[1] /\ list[1] \in Entry /\ GoodEntry(list[1])
         /\ list[1].step \in 1 .. NSteps /\ 1 \in 1 .. Len(list)
<1>1. list \in Seq(Entry) /\ ListInv
  BY DEF FlowInv, FlowType
<1>2. Head(list) = list[1] /\ list[1] \in Entry /\ 1 \in 1 .. Len(list)
  BY <1>1
<1> QED
  BY <1>1, <1>2 DEF ListInv, Entry

(* Steps that leave the list alone.                                        *)
LEMMA ListUntouched ==
  ASSUME FlowInv, UNCHANGED <<load, writerVars, poolVars, chan, handler>>,
         UNCHANGED <<list, old, removed>>, seen' \in Seq(1 .. NSteps)
  PROVE  /\ FlowType' /\ OnceInv' /\ ListInv'
         /\ \A s \in 1 .. NSteps : Gone(s) => Gone(s)'
<1>0. FlowType /\ ListInv /\ list \in Seq(Entry) /\ old \in Seq(Entry) /\ removed \in Nat
  BY DEF FlowInv, FlowType
<1>1. \A c \in Chunks : InList(c)' => InList(c)
  BY DEF InList, InEntries, InEntry
<1>2. /\ FlowType' /\ OnceInv'
      /\ \A c \in Chunks : (Issued(c) => Issued(c)') /\ (Pending(c)' => Pending(c))
  BY <1>0, <1>1, ReaderMoves
<1>3. ListInv'
  BY <1>0 DEF ListInv, GoodEntry
<1>4. ASSUME NEW s \in 1 .. NSteps, Gone(s) PROVE Gone(s)'
  <2>1. \A i \in 1 .. Len(list') : list'[i].step # s
    BY <1>4 DEF Gone
  <2> QED
    BY <1>2, <1>4, <2>1, GoneKept
<1> QED
  BY <1>2, <1>3, <1>4

(* The calls that open the stream and read from the step.                  *)
LEMMA ReadStep ==
  ASSUME load \in Loads, FlowInv,
         \/ ReadOpen \/ OpenMerged \/ CopyRead \/ \E v \in Vars : ScheduleRead(v)
  PROVE  FlowType' /\ OnceInv' /\ ListInv' /\ ReaderInv'
<1>0. ReaderInv /\ FlowType /\ seen \in Seq(1 .. NSteps)
  BY DEF FlowInv, FlowType
<1>a. /\ UNCHANGED <<load, writerVars, poolVars, chan, handler>>
      /\ UNCHANGED <<list, old, removed>>
  BY DEF ReadOpen, OpenMerged, CopyRead, ScheduleRead
<1>b. rpc # "open" /\ rpc \in {"merge", "step", "read"} =>
        /\ Head(list) = list[1] /\ list[1] \in Entry /\ GoodEntry(list[1])
        /\ list[1].step \in 1 .. NSteps /\ list # <<>>
  BY <1>0, FirstEntry DEF ReaderInv
<1>1. seen' \in Seq(1 .. NSteps)
  <2>1. CASE OpenMerged
    <3>1. seen' = <<list[1].step>> /\ list[1].step \in 1 .. NSteps
      BY <1>b, <2>1 DEF OpenMerged
    <3>2. PICK s, S : s = list[1].step /\ S = 1 .. NSteps
      OBVIOUS
    <3>3. s \in S => <<s>> \in Seq(S)
      OBVIOUS
    <3> QED
      BY <3>1, <3>2, <3>3
  <2>2. CASE ReadOpen \/ CopyRead \/ \E v \in Vars : ScheduleRead(v)
    <3>1. seen' = seen
      BY <2>2 DEF ReadOpen, CopyRead, ScheduleRead
    <3> QED
      BY <1>0, <3>1
  <2> QED
    BY <2>1, <2>2
<1>2. /\ FlowType' /\ OnceInv' /\ ListInv'
      /\ \A s \in 1 .. NSteps : Gone(s) => Gone(s)'
  BY <1>1, <1>a, ListUntouched
<1>3. \A v : Holders(v)' = Holders(v)
  BY <1>a DEF Holders
<1>4. CASE ReadOpen
  <2>1. /\ rpc = "open" /\ rpc' = "merge" /\ list # <<>> /\ seen = <<>> /\ got = {} /\ old = <<>>
        /\ UNCHANGED <<list, old, want, got, seen>>
    BY <1>0, <1>4 DEF ReadOpen, ReaderInv
  <2>2. 1 .. Len(seen) = {}
    BY <2>1
  <2>3. LeftGone'
    BY <2>1, <2>2 DEF LeftGone
  <2>4. ReaderInv'
    BY <2>1, <2>3 DEF ReaderInv
  <2> QED
    BY <1>2, <2>4
<1>5. CASE OpenMerged
  <2>1. /\ rpc = "merge" /\ rpc' = "step" /\ list # <<>> /\ got = {} /\ old = <<>>
        /\ UNCHANGED <<list, old, want, got>> /\ seen' = <<list[1].step>>
    BY <1>0, <1>5, <1>b DEF OpenMerged, ReaderInv
  <2>2. Len(seen') = 1 /\ seen'[1] = list[1].step /\ \A i \in 1 .. 1 : i = 1
    BY <2>1
  <2>3. LeftGone'
    BY <2>1, <2>2 DEF LeftGone
  <2>4. ReaderInv'
    BY <2>1, <2>2, <2>3 DEF ReaderInv
  <2> QED
    BY <1>2, <2>4
<1>6. ASSUME UNCHANGED seen, rpc \in {"step", "read"}, rpc' \in {"step", "read"}
      PROVE  LeftGone'
  <2> SUFFICES ASSUME NEW i \in 1 .. Len(seen), i # Len(seen)
               PROVE  Gone(seen[i])'
    BY <1>6 DEF LeftGone
  <2>1. PICK s \in 1 .. NSteps : s = seen[i]
    BY <1>0, SeenSteps
  <2>2. Gone(s)
    BY <1>0, <1>6, <2>1 DEF ReaderInv, LeftGone
  <2>3. Gone(s)'
    BY <1>2, <2>2
  <2> QED
    BY <1>6, <2>1, <2>3 DEF Gone
<1>7. ASSUME NEW v \in Vars, ScheduleRead(v) PROVE FlowType' /\ OnceInv' /\ ListInv' /\ ReaderInv'
  <2>1. /\ rpc = "step" /\ rpc' = "read" /\ want' = v /\ list # <<>> /\ old = <<>>
        /\ UNCHANGED <<list, old, got, seen>>
    BY <1>0, <1>7 DEF ScheduleRead, ReaderInv
  <2>2. v \in Nat \ {0}
    <3>1. \A i, j : i \in 1 .. j => i \in Nat \ {0}
      OBVIOUS
    <3> QED
      BY <3>1 DEF Vars
  <2>3. LeftGone'
    BY <1>6, <2>1
  <2>4. ReaderInv'
    BY <1>0, <1>3, <2>1, <2>2, <2>3 DEF ReaderInv, Complete
  <2> QED
    BY <1>2, <2>4
<1>8. CASE CopyRead
  <2>1. /\ rpc = "read" /\ rpc' = "step" /\ list # <<>> /\ old = <<>> /\ want \in Nat \ {0}
        /\ UNCHANGED <<list, old, want, seen>> /\ Complete(list[1])
        /\ seen # <<>> /\ seen[Len(seen)] = list[1].step
    BY <1>0, <1>8, <1>b DEF CopyRead, ReaderInv
  <2>2. Blocks(list[1], want) = Holders(want)
    BY <1>b, <2>1, CompleteHasBlocks
  <2>3. got' = got \cup {[var |-> want, step |-> list[1].step, blocks |-> Holders(want)]}
    BY <1>8, <1>b, <2>1, <2>2 DEF CopyRead
  <2>4. \A g \in got' : g.blocks = Holders(g.var) /\ g.step = seen[Len(seen)]
    BY <1>0, <2>1, <2>3 DEF ReaderInv
  <2>5. LeftGone'
    BY <1>6, <2>1
  <2>6. ReaderInv'
    BY <1>3, <2>1, <2>4, <2>5 DEF ReaderInv, Complete
  <2> QED
    BY <1>2, <2>6
<1> QED
  BY <1>4, <1>5, <1>7, <1>8

(* The reader goes on to the next entry: it leaves a complete one.         *)
LEMMA AdvanceGone ==
  ASSUME load \in Loads, FlowInv, AdvanceStep
  PROVE  FlowType' /\ OnceInv' /\ ListInv' /\ ReaderInv'
<1>0. ReaderInv /\ FlowType /\ OnceInv /\ ListInv /\ seen \in Seq(1 .. NSteps) /\ list \in Seq(Entry)
  BY DEF FlowInv, FlowType
<1>a. /\ UNCHANGED <<load, writerVars, poolVars, chan, handler>>
      /\ rpc = "step" /\ rpc' = "free" /\ removed' = removed + 1
      /\ UNCHANGED <<want, got, seen>> /\ got # {} /\ Len(list) > 1
      /\ list' = Tail(list) /\ old' = <<Head(list)>>
  BY DEF AdvanceStep
<1>b. /\ list # <<>> /\ seen # <<>> /\ seen[Len(seen)] = list[1].step /\ Complete(list[1])
  BY <1>0, <1>a DEF ReaderInv
<1>c. /\ Head(list) = list[1] /\ list[1] \in Entry /\ GoodEntry(list[1])
      /\ list[1].step \in 1 .. NSteps /\ 1 \in 1 .. Len(list)
  BY <1>b, FirstEntry
<1>1. /\ list' \in Seq(Entry) /\ Len(list') = Len(list) - 1 /\ Len(list) \in Nat
      /\ \A i \in 1 .. Len(list') : i + 1 \in 1 .. Len(list) /\ list'[i] = list[i + 1]
  <2>1. PICK S, l, t : S = Entry /\ l = list /\ t = list'
    OBVIOUS
  <2>2. l \in Seq(S) /\ Len(l) > 1 /\ t = Tail(l)
    BY <1>0, <1>a, <2>1
  <2>3. /\ t \in Seq(S) /\ Len(t) = Len(l) - 1 /\ Len(l) \in Nat
        /\ \A i \in 1 .. Len(t) : i + 1 \in 1 .. Len(l) /\ t[i] = l[i + 1]
    BY ONLY <2>2
  <2> QED
    BY <2>1, <2>3, Zenon
<1>2. /\ old' \in Seq(Entry) /\ Len(old') = 1 /\ old'[1] = list[1] /\ removed' \in Nat
  <2>1. removed \in Nat
    BY <1>0 DEF FlowType
  <2>2. PICK e, S : e = list[1] /\ S = Entry
    OBVIOUS
  <2>3. e \in S => <<e>> \in Seq(S) /\ Len(<<e>>) = 1 /\ <<e>>[1] = e
    OBVIOUS
  <2>4. old' = <<e>> /\ e \in S
    BY <1>a, <1>c, <2>2
  <2> QED
    BY <1>a, <2>1, <2>2, <2>3, <2>4
<1>3. ASSUME NEW c, InList(c)' PROVE InList(c)
  <2>1. CASE InEntries(c, list)'
    <3>1. PICK i \in 1 .. Len(list') : InEntry(c, list[i])'
      BY <2>1 DEF InEntries, InEntry
    <3>2. InEntry(c, list[i + 1]) /\ i + 1 \in 1 .. Len(list)
      BY <1>1, <3>1 DEF InEntry
    <3> QED
      BY <3>2 DEF InList, InEntries
  <2>2. CASE InEntries(c, old)'
    <3>1. InEntry(c, list[1])
      <4>1. PICK i \in 1 .. Len(old') : InEntry(c, old[i])'
        BY <2>2 DEF InEntries, InEntry
      <4>2. i = 1
        BY <1>2
      <4> QED
        BY <1>2, <4>1, <4>2 DEF InEntry
    <3> QED
      BY <1>c, <3>1 DEF InList, InEntries
  <2> QED
    BY <1>3, <2>1, <2>2 DEF InList
<1>4. /\ FlowType' /\ OnceInv'
      /\ \A c \in Chunks : (Issued(c) => Issued(c)') /\ (Pending(c)' => Pending(c))
  BY <1>0, <1>1, <1>2, <1>3, <1>a, ReaderMoves
<1>5. ListInv'
  <2>1. ASSUME NEW i \in 1 .. Len(list') PROVE GoodEntry(list[i])'
    <3>1. GoodEntry(list[i + 1]) /\ list'[i] = list[i + 1]
      BY <1>0, <1>1 DEF ListInv
    <3> QED
      BY ONLY <3>1 DEF GoodEntry
  <2>2. ASSUME NEW i \in 1 .. Len(list'), NEW j \in 1 .. Len(list'),
               list'[i].step = list'[j].step
        PROVE  i = j
    <3>1. list[i + 1].step = list[j + 1].step
      BY <1>1, <2>2
    <3>2. i + 1 = j + 1
      BY <1>0, <1>1, <3>1 DEF ListInv
    <3> QED
      BY <1>1, <3>2
  <2> QED
    BY <2>1, <2>2 DEF ListInv
<1>6. PICK s1 \in 1 .. NSteps : s1 = list[1].step
  BY <1>c
<1>7. Gone(s1)'
  <2>1. ChunksOf(s1)' = ChunksOf(s1) /\ ChunksOf(s1) \subseteq Chunks
    BY <1>a, SameChunks DEF Chunks
  <2>2. \A c \in ChunksOf(s1) : Issued(c)' /\ ~Pending(c)'
    <3> SUFFICES ASSUME NEW c \in ChunksOf(s1) PROVE Issued(c)' /\ ~Pending(c)'
      OBVIOUS
    <3>1. c \in Chunks /\ InEntry(c, list[1])
      BY <1>6, <1>b, <1>c, <2>1, CompleteHasAll
    <3>2. InList(c) /\ OnePlace(c)
      BY <1>0, <1>c, <3>1 DEF InList, InEntries, OnceInv
    <3>3. Issued(c) /\ ~Pending(c)
      BY <3>2 DEF OnePlace, Pending
    <3> QED
      BY <1>4, <3>1, <3>3
  <2>3. \A i \in 1 .. Len(list') : list'[i].step # s1
    <3> SUFFICES ASSUME NEW i \in 1 .. Len(list') PROVE list'[i].step # s1
      OBVIOUS
    <3>1. i + 1 \in 1 .. Len(list) /\ i + 1 # 1 /\ list'[i] = list[i + 1]
      BY <1>1
    <3> QED
      BY <1>0, <1>6, <1>c, <3>1 DEF ListInv
  <2> QED
    BY <2>1, <2>2, <2>3 DEF Gone
<1>8. LeftGone'
  <2> SUFFICES ASSUME NEW i \in 1 .. Len(seen) PROVE Gone(seen[i])'
    BY <1>a DEF LeftGone
  <2>1. PICK s \in 1 .. NSteps : s = seen[i]
    BY <1>0, SeenSteps
  <2>2. CASE i = Len(seen)
    <3>1. s = s1
      BY <1>6, <1>b, <2>1, <2>2
    <3> QED
      BY <1>7, <1>a, <2>1, <3>1 DEF Gone
  <2>3. CASE i # Len(seen)
    <3>1. Gone(s)
      BY <1>0, <1>a, <2>1, <2>3 DEF ReaderInv, LeftGone
    <3>2. \A j \in 1 .. Len(list') : list'[j].step # s
      BY <1>1, <3>1 DEF Gone
    <3>3. Gone(s)'
      BY <1>4, <1>a, <3>1, <3>2, GoneKept
    <3> QED
      BY <1>a, <2>1, <3>3 DEF Gone
  <2> QED
    BY <2>2, <2>3
<1>9. \A v : Holders(v)' = Holders(v)
  BY <1>a DEF Holders
<1>10. list' # <<>>
  <2>1. Len(list') # 0
    BY <1>1, <1>a
  <2> QED
    BY <1>1, <2>1
<1>11. ReaderInv'
  BY <1>0, <1>2, <1>8, <1>9, <1>10, <1>a, <1>b DEF ReaderInv
<1> QED
  BY <1>4, <1>5, <1>11

(* It frees the entry it has left and is at the next one.                  *)
LEMMA FreeStep ==
  ASSUME load \in Loads, FlowInv, FileinfoFree
  PROVE  FlowType' /\ OnceInv' /\ ListInv' /\ ReaderInv'
<1>0. ReaderInv /\ FlowType /\ OnceInv /\ ListInv /\ seen \in Seq(1 .. NSteps)
      /\ list \in Seq(Entry) /\ removed \in Nat
  BY DEF FlowInv, FlowType
<1>a. /\ UNCHANGED <<load, writerVars, poolVars, chan, handler>>
      /\ rpc = "free" /\ rpc' = "step" /\ UNCHANGED <<list, removed, want>>
      /\ old' = <<>> /\ got' = {} /\ seen' = Append(seen, Head(list).step)
  BY DEF FileinfoFree
<1>b. list # <<>>
  BY <1>0, <1>a DEF ReaderInv
<1>c. /\ Head(list) = list[1] /\ list[1].step \in 1 .. NSteps
  BY <1>b, FirstEntry
<1>1. /\ seen' \in Seq(1 .. NSteps) /\ Len(seen') = Len(seen) + 1 /\ Len(seen) \in Nat
      /\ seen'[Len(seen')] = list[1].step /\ seen' # <<>>
      /\ \A i \in 1 .. Len(seen) : seen'[i] = seen[i]
      /\ \A i \in 1 .. Len(seen') : i \in 1 .. Len(seen) \/ i = Len(seen')
  <2>1. PICK S, q, s : S = 1 .. NSteps /\ q = seen /\ s = list[1].step
    OBVIOUS
  <2>2. q \in Seq(S) /\ s \in S /\ seen' = Append(q, s)
    BY <1>0, <1>a, <1>c, <2>1
  <2>3. PICK p : p = Append(q, s)
    OBVIOUS
  <2>4. /\ p \in Seq(S) /\ Len(p) = Len(q) + 1 /\ Len(q) \in Nat /\ p[Len(q) + 1] = s
        /\ \A i \in 1 .. Len(q) : p[i] = q[i]
    BY ONLY <2>2, <2>3
  <2>5. /\ p # <<>> /\ \A i \in 1 .. Len(p) : i \in 1 .. Len(q) \/ i = Len(p)
    BY ONLY <2>4
  <2> QED
    BY <2>1, <2>2, <2>3, <2>4, <2>5, Zenon
<1>2. old' \in Seq(Entry)
  BY <1>a
<1>3. ASSUME NEW c, InList(c)' PROVE InList(c)
  <2>1. Len(old') = 0 /\ 1 .. 0 = {}
    BY <1>a
  <2> QED
    BY <1>3, <1>a, <2>1 DEF InList, InEntries, InEntry
<1>4. /\ FlowType' /\ OnceInv'
      /\ \A c \in Chunks : (Issued(c) => Issued(c)') /\ (Pending(c)' => Pending(c))
  BY <1>0, <1>1, <1>2, <1>3, <1>a, ReaderMoves
<1>5. ListInv'
  BY <1>0, <1>a DEF ListInv, GoodEntry
<1>6. LeftGone'
  <2> SUFFICES ASSUME NEW i \in 1 .. Len(seen'), i # Len(seen') PROVE Gone(seen[i])'
    BY <1>a DEF LeftGone
  <2>1. i \in 1 .. Len(seen) /\ seen'[i] = seen[i]
    BY <1>1
  <2>2. PICK s \in 1 .. NSteps : s = seen[i]
    BY <1>0, <2>1, SeenSteps
  <2>3. Gone(s)
    BY <1>0, <1>a, <2>1, <2>2 DEF ReaderInv, LeftGone
  <2>4. \A j \in 1 .. Len(list') : list'[j].step # s
    BY <1>a, <2>3 DEF Gone
  <2>5. Gone(s)'
    BY <1>4, <1>a, <2>3, <2>4, GoneKept
  <2> QED
    BY <2>1, <2>2, <2>5 DEF Gone
<1>7. ReaderInv'
  BY <1>1, <1>6, <1>a, <1>b DEF ReaderInv
<1> QED
  BY <1>4, <1>5, <1>7

-----------------------------------------------------------------------------
(* All steps together.                                                     *)

(* thr_pool_queue wakes or creates a thread that has no job.               *)
LEMMA SignalledJobs ==
  ASSUME Inv, NEW w \in Writers, NEW threads \in Signalled(w), NEW k \in Threads
  PROVE  /\ threads[k].st = "job" <=> worker[w][k].st = "job"
         /\ threads[k].job = worker[w][k].job
<1>1. worker[w] \in [Threads -> [st : States, job : Chunk]]
  BY DEF Inv, PoolType
<1>2. ASSUME NEW j \in Threads, worker[w][j].st \in {"blocked", "none"}, NEW st, st # "job",
             threads = [worker[w] EXCEPT ![j].st = st]
      PROVE  /\ threads[k].st = "job" <=> worker[w][k].st = "job"
             /\ threads[k].job = worker[w][k].job
  BY <1>1, <1>2
<1>3. CASE IdleThreads(w) # {} /\ InState(w, {"blocked"}) # {}
  <2>1. threads \in {[worker[w] EXCEPT ![j].st = "woken"] : j \in InState(w, {"blocked"})}
    BY <1>3 DEF Signalled
  <2>2. PICK j \in InState(w, {"blocked"}) : threads = [worker[w] EXCEPT ![j].st = "woken"]
    BY <2>1
  <2>3. j \in Threads /\ worker[w][j].st \in {"blocked", "none"}
    BY DEF InState
  <2> QED
    BY <1>2, <2>2, <2>3
<1>4. CASE IdleThreads(w) = {} /\ InState(w, {"none"}) # {}
  <2> DEFINE j == Min(InState(w, {"none"}))
  <2>1. threads = [worker[w] EXCEPT ![j].st = "start"]
    BY <1>4 DEF Signalled
  <2>2. InState(w, {"none"}) \subseteq Nat
    BY DEF InState, Threads
  <2>3. \E x \in InState(w, {"none"}) : \A y \in InState(w, {"none"}) : x <= y
    <3>1. PICK P : P = InState(w, {"none"})
      OBVIOUS
    <3>2. \E x \in P : \A y \in P : x <= y
      BY <1>4, <2>2, <3>1, LeastNumber
    <3> QED
      BY <3>1, <3>2
  <2>4. j \in InState(w, {"none"})
    BY <2>3 DEF Min
  <2>5. j \in Threads /\ worker[w][j].st \in {"blocked", "none"}
    BY <2>4 DEF InState
  <2> HIDE DEF j
  <2> QED
    BY <1>2, <2>1, <2>5
<1>5. CASE /\ ~(IdleThreads(w) # {} /\ InState(w, {"blocked"}) # {})
           /\ ~(IdleThreads(w) = {} /\ InState(w, {"none"}) # {})
  BY <1>5 DEF Signalled
<1> QED
  BY <1>3, <1>4, <1>5

(* What holds for every writer holds for every chunk.                      *)
LEMMA AllOnward ==
  ASSUME load \in Loads, load' = load, \A w \in Writers : Onward(w)
  PROVE  JobsInv' /\ \A c \in Chunks : Issued(c) => Issued(c)'
<1>1. JobsInv'
  BY DEF JobsInv, Onward
<1>2. ASSUME NEW c \in Chunks, Issued(c) PROVE Issued(c)'
  <2>1. c.w \in Writers
    BY ChunkFields
  <2>2. Onward(c.w)
    BY <2>1
  <2> QED
    BY <1>2, <2>2 DEF Onward
<1> QED
  BY <1>1, <1>2

(* Steps of other parts leave the writers alone.                           *)
LEMMA WritersSame ==
  ASSUME Inv, FlowInv, UNCHANGED <<load, wpc, timestep, nvars, jobs>>
  PROVE  JobsInv' /\ \A c \in Chunks : Issued(c) => Issued(c)'
<1>1. JobsInv /\ load \in Loads
  BY DEF FlowInv, Inv, PoolType
<1>2. \A w \in Writers : Onward(w)
  BY <1>1, OnwardSame
<1> QED
  BY <1>1, <1>2, AllOnward

(* The steps of a writer.                                                  *)
LEMMA WriterFlow ==
  ASSUME Inv, FlowInv, NEW w \in Writers, WriterNext(w)
  PROVE  FlowInv'
<1>1. JobsInv /\ load \in Loads /\ JobsOf(w)
  BY DEF FlowInv, Inv, PoolType, JobsInv
<1>t. /\ wpc \in [Writers -> Positions] /\ timestep \in [Writers -> Nat]
      /\ nvars \in [Writers -> Nat] /\ jobs \in [Writers -> Seq(Chunk)]
      /\ worker \in [Writers -> [Threads -> [st : States, job : Chunk]]]
  BY DEF Inv, PoolType
<1>a. load' = load /\ handler' = handler /\ UNCHANGED readerVars
  BY DEF WriterNext, Open, Write, CloseSubmit, CloseReduce, ThrPoolQueue, ThrPoolWait
<1>2. Onward(w)
  <2>1. CASE Open(w) \/ Write(w) \/ CloseSubmit(w) \/ CloseReduce(w)
    BY <1>1, <2>1, OnwardApplication
  <2>2. CASE ThrPoolQueue(w)
    BY <1>1, <2>2, OnwardQueue
  <2>3. CASE ThrPoolWait(w)
    <3>1. /\ timestep' = timestep /\ nvars' = nvars /\ jobs' = jobs /\ wpc[w] = "queue"
          /\ wpc'[w] \in {"open", "waiting"}
      BY <1>t, <2>3 DEF ThrPoolWait
    <3> QED
      BY <1>1, <1>a, <3>1, OnwardWait
  <2> QED
    BY <2>1, <2>2, <2>3 DEF WriterNext
<1>3. ASSUME NEW v \in Writers, v # w PROVE Onward(v)
  <2>1. /\ timestep'[v] = timestep[v] /\ nvars'[v] = nvars[v] /\ jobs'[v] = jobs[v]
        /\ wpc'[v] = wpc[v]
    BY <1>3, <1>t DEF WriterNext, Open, Write, CloseSubmit, CloseReduce, ThrPoolQueue, ThrPoolWait,
                      poolVars
  <2> QED
    BY <1>1, <1>a, <2>1, OnwardSame
<1>4. JobsInv' /\ \A c \in Chunks : Issued(c) => Issued(c)'
  BY <1>1, <1>2, <1>3, <1>a, AllOnward
<1>5. CASE CloseSubmit(w)
  <2>1. /\ wpc[w] = "write" /\ load.parallel = 1 /\ worker' = worker /\ timestep' = timestep
        /\ wpc'[w] = "open"
    BY <1>5, <1>t DEF CloseSubmit, poolVars
  <2>2. timestep[w] \in 1 .. NSteps
    <3>1. timestep[w] \in Nat /\ timestep[w] >= 1 /\ timestep[w] <= NSteps
      BY <1>1, <1>t, <2>1 DEF JobsOf
    <3>2. NSteps \in Nat
      BY IceeAssumption
    <3> QED
      BY <3>1, <3>2
  <2>3. PICK c0 \in Chunks : c0 = StepChunk(w, timestep[w]) /\ c0.w = w /\ c0.step = timestep[w]
    BY <2>1, <2>2, StepChunkIs
  <2>4. ~Issued(c0)
    BY <2>1, <2>3 DEF Issued
  <2>5. Issued(c0)'
    <3>1. timestep[w] <= timestep[w]
      BY <2>2
    <3> QED
      BY <1>a, <2>1, <2>3, <3>1 DEF Issued
  <2>6. chan' = [chan EXCEPT ![w][1] = Append(@, c0)]
    BY <1>5, <2>3 DEF CloseSubmit, StepChunk
  <2>7. 1 \in Threads
    BY <2>1 DEF Threads
  <2>8. FlowType' /\ OnceInv' /\ ListInv' /\ ReaderInv'
    BY <1>4, <1>a, <2>1, <2>4, <2>5, <2>6, <2>7, SubmitStep
  <2> QED
    BY <1>4, <2>8 DEF FlowInv
<1>6. CASE Open(w) \/ Write(w) \/ CloseReduce(w) \/ ThrPoolQueue(w) \/ ThrPoolWait(w)
  <2>1. chan' = chan
    BY <1>6 DEF Open, Write, CloseReduce, ThrPoolQueue, ThrPoolWait
  <2>2. \A v \in Writers, k \in Threads :
           /\ worker'[v][k].st = "job" <=> worker[v][k].st = "job"
           /\ worker[v][k].st = "job" => worker'[v][k].job = worker[v][k].job
    <3>1. CASE ThrPoolQueue(w)
      <4>1. PICK threads \in Signalled(w) : worker' = [worker EXCEPT ![w] = threads]
        BY <3>1 DEF ThrPoolQueue
      <4>2. \A k \in Threads : /\ threads[k].st = "job" <=> worker[w][k].st = "job"
                               /\ threads[k].job = worker[w][k].job
        BY SignalledJobs
      <4>3. worker'[w] = threads /\ \A v \in Writers : v # w => worker'[v] = worker[v]
        BY <1>t, <4>1
      <4> QED
        BY <4>2, <4>3
    <3>2. CASE Open(w) \/ Write(w) \/ CloseReduce(w) \/ ThrPoolWait(w)
      <4>1. worker' = worker
        BY <3>2 DEF Open, Write, CloseReduce, ThrPoolWait, poolVars
      <4> QED
        BY <4>1
    <3> QED
      BY <1>6, <3>1, <3>2
  <2>3. FlowType' /\ OnceInv' /\ ListInv' /\ ReaderInv'
    BY <1>4, <1>a, <2>1, <2>2, SteadyStep
  <2> QED
    BY <1>4, <2>3 DEF FlowInv
<1> QED
  BY <1>5, <1>6 DEF WriterNext

(* The steps of a thread of the pool, and the wakeups without a signal.    *)
LEMMA PoolFlow ==
  ASSUME Inv, FlowInv, NEW w \in Writers,
         SpuriousWakeup(w) \/ \E k \in Threads : WorkerNext(w, k)
  PROVE  FlowInv'
<1>1. JobsInv /\ load \in Loads
  BY DEF FlowInv, Inv, PoolType
<1>t. /\ wpc \in [Writers -> Positions] /\ jobs \in [Writers -> Seq(Chunk)]
      /\ worker \in [Writers -> [Threads -> [st : States, job : Chunk]]]
  BY DEF Inv, PoolType
<1>a. /\ load' = load /\ handler' = handler /\ UNCHANGED readerVars
      /\ timestep' = timestep /\ nvars' = nvars
  BY DEF SpuriousWakeup, WorkerNext, WorkerTakesJob, WorkerWaits, Dosubmit, writerVars
<1>2. ASSUME NEW v \in Writers, v # w PROVE Onward(v)
  <2>1. jobs'[v] = jobs[v] /\ wpc'[v] = wpc[v]
    BY <1>2, <1>t DEF SpuriousWakeup, WorkerNext, WorkerTakesJob, WorkerWaits, Dosubmit, writerVars
  <2> QED
    BY <1>1, <1>a, <2>1, OnwardSame
<1>3. ASSUME jobs' = jobs,
             wpc'[w] = wpc[w] \/ (wpc[w] = "waiting" /\ wpc'[w] = "queue")
      PROVE  JobsInv' /\ \A c \in Chunks : Issued(c) => Issued(c)'
  <2>1. CASE wpc'[w] = wpc[w]
    <3>1. Onward(w)
      BY <1>1, <1>3, <1>a, <2>1, OnwardSame
    <3> QED
      BY <1>1, <1>2, <1>a, <3>1, AllOnward
  <2>2. CASE wpc[w] = "waiting" /\ wpc'[w] = "queue"
    <3>1. Onward(w)
      BY <1>1, <1>3, <1>a, <2>2, OnwardWait
    <3> QED
      BY <1>1, <1>2, <1>a, <3>1, AllOnward
  <2> QED
    BY <1>3, <2>1, <2>2
<1>4. ASSUME NEW k \in Threads, WorkerTakesJob(w, k) PROVE FlowInv'
  <2>1. Onward(w) /\ \E c \in Chunks : c = Head(jobs[w]) /\ ~Issued(c) /\ Issued(c)'
    BY <1>1, <1>4, OnwardTake
  <2>2. JobsInv' /\ \A c \in Chunks : Issued(c) => Issued(c)'
    BY <1>1, <1>2, <1>a, <2>1, AllOnward
  <2>3. PICK c0 \in Chunks : c0 = Head(jobs[w]) /\ ~Issued(c0) /\ Issued(c0)'
    BY <2>1
  <2>4. /\ worker'[w][k] = [st |-> "job", job |-> c0]
        /\ \A v \in Writers, j \in Threads : v # w \/ j # k => worker'[v][j] = worker[v][j]
        /\ worker[w][k].st # "job" /\ chan' = chan
    BY <1>4, <1>t, <2>3 DEF WorkerTakesJob, EntersLoop
  <2>5. FlowType' /\ OnceInv' /\ ListInv' /\ ReaderInv'
    BY <1>a, <2>2, <2>3, <2>4, TakeStep
  <2> QED
    BY <2>2, <2>5 DEF FlowInv
<1>5. ASSUME NEW k \in Threads, Dosubmit(w, k) PROVE FlowInv'
  <2>1. jobs' = jobs /\ wpc' = wpc
    BY <1>5 DEF Dosubmit, writerVars
  <2>2. JobsInv' /\ \A c \in Chunks : Issued(c) => Issued(c)'
    BY <1>3, <2>1
  <2>3. FlowType' /\ OnceInv' /\ ListInv' /\ ReaderInv'
    BY <1>5, <2>2, DosubmitStep
  <2> QED
    BY <2>2, <2>3 DEF FlowInv
<1>6. ASSUME chan' = chan, jobs' = jobs,
             wpc'[w] = wpc[w] \/ (wpc[w] = "waiting" /\ wpc'[w] = "queue"),
             \A v \in Writers, k \in Threads :
               /\ worker'[v][k].st = "job" <=> worker[v][k].st = "job"
               /\ worker[v][k].st = "job" => worker'[v][k].job = worker[v][k].job
      PROVE  FlowInv'
  <2>1. JobsInv' /\ \A c \in Chunks : Issued(c) => Issued(c)'
    BY <1>3, <1>6
  <2>2. FlowType' /\ OnceInv' /\ ListInv' /\ ReaderInv'
    BY <1>6, <1>a, <2>1, SteadyStep
  <2> QED
    BY <2>1, <2>2 DEF FlowInv
<1>7. ASSUME NEW k \in Threads, WorkerWaits(w, k) PROVE FlowInv'
  <2>1. /\ chan' = chan /\ jobs' = jobs
        /\ wpc'[w] = wpc[w] \/ (wpc[w] = "waiting" /\ wpc'[w] = "queue")
    BY <1>7, <1>t DEF WorkerWaits
  <2>2. /\ worker[w][k].st # "job" /\ worker'[w][k].st = "blocked"
        /\ \A v \in Writers, j \in Threads : v # w \/ j # k => worker'[v][j] = worker[v][j]
    BY <1>7, <1>t DEF WorkerWaits, EntersLoop
  <2>3. \A v \in Writers, j \in Threads :
               /\ worker'[v][j].st = "job" <=> worker[v][j].st = "job"
               /\ worker[v][j].st = "job" => worker'[v][j].job = worker[v][j].job
    BY <2>2
  <2> QED
    BY <1>6, <2>1, <2>3
<1>8. CASE SpuriousWakeup(w)
  <2>1. chan' = chan /\ jobs' = jobs
    BY <1>8 DEF SpuriousWakeup
  <2>2. CASE wpc[w] = "waiting" /\ wpc' = [wpc EXCEPT ![w] = "queue"] /\ worker' = worker
    BY <1>6, <1>t, <2>1, <2>2
  <2>3. ASSUME NEW k \in InState(w, {"blocked"}),
               worker' = [worker EXCEPT ![w][k].st = "woken"], wpc' = wpc
        PROVE  FlowInv'
    <3>1. k \in Threads /\ worker[w][k].st = "blocked"
      BY DEF InState
    <3>2. /\ worker'[w][k].st = "woken"
          /\ \A v \in Writers, j \in Threads : v # w \/ j # k => worker'[v][j] = worker[v][j]
      BY <1>t, <2>3, <3>1
    <3>3. \A v \in Writers, j \in Threads :
               /\ worker'[v][j].st = "job" <=> worker[v][j].st = "job"
               /\ worker[v][j].st = "job" => worker'[v][j].job = worker[v][j].job
      BY <3>1, <3>2
    <3> QED
      BY <1>6, <2>1, <2>3, <3>3
  <2> QED
    BY <1>8, <2>2, <2>3 DEF SpuriousWakeup
<1> QED
  BY <1>4, <1>5, <1>7, <1>8 DEF WorkerNext

(* Initially nothing is under way.                                         *)
LEMMA FlowInit == Init => FlowInv
<1> SUFFICES ASSUME Init PROVE FlowInv
  OBVIOUS
<1>0. Len(<<>>) = 0 /\ 1 .. 0 = {} /\ <<>> \in Seq(Entry) /\ <<>> \in Seq(1 .. NSteps)
      /\ <<>> \in Seq(Chunks)
  OBVIOUS
<1>1. /\ \A w \in Writers, k \in Threads : worker[w][k].st = "none" /\ chan[w][k] = <<>>
      /\ \A k \in Threads : handler[k].st = "idle"
      /\ list = <<>> /\ old = <<>> /\ removed = 0
      /\ rpc = "open" /\ want = 0 /\ got = {} /\ seen = <<>>
  BY DEF Init
<1>2. FlowType
  <2>1. chan \in [Writers -> [Threads -> Seq(Chunks)]]
    BY <1>0 DEF Init
  <2>2. handler \in [Threads -> [st : {"idle", "locked"}, chunk : Chunks \cup {NoChunk}, root : Nat]]
    BY DEF Init
  <2> QED
    BY <1>0, <1>1, <2>1, <2>2 DEF FlowType
<1>3. JobsInv
  <2> SUFFICES ASSUME NEW w \in Writers PROVE JobsOf(w)
    BY DEF JobsInv
  <2>1. wpc[w] = "open" /\ timestep[w] = 0 /\ nvars[w] = 0 /\ jobs[w] = <<>>
    BY DEF Init
  <2>2. load.nvars[w] \in Nat /\ NSteps \in Nat
    BY LoadType, IceeAssumption DEF Init
  <2> QED
    BY <1>0, <2>1, <2>2 DEF JobsOf
<1>4. OnceInv
  <2>1. WorkersOnce /\ ChansOnce /\ LockOnce
    BY <1>0, <1>1 DEF WorkersOnce, ChansOnce, LockOnce
  <2>2. \A c : ~Submitting(c) /\ ~UnderWay(c) /\ ~Handled(c) /\ ~InList(c)
    BY <1>0, <1>1 DEF Submitting, UnderWay, Handled, InList, InEntries
  <2> QED
    BY <2>1, <2>2 DEF OnceInv, OnePlace
<1>5. ListInv
  BY <1>0, <1>1 DEF ListInv
<1>6. ReaderInv
  BY <1>0, <1>1 DEF ReaderInv, LeftGone
<1> QED
  BY <1>2, <1>3, <1>4, <1>5, <1>6 DEF FlowInv

(* Every step keeps the invariant.                                         *)
LEMMA FlowStep == Inv /\ FlowInv /\ [Next]_vars => FlowInv'
<1> SUFFICES ASSUME Inv, FlowInv, [Next]_vars PROVE FlowInv'
  OBVIOUS
<1>0. load \in Loads /\ JobsInv
  BY DEF Inv, PoolType, FlowInv
<1>1. CASE Allreduce
  <2>1. load' = load /\ UNCHANGED <<worker, chan, handler, readerVars>>
    BY <1>1 DEF Allreduce, poolVars
  <2>2. \A w \in Writers : Onward(w)
    BY <1>0, <1>1, OnwardAllreduce
  <2>3. JobsInv' /\ \A c \in Chunks : Issued(c) => Issued(c)'
    BY <1>0, <2>1, <2>2, AllOnward
  <2>4. FlowType' /\ OnceInv' /\ ListInv' /\ ReaderInv'
    BY <2>1, <2>3, SteadyStep
  <2> QED
    BY <2>3, <2>4 DEF FlowInv
<1>2. ASSUME NEW w \in Writers, WriterNext(w) PROVE FlowInv'
  BY <1>2, WriterFlow
<1>3. ASSUME NEW w \in Writers, SpuriousWakeup(w) PROVE FlowInv'
  BY <1>3, PoolFlow
<1>4. ASSUME NEW w \in Writers, NEW k \in Threads, WorkerNext(w, k) PROVE FlowInv'
  BY <1>4, PoolFlow
<1>5. ASSUME NEW k \in Threads, HandlerNext(k) PROVE FlowInv'
  <2>1. UNCHANGED <<load, wpc, timestep, nvars, jobs>>
    BY <1>5 DEF HandlerNext, HandlerLock, HandlerAppend, HandlerReadsFreed, writerVars, poolVars
  <2>2. JobsInv' /\ \A c \in Chunks : Issued(c) => Issued(c)'
    BY <2>1, WritersSame
  <2>3. FlowType' /\ OnceInv' /\ ListInv' /\ ReaderInv'
    BY <1>0, <1>5, <2>2, LockStep, AppendStep, FreedStep DEF HandlerNext
  <2> QED
    BY <2>2, <2>3 DEF FlowInv
<1>6. CASE ReaderNext
  <2>1. UNCHANGED <<load, wpc, timestep, nvars, jobs>>
    BY <1>6 DEF ReaderNext, ReadOpen, OpenMerged, ScheduleRead, CopyRead, AdvanceStep, FileinfoFree,
                writerVars, poolVars
  <2>2. JobsInv'
    BY <2>1, WritersSame
  <2>3. FlowType' /\ OnceInv' /\ ListInv' /\ ReaderInv'
    BY <1>0, <1>6, ReadStep, AdvanceGone, FreeStep DEF ReaderNext
  <2> QED
    BY <2>2, <2>3 DEF FlowInv
<1>7. CASE UNCHANGED vars
  <2>1. UNCHANGED <<load, wpc, timestep, nvars, jobs>> /\ UNCHANGED <<worker, chan, handler, readerVars>>
    BY <1>7 DEF vars, writerVars, poolVars
  <2>2. JobsInv' /\ \A c \in Chunks : Issued(c) => Issued(c)'
    BY <2>1, WritersSame
  <2>3. FlowType' /\ OnceInv' /\ ListInv' /\ ReaderInv'
    BY <2>1, <2>2, SteadyStep
  <2> QED
    BY <2>2, <2>3 DEF FlowInv
<1> QED
  BY <1>1, <1>2, <1>3, <1>4, <1>5, <1>6, <1>7 DEF Next

(* A step is one entry of icee_filelist (icee_fileinfo_append of           *)
(* read/read_icee.c), whatever the order in which the chunks of several    *)
(* writers, variables and steps arrive: no entry is split, none comes back *)
(* after the reader has left it, and no chunk is counted twice.            *)
THEOREM IceeStepsNotSplit == Spec => []StepsNotSplit
<1>1. Init => Inv /\ FlowInv
  BY PoolInit, FlowInit
<1>2. Inv /\ FlowInv /\ [Next]_vars => Inv' /\ FlowInv'
  BY PoolStep, FlowStep
<1>3. Inv /\ FlowInv => StepsNotSplit
  <2> SUFFICES ASSUME Inv, FlowInv PROVE StepsNotSplit
    OBVIOUS
  <2>0. FlowType /\ ListInv /\ ReaderInv /\ list \in Seq(Entry)
    BY DEF FlowInv, FlowType
  <2>1. DOMAIN list = 1 .. Len(list) /\ Len(list) \in Nat
    BY <2>0
  <2>2. \A i, j \in DOMAIN list : list[i].step = list[j].step => i = j
    BY <2>0, <2>1 DEF ListInv
  <2>3. ASSUME NEW i \in DOMAIN list PROVE IsInjective(list[i].chunks)
    <3>1. list[i] \in Entry /\ GoodEntry(list[i])
      BY <2>0, <2>1, <2>3 DEF ListInv
    <3>2. list[i].chunks \in Seq(Chunks)
      BY <3>1 DEF Entry
    <3>3. DOMAIN list[i].chunks = 1 .. Len(list[i].chunks)
      BY <3>2
    <3> QED
      BY <3>1, <3>3 DEF GoodEntry, IsInjective
  <2>4. ASSUME rpc \notin {"free", "undefined"}, NEW i \in 2 .. Len(list)
        PROVE  list[i].step \notin ToSet(seen)
    <3> SUFFICES ASSUME list[i].step \in ToSet(seen) PROVE FALSE
      OBVIOUS
    <3> DEFINE S == 1 .. NSteps
    <3>1. seen \in Seq(S)
      BY <2>0 DEF FlowType
    <3> HIDE DEF S
    <3>2. DOMAIN seen = 1 .. Len(seen)
      BY <3>1
    <3>3. PICK j \in 1 .. Len(seen) : list[i].step = seen[j]
      BY <3>2 DEF ToSet
    <3>4. i \in 1 .. Len(list) /\ 1 \in 1 .. Len(list) /\ i # 1
      BY <2>1
    <3>5. ~Gone(seen[j])
      BY <3>3, <3>4 DEF Gone
    <3>6. rpc \in {"step", "read"} /\ j = Len(seen)
      BY <2>0, <2>4, <3>5 DEF ReaderInv, LeftGone
    <3>7. seen[j] = list[1].step
      BY <2>0, <3>6 DEF ReaderInv
    <3> QED
      BY <2>0, <3>3, <3>4, <3>7 DEF ListInv
  <2> QED
    BY <2>2, <2>3, <2>4 DEF StepsNotSplit
<1> QED
  BY <1>1, <1>2, <1>3, PTL DEF Spec

(* A read (schedule_read and the copy in read/read_icee.c) returns the     *)
(* blocks of every writer of the variable, all of the step the reader is   *)
(* at, although chunks are still being merged while it starts.             *)
THEOREM IceeReadsWhole == Spec => []ReadsWhole
<1>1. Init => Inv /\ FlowInv
  BY PoolInit, FlowInit
<1>2. Inv /\ FlowInv /\ [Next]_vars => Inv' /\ FlowInv'
  BY PoolStep, FlowStep
<1>3. FlowInv => ReadsWhole
  BY DEF FlowInv, ReaderInv, ReadsWhole, Last
<1> QED
  BY <1>1, <1>2, <1>3, PTL DEF Spec

=============================================================================
