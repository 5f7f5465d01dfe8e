--------------------------- MODULE FlexpathStream ----------------------------
(***************************************************************************)
(* The Flexpath staging stream: a parallel writer program publishes steps  *)
(* (write/adios_flexpath.c) and a parallel reader program, started         *)
(* separately, walks through them (read/read_flexpath.c).                  *)
(*                                                                         *)
(* A writer process has an application thread (adios_flexpath_close and    *)
(* _finalize), an EVPath multiqueue stone that sorts the messages, and a   *)
(* control thread that serves the readers from the oldest buffer of its    *)
(* data queue.  A reader process has an application thread and the EVPath  *)
(* handlers of the replies.  Writers meet in MPI_Allgather, readers in     *)
(* MPI_Barrier.  Data is a step number: a buffer, a group message and a    *)
(* reply carry the step they belong to.                                    *)
(*                                                                         *)
(* Messages.  EVPath delivers reliably and in order between two processes. *)
(* A reader has at most one request outstanding that it waits for, so a    *)
(* message in flight is indistinguishable from one not sent yet, and a     *)
(* reply in flight from a reader not scheduled yet: a send therefore       *)
(* enters the receiver's queue directly and a reply runs its handler.      *)
(***************************************************************************)
EXTENDS Integers, Sequences, FiniteSets, FiniteSetsExt

CONSTANTS
  NW, NR,        \* sizes of the writer and of the reader program
  MaxQueueSize,  \* the QUEUE_SIZE parameter
  NSteps,        \* bound: steps the writer publishes
  GlobalVars,    \* the group has global arrays (fileData->globalCount > 0)
  UseRelease,    \* readers call adios_release_step before advancing
  Needs          \* for each reader, the sets of writers a step may need

Writers == 0 .. NW - 1
Readers == 0 .. NR - 1
Steps == 0 .. NSteps - 1
None == -1

ASSUME StreamAssumption ==
  /\ NW \in Nat \ {0}
  /\ NR \in Nat \ {0}
  /\ MaxQueueSize \in Int
  /\ NSteps \in Nat \ {0}
  /\ {GlobalVars, UseRelease} \subseteq BOOLEAN
  /\ Needs \in [Readers -> SUBSET SUBSET Writers]

VARIABLES
  (* writer: application thread *)
  wpc,           \* where the application thread is
  writerStep,    \* how many times the writer has called close
  dataQueue,     \* steps buffered, oldest first
  (* writer: multiqueue stone *)
  evgroup,       \* group messages, each the step it describes
  stepMsg,       \* update_step messages
  flush,         \* flush messages of the readers
  (* writer: control thread *)
  controlQueue,  \* OPEN, CLOSE, VAR and DATA_FLUSH messages, oldest first
  cpc,           \* where the control thread is
  closer,        \* the reader whose CLOSE it is processing
  readerStep,    \* the step the readers are at
  openCount,     \* how many readers have that step open
  bridgeOpened,  \* the readers r with bridges[r].opened
  askedVars,     \* the readers that sent a VAR message
  (* reader: application thread and handlers *)
  rpc,           \* where the application thread is
  awaiting,      \* the operation whose acknowledgement it waits for
  dst,           \* the writer that operation went to
  cond,          \* the CMCondition it waits on has been signalled
  mystep,        \* current step
  created,       \* the writers w with bridges[w].created
  opened,        \* the writers w with bridges[w].opened
  want,          \* the writers the reads of this step need
  need,          \* those a VAR message has not been sent to yet
  sendees,       \* the writers perform_reads still has to ask
  numPending, numCompleted,     \* fp->req
  lastStep, finalized,          \* last_writer_step, writer_finalized
  gp,            \* the step of the group message held, or None
  got            \* history: the replies of this step's data requests

writerVars == <<wpc, writerStep, dataQueue, evgroup, stepMsg, flush,
                controlQueue, cpc, closer, readerStep, openCount,
                bridgeOpened, askedVars>>
readerVars == <<rpc, awaiting, dst, cond, mystep, created, opened, want, need,
                sendees, numPending, numCompleted, lastStep, finalized, gp, got>>
vars == <<writerVars, readerVars>>

(* The bridges built by adios_read_flexpath_open, and the one among them   *)
(* that answers the reader's requests about the stream.                    *)
PerReader == NW \div NR
Coordinator(r) == IF NR < NW THEN PerReader * r ELSE r % NW
FirstBridges(r) ==
  IF NR < NW THEN PerReader * r .. PerReader * (r + 1) - 1 ELSE {r % NW}

Init ==
  /\ wpc = [w \in Writers |-> "close"]
  /\ writerStep = [w \in Writers |-> 0]
  /\ dataQueue = [w \in Writers |-> <<>>]
  /\ evgroup = [w \in Writers |-> <<>>]
  /\ stepMsg = [w \in Writers |-> <<>>]
  /\ flush = [w \in Writers |-> <<>>]
  /\ controlQueue = [w \in Writers |-> <<>>]
  /\ cpc = [w \in Writers |-> "idle"]
  /\ closer = [w \in Writers |-> None]
  /\ readerStep = [w \in Writers |-> 0]
  /\ openCount = [w \in Writers |-> 0]
  /\ bridgeOpened = [w \in Writers |-> {}]
  /\ askedVars = [w \in Writers |-> {}]
  /\ rpc = [r \in Readers |-> "open"]
  /\ awaiting = [r \in Readers |-> "nothing"]
  /\ dst = [r \in Readers |-> Coordinator(r)]
  /\ cond = [r \in Readers |-> FALSE]
  /\ mystep = [r \in Readers |-> 0]
  /\ created = [r \in Readers |-> FirstBridges(r)]
  /\ opened = [r \in Readers |-> {}]
  /\ want = [r \in Readers |-> {}]
  /\ need = [r \in Readers |-> {}]
  /\ sendees = [r \in Readers |-> <<>>]
  /\ numPending = [r \in Readers |-> 0]
  /\ numCompleted = [r \in Readers |-> 0]
  /\ lastStep = [r \in Readers |-> 0]
  /\ finalized = [r \in Readers |-> FALSE]
  /\ gp = [r \in Readers |-> None]
  /\ got = [r \in Readers |-> {}]

-----------------------------------------------------------------------------
(***************************************************************************)
(* Writer, application thread: adios_flexpath_close.                       *)
(***************************************************************************)
WriterRest == <<cpc, closer, readerStep, openCount, bridgeOpened, askedVars,
                flush, controlQueue, readerVars>>

(* threaded_enqueue, whose wait for room is this action's guard.  A group  *)
(* without global arrays publishes its empty group message at once.        *)
CloseEnqueue(w) ==
  /\ wpc[w] = "close"
  /\ writerStep[w] < NSteps
  /\ MaxQueueSize > 0 => Len(dataQueue[w]) <= MaxQueueSize
  /\ dataQueue' = [dataQueue EXCEPT ![w] = Append(@, writerStep[w])]
  /\ evgroup' = IF GlobalVars THEN evgroup
                ELSE [evgroup EXCEPT ![w] = Append(@, writerStep[w])]
  /\ wpc' = [wpc EXCEPT ![w] = IF GlobalVars THEN "gather" ELSE "publish step"]
  /\ UNCHANGED <<writerStep, stepMsg, WriterRest>>

(* The MPI_Allgather calls for the offsets and sizes of the global arrays. *)
Allgather ==
  /\ \A w \in Writers : wpc[w] = "gather"
  /\ wpc' = [w \in Writers |-> "publish step"]
  /\ UNCHANGED <<writerStep, dataQueue, evgroup, stepMsg, WriterRest>>

PublishStep(w) ==
  /\ wpc[w] = "publish step"
  /\ stepMsg' = [stepMsg EXCEPT
       ![w] = Append(@, [step |-> writerStep[w], finalized |-> FALSE])]
  /\ wpc' = [wpc EXCEPT ![w] = "publish group"]
  /\ UNCHANGED <<writerStep, dataQueue, evgroup, WriterRest>>

PublishGroup(w) ==
  /\ wpc[w] = "publish group"
  /\ evgroup' = [evgroup EXCEPT ![w] = Append(@, writerStep[w])]
  /\ writerStep' = [writerStep EXCEPT ![w] = @ + 1]
  /\ wpc' = [wpc EXCEPT ![w] = "close"]
  /\ UNCHANGED <<dataQueue, stepMsg, WriterRest>>

(* Mutant of FinalizeAnnounce: the step after the last one is announced.   *)
FinalizeAnnounceNext(w) ==
  /\ wpc[w] = "close"
  /\ writerStep[w] = NSteps
  /\ stepMsg' = [stepMsg EXCEPT
       ![w] = Append(@, [step |-> writerStep[w], finalized |-> TRUE])]
  /\ wpc' = [wpc EXCEPT ![w] = "finalize"]
  /\ UNCHANGED <<writerStep, dataQueue, evgroup, WriterRest>>

(* adios_flexpath_finalize: announce the end, wait for the empty queue.    *)
FinalizeAnnounce(w) ==
  /\ wpc[w] = "close"
  /\ writerStep[w] = NSteps
  /\ stepMsg' = [stepMsg EXCEPT
       ![w] = Append(@, [step |-> writerStep[w] - 1, finalized |-> TRUE])]
  /\ wpc' = [wpc EXCEPT ![w] = "finalize"]
  /\ UNCHANGED <<writerStep, dataQueue, evgroup, WriterRest>>

FinalizeReturn(w) ==
  /\ wpc[w] = "finalize"
  /\ dataQueue[w] = <<>>
  /\ wpc' = [wpc EXCEPT ![w] = "finalized"]
  /\ UNCHANGED <<writerStep, dataQueue, evgroup, stepMsg, WriterRest>>

-----------------------------------------------------------------------------
(***************************************************************************)
(* Writer, multiqueue stone: one run of multiqueue_action.  OPEN, CLOSE,   *)
(* VAR, acknowledgements and data pass straight through it; what it holds  *)
(* back are step messages (the newest survives), group messages and the    *)
(* flush at the head of its queue, until it can be answered.               *)
(***************************************************************************)
(* Mutant of KeepNewest: the oldest step message survives.                 *)
KeepOldest(msgs) == IF Len(msgs) > 1 THEN <<Head(msgs)>> ELSE msgs

KeepNewest(msgs) == IF Len(msgs) > 1 THEN Tail(msgs) ELSE msgs

(* Mutant of AfterDrop: the group message stays.                           *)
AfterNoDrop(w) == evgroup[w]

(* A drop message discards the oldest group message, if there is one.      *)
AfterDrop(w) ==
  IF cpc[w] = "close waits" /\ evgroup[w] # <<>> THEN Tail(evgroup[w])
  ELSE evgroup[w]

(* A flush of type STEP: update_step_msg_handler runs at the reader.       *)
AnswerStep(r, msg) ==
  /\ lastStep' = [lastStep EXCEPT ![r] = msg.step]
  /\ finalized' = [finalized EXCEPT ![r] = msg.finalized]
  /\ cond' = [cond EXCEPT ![r] = TRUE]
  /\ UNCHANGED <<gp, controlQueue>>

(* A flush of type EVGROUP: group_msg_handler runs at the reader.          *)
AnswerGroup(r, step) ==
  /\ gp' = [gp EXCEPT ![r] = step]
  /\ cond' = [cond EXCEPT ![r] = TRUE]
  /\ UNCHANGED <<lastStep, finalized, controlQueue>>

(* A flush of type DATA goes to the sink: flush_handler queues it.         *)
PassData(w, r) ==
  /\ controlQueue' = [controlQueue EXCEPT
       ![w] = Append(@, [type |-> "DATA_FLUSH", from |-> r, step |-> None])]
  /\ UNCHANGED <<gp, lastStep, finalized, cond>>

Answerable(w) ==
  /\ flush[w] # <<>>
  /\ Head(flush[w]).type = "EVGROUP" => AfterDrop(w) # <<>>
  /\ Head(flush[w]).type = "STEP" => stepMsg[w] # <<>>

AnswerFlush(w) ==
  /\ Answerable(w)
  /\ flush' = [flush EXCEPT ![w] = Tail(@)]
  /\ LET c == Head(flush[w]) IN
       \/ c.type = "STEP" /\ AnswerStep(c.from, Head(KeepNewest(stepMsg[w])))
       \/ c.type = "EVGROUP" /\ AnswerGroup(c.from, Head(AfterDrop(w)))
       \/ c.type = "DATA" /\ PassData(w, c.from)

LeaveFlush(w) ==
  /\ ~Answerable(w)
  /\ UNCHANGED <<flush, gp, lastStep, finalized, cond, controlQueue>>

(* EVPath runs the action when a message arrives; a run that would find    *)
(* nothing to do is left out.                                              *)
MultiqueueAction(w) ==
  /\ Len(stepMsg[w]) > 1 \/ cpc[w] = "close waits" \/ Answerable(w)
  /\ stepMsg' = [stepMsg EXCEPT ![w] = KeepNewest(@)]
  /\ evgroup' = [evgroup EXCEPT ![w] = AfterDrop(w)]
  /\ cpc' = [cpc EXCEPT ![w] = IF @ = "close waits" THEN "close resumes" ELSE @]
  /\ AnswerFlush(w) \/ LeaveFlush(w)
  /\ UNCHANGED <<wpc, writerStep, dataQueue, closer, readerStep, openCount,
                 bridgeOpened, askedVars, rpc, awaiting, dst, mystep, created,
                 opened, want, need, sendees, numPending, numCompleted, got>>

-----------------------------------------------------------------------------
(***************************************************************************)
(* Writer, control thread: control_thread takes the oldest message.        *)
(***************************************************************************)
Receive(w, type) ==
  /\ cpc[w] = "idle"
  /\ controlQueue[w] # <<>>
  /\ Head(controlQueue[w]).type = type
  /\ controlQueue' = [controlQueue EXCEPT ![w] = Tail(@)]

ProcessVar(w) ==
  /\ Receive(w, "VAR")
  /\ askedVars' = [askedVars EXCEPT ![w] = @ \cup {Head(controlQueue[w]).from}]
  /\ UNCHANGED <<wpc, writerStep, dataQueue, evgroup, stepMsg, flush, cpc,
                 closer, readerStep, openCount, bridgeOpened, readerVars>>

(* raw_handler at reader r, for the buffer of one writer.                  *)
RawHandler(w, r) ==
  /\ got' = [got EXCEPT ![r] = @ \cup
       {[writer |-> w, step |-> Head(dataQueue[w]), asked |-> r \in askedVars[w]]}]
  /\ numCompleted' = [numCompleted EXCEPT ![r] = @ + 1]
  /\ cond' = [cond EXCEPT ![r] = @ \/ numCompleted[r] + 1 = numPending[r]]

(* Mutant of ProcessDataFlush: the bridge is counted without a look at     *)
(* whether it is open.                                                     *)
ProcessDataFlushCounts(w) ==
  /\ Receive(w, "DATA_FLUSH")
  /\ dataQueue[w] # <<>>
  /\ LET r == Head(controlQueue[w]).from IN
       /\ bridgeOpened' = [bridgeOpened EXCEPT ![w] = @ \cup {r}]
       /\ openCount' = [openCount EXCEPT ![w] = @ + 1]
       /\ RawHandler(w, r)
  /\ UNCHANGED <<wpc, writerStep, dataQueue, evgroup, stepMsg, flush, cpc,
                 closer, readerStep, askedVars, rpc, awaiting, dst, mystep,
                 created, opened, want, need, sendees, numPending, lastStep,
                 finalized, gp>>

(* threaded_peek waits for a buffer, then process_data_flush sends a copy  *)
(* with the arrays that reader asked for.                                  *)
ProcessDataFlush(w) ==
  /\ Receive(w, "DATA_FLUSH")
  /\ dataQueue[w] # <<>>
  /\ LET r == Head(controlQueue[w]).from IN
       /\ bridgeOpened' = [bridgeOpened EXCEPT ![w] = @ \cup {r}]
       /\ openCount' = [openCount EXCEPT
            ![w] = IF r \in bridgeOpened[w] THEN @ ELSE @ + 1]
       /\ RawHandler(w, r)
  /\ UNCHANGED <<wpc, writerStep, dataQueue, evgroup, stepMsg, flush, cpc,
                 closer, readerStep, askedVars, rpc, awaiting, dst, mystep,
                 created, opened, want, need, sendees, numPending, lastStep,
                 finalized, gp>>

(* Mutant of ProcessOpen: the step is marked as open, the readers that     *)
(* have it open are not counted.                                           *)
ProcessOpenMarks(w) ==
  /\ Receive(w, "OPEN")
  /\ LET m == Head(controlQueue[w]) IN
       IF m.step = readerStep[w]
       THEN /\ openCount' = [openCount EXCEPT ![w] = 1]
            /\ bridgeOpened' = [bridgeOpened EXCEPT ![w] = @ \cup {m.from}]
            /\ cond' = [cond EXCEPT ![m.from] = TRUE]
       ELSE UNCHANGED <<openCount, bridgeOpened, cond>>
  /\ UNCHANGED <<wpc, writerStep, dataQueue, evgroup, stepMsg, flush, cpc,
                 closer, readerStep, askedVars, rpc, awaiting, dst, mystep,
                 created, opened, want, need, sendees, numPending,
                 numCompleted, lastStep, finalized, gp, got>>

(* process_open_msg acknowledges an OPEN of the current step only; one of  *)
(* a past or of a future step is logged and forgotten.                     *)
ProcessOpen(w) ==
  /\ Receive(w, "OPEN")
  /\ LET m == Head(controlQueue[w]) IN
       IF m.step = readerStep[w]
       THEN /\ openCount' = [openCount EXCEPT ![w] = @ + 1]
            /\ bridgeOpened' = [bridgeOpened EXCEPT ![w] = @ \cup {m.from}]
            /\ cond' = [cond EXCEPT ![m.from] = TRUE]
       ELSE UNCHANGED <<openCount, bridgeOpened, cond>>
  /\ UNCHANGED <<wpc, writerStep, dataQueue, evgroup, stepMsg, flush, cpc,
                 closer, readerStep, askedVars, rpc, awaiting, dst, mystep,
                 created, opened, want, need, sendees, numPending,
                 numCompleted, lastStep, finalized, gp, got>>

(* Mutant of ProcessClose: the first CLOSE drops the step.                 *)
ProcessCloseDropsAtOnce(w) ==
  /\ Receive(w, "CLOSE")
  /\ LET r == Head(controlQueue[w]).from IN
       /\ openCount' = [openCount EXCEPT ![w] = @ - 1]
       /\ bridgeOpened' = [bridgeOpened EXCEPT ![w] = @ \ {r}]
       /\ cpc' = [cpc EXCEPT ![w] = "close"]
       /\ closer' = [closer EXCEPT ![w] = r]
  /\ UNCHANGED <<wpc, writerStep, dataQueue, evgroup, stepMsg, flush,
                 readerStep, askedVars, rpc, awaiting, dst, cond, mystep,
                 created, opened, want, need, sendees, numPending,
                 numCompleted, lastStep, finalized, gp, got>>

(* process_close_msg.  When the last reader closes the step, its buffer is *)
(* dequeued (the guard of CloseDequeue is the wait for one), a drop message *)
(* is submitted and waited for, and the next step becomes the current one. *)
ProcessClose(w) ==
  /\ Receive(w, "CLOSE")
  /\ LET r == Head(controlQueue[w]).from IN
       /\ openCount' = [openCount EXCEPT ![w] = @ - 1]
       /\ bridgeOpened' = [bridgeOpened EXCEPT ![w] = @ \ {r}]
       /\ IF openCount[w] - 1 = 0
          THEN /\ cpc' = [cpc EXCEPT ![w] = "close"]
               /\ closer' = [closer EXCEPT ![w] = r]
               /\ UNCHANGED cond
          ELSE /\ cond' = [cond EXCEPT ![r] = TRUE]
               /\ UNCHANGED <<cpc, closer>>
  /\ UNCHANGED <<wpc, writerStep, dataQueue, evgroup, stepMsg, flush,
                 readerStep, askedVars, rpc, awaiting, dst, mystep, created,
                 opened, want, need, sendees, numPending, numCompleted,
                 lastStep, finalized, gp, got>>

(* Mutant of CloseDequeue: the buffer stays in the queue.                  *)
CloseDequeueKeeps(w) ==
  /\ cpc[w] = "close"
  /\ dataQueue[w] # <<>>
  /\ cpc' = [cpc EXCEPT ![w] = "close waits"]
  /\ UNCHANGED <<wpc, writerStep, dataQueue, evgroup, stepMsg, flush,
                 controlQueue, closer, readerStep, openCount, bridgeOpened,
                 askedVars, readerVars>>

CloseDequeue(w) ==
  /\ cpc[w] = "close"
  /\ dataQueue[w] # <<>>
  /\ dataQueue' = [dataQueue EXCEPT ![w] = Tail(@)]
  /\ cpc' = [cpc EXCEPT ![w] = "close waits"]
  /\ UNCHANGED <<wpc, writerStep, evgroup, stepMsg, flush, controlQueue, closer,
                 readerStep, openCount, bridgeOpened, askedVars, readerVars>>

(* Mutant of CloseAck: the readers' step is not advanced.                  *)
CloseAckSameStep(w) ==
  /\ cpc[w] = "close resumes"
  /\ cond' = [cond EXCEPT ![closer[w]] = TRUE]
  /\ cpc' = [cpc EXCEPT ![w] = "idle"]
  /\ closer' = [closer EXCEPT ![w] = None]
  /\ UNCHANGED <<wpc, writerStep, dataQueue, evgroup, stepMsg, flush,
                 controlQueue, readerStep, openCount, bridgeOpened, askedVars,
                 rpc, awaiting, dst, mystep, created, opened, want, need,
                 sendees, numPending, numCompleted, lastStep, finalized, gp, got>>

CloseAck(w) ==
  /\ cpc[w] = "close resumes"
  /\ readerStep' = [readerStep EXCEPT ![w] = @ + 1]
  /\ cond' = [cond EXCEPT ![closer[w]] = TRUE]
  /\ cpc' = [cpc EXCEPT ![w] = "idle"]
  /\ closer' = [closer EXCEPT ![w] = None]
  /\ UNCHANGED <<wpc, writerStep, dataQueue, evgroup, stepMsg, flush,
                 controlQueue, openCount, bridgeOpened, askedVars, rpc,
                 awaiting, dst, mystep, created, opened, want, need, sendees,
                 numPending, numCompleted, lastStep, finalized, gp, got>>

-----------------------------------------------------------------------------
(***************************************************************************)
(* Reader: the messages it sends.  Each takes a fresh condition.           *)
(***************************************************************************)
WriterSide == <<wpc, writerStep, dataQueue, evgroup, stepMsg, cpc, closer,
                readerStep, openCount, bridgeOpened, askedVars>>

SendOp(r, w, type) ==
  /\ controlQueue' = [controlQueue EXCEPT
       ![w] = Append(@, [type |-> type, from |-> r, step |-> mystep[r]])]
  /\ cond' = [cond EXCEPT ![r] = FALSE]
  /\ dst' = [dst EXCEPT ![r] = w]
  /\ awaiting' = [awaiting EXCEPT ![r] = type]
  /\ created' = [created EXCEPT ![r] = @ \cup {w}]

SendFlush(r, w, type) ==
  flush' = [flush EXCEPT ![w] = Append(@, [type |-> type, from |-> r])]

At(r, label) == rpc[r] = label /\ awaiting[r] = "nothing"
Goto(r, label) == rpc' = [rpc EXCEPT ![r] = label]

(* send_open_msg and send_close_msg return when the acknowledgement comes. *)
OpAcknowledged(r) ==
  /\ awaiting[r] \in {"OPEN", "CLOSE"}
  /\ cond[r]
  /\ opened' = [opened EXCEPT
       ![r] = IF awaiting[r] = "OPEN" THEN @ \cup {dst[r]} ELSE @ \ {dst[r]}]
  /\ awaiting' = [awaiting EXCEPT ![r] = "nothing"]
  /\ cond' = [cond EXCEPT ![r] = FALSE]
  /\ UNCHANGED <<WriterSide, flush, controlQueue, rpc, dst, mystep, created,
                 want, need, sendees, numPending, numCompleted, lastStep,
                 finalized, gp, got>>

(***************************************************************************)
(* Reader: adios_read_flexpath_open, and the loops of release_step and     *)
(* advance_step that open every bridge that is created and not open.       *)
(***************************************************************************)
ToOpen(r) ==
  IF rpc[r] = "open" THEN {Coordinator(r)} \ opened[r] ELSE created[r] \ opened[r]

OpenNext(r) ==
  /\ rpc[r] \in {"open", "release", "reopen"} /\ awaiting[r] = "nothing"
  /\ ToOpen(r) # {}
  /\ SendOp(r, Min(ToOpen(r)), "OPEN")
  /\ UNCHANGED <<WriterSide, flush, rpc, mystep, opened, want, need, sendees,
                 numPending, numCompleted, lastStep, finalized, gp, got>>

(* Request the coordinator's buffer for the scalars of the step.           *)
Fetch(r) ==
  /\ rpc[r] \in {"open", "reopen"} /\ awaiting[r] = "nothing"
  /\ ToOpen(r) = {}
  /\ numPending' = [numPending EXCEPT ![r] = 1]
  /\ numCompleted' = [numCompleted EXCEPT ![r] = 0]
  /\ cond' = [cond EXCEPT ![r] = FALSE]
  /\ SendFlush(r, Coordinator(r), "DATA")
  /\ Goto(r, "fetch")
  /\ UNCHANGED <<WriterSide, controlQueue, awaiting, dst, mystep, created,
                 opened, want, need, sendees, lastStep, finalized, gp, got>>

(* Then the group message that tells which writer has which part.          *)
FetchGroup(r) ==
  /\ At(r, "fetch")
  /\ cond[r]
  /\ cond' = [cond EXCEPT ![r] = FALSE]
  /\ SendFlush(r, Coordinator(r), "EVGROUP")
  /\ Goto(r, "group")
  /\ UNCHANGED <<WriterSide, controlQueue, awaiting, dst, mystep, created,
                 opened, want, need, sendees, numPending, numCompleted,
                 lastStep, finalized, gp, got>>

(***************************************************************************)
(* Reader: the reads of a step.  The application schedules some (any       *)
(* member of Needs), each a VAR message to every writer it needs.          *)
(***************************************************************************)
ScheduleReads(r) ==
  /\ At(r, "group")
  /\ cond[r]
  /\ \E s \in Needs[r] :
       /\ want' = [want EXCEPT ![r] = s]
       /\ need' = [need EXCEPT ![r] = s]
  /\ cond' = [cond EXCEPT ![r] = FALSE]
  /\ Goto(r, "schedule")
  /\ UNCHANGED <<WriterSide, flush, controlQueue, awaiting, dst, mystep,
                 created, opened, sendees, numPending, numCompleted, lastStep,
                 finalized, gp, got>>

(* send_var_message opens the bridge first when it is not open yet.        *)
VarOpen(r) ==
  /\ At(r, "schedule")
  /\ need[r] # {} /\ Min(need[r]) \notin opened[r]
  /\ SendOp(r, Min(need[r]), "OPEN")
  /\ UNCHANGED <<WriterSide, flush, rpc, mystep, opened, want, need, sendees,
                 numPending, numCompleted, lastStep, finalized, gp, got>>

VarSend(r) ==
  /\ At(r, "schedule")
  /\ need[r] # {} /\ Min(need[r]) \in opened[r]
  /\ controlQueue' = [controlQueue EXCEPT
       ![Min(need[r])] = Append(@, [type |-> "VAR", from |-> r, step |-> None])]
  /\ sendees' = [sendees EXCEPT ![r] = Append(@, Min(need[r]))]
  /\ need' = [need EXCEPT ![r] = @ \ {Min(need[r])}]
  /\ UNCHANGED <<WriterSide, flush, rpc, awaiting, dst, cond, mystep, created,
                 opened, want, numPending, numCompleted, lastStep, finalized,
                 gp, got>>

(* adios_read_flexpath_perform_reads with FP_BATCH_SIZE = 1: ask one       *)
(* writer, then set num_pending, then wait.  Between the request and the   *)
(* assignment raw_handler may already have counted the reply.              *)
PerformReads(r) ==
  /\ At(r, "schedule")
  /\ need[r] = {}
  /\ numPending' = [numPending EXCEPT ![r] = 1]
  /\ numCompleted' = [numCompleted EXCEPT ![r] = 0]
  /\ cond' = [cond EXCEPT ![r] = FALSE]
  /\ Goto(r, "perform")
  /\ UNCHANGED <<WriterSide, flush, controlQueue, awaiting, dst, mystep,
                 created, opened, want, need, sendees, lastStep, finalized, gp,
                 got>>

PerformSend(r) ==
  /\ At(r, "perform")
  /\ sendees[r] # <<>>
  /\ SendFlush(r, Head(sendees[r]), "DATA")
  /\ Goto(r, "perform sent")
  /\ UNCHANGED <<WriterSide, controlQueue, awaiting, dst, cond, mystep,
                 created, opened, want, need, sendees, numPending,
                 numCompleted, lastStep, finalized, gp, got>>

PerformPending(r) ==
  /\ At(r, "perform sent")
  /\ numPending' = [numPending EXCEPT ![r] = 1]
  /\ Goto(r, "perform wait")
  /\ UNCHANGED <<WriterSide, flush, controlQueue, awaiting, dst, cond, mystep,
                 created, opened, want, need, sendees, numCompleted, lastStep,
                 finalized, gp, got>>

(* Mutant of PerformBatchDone: the reply is not waited for.                *)
PerformBatchUnawaited(r) ==
  /\ At(r, "perform wait")
  /\ numPending' = [numPending EXCEPT ![r] = 0]
  /\ numCompleted' = [numCompleted EXCEPT ![r] = 0]
  /\ cond' = [cond EXCEPT ![r] = FALSE]
  /\ sendees' = [sendees EXCEPT ![r] = Tail(@)]
  /\ Goto(r, "perform")
  /\ UNCHANGED <<WriterSide, flush, controlQueue, awaiting, dst, mystep,
                 created, opened, want, need, lastStep, finalized, gp, got>>

PerformBatchDone(r) ==
  /\ At(r, "perform wait")
  /\ cond[r]
  /\ numPending' = [numPending EXCEPT ![r] = 0]
  /\ numCompleted' = [numCompleted EXCEPT ![r] = 0]
  /\ cond' = [cond EXCEPT ![r] = FALSE]
  /\ sendees' = [sendees EXCEPT ![r] = Tail(@)]
  /\ Goto(r, "perform")
  /\ UNCHANGED <<WriterSide, flush, controlQueue, awaiting, dst, mystep,
                 created, opened, want, need, lastStep, finalized, gp, got>>

PerformReturn(r) ==
  /\ At(r, "perform")
  /\ sendees[r] = <<>>
  /\ Goto(r, IF UseRelease THEN "release barrier" ELSE "advance barrier")
  /\ UNCHANGED <<WriterSide, flush, controlQueue, awaiting, dst, cond, mystep,
                 created, opened, want, need, sendees, numPending,
                 numCompleted, lastStep, finalized, gp, got>>

(***************************************************************************)
(* Reader: adios_read_flexpath_release_step.                               *)
(***************************************************************************)
Barrier(from, to) ==
  /\ \A r \in Readers : At(r, from)
  /\ rpc' = [r \in Readers |-> to]
  /\ UNCHANGED <<WriterSide, flush, controlQueue, awaiting, dst, cond, created,
                 opened, want, need, sendees, numPending, numCompleted,
                 lastStep, finalized, gp>>

ReleaseBarrier ==
  /\ Barrier("release barrier", "release")
  /\ UNCHANGED <<mystep, got>>

ReleaseReturn(r) ==
  /\ At(r, "release")
  /\ ToOpen(r) = {}
  /\ gp' = [gp EXCEPT ![r] = None]
  /\ Goto(r, "advance barrier")
  /\ UNCHANGED <<WriterSide, flush, controlQueue, awaiting, dst, cond, mystep,
                 created, opened, want, need, sendees, numPending,
                 numCompleted, lastStep, finalized, got>>

(***************************************************************************)
(* Reader: adios_read_flexpath_advance_step.                               *)
(***************************************************************************)
AdvanceBarrier ==
  /\ Barrier("advance barrier", "poll")
  /\ UNCHANGED <<mystep, got>>

PollSend(r) ==
  /\ At(r, "poll")
  /\ cond' = [cond EXCEPT ![r] = FALSE]
  /\ SendFlush(r, Coordinator(r), "STEP")
  /\ Goto(r, "poll wait")
  /\ UNCHANGED <<WriterSide, controlQueue, awaiting, dst, mystep, created,
                 opened, want, need, sendees, numPending, numCompleted,
                 lastStep, finalized, gp, got>>

(* Mutant of PollReturn: a finalized writer ends the stream at once.       *)
PollReturnEndsAtOnce(r) ==
  /\ At(r, "poll wait")
  /\ cond[r]
  /\ cond' = [cond EXCEPT ![r] = FALSE]
  /\ Goto(r, IF finalized[r] THEN "end of stream"
             ELSE IF mystep[r] # lastStep[r] THEN "close" ELSE "poll")
  /\ UNCHANGED <<WriterSide, flush, controlQueue, awaiting, dst, mystep,
                 created, opened, want, need, sendees, numPending,
                 numCompleted, lastStep, finalized, gp, got>>

PollReturn(r) ==
  /\ At(r, "poll wait")
  /\ cond[r]
  /\ cond' = [cond EXCEPT ![r] = FALSE]
  /\ Goto(r, IF mystep[r] # lastStep[r] THEN "close"
             ELSE IF finalized[r] THEN "end of stream" ELSE "poll")
  /\ UNCHANGED <<WriterSide, flush, controlQueue, awaiting, dst, mystep,
                 created, opened, want, need, sendees, numPending,
                 numCompleted, lastStep, finalized, gp, got>>

(* The close loops of advance_step and of adios_read_flexpath_close, which *)
(* the application calls at the end of the stream.                         *)
CloseNext(r) ==
  /\ rpc[r] \in {"close", "end of stream"} /\ awaiting[r] = "nothing"
  /\ opened[r] # {}
  /\ SendOp(r, Min(opened[r]), "CLOSE")
  /\ UNCHANGED <<WriterSide, flush, rpc, mystep, opened, want, need, sendees,
                 numPending, numCompleted, lastStep, finalized, gp, got>>

CloseLoopDone(r) ==
  /\ rpc[r] \in {"close", "end of stream"} /\ awaiting[r] = "nothing"
  /\ opened[r] = {}
  /\ Goto(r, IF rpc[r] = "close" THEN "step barrier" ELSE "done")
  /\ UNCHANGED <<WriterSide, flush, controlQueue, awaiting, dst, cond, mystep,
                 created, opened, want, need, sendees, numPending,
                 numCompleted, lastStep, finalized, gp, got>>

StepBarrier ==
  /\ Barrier("step barrier", "reopen")
  /\ mystep' = [r \in Readers |-> mystep[r] + 1]
  /\ got' = [r \in Readers |-> {}]

-----------------------------------------------------------------------------
WriterStep(w) ==
  \/ CloseEnqueue(w) \/ PublishStep(w) \/ PublishGroup(w)
  \/ FinalizeAnnounce(w) \/ FinalizeReturn(w)

ControlStep(w) ==
  \/ ProcessVar(w) \/ ProcessDataFlush(w) \/ ProcessOpen(w)
  \/ ProcessClose(w) \/ CloseDequeue(w) \/ CloseAck(w)

ReaderStep(r) ==
  \/ OpAcknowledged(r) \/ OpenNext(r) \/ Fetch(r) \/ FetchGroup(r)
  \/ ScheduleReads(r) \/ VarOpen(r) \/ VarSend(r)
  \/ PerformReads(r) \/ PerformSend(r) \/ PerformPending(r)
  \/ PerformBatchDone(r) \/ PerformReturn(r) \/ ReleaseReturn(r)
  \/ PollSend(r) \/ PollReturn(r) \/ CloseNext(r) \/ CloseLoopDone(r)

ReaderBarriers == ReleaseBarrier \/ AdvanceBarrier \/ StepBarrier

Finished ==
  /\ \A w \in Writers : wpc[w] = "finalized"
  /\ \A r \in Readers : rpc[r] = "done"

(* Both programs have ended; the control threads wait for ever.            *)
Terminated == Finished /\ UNCHANGED vars

Next ==
  \/ Allgather
  \/ ReaderBarriers
  \/ \E w \in Writers : WriterStep(w) \/ MultiqueueAction(w) \/ ControlStep(w)
  \/ \E r \in Readers : ReaderStep(r)
  \/ Terminated

SafeSpec == Init /\ [][Next]_vars

(* Every thread and every EVPath stone is scheduled again and again, and   *)
(* the MPI collectives complete once everybody has entered them.           *)
Fairness ==
  /\ WF_vars(Allgather)
  /\ WF_vars(ReaderBarriers)
  /\ \A w \in Writers :
       /\ WF_vars(WriterStep(w))
       /\ WF_vars(MultiqueueAction(w))
       /\ WF_vars(ControlStep(w))
  /\ \A r \in Readers : WF_vars(ReaderStep(r))

Spec == SafeSpec /\ Fairness

-----------------------------------------------------------------------------
ControlMsgs == [type : {"OPEN", "CLOSE", "VAR", "DATA_FLUSH"},
                from : Readers, step : Nat \cup {None}]
FlushMsgs == [type : {"DATA", "EVGROUP", "STEP"}, from : Readers]
StepMsgs == [step : Steps, finalized : BOOLEAN]
Replies == [writer : Writers, step : Steps, asked : BOOLEAN]

AppTypeOK ==
  /\ wpc \in [Writers -> {"close", "gather", "publish step", "publish group",
                          "finalize", "finalized"}]
  /\ writerStep \in [Writers -> 0 .. NSteps]
  /\ dataQueue \in [Writers -> Seq(Steps)]

StoneTypeOK ==
  /\ evgroup \in [Writers -> Seq(Steps)]
  /\ stepMsg \in [Writers -> Seq(StepMsgs)]
  /\ flush \in [Writers -> Seq(FlushMsgs)]

ControlTypeOK ==
  /\ controlQueue \in [Writers -> Seq(ControlMsgs)]
  /\ cpc \in [Writers -> {"idle", "close", "close waits", "close resumes"}]
  /\ closer \in [Writers -> Readers \cup {None}]
  /\ readerStep \in [Writers -> Nat]
  /\ openCount \in [Writers -> Int]
  /\ bridgeOpened \in [Writers -> SUBSET Readers]
  /\ askedVars \in [Writers -> SUBSET Readers]

ReaderTypeOK ==
  /\ rpc \in [Readers -> {"open", "fetch", "group", "schedule", "perform",
               "perform sent", "perform wait", "release barrier", "release",
               "advance barrier", "poll", "poll wait", "close", "step barrier",
               "reopen", "end of stream", "done"}]
  /\ awaiting \in [Readers -> {"nothing", "OPEN", "CLOSE"}]
  /\ dst \in [Readers -> Writers]
  /\ cond \in [Readers -> BOOLEAN]
  /\ mystep \in [Readers -> Nat]
  /\ created \in [Readers -> SUBSET Writers]
  /\ opened \in [Readers -> SUBSET Writers]

RequestTypeOK ==
  /\ want \in [Readers -> SUBSET Writers]
  /\ need \in [Readers -> SUBSET Writers]
  /\ sendees \in [Readers -> Seq(Writers)]
  /\ numPending \in [Readers -> 0 .. 1]
  /\ numCompleted \in [Readers -> Nat]
  /\ lastStep \in [Readers -> Steps]
  /\ finalized \in [Readers -> BOOLEAN]
  /\ gp \in [Readers -> Steps \cup {None}]
  /\ got \in [Readers -> SUBSET Replies]

(* Every variable keeps its type, and every step number that the writers   *)
(* buffer, announce or send is a step they have published.                 *)
TypeOK ==
  AppTypeOK /\ StoneTypeOK /\ ControlTypeOK /\ ReaderTypeOK /\ RequestTypeOK

(* Everything a reader works with belongs to the step it is at: every      *)
(* buffer raw_handler copied in and, when there are global arrays, the     *)
(* group message by whose distribution schedule_read selects writers.      *)
StepConsistency ==
  \A r \in Readers :
    /\ \A d \in got[r] : d.step = mystep[r]
    /\ GlobalVars /\ rpc[r] \in {"schedule", "perform", "perform sent",
                                 "perform wait", "release barrier"}
         => gp[r] = mystep[r]

(* The reader's view of an open bridge and the writer's agree until the    *)
(* reader's CLOSE is on its way: the writer has counted it, still is at    *)
(* the reader's step and still has that step's buffer in front.            *)
OpenStepRetained ==
  \A r \in Readers : \A w \in opened[r] :
    (awaiting[r] = "CLOSE" /\ dst[r] = w) \/
      /\ r \in bridgeOpened[w]
      /\ readerStep[w] = mystep[r]
      /\ dataQueue[w] # <<>> => Head(dataQueue[w]) = mystep[r]

(* The reference count of process_open_msg, process_close_msg and          *)
(* process_data_flush is the number of bridges marked open: no OPEN is     *)
(* counted twice and no CLOSE missed, so zero means nobody is left.        *)
OpenCountExact ==
  \A w \in Writers : openCount[w] = Cardinality(bridgeOpened[w])

(* No writer buffers more than maxQueueSize + 1 steps.                     *)
BufferBound ==
  MaxQueueSize > 0 => \A w \in Writers : Len(dataQueue[w]) <= MaxQueueSize + 1

(* The step the control thread will serve next: it moves on when the       *)
(* buffer is dequeued, a little before readerStep is incremented.          *)
ServedStep(w) ==
  IF cpc[w] \in {"close waits", "close resumes"} THEN readerStep[w] + 1
  ELSE readerStep[w]

(* How many steps adios_flexpath_close has put into the data queue.        *)
EnqueuedSteps(w) ==
  IF wpc[w] \in {"gather", "publish step", "publish group"}
  THEN writerStep[w] + 1 ELSE writerStep[w]

(* The data queue is exactly the window between the readers and the        *)
(* writer: no step is skipped, repeated or reordered on its way through.   *)
QueueIsWindow ==
  \A w \in Writers :
    /\ ServedStep(w) + Len(dataQueue[w]) = EnqueuedSteps(w)
    /\ \A i \in 1 .. Len(dataQueue[w]) : dataQueue[w][i] = ServedStep(w) + i - 1

(* A reader that leaves the stream has walked through every step of it:    *)
(* end of stream is only reported at the writer's last step, although the  *)
(* step and finalized answers may be older than the writer's state.        *)
EndOfStreamAtLastStep ==
  \A r \in Readers :
    rpc[r] \in {"end of stream", "done"} => mystep[r] = NSteps - 1

(* adios_read_flexpath_perform_reads returns with the buffer of every      *)
(* writer a scheduled read needs, the asked-for arrays in it.              *)
ReadsComplete ==
  \A r \in Readers :
    rpc[r] \in {"release barrier", "release", "advance barrier", "poll",
                "poll wait", "close", "end of stream", "step barrier"} =>
      \A w \in want[r] :
        [writer |-> w, step |-> mystep[r], asked |-> TRUE] \in got[r]

(* With global arrays the writers stay within one step of each other.      *)
WritersInLockstep ==
  GlobalVars => \A v, w \in Writers : writerStep[v] - writerStep[w] <= 1

(* A step's buffer leaves the queue only when every reader that needed it  *)
(* has it, and no reader still has the step open.  The reference count     *)
(* decides that, and the OPENs, DATA requests and CLOSEs of all readers    *)
(* reach it in any order.                                                  *)
BufferDroppedAfterUse ==
  [][\A w \in Writers :
       Len(dataQueue'[w]) < Len(dataQueue[w]) =>
         \A r \in Readers :
           /\ w \in want[r] /\ mystep[r] = Head(dataQueue[w]) =>
                [writer |-> w, step |-> mystep[r], asked |-> TRUE] \in got[r]
           /\ w \in opened[r] => awaiting[r] = "CLOSE" /\ dst[r] = w]_vars

(* Both programs run to their end, if no step's reads need more than one   *)
(* writer: every reader reaches the end of the stream and closes it, and   *)
(* finalize returns at every writer.  With two writers to ask in a step    *)
(* perform_reads may wait for ever (PerformReadsReturns).                  *)
StreamEnds ==
  [](\A r \in Readers : Cardinality(want[r]) <= 1) => <>Finished

(* "adios_advance_step() also releases the step from which one advances    *)
(* forward so it is not necessary to call" adios_release_step              *)
(* (public/adios_read_v2.h): advancing without it returns.                 *)
AdvanceReturns ==
  \A r \in Readers :
    rpc[r] = "advance barrier" ~> rpc[r] \in {"schedule", "end of stream"}

(* A blocking adios_perform_reads returns when all reads are completed     *)
(* (public/adios_read_v2.h).                                               *)
PerformReadsReturns ==
  \A r \in Readers :
    rpc[r] = "perform" ~> rpc[r] \in {"release barrier", "advance barrier"}
=============================================================================
