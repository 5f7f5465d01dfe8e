------------------------------- MODULE BpStream -------------------------------
(***************************************************************************)
(* A program that reads a BP file as a stream (read/read_bp.c,             *)
(* core/bp_utils.c) while another one appends to it (PosixWrite).          *)
(*                                                                         *)
(* The two share only the file.  The reader looks at it four times to open *)
(* it: check_bp_validity, the size, the minifooter, the index; the writer  *)
(* may write between any two of them.  What bp_open returns is not looked  *)
(* at, so a minifooter or an index that is not there leaves the reader     *)
(* with an uninitialised BP_FILE; such a reader is in state "undefined"    *)
(* and the model does not follow it further.                               *)
(***************************************************************************)
EXTENDS PosixWrite

CONSTANTS
  Stream,      \* the group whose file is read
  Lasts,       \* the values of the argument `last' of adios_advance_step
  Timeouts,    \* whether the reader passes a timeout that can expire
  Retries      \* whether it advances again after err_step_notready

ASSUME BpStreamAssumption ==
  /\ Stream \in Groups
  /\ Lasts \cup Timeouts \cup Retries \subseteq BOOLEAN

VARIABLES
  rpc,         \* where the reader is
  fh,          \* p->fh: the index it parsed, EmptyIndex when closed
  size,        \* mfooter.file_size of the open in progress
  footer,      \* pgs_index_offset of the open in progress
  lastTidx,    \* last_tidx of the advance in progress, 0 in adios_read_open
  last,        \* its argument `last'
  currentStep, lastStep, \* the fields of ADIOS_FILE
  shown,       \* the variables of the step the reader is at
  seen,        \* history: the steps it has been at
  complete     \* history: the writer had finished when it opened the stream

readerVars == <<rpc, fh, size, footer, lastTidx, last, currentStep, lastStep,
                shown, seen, complete>>

Data == file[Stream]

(* bp_parse_pgs.                                                           *)
TidxStart(ix) == ix.pgs[1].time
TidxStop(ix) == Last(ix.pgs).time

TimeOf(ix, e) == (CHOOSE pg \in ToSet(ix.pgs) : pg.sid = e.sid).time

(* Mutant: counts the steps from one.                                      *)
GetTimeFromOne(ix, step) ==
  LET times == {TimeOf(ix, e) : e \in {x \in ToSet(ix.vars) : x.var = ix.vars[1].var}}
      nth == {t \in times : Cardinality({u \in times : u < t}) + 1 = step}
  IN IF nth = {} THEN -1 ELSE CHOOSE t \in nth : TRUE

(* get_time: the step-th time at which the first variable of the index was *)
(* written; -1 when there are not that many.                               *)
GetTime(ix, step) ==
  LET times == {TimeOf(ix, e) : e \in {x \in ToSet(ix.vars) : x.var = ix.vars[1].var}}
      nth == {t \in times : Cardinality({u \in times : u < t}) = step}
  IN IF nth = {} THEN -1 ELSE CHOOSE t \in nth : TRUE

(* bp_seek_to_step: the entries of the variables of a step.                *)
SeekToStep(ix, step) == {e \in ToSet(ix.vars) : TimeOf(ix, e) = GetTime(ix, step)}

ReaderInit ==
  /\ rpc = "open"
  /\ fh = EmptyIndex
  /\ size = 0 /\ footer = 0 /\ lastTidx = 0
  /\ last = FALSE
  /\ currentStep = 0 /\ lastStep = 0
  /\ shown = {}
  /\ seen = <<>>
  /\ complete = FALSE

(* The poll loops of open_stream and get_new_step.                         *)
CheckBpValidity ==
  /\ rpc \in {"open", "poll"}
  /\ Valid(Data)
  /\ rpc' = "size"
  /\ UNCHANGED <<fh, size, footer, lastTidx, last, currentStep, lastStep, shown,
                 seen, complete>>

(* The file is not valid and the timeout of the loop has expired.  p->fh   *)
(* was closed before the loop of an advance.                               *)
Expired ==
  /\ TRUE \in Timeouts
  /\ ~Valid(Data)
  /\ \/ rpc = "open" /\ rpc' = "failed"
     \/ rpc = "poll" /\ rpc' = "notready"
  /\ UNCHANGED <<fh, size, footer, lastTidx, last, currentStep, lastStep, shown,
                 seen, complete>>

BpReadOpen ==
  /\ rpc = "size"
  /\ size' = Len(Data)
  /\ rpc' = "footer"
  /\ UNCHANGED <<fh, footer, lastTidx, last, currentStep, lastStep, shown, seen,
                 complete>>

BpReadMinifooter ==
  /\ rpc = "footer"
  /\ LET cell == Data[size] IN
       IF cell[1] = "footer"
       THEN rpc' = "index" /\ footer' = cell[2]
       ELSE rpc' = "undefined" /\ UNCHANGED footer
  /\ UNCHANGED <<fh, size, lastTidx, last, currentStep, lastStep, shown, seen,
                 complete>>

(* The index as it is read now, at the offset the minifooter gave.         *)
IndexRead == SubSeq(Data, footer + 1, size - 1)
Parsable == WholeIndex(IndexRead) /\ IndexRead[1][2].vars # <<>>

(* The step the reader is at once the index is parsed.  In open_stream the *)
(* first one; in adios_read_bp_advance_step the one after last_step, which *)
(* build_ADIOS_FILE_struct has just set, or last_step itself.              *)
StepAfterReopen(newLast) == IF last THEN newLast ELSE newLast + 1

AtStep(ix, step) ==
  /\ currentStep' = step
  /\ shown' = SeekToStep(ix, step)
  /\ seen' = Append(seen, step)

BpParseFails ==
  /\ rpc = "index"
  /\ ~Parsable
  /\ rpc' = "undefined"
  /\ UNCHANGED <<fh, size, footer, lastTidx, last, currentStep, lastStep, shown,
                 seen, complete>>

OpenStream ==
  /\ rpc = "index" /\ lastTidx = 0
  /\ Parsable
  /\ LET ix == IndexRead[1][2] IN
       /\ fh' = ix
       /\ lastStep' = TidxStop(ix) - TidxStart(ix)
       /\ AtStep(ix, 0)
  /\ rpc' = "step"
  /\ complete' = (sessions = MaxSessions /\ fd[Stream].st = "closed")
  /\ UNCHANGED <<size, footer, lastTidx, last>>

(* get_new_step finds the file with the steps it knows.                    *)
NoNewStep ==
  /\ rpc = "index" /\ lastTidx # 0
  /\ Parsable
  /\ TidxStop(IndexRead[1][2]) = lastTidx
  /\ rpc' \in {IF expires THEN "notready" ELSE "poll" : expires \in Timeouts}
  /\ UNCHANGED <<fh, size, footer, lastTidx, last, currentStep, lastStep, shown,
                 seen, complete>>

GetNewStep ==
  /\ rpc = "index" /\ lastTidx # 0
  /\ Parsable
  /\ LET ix == IndexRead[1][2] IN
       /\ TidxStop(ix) # lastTidx
       /\ fh' = ix
       /\ lastStep' = TidxStop(ix) - 1
       /\ AtStep(ix, StepAfterReopen(TidxStop(ix) - 1))
  /\ rpc' = "step"
  /\ UNCHANGED <<size, footer, lastTidx, last, complete>>

(* adios_read_bp_advance_step, the step is in the index already.           *)
AdvanceInIndex ==
  /\ rpc = "step"
  /\ FALSE \in Lasts
  /\ currentStep < lastStep
  /\ AtStep(fh, currentStep + 1)
  /\ UNCHANGED <<rpc, fh, size, footer, lastTidx, last, lastStep, complete>>

(* It is not, or the newest step is asked for: the file is closed, and the *)
(* loop of get_new_step starts.  For the newest step get_new_step is given *)
(* the file name inside the BP_FILE that bp_close has freed: the name is   *)
(* still there or it is not.                                               *)
AdvanceReopen(newest) ==
  /\ rpc = "step"
  /\ newest \/ currentStep >= lastStep
  /\ lastTidx' = TidxStop(fh)
  /\ last' = newest
  /\ fh' = EmptyIndex
  /\ rpc' \in IF newest THEN {"poll", "undefined"} ELSE {"poll"}
  /\ UNCHANGED <<size, footer, currentStep, lastStep, shown, seen, complete>>

(* After err_step_notready the reader closes the stream, or advances again *)
(* and finds no BP_FILE behind p->fh.                                      *)
AfterTimeout ==
  /\ rpc = "notready"
  /\ rpc' \in {IF again THEN "undefined" ELSE "closed" : again \in Retries}
  /\ UNCHANGED <<fh, size, footer, lastTidx, last, currentStep, lastStep, shown,
                 seen, complete>>

CloseStream ==
  /\ rpc = "step"
  /\ rpc' = "closed"
  /\ fh' = EmptyIndex
  /\ shown' = {}
  /\ UNCHANGED <<size, footer, lastTidx, last, currentStep, lastStep, seen, complete>>

ReaderNext ==
  \/ CheckBpValidity \/ Expired
  \/ BpReadOpen \/ BpReadMinifooter \/ BpParseFails
  \/ OpenStream \/ NoNewStep \/ GetNewStep
  \/ AdvanceInIndex
  \/ \E newest \in Lasts : AdvanceReopen(newest)
  \/ AfterTimeout \/ CloseStream

(* The writer reserves its pool before it opens the stream.                *)
WriterNext ==
  \/ pool.max = 0 /\ \E n \in PoolSizes : AllocateBuffer(n)
  \/ pool.max > 0 /\ Next

StreamInit == Init /\ ReaderInit

StreamNext ==
  \/ WriterNext /\ UNCHANGED readerVars
  \/ ReaderNext /\ UNCHANGED vars

StreamSpec == StreamInit /\ [][StreamNext]_<<vars, readerVars>>

-----------------------------------------------------------------------------
(* Properties.                                                             *)

(* The appending sessions never damage what a reader can reach: each       *)
(* variable in the index a reader holds stays in the file as it was        *)
(* written, however many sessions have begun, or are half done, since the  *)
(* reader parsed it.                                                       *)
StaleIndexStillReads ==
  \A e \in ToSet(fh.vars) : IntactEntry(Data, e)

(* A reader that opens the stream after the last session was closed, and   *)
(* asks for the next step each time, is at every step once and in order,   *)
(* and is shown the variables of that step.  get_time counts the steps of  *)
(* the first variable of the index: it has to be written in all of them.   *)
CompleteStreamInOrder ==
  complete /\ rpc = "step" /\ lastTidx = 0
    /\ (\A i \in DOMAIN log[Stream] : log[Stream][i].nvars > 0) =>
    /\ seen = [i \in 1 .. currentStep + 1 |-> i - 1]
    /\ shown # {}
    /\ \A e \in shown : TimeOf(fh, e) = TidxStart(fh) + currentStep

(* read_bp.c about adios_read_bp_advance_step: "last - 0: next available   *)
(* step", and it "RETURN[s]: 0 OK".                                        *)
AdvanceIsNext ==
  [][rpc' = "step" /\ ~last' /\ seen # <<>> => currentStep' = currentStep + 1]_readerVars
=============================================================================
