------------------------------ MODULE DataSpaces ------------------------------
(***************************************************************************)
(* The DATASPACES and DIMES staging methods: a parallel writer program     *)
(* (write/adios_dataspaces.c, write/adios_dimes.c) and a parallel reader   *)
(* program (read/read_dataspaces.c, read/read_dimes.c) that share a stream *)
(* through the DataSpaces servers.                                         *)
(*                                                                         *)
(* The servers are external.  They hold the objects VERSION@, FILE@,       *)
(* GROUP@ and READ_STATUS@ of the stream, the last MaxVersions versions of *)
(* an object that is put with a version, and one reader/writer lock per    *)
(* stream.  A lock or unlock call is collective over the communicator it   *)
(* is given.  DATASPACES keeps the arrays in the servers; DIMES keeps them *)
(* in the memory of the writers, which free them.                          *)
(*                                                                         *)
(* Array data is the number of the step it belongs to.  The reader         *)
(* program runs the same calls on every rank; the only decision the ranks  *)
(* take separately is whether their own clock has passed the timeout.      *)
(***************************************************************************)
EXTENDS Integers, FiniteSets

CONSTANTS
  NW, NR,       \* sizes of the writer and of the reader program
  NSteps,       \* bound: steps the writer program writes
  MaxVersions,  \* versions of an object the servers keep (max_versions)
  Calls         \* how the programs may call ADIOS

Writers == 0 .. NW - 1
Readers == 0 .. NR - 1
Steps == 0 .. NSteps - 1

(* What the programs ask for.  Every rank of the reader program makes the  *)
(* same calls: it passes `last' or not, a timeout_sec >= 0 or not, calls   *)
(* adios_release_step or not, retries after a timeout or gives up, and     *)
(* closes the stream after the first step it gets or at the end of stream. *)
AnyCall == [method : {"DATASPACES", "DIMES"}, lockMode : {"CURRENT", "ALL"},
            last : BOOLEAN, timeout : BOOLEAN, release : BOOLEAN,
            retry : BOOLEAN, closeFirst : BOOLEAN]

ASSUME DataSpacesAssumption ==
  /\ {NW, NR, NSteps, MaxVersions} \subseteq Nat \ {0}
  /\ Calls \subseteq AnyCall

VARIABLES
  call,         \* how the programs call ADIOS
  (* the servers *)
  writeLock,    \* the stream is locked for writing
  lockedFname,  \* the reader ranks that hold the read lock (ds->locked_fname)
  version,      \* VERSION@: the last version put and whether it is final
  files,        \* the versions of FILE@ the servers hold
  groups,       \* the versions of GROUP@ the servers hold
  readStatus,   \* READ_STATUS@ (DIMES), -1 before the first put
  data,         \* the steps of which writer w's arrays can be got
  (* writer ranks *)
  wpc, timeIndex,
  gaveUp,       \* history: check_read_status_var of some rank timed out
  (* reader ranks *)
  rpc,
  step,         \* the local variable of get_step
  lastVersion,  \* version_info_buf[0]
  whichVersion, \* get_step's parameter
  currentStep   \* ds->current_step

spaceVars == <<writeLock, lockedFname, version, files, groups, readStatus, data>>
writerVars == <<wpc, timeIndex, gaveUp>>
readerVars == <<rpc, step, lastVersion, whichVersion, currentStep>>
vars == <<call, spaceVars, writerVars, readerVars>>

Dimes == call.method = "DIMES"

Init ==
  /\ call \in Calls
  /\ writeLock = FALSE
  /\ lockedFname = {}
  /\ version = [last |-> -1, terminated |-> FALSE]
  /\ files = {}
  /\ groups = {}
  /\ readStatus = -1
  /\ data = [w \in Writers |-> {}]
  /\ wpc = [w \in Writers |-> "idle"]
  /\ timeIndex = [w \in Writers |-> -1]
  /\ gaveUp = FALSE
  /\ rpc = [r \in Readers |-> "start"]
  /\ step = [r \in Readers |-> 0]
  /\ lastVersion = [r \in Readers |-> -1]
  /\ whichVersion = [r \in Readers |-> "next available"]
  /\ currentStep = [r \in Readers |-> -1]

(* dspaces_put of version v of an object: the slot of v - MaxVersions is   *)
(* reused.                                                                 *)
Put(versions, v) == {u \in versions : u > v - MaxVersions} \cup {v}

-----------------------------------------------------------------------------
(***************************************************************************)
(* The writer program.                                                     *)
(***************************************************************************)
WriterAt(w, here, there) ==
  /\ wpc[w] = here
  /\ wpc' = [wpc EXCEPT ![w] = there]

WritersAt(here, there) ==
  /\ \A w \in Writers : wpc[w] = here
  /\ wpc' = [w \in Writers |-> there]

(* adios_open: a new version, then the collective write lock.              *)
Open(w) ==
  /\ WriterAt(w, "idle", "lock")
  /\ timeIndex[w] < NSteps - 1
  /\ timeIndex' = [timeIndex EXCEPT ![w] = @ + 1]
  /\ UNCHANGED <<call, spaceVars, gaveUp, readerVars>>

(* DIMES frees the arrays of the earlier steps once it has the lock.       *)
LockOnWrite ==
  /\ WritersAt("lock", "write")
  /\ ~writeLock /\ lockedFname = {}
  /\ writeLock' = TRUE
  /\ data' = IF Dimes THEN [w \in Writers |-> {}] ELSE data
  /\ UNCHANGED <<call, lockedFname, version, files, groups, readStatus,
                 timeIndex, gaveUp, readerVars>>

(* adios_write: the rank's blocks of the global arrays.                    *)
Write(w) ==
  /\ WriterAt(w, "write", "barrier")
  /\ data' = [data EXCEPT ![w] = Put(@, timeIndex[w])]
  /\ UNCHANGED <<call, writeLock, lockedFname, version, files, groups,
                 readStatus, timeIndex, gaveUp, readerVars>>

(* adios_close: after a barrier rank 0 puts GROUP@, FILE@ and VERSION@,    *)
(* one after the other; then a barrier and the collective unlock.          *)
CloseBarrier ==
  /\ \A w \in Writers : wpc[w] = "barrier"
  /\ wpc' = [w \in Writers |-> IF w = 0 THEN "put group" ELSE "unlock"]
  /\ UNCHANGED <<call, spaceVars, timeIndex, gaveUp, readerVars>>

PutGroup ==
  /\ WriterAt(0, "put group", "put file")
  /\ groups' = Put(groups, timeIndex[0])
  /\ UNCHANGED <<call, writeLock, lockedFname, version, files, readStatus, data,
                 timeIndex, gaveUp, readerVars>>

PutFile ==
  /\ WriterAt(0, "put file", "put version")
  /\ files' = Put(files, timeIndex[0])
  /\ UNCHANGED <<call, writeLock, lockedFname, version, groups, readStatus, data,
                 timeIndex, gaveUp, readerVars>>

PutVersion ==
  /\ WriterAt(0, "put version", "unlock")
  /\ version' = [last |-> timeIndex[0], terminated |-> FALSE]
  /\ UNCHANGED <<call, writeLock, lockedFname, files, groups, readStatus, data,
                 timeIndex, gaveUp, readerVars>>

UnlockOnWrite ==
  /\ WritersAt("unlock", "idle")
  /\ writeLock' = FALSE
  /\ UNCHANGED <<call, lockedFname, version, files, groups, readStatus, data,
                 timeIndex, gaveUp, readerVars>>

(* Mutant of Announces: no rank announces the end.                         *)
AnnouncesNever(w) == FALSE

(* The ranks that announce the end of the stream in adios_finalize: rank 0 *)
(* with DATASPACES, every other rank with DIMES (iam_rank0 == 0).          *)
Announces(w) == IF Dimes THEN w # 0 ELSE w = 0

Finalize(w) ==
  /\ wpc[w] = "idle"
  /\ timeIndex[w] = NSteps - 1
  /\ wpc' = [wpc EXCEPT ![w] = IF ~Announces(w) THEN "announced"
                               ELSE IF Dimes THEN "check" ELSE "final lock"]
  /\ UNCHANGED <<call, spaceVars, timeIndex, gaveUp, readerVars>>

(* DIMES, check_read_status_var: poll READ_STATUS@ until the readers have  *)
(* released the last version, but no longer than its timeout.              *)
LastVersionRead(w) ==
  /\ WriterAt(w, "check", "final lock")
  /\ readStatus = timeIndex[w]
  /\ UNCHANGED <<call, spaceVars, timeIndex, gaveUp, readerVars>>

CheckTimeout(w) ==
  /\ WriterAt(w, "check", "final lock")
  /\ readStatus # timeIndex[w]
  /\ gaveUp' = TRUE
  /\ UNCHANGED <<call, spaceVars, timeIndex, readerVars>>

FinalLock(w) ==
  /\ WriterAt(w, "final lock", "final put")
  /\ ~writeLock /\ lockedFname = {}
  /\ writeLock' = TRUE
  /\ UNCHANGED <<call, lockedFname, version, files, groups, readStatus, data,
                 timeIndex, gaveUp, readerVars>>

FinalPut(w) ==
  /\ WriterAt(w, "final put", "final unlock")
  /\ version' = [last |-> timeIndex[w], terminated |-> TRUE]
  /\ UNCHANGED <<call, writeLock, lockedFname, files, groups, readStatus, data,
                 timeIndex, gaveUp, readerVars>>

FinalUnlock(w) ==
  /\ WriterAt(w, "final unlock", "announced")
  /\ writeLock' = FALSE
  /\ UNCHANGED <<call, lockedFname, version, files, groups, readStatus, data,
                 timeIndex, gaveUp, readerVars>>

(* A barrier, then DIMES frees all its arrays (dimes_put_sync_all).        *)
Disconnect(w) ==
  /\ WriterAt(w, "announced", "done")
  /\ \A u \in Writers : wpc[u] \in {"announced", "done"}
  /\ data' = IF Dimes THEN [data EXCEPT ![w] = {}] ELSE data
  /\ UNCHANGED <<call, writeLock, lockedFname, version, files, groups,
                 readStatus, timeIndex, gaveUp, readerVars>>

-----------------------------------------------------------------------------
(***************************************************************************)
(* The reader program: get_step.  The metadata is got by rank 0 and        *)
(* broadcast, so all ranks make each attempt together and an attempt sees  *)
(* one state of the space; a rank that fails unlocks and looks at its own  *)
(* clock.                                                                  *)
(***************************************************************************)
LockOnRead ==
  /\ \A r \in Readers : rpc[r] = "lock"
  /\ ~writeLock
  /\ lockedFname' = Readers
  /\ rpc' = [r \in Readers |-> "get version"]
  /\ UNCHANGED <<call, writeLock, version, files, groups, readStatus, data,
                 writerVars, step, lastVersion, whichVersion, currentStep>>

(* Mutant of VersionStatus: the end is reported before the last steps.     *)
VersionStatusTerminated(r) ==
  IF version.last = -1 THEN "not found"
  ELSE IF version.terminated THEN "end of stream"
  ELSE IF version.last >= step[r] THEN "get file"
  ELSE "not ready"

(* The status of an attempt that ends with VERSION@.                       *)
VersionStatus(r) ==
  IF version.last = -1 THEN "not found"
  ELSE IF version.last >= step[r] THEN "get file"
  ELSE IF version.terminated THEN "end of stream"
  ELSE "not ready"

(* Mutant of FirstTried: the newest step whatever was asked for.           *)
FirstTriedNewest(r) == version.last

(* The step whose FILE@ is tried first: DIMES only has the last version.   *)
FirstTried(r) ==
  IF Dimes \/ whichVersion[r] = "last" THEN version.last ELSE step[r]

GetVersion ==
  /\ \A r \in Readers : rpc[r] = "get version"
  /\ rpc' = [r \in Readers |-> VersionStatus(r)]
  /\ lockedFname' = {r \in Readers : rpc'[r] = "get file"}
  /\ step' = [r \in Readers |->
                IF rpc'[r] = "get file" THEN FirstTried(r) ELSE step[r]]
  /\ lastVersion' = [r \in Readers |-> version.last]
  /\ UNCHANGED <<call, writeLock, version, files, groups, readStatus, data,
                 writerVars, whichVersion, currentStep>>

(* FILE@ of the wanted step is not there: step has been incremented.       *)
MaxCheckVersion(r) ==
  IF whichVersion[r] = "next" THEN step[r] ELSE lastVersion[r]

(* Mutant of FileStatus: the search stops after the first attempt.         *)
FileStatusOnce(r) ==
  IF Dimes \/ whichVersion[r] # "next" THEN "error"
  ELSE IF step[r] + 1 < lastVersion[r] THEN "disappeared"
  ELSE "not ready"

(* Mutant of FileStatus: every advance polls on with the next step.        *)
FileStatusPolls(r) == "not ready"

FileStatus(r) ==
  IF ~Dimes /\ step[r] + 1 <= MaxCheckVersion(r) THEN "get file"
  ELSE IF Dimes \/ whichVersion[r] # "next" THEN "error"
  ELSE IF step[r] + 1 < lastVersion[r] THEN "disappeared"
  ELSE "not ready"

GetFile ==
  /\ \A r \in Readers : rpc[r] = "get file"
  /\ IF step[0] \in files
       THEN /\ currentStep' = step
            /\ rpc' = [r \in Readers |-> "get group"]
            /\ UNCHANGED <<step, lockedFname>>
       ELSE /\ rpc' = [r \in Readers |-> FileStatus(r)]
            /\ step' = [r \in Readers |-> step[r] + 1]
            /\ lockedFname' = {r \in Readers : rpc'[r] = "get file"}
            /\ UNCHANGED currentStep
  /\ UNCHANGED <<call, writeLock, version, files, groups, readStatus, data,
                 writerVars, lastVersion, whichVersion>>

GetGroup ==
  /\ \A r \in Readers : rpc[r] = "get group"
  /\ IF currentStep[0] \in groups
       THEN rpc' = [r \in Readers |-> "open"] /\ UNCHANGED lockedFname
       ELSE rpc' = [r \in Readers |-> "error"] /\ lockedFname' = {}
  /\ UNCHANGED <<call, writeLock, version, files, groups, readStatus, data,
                 writerVars, step, lastVersion, whichVersion, currentStep>>

(* The end of the poll loop, each rank by its own clock: poll again with   *)
(* the same step, or return the status to the application.                 *)
Poll(r) ==
  /\ rpc[r] \in {"not found", "not ready"}
  /\ rpc' = [rpc EXCEPT ![r] = "lock"]
  /\ UNCHANGED <<call, spaceVars, writerVars, step, lastVersion, whichVersion,
                 currentStep>>

TimeoutExpired(r) ==
  /\ call.timeout
  /\ rpc[r] \in {"not found", "not ready"}
  /\ rpc' = [rpc EXCEPT ![r] = IF @ = "not found" THEN "no stream"
                                    ELSE "timed out"]
  /\ UNCHANGED <<call, spaceVars, writerVars, step, lastVersion, whichVersion,
                 currentStep>>

-----------------------------------------------------------------------------
(* adios_read_open: the first step still there.                            *)
ReadOpen(r) ==
  /\ \/ rpc[r] = "start"
     \/ rpc[r] = "no stream" /\ call.retry
  /\ rpc' = [rpc EXCEPT ![r] = "lock"]
  /\ step' = [step EXCEPT ![r] = 0]
  /\ whichVersion' = [whichVersion EXCEPT ![r] = "next available"]
  /\ UNCHANGED <<call, spaceVars, writerVars, lastVersion, currentStep>>

(* Mutant of Released: READ_STATUS@ is put before the step is released.    *)
ReleasedEarly(r) == IF Dimes /\ r = 0 THEN currentStep[r] + 1 ELSE readStatus

(* release_step: DIMES rank 0 puts READ_STATUS@ before it unlocks.         *)
Released(r) == IF Dimes /\ r = 0 THEN currentStep[r] ELSE readStatus

ReleaseStep(r) ==
  /\ rpc[r] = "open" /\ call.release
  /\ rpc' = [rpc EXCEPT ![r] = "released"]
  /\ readStatus' = Released(r)
  /\ lockedFname' = lockedFname \ {r}
  /\ UNCHANGED <<call, writeLock, version, files, groups, data, writerVars, step,
                 lastVersion, whichVersion, currentStep>>

WhichVersion(last) ==
  IF last THEN "last" ELSE IF call.lockMode = "ALL" THEN "next"
  ELSE "next available"

(* advance_step, which releases a step that is still open.  After          *)
(* err_step_disappeared the application asks for the newest step.          *)
AdvanceStep(r) ==
  /\ \/ rpc[r] = IF call.release THEN "released" ELSE "open"
     \/ rpc[r] = "timed out" /\ call.retry
     \/ rpc[r] = "disappeared"
  /\ ~call.closeFirst
  /\ rpc' = [rpc EXCEPT ![r] = "lock"]
  /\ whichVersion' = [whichVersion EXCEPT
       ![r] = WhichVersion(call.last \/ rpc[r] = "disappeared")]
  /\ step' = [step EXCEPT ![r] = currentStep[r] + 1]
  /\ readStatus' = IF rpc[r] = "open" THEN Released(r) ELSE readStatus
  /\ lockedFname' = lockedFname \ {r}
  /\ UNCHANGED <<call, writeLock, version, files, groups, data, writerVars,
                 lastVersion, currentStep>>

(* adios_read_close unlocks, and leaves READ_STATUS@ alone.                *)
ReadClose(r) ==
  /\ \/ rpc[r] = (IF call.release THEN "released" ELSE "open")
        /\ call.closeFirst
     \/ rpc[r] \in {"timed out", "no stream"} /\ ~call.retry
     \/ rpc[r] = "end of stream"
  /\ rpc' = [rpc EXCEPT ![r] = "closed"]
  /\ lockedFname' = lockedFname \ {r}
  /\ UNCHANGED <<call, writeLock, version, files, groups, readStatus, data,
                 writerVars, step, lastVersion, whichVersion, currentStep>>

-----------------------------------------------------------------------------
WriterStep(w) ==
  \/ Open(w) \/ Write(w) \/ Finalize(w) \/ LastVersionRead(w) \/ CheckTimeout(w)
  \/ FinalPut(w) \/ FinalUnlock(w) \/ Disconnect(w)
WriterCollective ==
  CloseBarrier \/ PutGroup \/ PutFile \/ PutVersion \/ UnlockOnWrite
ReaderCollective == GetVersion \/ GetFile \/ GetGroup
ReaderStep(r) ==
  Poll(r) \/ ReadOpen(r) \/ ReleaseStep(r) \/ AdvanceStep(r) \/ ReadClose(r)

Next ==
  \/ \E w \in Writers : WriterStep(w) \/ FinalLock(w)
  \/ WriterCollective \/ LockOnWrite
  \/ ReaderCollective \/ LockOnRead
  \/ \E r \in Readers : ReaderStep(r) \/ TimeoutExpired(r)

SafeSpec == Init /\ [][Next]_vars

(* The programs keep running, the poll loops keep polling, the servers     *)
(* grant a lock that is free again and again.                              *)
Fairness ==
  /\ \A w \in Writers : WF_vars(WriterStep(w)) /\ SF_vars(FinalLock(w))
  /\ WF_vars(WriterCollective) /\ SF_vars(LockOnWrite)
  /\ WF_vars(ReaderCollective) /\ SF_vars(LockOnRead)
  /\ \A r \in Readers : WF_vars(ReaderStep(r))

Spec == SafeSpec /\ Fairness

-----------------------------------------------------------------------------
(***************************************************************************)
(* Properties.                                                             *)
(***************************************************************************)

(* A step a reader has open keeps all its arrays until the reader lets it  *)
(* go, unless a DIMES writer stopped waiting for the readers.              *)
OpenStepComplete ==
  \A r \in Readers : rpc[r] = "open" /\ ~gaveUp =>
    \A w \in Writers : currentStep[r] \in data[w]

(* "Unexpected state": a version announced by VERSION@ always has its      *)
(* metadata.                                                               *)
NoUnexpectedState == \A r \in Readers : rpc[r] # "error"

(* End of stream is reported when the writer has finalized and the reader  *)
(* has seen the last step there was.                                       *)
EndMeansAllSeen ==
  \A r \in Readers : rpc[r] = "end of stream" =>
    /\ version.terminated
    /\ currentStep[r] = NSteps - 1

(* The ranks of the reader program that have a step open have the same,    *)
(* although each of them decides by its own clock when to stop polling.    *)
RanksAgree ==
  \A r, q \in Readers :
    rpc[r] = "open" /\ rpc[q] = "open" =>
      currentStep[r] = currentStep[q]

(* A reader moves forward only, and unless it asks for the last step it    *)
(* skips only steps whose arrays are gone.                                 *)
SkipsOnlyGoneSteps ==
  [][\A r \in Readers : currentStep'[r] # currentStep[r] =>
       /\ currentStep'[r] > currentStep[r]
       /\ whichVersion[r] # "last" =>
            \A s \in currentStep[r] + 1 .. currentStep'[r] - 1 :
              \E w \in Writers : s \notin data[w]]_vars

(* The writer program always finishes, whatever the readers do, and so     *)
(* does a reader program that does not ask for timeouts: it gets to the    *)
(* end of the stream.                                                      *)
ProgramsFinish ==
  /\ <>(\A w \in Writers : wpc[w] = "done")
  /\ ~call.timeout => <>(\A r \in Readers : rpc[r] = "closed")
==============================================================================
