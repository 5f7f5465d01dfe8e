--------------------------- MODULE DataSpacesProofs ---------------------------
(***************************************************************************)
(* Proofs about the DATASPACES and DIMES methods, for every number of      *)
(* writers, of readers, of steps and of versions the servers keep.         *)
(***************************************************************************)
EXTENDS DataSpaces, TLAPS

(* The versions the servers hold once version n has been put.              *)
Window(n) == {v \in 0 .. n : v > n - MaxVersions}

Closing == {"put group", "put file", "put version"}
FinalLocked == {"final put", "final unlock"}
Ending == {"check", "final lock", "announced", "done"} \cup FinalLocked
WriteLocked == {"write", "barrier", "unlock"} \cup Closing \cup FinalLocked
WriterPc == {"idle", "lock"} \cup WriteLocked \cup Ending

ReadLocked == {"get version", "get file", "get group", "open"}
(* Where the next attempt of get_step starts from the argument it got.     *)
Waiting == {"start", "lock", "get version", "not found", "no stream",
            "not ready", "timed out"}
ReaderPc == ReadLocked \cup Waiting
              \cup {"end of stream", "disappeared", "error", "released", "closed"}

WriterTypeInv ==
  /\ version \in [last : -1 .. NSteps - 1, terminated : BOOLEAN]
  /\ wpc \in [Writers -> WriterPc]
  /\ timeIndex \in [Writers -> -1 .. NSteps - 1]

ReaderTypeInv ==
  /\ readStatus \in Int
  /\ rpc \in [Readers -> ReaderPc]
  /\ step \in [Readers -> Int]
  /\ lastVersion \in [Readers -> Int]
  /\ whichVersion \in [Readers -> {"next", "next available", "last"}]
  /\ currentStep \in [Readers -> Int]

-----------------------------------------------------------------------------
(* The invariant of the writer program.                                    *)

(* The collective calls keep the ranks together: all of them write, or all *)
(* of them close; only rank 0 puts the metadata, and one rank at a time    *)
(* announces the end.                                                      *)
Phase(u, w) ==
  /\ wpc[u] \in {"write", "barrier"} => wpc[w] \in {"write", "barrier"}
  /\ wpc[u] \in Closing \cup {"unlock"} => wpc[w] \in Closing \cup {"unlock"}
  /\ wpc[u] \in Closing => u = 0
  /\ wpc[u] \in FinalLocked /\ wpc[w] \in FinalLocked => u = w
  /\ wpc[u] = "done" => wpc[w] \in {"announced", "done"}

PhaseInv == \A u, w \in Writers : Phase(u, w)

(* A rank that holds the write lock excludes the readers.                  *)
LockInv ==
  /\ writeLock \in BOOLEAN
  /\ \A w \in Writers : wpc[w] \in WriteLocked => writeLock
  /\ lockedFname = {r \in Readers : rpc[r] \in ReadLocked}
  /\ writeLock => lockedFname = {}

(* Rank w is in a step that VERSION@ does not announce yet.                *)
Opening(w) ==
  \/ wpc[w] \in {"lock", "write", "barrier"} \cup Closing
  \/ wpc[w] = "unlock" /\ wpc[0] \in Closing

(* VERSION@ is the last step closed; the end is announced after the last.  *)
VersionInv ==
  /\ \A w \in Writers :
       /\ timeIndex[w] = IF Opening(w) THEN version.last + 1 ELSE version.last
       /\ wpc[w] \in Ending => version.last = NSteps - 1
  /\ version.terminated => version.last = NSteps - 1

(* FILE@ and GROUP@ run ahead of VERSION@ only inside rank 0's close.      *)
MetaInv ==
  /\ files = Window(IF wpc[0] = "put version" THEN version.last + 1
                    ELSE version.last)
  /\ groups = Window(IF wpc[0] \in {"put file", "put version"}
                     THEN version.last + 1 ELSE version.last)

(* The last step of which rank w has put its arrays.                       *)
LastPut(w) ==
  IF wpc[w] \in {"lock", "write"} THEN timeIndex[w] - 1 ELSE timeIndex[w]

(* DIMES keeps the arrays of one step, DATASPACES those of MaxVersions.    *)
DataOf(w) ==
  data[w] = IF ~Dimes THEN Window(LastPut(w))
            ELSE IF wpc[w] \in {"write", "done"} \/ LastPut(w) = -1 THEN {}
            ELSE {LastPut(w)}

DataInv ==
  /\ DOMAIN data = Writers
  /\ \A w \in Writers : DataOf(w)

WriterInv == WriterTypeInv /\ PhaseInv /\ VersionInv /\ MetaInv /\ DataInv

-----------------------------------------------------------------------------
(* The invariant of the reader program.                                    *)

(* The ranks are at the same step and make each attempt together.          *)
TogetherInv ==
  \A r, q \in Readers :
    /\ currentStep[r] = currentStep[q]
    /\ rpc[r] \in {"get version", "get file", "get group"} => rpc[q] = rpc[r]
    /\ rpc[r] = "get file" => step[r] = step[q]

(* Where a rank is in the stream.                                          *)
Position(r) ==
  /\ currentStep[r] \in -1 .. version.last
  /\ rpc[r] \in Waiting => step[r] = currentStep[r] + 1
  /\ rpc[r] \in {"start", "not found", "no stream"} => currentStep[r] = -1
  /\ rpc[r] \in {"not ready", "timed out", "get group", "open", "released",
                 "disappeared"}
       => currentStep[r] >= 0
  /\ rpc[r] \in {"get group", "open"}
       => /\ currentStep[r] \in Window(version.last)
          /\ Dimes => currentStep[r] = version.last
  /\ rpc[r] = "disappeared" => version.last > currentStep[r] + 1
  /\ rpc[r] = "end of stream" => version.terminated /\ currentStep[r] = NSteps - 1
  /\ rpc[r] # "error"

(* What the search for FILE@ knows of the steps it has passed.             *)
Attempt(r) ==
  rpc[r] = "get file" =>
    /\ lastVersion[r] = version.last
    /\ step[r] \in currentStep[r] + 1 .. version.last
    /\ Dimes \/ whichVersion[r] = "last" => step[r] = version.last
    /\ whichVersion[r] = "next" /\ ~Dimes => step[r] = currentStep[r] + 1
    /\ whichVersion[r] # "last" /\ ~Dimes
         => \A s \in currentStep[r] + 1 .. step[r] - 1 : s \notin files

(* A rank asks for the last step after err_step_disappeared only, and then *)
(* there is one.                                                           *)
Asked(r) ==
  /\ currentStep[r] = -1 => whichVersion[r] = "next available"
  /\ rpc[r] \in {"not ready", "timed out"}
       => whichVersion[r] = WhichVersion(call.last)
  /\ rpc[r] \in {"lock", "get version"} /\ currentStep[r] >= 0
       => \/ whichVersion[r] = WhichVersion(call.last)
          \/ whichVersion[r] = "last" /\ version.last > currentStep[r] + 1

(* What a rank asks for in its next attempt, or in the one it is in: the   *)
(* ranks that still read ask for the same.                                 *)
Wanted(r) ==
  IF rpc[r] \in {"open", "released"} THEN WhichVersion(call.last)
  ELSE IF rpc[r] = "disappeared" THEN "last"
  ELSE whichVersion[r]

WantedInv ==
  \A r, q \in Readers :
    rpc[r] # "closed" /\ rpc[q] # "closed" => Wanted(r) = Wanted(q)

ReaderInv ==
  /\ ReaderTypeInv
  /\ TogetherInv
  /\ \A r \in Readers : Position(r) /\ Attempt(r) /\ Asked(r)
  /\ WantedInv

(* DIMES: a rank that announces the end has seen the readers release the   *)
(* last step, or has stopped waiting; once it has had the lock, no reader  *)
(* has that step open any more.                                            *)
Drained(w, r) ==
  /\ wpc[w] \in Ending \ {"check"} => currentStep[r] = NSteps - 1
  /\ wpc[w] \in Ending \ {"check", "final lock"}
       => rpc[r] \notin {"get file", "get group", "open"}

DrainInv ==
  Dimes /\ ~gaveUp =>
    \A r \in Readers :
      /\ readStatus <= currentStep[r]
      /\ \A w \in Writers \ {0} : Drained(w, r)

IInv == call \in Calls /\ WriterInv /\ LockInv /\ ReaderInv /\ DrainInv

-----------------------------------------------------------------------------
WriterAction ==
  \/ \E w \in Writers : WriterStep(w) \/ FinalLock(w)
  \/ WriterCollective \/ LockOnWrite

ReaderAction ==
  \/ ReaderCollective \/ LockOnRead
  \/ \E r \in Readers : ReaderStep(r) \/ TimeoutExpired(r)

(* Every step is one of the writer's or one of the reader's.               *)
LEMMA NextCases ==
  ASSUME [Next]_vars
  PROVE  WriterAction \/ ReaderAction \/ UNCHANGED vars
  BY DEF Next, WriterAction, ReaderAction

(* The reader program changes no more of the servers than the read lock    *)
(* and READ_STATUS@.                                                       *)
LEMMA ReaderFrame ==
  ASSUME ReaderAction
  PROVE  UNCHANGED <<call, writeLock, version, files, groups, data, wpc,
                     timeIndex, gaveUp>>
<1>1. CASE ReaderCollective \/ LockOnRead
  BY <1>1
     DEF ReaderCollective, LockOnRead, GetVersion, GetFile, GetGroup, writerVars
<1>2. ASSUME NEW r \in Readers, ReaderStep(r) \/ TimeoutExpired(r)
      PROVE  UNCHANGED <<call, writeLock, version, files, groups, data, wpc,
                         timeIndex, gaveUp>>
  BY <1>2
     DEF ReaderStep, TimeoutExpired, Poll, ReadOpen, ReleaseStep, AdvanceStep,
              ReadClose, writerVars, spaceVars
<1> QED
  BY <1>1, <1>2 DEF ReaderAction

(* The writer program leaves the reader program's state alone.             *)
LEMMA WriterFrame ==
  ASSUME WriterAction
  PROVE  UNCHANGED <<call, lockedFname, readStatus, rpc, step, lastVersion,
                     whichVersion, currentStep>>
<1>1. CASE WriterCollective \/ LockOnWrite
  BY <1>1 DEF WriterCollective, LockOnWrite, CloseBarrier, PutGroup, PutFile,
              PutVersion, UnlockOnWrite, spaceVars, readerVars
<1>2. ASSUME NEW w \in Writers, WriterStep(w) \/ FinalLock(w)
      PROVE  UNCHANGED <<call, lockedFname, readStatus, rpc, step, lastVersion,
                         whichVersion, currentStep>>
  BY <1>2 DEF WriterStep, FinalLock, Open, Write, Finalize, LastVersionRead,
              CheckTimeout, FinalPut, FinalUnlock, Disconnect, spaceVars, readerVars
<1> QED
  BY <1>1, <1>2 DEF WriterAction

-----------------------------------------------------------------------------
(* Rank 0 exists.                                                          *)
LEMMA Ranks == /\ 0 \in Writers /\ 0 \in Readers
               /\ NSteps \in Nat /\ MaxVersions \in Nat
               /\ MaxVersions > 0 /\ NSteps > 0
  BY DataSpacesAssumption DEF Writers, Readers

(* The writer program keeps its types.                                     *)
LEMMA NextWriterType ==
  ASSUME WriterTypeInv, PhaseInv, VersionInv, WriterAction
  PROVE  WriterTypeInv'
<1>1. ASSUME NEW w \in Writers, Open(w) PROVE WriterTypeInv'
  <2>1. timeIndex[w] \in -1 .. NSteps - 1 /\ timeIndex[w] < NSteps - 1
    BY <1>1 DEF Open, WriterTypeInv
  <2>2. timeIndex[w] + 1 \in -1 .. NSteps - 1
    BY <2>1, Ranks
  <2> QED
    BY <1>1, <2>2
       DEF Open, WriterAt, spaceVars, WriterTypeInv, WriterPc, WriteLocked
<1>2. ASSUME NEW w \in Writers, Write(w) PROVE WriterTypeInv'
  BY <1>2, Ranks
     DEF Write, WriterAt, spaceVars, WriterTypeInv, WriterPc, WriteLocked,
         Ending, Closing, FinalLocked
<1>3. ASSUME NEW w \in Writers, Finalize(w) PROVE WriterTypeInv'
  BY <1>3, Ranks
     DEF Finalize, spaceVars, WriterTypeInv, WriterPc, WriteLocked, Ending,
         Closing, FinalLocked
<1>4. ASSUME NEW w \in Writers, LastVersionRead(w) PROVE WriterTypeInv'
  BY <1>4, Ranks
     DEF LastVersionRead, WriterAt, spaceVars, WriterTypeInv, WriterPc,
         WriteLocked, Ending, Closing, FinalLocked
<1>5. ASSUME NEW w \in Writers, CheckTimeout(w) PROVE WriterTypeInv'
  BY <1>5, Ranks
     DEF CheckTimeout, WriterAt, spaceVars, WriterTypeInv, WriterPc,
         WriteLocked, Ending, Closing, FinalLocked
<1>6. ASSUME NEW w \in Writers, FinalLock(w) PROVE WriterTypeInv'
  BY <1>6, Ranks
     DEF FinalLock, WriterAt, spaceVars, WriterTypeInv, WriterPc, WriteLocked,
         Ending, Closing, FinalLocked
<1>7. ASSUME NEW w \in Writers, FinalPut(w) PROVE WriterTypeInv'
  BY <1>7, Ranks
     DEF FinalPut, WriterAt, spaceVars, WriterTypeInv, WriterPc, WriteLocked,
         Ending, Closing, FinalLocked
<1>8. ASSUME NEW w \in Writers, FinalUnlock(w) PROVE WriterTypeInv'
  BY <1>8, Ranks
     DEF FinalUnlock, WriterAt, spaceVars, WriterTypeInv, WriterPc, WriteLocked,
         Ending, Closing, FinalLocked
<1>9. ASSUME NEW w \in Writers, Disconnect(w) PROVE WriterTypeInv'
  BY <1>9, Ranks
     DEF Disconnect, WriterAt, spaceVars, WriterTypeInv, WriterPc, WriteLocked,
         Ending, Closing, FinalLocked
<1>10. CASE CloseBarrier
  BY <1>10, Ranks
     DEF CloseBarrier, spaceVars, WriterTypeInv, WriterPc, WriteLocked, Ending,
         Closing, FinalLocked
<1>11. CASE PutGroup
  BY <1>11, Ranks
     DEF PutGroup, WriterAt, spaceVars, WriterTypeInv, WriterPc, WriteLocked,
         Ending, Closing, FinalLocked
<1>12. CASE PutFile
  BY <1>12, Ranks
     DEF PutFile, WriterAt, spaceVars, WriterTypeInv, WriterPc, WriteLocked,
         Ending, Closing, FinalLocked
<1>13. CASE PutVersion
  BY <1>13, Ranks
     DEF PutVersion, WriterAt, spaceVars, WriterTypeInv, WriterPc, WriteLocked,
         Ending, Closing, FinalLocked
<1>14. CASE UnlockOnWrite
  BY <1>14, Ranks
     DEF UnlockOnWrite, WritersAt, spaceVars, WriterTypeInv, WriterPc,
         WriteLocked, Ending, Closing, FinalLocked
<1>15. CASE LockOnWrite
  BY <1>15, Ranks
     DEF LockOnWrite, WritersAt, spaceVars, WriterTypeInv, WriterPc,
         WriteLocked, Ending, Closing, FinalLocked
<1> QED
  BY <1>1, <1>2, <1>3, <1>4, <1>5, <1>6, <1>7, <1>8, <1>9, <1>10, <1>11, <1>12,
     <1>13, <1>14, <1>15 DEF WriterAction, WriterStep, WriterCollective

(* The collective calls keep the ranks of the writer program together.     *)
LEMMA NextPhase ==
  ASSUME WriterTypeInv, PhaseInv, LockInv, WriterAction
  PROVE  PhaseInv'
<1> SUFFICES ASSUME NEW u \in Writers, NEW v \in Writers
             PROVE  Phase(u, v)'
  BY DEF PhaseInv
<1>0. /\ wpc \in [Writers -> WriterPc] /\ Phase(u, v) /\ Phase(v, u) /\ Phase(0, u) /\ Phase(0, v)
      /\ wpc[u] \in WriteLocked => writeLock
      /\ wpc[v] \in WriteLocked => writeLock
  BY Ranks DEF PhaseInv, WriterTypeInv, LockInv
<1>1. ASSUME NEW w \in Writers, Open(w) PROVE Phase(u, v)'
  BY <1>1, <1>0, Ranks
     DEF Open, WriterAt, spaceVars, Phase, WriterPc, WriteLocked, Ending,
         Closing, FinalLocked
<1>2. ASSUME NEW w \in Writers, Write(w) PROVE Phase(u, v)'
  BY <1>2, <1>0, Ranks
     DEF Write, WriterAt, spaceVars, Phase, WriterPc, WriteLocked, Ending,
         Closing, FinalLocked
<1>3. ASSUME NEW w \in Writers, Finalize(w) PROVE Phase(u, v)'
  BY <1>3, <1>0, Ranks
     DEF Finalize, spaceVars, Phase, WriterPc, WriteLocked, Ending, Closing,
         FinalLocked
<1>4. ASSUME NEW w \in Writers, LastVersionRead(w) PROVE Phase(u, v)'
  BY <1>4, <1>0, Ranks
     DEF LastVersionRead, WriterAt, spaceVars, Phase, WriterPc, WriteLocked,
         Ending, Closing, FinalLocked
<1>5. ASSUME NEW w \in Writers, CheckTimeout(w) PROVE Phase(u, v)'
  BY <1>5, <1>0, Ranks
     DEF CheckTimeout, WriterAt, spaceVars, Phase, WriterPc, WriteLocked,
         Ending, Closing, FinalLocked
<1>6. ASSUME NEW w \in Writers, FinalLock(w) PROVE Phase(u, v)'
  BY <1>6, <1>0, Ranks
     DEF FinalLock, WriterAt, spaceVars, Phase, WriterPc, WriteLocked, Ending,
         Closing, FinalLocked
<1>7. ASSUME NEW w \in Writers, FinalPut(w) PROVE Phase(u, v)'
  BY <1>7, <1>0, Ranks
     DEF FinalPut, WriterAt, spaceVars, Phase, WriterPc, WriteLocked, Ending,
         Closing, FinalLocked
<1>8. ASSUME NEW w \in Writers, FinalUnlock(w) PROVE Phase(u, v)'
  BY <1>8, <1>0, Ranks
     DEF FinalUnlock, WriterAt, spaceVars, Phase, WriterPc, WriteLocked, Ending,
         Closing, FinalLocked
<1>9. ASSUME NEW w \in Writers, Disconnect(w) PROVE Phase(u, v)'
  BY <1>9, <1>0, Ranks
     DEF Disconnect, WriterAt, spaceVars, Phase, WriterPc, WriteLocked, Ending,
         Closing, FinalLocked
<1>10. CASE CloseBarrier
  BY <1>10, <1>0, Ranks
     DEF CloseBarrier, spaceVars, Phase, WriterPc, WriteLocked, Ending, Closing,
         FinalLocked
<1>11. CASE PutGroup
  BY <1>11, <1>0, Ranks
     DEF PutGroup, WriterAt, spaceVars, Phase, WriterPc, WriteLocked, Ending,
         Closing, FinalLocked
<1>12. CASE PutFile
  BY <1>12, <1>0, Ranks
     DEF PutFile, WriterAt, spaceVars, Phase, WriterPc, WriteLocked, Ending,
         Closing, FinalLocked
<1>13. CASE PutVersion
  BY <1>13, <1>0, Ranks
     DEF PutVersion, WriterAt, spaceVars, Phase, WriterPc, WriteLocked, Ending,
         Closing, FinalLocked
<1>14. CASE UnlockOnWrite
  BY <1>14, <1>0, Ranks
     DEF UnlockOnWrite, WritersAt, spaceVars, Phase, WriterPc, WriteLocked,
         Ending, Closing, FinalLocked
<1>15. CASE LockOnWrite
  BY <1>15, <1>0, Ranks
     DEF LockOnWrite, WritersAt, spaceVars, Phase, WriterPc, WriteLocked,
         Ending, Closing, FinalLocked
<1> QED
  BY <1>1, <1>2, <1>3, <1>4, <1>5, <1>6, <1>7, <1>8, <1>9, <1>10, <1>11, <1>12,
     <1>13, <1>14, <1>15 DEF WriterAction, WriterStep, WriterCollective

(* VERSION@ follows the steps the ranks close.                             *)
LEMMA NextVersion ==
  ASSUME WriterTypeInv, PhaseInv, VersionInv, WriterAction
  PROVE  VersionInv'
<1>0. /\ 0 \in Writers /\ wpc \in [Writers -> WriterPc]
      /\ version.last \in Int /\ NSteps \in Int
      /\ DOMAIN timeIndex = Writers /\ \A u \in Writers : timeIndex[u] \in Int
  BY Ranks DEF WriterTypeInv
<1> DEFINE Same(u) == Opening(u)' <=> Opening(u)
           Last(u) == wpc'[u] \in Ending => version.last = NSteps - 1
<1>1. ASSUME \A u \in Writers : Same(u) /\ Last(u), UNCHANGED <<version, timeIndex>>
      PROVE  VersionInv'
  BY <1>1 DEF VersionInv
<1>2. ASSUME NEW w \in Writers, Open(w) PROVE VersionInv'
  <2>1. /\ wpc[w] = "idle" /\ wpc' = [wpc EXCEPT ![w] = "lock"]
        /\ timeIndex' = [timeIndex EXCEPT ![w] = @ + 1] /\ version' = version
    BY <1>2 DEF Open, WriterAt, spaceVars
  <2>2. ~Opening(w) /\ Opening(w)' /\ wpc'[w] \notin Ending
    BY <1>0, <2>1 DEF Opening, Closing, Ending, FinalLocked
  <2>3. timeIndex'[w] = version.last + 1
    BY <1>0, <2>1, <2>2 DEF VersionInv
  <2>4. ASSUME NEW u \in Writers, u # w PROVE Same(u) /\ Last(u)
    <3>1. wpc'[u] = wpc[u] /\ (wpc[0] \in Closing <=> wpc'[0] \in Closing)
      BY <1>0, <2>1, <2>4 DEF Closing
    <3> QED
      BY <3>1 DEF Opening, VersionInv
  <2> QED
    BY <1>0, <2>1, <2>2, <2>3, <2>4 DEF VersionInv
<1>3. ASSUME NEW w \in Writers, Write(w) PROVE VersionInv'
  <2>1. /\ wpc[w] = "write" /\ wpc' = [wpc EXCEPT ![w] = "barrier"]
        /\ UNCHANGED <<version, timeIndex>>
    BY <1>3 DEF Write, WriterAt, spaceVars
  <2>2. ASSUME NEW u \in Writers PROVE Same(u) /\ Last(u)
    <3>1. CASE u = w
      BY <1>0, <2>1, <3>1 DEF Opening, Closing, Ending, FinalLocked, VersionInv
    <3>2. CASE u # w
      <4>1. wpc'[u] = wpc[u] /\ (wpc[0] \in Closing <=> wpc'[0] \in Closing)
        BY <1>0, <2>1, <3>2 DEF Closing
      <4> QED
        BY <4>1 DEF Opening, VersionInv
    <3> QED
      BY <3>1, <3>2
  <2> QED
    BY <1>1, <2>1, <2>2
<1>4. ASSUME NEW w \in Writers, Finalize(w) PROVE VersionInv'
  <2>1. /\ wpc[w] = "idle" /\ timeIndex[w] = NSteps - 1
        /\ \E pc \in {"announced", "check", "final lock"} :
             wpc' = [wpc EXCEPT ![w] = pc]
        /\ UNCHANGED <<version, timeIndex>>
    BY <1>4 DEF Finalize, spaceVars
  <2>2. ~Opening(w) /\ ~Opening(w)'
    BY <1>0, <2>1 DEF Opening, Closing
  <2>3. version.last = NSteps - 1
    BY <2>1, <2>2 DEF VersionInv
  <2>4. ASSUME NEW u \in Writers, u # w PROVE Same(u)
    <3>1. wpc'[u] = wpc[u] /\ (wpc[0] \in Closing <=> wpc'[0] \in Closing)
      BY <1>0, <2>1, <2>4 DEF Closing
    <3> QED
      BY <3>1 DEF Opening
  <2> QED
    BY <1>1, <2>1, <2>2, <2>3, <2>4
<1>5. ASSUME NEW w \in Writers, LastVersionRead(w) PROVE VersionInv'
  <2>1. /\ wpc[w] = "check" /\ wpc' = [wpc EXCEPT ![w] = "final lock"]
        /\ UNCHANGED <<version, timeIndex>>
    BY <1>5 DEF LastVersionRead, WriterAt, spaceVars
  <2>2. ASSUME NEW u \in Writers PROVE Same(u) /\ Last(u)
    <3>1. CASE u = w
      BY <1>0, <2>1, <3>1 DEF Opening, Closing, Ending, FinalLocked, VersionInv
    <3>2. CASE u # w
      <4>1. wpc'[u] = wpc[u] /\ (wpc[0] \in Closing <=> wpc'[0] \in Closing)
        BY <1>0, <2>1, <3>2 DEF Closing
      <4> QED
        BY <4>1 DEF Opening, VersionInv
    <3> QED
      BY <3>1, <3>2
  <2> QED
    BY <1>1, <2>1, <2>2
<1>6. ASSUME NEW w \in Writers, CheckTimeout(w) PROVE VersionInv'
  <2>1. /\ wpc[w] = "check" /\ wpc' = [wpc EXCEPT ![w] = "final lock"]
        /\ UNCHANGED <<version, timeIndex>>
    BY <1>6 DEF CheckTimeout, WriterAt, spaceVars
  <2>2. ASSUME NEW u \in Writers PROVE Same(u) /\ Last(u)
    <3>1. CASE u = w
      BY <1>0, <2>1, <3>1 DEF Opening, Closing, Ending, FinalLocked, VersionInv
    <3>2. CASE u # w
      <4>1. wpc'[u] = wpc[u] /\ (wpc[0] \in Closing <=> wpc'[0] \in Closing)
        BY <1>0, <2>1, <3>2 DEF Closing
      <4> QED
        BY <4>1 DEF Opening, VersionInv
    <3> QED
      BY <3>1, <3>2
  <2> QED
    BY <1>1, <2>1, <2>2
<1>7. ASSUME NEW w \in Writers, FinalLock(w) PROVE VersionInv'
  <2>1. /\ wpc[w] = "final lock" /\ wpc' = [wpc EXCEPT ![w] = "final put"]
        /\ UNCHANGED <<version, timeIndex>>
    BY <1>7 DEF FinalLock, WriterAt, spaceVars
  <2>2. ASSUME NEW u \in Writers PROVE Same(u) /\ Last(u)
    <3>1. CASE u = w
      BY <1>0, <2>1, <3>1 DEF Opening, Closing, Ending, FinalLocked, VersionInv
    <3>2. CASE u # w
      <4>1. wpc'[u] = wpc[u] /\ (wpc[0] \in Closing <=> wpc'[0] \in Closing)
        BY <1>0, <2>1, <3>2 DEF Closing
      <4> QED
        BY <4>1 DEF Opening, VersionInv
    <3> QED
      BY <3>1, <3>2
  <2> QED
    BY <1>1, <2>1, <2>2
<1>8. ASSUME NEW w \in Writers, FinalUnlock(w) PROVE VersionInv'
  <2>1. /\ wpc[w] = "final unlock" /\ wpc' = [wpc EXCEPT ![w] = "announced"]
        /\ UNCHANGED <<version, timeIndex>>
    BY <1>8 DEF FinalUnlock, WriterAt, spaceVars
  <2>2. ASSUME NEW u \in Writers PROVE Same(u) /\ Last(u)
    <3>1. CASE u = w
      BY <1>0, <2>1, <3>1 DEF Opening, Closing, Ending, FinalLocked, VersionInv
    <3>2. CASE u # w
      <4>1. wpc'[u] = wpc[u] /\ (wpc[0] \in Closing <=> wpc'[0] \in Closing)
        BY <1>0, <2>1, <3>2 DEF Closing
      <4> QED
        BY <4>1 DEF Opening, VersionInv
    <3> QED
      BY <3>1, <3>2
  <2> QED
    BY <1>1, <2>1, <2>2
<1>9. ASSUME NEW w \in Writers, Disconnect(w) PROVE VersionInv'
  <2>1. /\ wpc[w] = "announced" /\ wpc' = [wpc EXCEPT ![w] = "done"]
        /\ UNCHANGED <<version, timeIndex>>
    BY <1>9 DEF Disconnect, WriterAt, spaceVars
  <2>2. ASSUME NEW u \in Writers PROVE Same(u) /\ Last(u)
    <3>1. CASE u = w
      BY <1>0, <2>1, <3>1 DEF Opening, Closing, Ending, FinalLocked, VersionInv
    <3>2. CASE u # w
      <4>1. wpc'[u] = wpc[u] /\ (wpc[0] \in Closing <=> wpc'[0] \in Closing)
        BY <1>0, <2>1, <3>2 DEF Closing
      <4> QED
        BY <4>1 DEF Opening, VersionInv
    <3> QED
      BY <3>1, <3>2
  <2> QED
    BY <1>1, <2>1, <2>2
<1>10. ASSUME NEW w \in Writers, FinalPut(w) PROVE VersionInv'
  <2>1. /\ wpc[w] = "final put" /\ wpc' = [wpc EXCEPT ![w] = "final unlock"]
        /\ version' = [last |-> timeIndex[w], terminated |-> TRUE]
        /\ timeIndex' = timeIndex
    BY <1>10 DEF FinalPut, WriterAt
  <2>2. ~Opening(w) /\ ~Opening(w)' /\ wpc[w] \in Ending
    BY <1>0, <2>1 DEF Opening, Closing, Ending, FinalLocked
  <2>3. version'.last = version.last /\ version.last = NSteps - 1
    BY <2>1, <2>2 DEF VersionInv
  <2>4. ASSUME NEW u \in Writers, u # w PROVE Same(u)
    <3>1. wpc'[u] = wpc[u] /\ (wpc[0] \in Closing <=> wpc'[0] \in Closing)
      BY <1>0, <2>1, <2>4 DEF Closing
    <3> QED
      BY <3>1 DEF Opening
  <2>5. \A u \in Writers : Same(u)
    BY <2>2, <2>4
  <2> QED
    BY <2>1, <2>3, <2>5 DEF VersionInv
<1>11. CASE CloseBarrier
  <2>1. /\ \A w \in Writers : wpc[w] = "barrier"
        /\ wpc' = [w \in Writers |-> IF w = 0 THEN "put group" ELSE "unlock"]
        /\ UNCHANGED <<version, timeIndex>>
    BY <1>11 DEF CloseBarrier, spaceVars
  <2>2. \A u \in Writers : Same(u) /\ Last(u)
    BY <1>0, <2>1 DEF Opening, Closing, Ending, FinalLocked
  <2> QED
    BY <1>1, <2>1, <2>2
<1>12. CASE PutGroup
  <2>1. /\ wpc[0] = "put group" /\ wpc' = [wpc EXCEPT ![0] = "put file"]
        /\ UNCHANGED <<version, timeIndex>>
    BY <1>12 DEF PutGroup, WriterAt
  <2>2. ASSUME NEW u \in Writers PROVE Same(u) /\ Last(u)
    <3>1. wpc[0] \in Closing /\ wpc'[0] \in Closing /\ wpc'[0] \notin Ending
      BY <1>0, <2>1 DEF Closing, Ending, FinalLocked
    <3>2. u # 0 => wpc'[u] = wpc[u]
      BY <1>0, <2>1
    <3> QED
      BY <3>1, <3>2 DEF Opening, VersionInv
  <2> QED
    BY <1>1, <2>1, <2>2
<1>13. CASE PutFile
  <2>1. /\ wpc[0] = "put file" /\ wpc' = [wpc EXCEPT ![0] = "put version"]
        /\ UNCHANGED <<version, timeIndex>>
    BY <1>13 DEF PutFile, WriterAt
  <2>2. ASSUME NEW u \in Writers PROVE Same(u) /\ Last(u)
    <3>1. wpc[0] \in Closing /\ wpc'[0] \in Closing /\ wpc'[0] \notin Ending
      BY <1>0, <2>1 DEF Closing, Ending, FinalLocked
    <3>2. u # 0 => wpc'[u] = wpc[u]
      BY <1>0, <2>1
    <3> QED
      BY <3>1, <3>2 DEF Opening, VersionInv
  <2> QED
    BY <1>1, <2>1, <2>2
<1>14. CASE PutVersion
  <2>1. /\ wpc[0] = "put version" /\ wpc' = [wpc EXCEPT ![0] = "unlock"]
        /\ version' = [last |-> timeIndex[0], terminated |-> FALSE]
        /\ timeIndex' = timeIndex
    BY <1>14 DEF PutVersion, WriterAt
  <2>2. wpc[0] \in Closing /\ wpc'[0] \notin Closing
    BY <1>0, <2>1 DEF Closing
  <2>3. version'.last = version.last + 1 /\ ~version'.terminated
    BY <1>0, <2>1, <2>2 DEF VersionInv, Opening
  <2>4. ASSUME NEW u \in Writers
        PROVE  Opening(u) /\ ~Opening(u)' /\ wpc'[u] \notin Ending
    <3>1. wpc[u] \in Closing \cup {"unlock"} /\ (wpc[u] \in Closing => u = 0)
      BY <1>0, <2>2 DEF PhaseInv, Phase
    <3>2. wpc'[u] = "unlock"
      BY <1>0, <2>1, <3>1
    <3> QED
      BY <2>2, <3>1, <3>2 DEF Opening, Closing, Ending, FinalLocked
  <2> QED
    BY <1>0, <2>1, <2>3, <2>4 DEF VersionInv
<1>15. CASE UnlockOnWrite
  <2>1. /\ \A w \in Writers : wpc[w] = "unlock"
        /\ wpc' = [w \in Writers |-> "idle"]
        /\ UNCHANGED <<version, timeIndex>>
    BY <1>15 DEF UnlockOnWrite, WritersAt
  <2>2. \A u \in Writers : Same(u) /\ Last(u)
    BY <1>0, <2>1 DEF Opening, Closing, Ending, FinalLocked
  <2> QED
    BY <1>1, <2>1, <2>2
<1>16. CASE LockOnWrite
  <2>1. /\ \A w \in Writers : wpc[w] = "lock"
        /\ wpc' = [w \in Writers |-> "write"]
        /\ UNCHANGED <<version, timeIndex>>
    BY <1>16 DEF LockOnWrite, WritersAt
  <2>2. \A u \in Writers : Same(u) /\ Last(u)
    BY <1>0, <2>1 DEF Opening, Closing, Ending, FinalLocked
  <2> QED
    BY <1>1, <2>1, <2>2
<1> QED
  BY <1>2, <1>3, <1>4, <1>5, <1>6, <1>7, <1>8, <1>9, <1>10, <1>11, <1>12, <1>13,
     <1>14, <1>15, <1>16 DEF WriterAction, WriterStep, WriterCollective

(* Putting the next version moves the window of versions kept by one.      *)
LEMMA WindowPut ==
  ASSUME NEW n \in Int, n >= -1
  PROVE  Put(Window(n), n + 1) = Window(n + 1)
<1>1. ASSUME NEW v PROVE v \in Put(Window(n), n + 1) <=> v \in Window(n + 1)
  BY Ranks DEF Put, Window
<1> QED
  BY <1>1 DEF Put, Window

(* FILE@ and GROUP@ hold the window of versions below VERSION@.            *)
LEMMA NextMeta ==
  ASSUME WriterTypeInv, PhaseInv, VersionInv, MetaInv, WriterAction
  PROVE  MetaInv'
<1>0. /\ version.last \in Int /\ version.last >= -1
      /\ wpc[0] \in Closing => timeIndex[0] = version.last + 1
  BY Ranks DEF WriterTypeInv, VersionInv, Opening
<1>1. ASSUME NEW w \in Writers, Open(w) PROVE MetaInv'
  BY <1>1, Ranks DEF Open, WriterAt, spaceVars, WriterTypeInv, MetaInv
<1>2. ASSUME NEW w \in Writers, Write(w) PROVE MetaInv'
  BY <1>2, Ranks DEF Write, WriterAt, spaceVars, WriterTypeInv, MetaInv
<1>3. ASSUME NEW w \in Writers, Finalize(w) PROVE MetaInv'
  BY <1>3, Ranks DEF Finalize, spaceVars, WriterTypeInv, MetaInv
<1>4. ASSUME NEW w \in Writers, LastVersionRead(w) PROVE MetaInv'
  BY <1>4, Ranks
     DEF LastVersionRead, WriterAt, spaceVars, WriterTypeInv, MetaInv
<1>5. ASSUME NEW w \in Writers, CheckTimeout(w) PROVE MetaInv'
  BY <1>5, Ranks DEF CheckTimeout, WriterAt, spaceVars, WriterTypeInv, MetaInv
<1>6. ASSUME NEW w \in Writers, FinalLock(w) PROVE MetaInv'
  BY <1>6, Ranks DEF FinalLock, WriterAt, spaceVars, WriterTypeInv, MetaInv
<1>7. ASSUME NEW w \in Writers, FinalPut(w) PROVE MetaInv'
  <2>1. /\ wpc' = [wpc EXCEPT ![w] = "final unlock"] /\ wpc[w] = "final put"
        /\ UNCHANGED <<groups, files>> /\ version'.last = timeIndex[w]
    BY <1>7 DEF FinalPut, WriterAt
  <2>2. timeIndex[w] = version.last
    BY <2>1 DEF VersionInv, Opening, Closing
  <2> QED
    BY <2>1, <2>2, Ranks DEF MetaInv, WriterTypeInv
<1>8. ASSUME NEW w \in Writers, FinalUnlock(w) PROVE MetaInv'
  BY <1>8, Ranks DEF FinalUnlock, WriterAt, spaceVars, WriterTypeInv, MetaInv
<1>9. ASSUME NEW w \in Writers, Disconnect(w) PROVE MetaInv'
  BY <1>9, Ranks DEF Disconnect, WriterAt, spaceVars, WriterTypeInv, MetaInv
<1>10. CASE CloseBarrier
  BY <1>10, Ranks DEF CloseBarrier, WriterTypeInv, MetaInv, spaceVars
<1>11. CASE PutGroup
  <2>1. /\ wpc[0] = "put group" /\ wpc'[0] = "put file" /\ UNCHANGED <<files, version>>
        /\ groups' = Put(groups, version.last + 1)
    BY <1>11, <1>0, Ranks DEF PutGroup, WriterAt, WriterTypeInv, Closing
  <2> QED
    BY <2>1, <1>0, WindowPut DEF MetaInv
<1>12. CASE PutFile
  <2>1. /\ wpc[0] = "put file" /\ wpc'[0] = "put version" /\ UNCHANGED <<groups, version>>
        /\ files' = Put(files, version.last + 1)
    BY <1>12, <1>0, Ranks DEF PutFile, WriterAt, WriterTypeInv, Closing
  <2> QED
    BY <2>1, <1>0, WindowPut DEF MetaInv
<1>13. CASE PutVersion
  <2>1. /\ wpc[0] = "put version" /\ wpc'[0] = "unlock" /\ UNCHANGED <<groups, files>>
        /\ version'.last = version.last + 1
    BY <1>13, <1>0, Ranks DEF PutVersion, WriterAt, WriterTypeInv, Closing
  <2> QED
    BY <2>1, <1>0 DEF MetaInv
<1>14. CASE UnlockOnWrite
  BY <1>14, Ranks
     DEF UnlockOnWrite, WritersAt, spaceVars, WriterTypeInv, MetaInv
<1>15. CASE LockOnWrite
  BY <1>15, Ranks DEF LockOnWrite, WritersAt, spaceVars, WriterTypeInv, MetaInv
<1> QED
  BY <1>1, <1>2, <1>3, <1>4, <1>5, <1>6, <1>7, <1>8, <1>9, <1>10, <1>11, <1>12,
     <1>13, <1>14, <1>15 DEF WriterAction, WriterStep, WriterCollective

(* Every rank's arrays are those of the steps it has put and not freed.    *)
LEMMA NextData ==
  ASSUME WriterTypeInv, PhaseInv, VersionInv, DataInv, WriterAction
  PROVE  DataInv'
<1> SUFFICES ASSUME NEW u \in Writers
             PROVE  DataOf(u)' /\ (DOMAIN data)' = Writers
  BY Ranks DEF DataInv
<1>0. /\ wpc \in [Writers -> WriterPc] /\ timeIndex \in [Writers -> -1 .. NSteps - 1]
      /\ DataOf(u) /\ timeIndex[u] \in Int /\ timeIndex[u] >= -1
      /\ DOMAIN data = Writers /\ Dimes' = Dimes
      /\ timeIndex[0] \in Int
  BY Ranks, WriterFrame DEF WriterTypeInv, DataInv, Dimes
<1>1. ASSUME NEW w \in Writers, Open(w) PROVE DataOf(u)' /\ (DOMAIN data)' = Writers
  <2>1. /\ wpc[w] = "idle" /\ wpc' = [wpc EXCEPT ![w] = "lock"]
        /\ timeIndex' = [timeIndex EXCEPT ![w] = timeIndex[w] + 1] /\ UNCHANGED data
    BY <1>1 DEF Open, WriterAt, spaceVars
  <2>2. LastPut(u)' = LastPut(u) /\ (wpc'[u] = wpc[u] \/ (wpc'[u] = "lock" /\ wpc[u] = "idle"))
    <3>1. CASE u = w
      <4>1. wpc[u] = "idle" /\ wpc'[u] = "lock" /\ timeIndex'[u] = timeIndex[u] + 1
        BY <2>1, <1>0, <3>1
      <4> QED
        BY <4>1, <1>0 DEF LastPut
    <3>2. CASE u # w
      <4>1. wpc'[u] = wpc[u] /\ timeIndex'[u] = timeIndex[u]
        BY <2>1, <1>0, <3>2
      <4> QED
        BY <4>1, <1>0 DEF LastPut
    <3> QED
      BY <3>1, <3>2
  <2> QED
    BY <2>1, <2>2, <1>0 DEF DataOf
<1>2. ASSUME NEW w \in Writers, Write(w) PROVE DataOf(u)' /\ (DOMAIN data)' = Writers
  <2>1. /\ wpc[w] = "write" /\ wpc' = [wpc EXCEPT ![w] = "barrier"]
        /\ data' = [data EXCEPT ![w] = Put(data[w], timeIndex[w])]
        /\ UNCHANGED timeIndex
    BY <1>2 DEF Write, WriterAt
  <2>2. CASE u # w
    BY <2>1, <2>2, <1>0 DEF DataOf, LastPut
  <2>3. CASE u = w
    <3>1. /\ data'[u] = Put(data[u], timeIndex[u]) /\ LastPut(u)' = timeIndex[u]
          /\ LastPut(u) = timeIndex[u] - 1 /\ wpc'[u] = "barrier"
          /\ DOMAIN data' = Writers
      BY <2>1, <2>3, <1>0 DEF LastPut
    <3>2. timeIndex[u] >= 0
      BY <2>1, <2>3 DEF VersionInv, Opening, WriterTypeInv
    <3>3. CASE ~Dimes
      <4>1. Put(Window(timeIndex[u] - 1), timeIndex[u] - 1 + 1) = Window(timeIndex[u] - 1 + 1)
        BY <3>2, <1>0, WindowPut
      <4> QED
        BY <4>1, <3>1, <3>3, <1>0 DEF DataOf
    <3>4. CASE Dimes
      <4>1. data[u] = {}
        BY <3>4, <1>0, <2>1, <2>3 DEF DataOf
      <4> QED
        BY <4>1, <3>1, <3>2, <3>4, <1>0 DEF DataOf, Put
    <3> QED
      BY <3>3, <3>4
  <2> QED
    BY <2>2, <2>3
<1>3. ASSUME NEW w \in Writers, Finalize(w) PROVE DataOf(u)' /\ (DOMAIN data)' = Writers
  BY <1>3, <1>0, Ranks DEF Finalize, spaceVars, DataOf, LastPut
<1>4. ASSUME NEW w \in Writers, LastVersionRead(w) PROVE DataOf(u)' /\ (DOMAIN data)' = Writers
  BY <1>4, <1>0, Ranks DEF LastVersionRead, WriterAt, spaceVars, DataOf, LastPut
<1>5. ASSUME NEW w \in Writers, CheckTimeout(w) PROVE DataOf(u)' /\ (DOMAIN data)' = Writers
  BY <1>5, <1>0, Ranks DEF CheckTimeout, WriterAt, spaceVars, DataOf, LastPut
<1>6. ASSUME NEW w \in Writers, FinalLock(w) PROVE DataOf(u)' /\ (DOMAIN data)' = Writers
  BY <1>6, <1>0, Ranks DEF FinalLock, WriterAt, spaceVars, DataOf, LastPut
<1>7. ASSUME NEW w \in Writers, FinalPut(w) PROVE DataOf(u)' /\ (DOMAIN data)' = Writers
  BY <1>7, <1>0, Ranks DEF FinalPut, WriterAt, spaceVars, DataOf, LastPut
<1>8. ASSUME NEW w \in Writers, FinalUnlock(w) PROVE DataOf(u)' /\ (DOMAIN data)' = Writers
  BY <1>8, <1>0, Ranks DEF FinalUnlock, WriterAt, spaceVars, DataOf, LastPut
<1>9. ASSUME NEW w \in Writers, Disconnect(w) PROVE DataOf(u)' /\ (DOMAIN data)' = Writers
  BY <1>9, <1>0, Ranks DEF Disconnect, WriterAt, spaceVars, DataOf, LastPut
<1>10. CASE CloseBarrier
  BY <1>10, <1>0, Ranks DEF CloseBarrier, spaceVars, DataOf, LastPut
<1>11. CASE PutGroup
  BY <1>11, <1>0, Ranks DEF PutGroup, WriterAt, spaceVars, DataOf, LastPut
<1>12. CASE PutFile
  BY <1>12, <1>0, Ranks DEF PutFile, WriterAt, spaceVars, DataOf, LastPut
<1>13. CASE PutVersion
  BY <1>13, <1>0, Ranks DEF PutVersion, WriterAt, spaceVars, DataOf, LastPut
<1>14. CASE UnlockOnWrite
  BY <1>14, <1>0, Ranks DEF UnlockOnWrite, WritersAt, spaceVars, DataOf, LastPut
<1>15. CASE LockOnWrite
  BY <1>15, <1>0, Ranks DEF LockOnWrite, WritersAt, spaceVars, DataOf, LastPut
<1> QED
  BY <1>1, <1>2, <1>3, <1>4, <1>5, <1>6, <1>7, <1>8, <1>9, <1>10, <1>11, <1>12,
     <1>13, <1>14, <1>15 DEF WriterAction, WriterStep, WriterCollective

(* The writer program holds the write lock while it changes the servers.   *)
LEMMA NextLockWriter ==
  ASSUME WriterTypeInv, PhaseInv, LockInv, WriterAction
  PROVE  LockInv'
<1>0. /\ wpc \in [Writers -> WriterPc] /\ UNCHANGED <<lockedFname, rpc>>
  BY WriterFrame DEF WriterTypeInv
<1>1. ASSUME NEW w \in Writers, Open(w) PROVE LockInv'
  BY <1>1, <1>0, Ranks
     DEF Open, WriterAt, spaceVars, LockInv, WriterPc, WriteLocked, Ending,
         Closing, FinalLocked
<1>2. ASSUME NEW w \in Writers, Write(w) PROVE LockInv'
  BY <1>2, <1>0, Ranks
     DEF Write, WriterAt, spaceVars, LockInv, WriterPc, WriteLocked, Ending,
         Closing, FinalLocked
<1>3. ASSUME NEW w \in Writers, Finalize(w) PROVE LockInv'
  BY <1>3, <1>0, Ranks
     DEF Finalize, spaceVars, LockInv, WriterPc, WriteLocked, Ending, Closing,
         FinalLocked
<1>4. ASSUME NEW w \in Writers, LastVersionRead(w) PROVE LockInv'
  BY <1>4, <1>0, Ranks
     DEF LastVersionRead, WriterAt, spaceVars, LockInv, WriterPc, WriteLocked,
         Ending, Closing, FinalLocked
<1>5. ASSUME NEW w \in Writers, CheckTimeout(w) PROVE LockInv'
  BY <1>5, <1>0, Ranks
     DEF CheckTimeout, WriterAt, spaceVars, LockInv, WriterPc, WriteLocked,
         Ending, Closing, FinalLocked
<1>6. ASSUME NEW w \in Writers, FinalLock(w) PROVE LockInv'
  BY <1>6, <1>0, Ranks
     DEF FinalLock, WriterAt, spaceVars, LockInv, WriterPc, WriteLocked, Ending,
         Closing, FinalLocked
<1>7. ASSUME NEW w \in Writers, FinalPut(w) PROVE LockInv'
  BY <1>7, <1>0, Ranks
     DEF FinalPut, WriterAt, spaceVars, LockInv, WriterPc, WriteLocked, Ending,
         Closing, FinalLocked
<1>8. ASSUME NEW w \in Writers, FinalUnlock(w) PROVE LockInv'
  <2>1. /\ wpc[w] = "final unlock" /\ wpc' = [wpc EXCEPT ![w] = "announced"]
        /\ writeLock' = FALSE
    BY <1>8 DEF FinalUnlock, WriterAt
  <2>2. \A u \in Writers : u # w => wpc[u] \notin WriteLocked
    BY <2>1 DEF PhaseInv, Phase, WriteLocked, FinalLocked, Closing
  <2> QED
    BY <1>0, <2>1, <2>2 DEF LockInv, WriteLocked, FinalLocked, Closing
<1>9. ASSUME NEW w \in Writers, Disconnect(w) PROVE LockInv'
  BY <1>9, <1>0, Ranks
     DEF Disconnect, WriterAt, spaceVars, LockInv, WriterPc, WriteLocked,
         Ending, Closing, FinalLocked
<1>10. CASE CloseBarrier
  BY <1>10, <1>0, Ranks
     DEF CloseBarrier, spaceVars, LockInv, WriterPc, WriteLocked, Ending,
         Closing, FinalLocked
<1>11. CASE PutGroup
  BY <1>11, <1>0, Ranks
     DEF PutGroup, WriterAt, spaceVars, LockInv, WriterPc, WriteLocked, Ending,
         Closing, FinalLocked
<1>12. CASE PutFile
  BY <1>12, <1>0, Ranks
     DEF PutFile, WriterAt, spaceVars, LockInv, WriterPc, WriteLocked, Ending,
         Closing, FinalLocked
<1>13. CASE PutVersion
  BY <1>13, <1>0, Ranks
     DEF PutVersion, WriterAt, spaceVars, LockInv, WriterPc, WriteLocked,
         Ending, Closing, FinalLocked
<1>14. CASE UnlockOnWrite
  BY <1>14, <1>0, Ranks
     DEF UnlockOnWrite, WritersAt, spaceVars, LockInv, WriterPc, WriteLocked,
         Ending, Closing, FinalLocked
<1>15. CASE LockOnWrite
  BY <1>15, <1>0, Ranks
     DEF LockOnWrite, WritersAt, spaceVars, LockInv, WriterPc, WriteLocked,
         Ending, Closing, FinalLocked
<1> QED
  BY <1>1, <1>2, <1>3, <1>4, <1>5, <1>6, <1>7, <1>8, <1>9, <1>10, <1>11, <1>12,
     <1>13, <1>14, <1>15 DEF WriterAction, WriterStep, WriterCollective
-----------------------------------------------------------------------------
(* The version announced is a step, or none.                               *)
LEMMA VersionType ==
  ASSUME WriterInv
  PROVE  version.last \in Int /\ version.last >= -1 /\ version.last <= NSteps - 1
  BY Ranks DEF WriterInv, WriterTypeInv

(* The types of one rank's variables.                                      *)
LEMMA ReaderTypes ==
  ASSUME ReaderInv, NEW r \in Readers
  PROVE  /\ rpc[r] \in ReaderPc
         /\ step[r] \in Int /\ lastVersion[r] \in Int /\ currentStep[r] \in Int
         /\ whichVersion[r] \in {"next", "next available", "last"}
<1>1. ReaderTypeInv
  BY DEF ReaderInv
<1> QED
  BY <1>1 DEF ReaderTypeInv

(* While a reader holds the lock, VERSION@ stands still and announces      *)
(* exactly the versions of FILE@ and GROUP@ that are there.                *)
LEMMA WriterEffect ==
  ASSUME WriterInv, LockInv, WriterAction
  PROVE  /\ version'.last \in Int /\ version'.last >= version.last
         /\ version.terminated => version'.terminated
         /\ lockedFname # {} => UNCHANGED <<version, files, groups>>
<1>0. /\ version.last \in -1 .. NSteps - 1
      /\ \A w \in Writers : wpc[w] \in WriteLocked => lockedFname = {}
  BY DEF WriterInv, WriterTypeInv, LockInv
<1> USE DEF spaceVars
<1>1. ASSUME NEW w \in Writers, WriterStep(w) \/ FinalLock(w), ~FinalPut(w)
      PROVE  UNCHANGED <<version, files, groups>>
  BY <1>1 DEF WriterStep, FinalLock, Open, Write, Finalize, LastVersionRead,
              CheckTimeout, FinalUnlock, Disconnect
<1>2. ASSUME NEW w \in Writers, FinalPut(w)
      PROVE  /\ lockedFname = {}
             /\ version'.last = version.last /\ version'.terminated
  <2>1. wpc[w] = "final put" /\ version' = [last |-> timeIndex[w], terminated |-> TRUE]
    BY <1>2 DEF FinalPut, WriterAt
  <2>2. timeIndex[w] = version.last
    BY <2>1 DEF WriterInv, VersionInv, Opening, Closing
  <2> QED
    BY <2>1, <2>2, <1>0 DEF WriteLocked, FinalLocked
<1>3. CASE CloseBarrier \/ UnlockOnWrite \/ LockOnWrite
  <2>1. UNCHANGED <<version, files, groups>>
    BY <1>3 DEF CloseBarrier, UnlockOnWrite, LockOnWrite
  <2> QED
    BY <2>1, <1>0
<1>4. CASE PutGroup \/ PutFile \/ PutVersion
  <2>1. wpc[0] \in Closing
    BY <1>4 DEF PutGroup, PutFile, PutVersion, WriterAt, Closing
  <2>2. lockedFname = {} /\ timeIndex[0] = version.last + 1
    BY <2>1, <1>0, Ranks DEF WriterInv, VersionInv, Opening, WriteLocked
  <2>3. version.terminated => FALSE
    BY <2>2, Ranks, <1>0 DEF WriterInv, VersionInv, WriterTypeInv
  <2>4. version' = version \/ version'.last = timeIndex[0]
    <3>1. CASE PutGroup \/ PutFile
      BY <3>1 DEF PutGroup, PutFile
    <3>2. CASE PutVersion
      BY <3>2 DEF PutVersion
    <3> QED
      BY <1>4, <3>1, <3>2
  <2> QED
    BY <2>2, <2>3, <2>4, <1>0
<1> QED
  BY <1>0, <1>1, <1>2, <1>3, <1>4 DEF WriterAction, WriterStep, WriterCollective

(* Under the read lock FILE@ and GROUP@ are those of VERSION@.             *)
LEMMA LockedMeta ==
  ASSUME WriterInv, LockInv, lockedFname # {}
  PROVE  files = Window(version.last) /\ groups = Window(version.last)
<1>1. wpc[0] \notin WriteLocked
  BY Ranks DEF LockInv
<1> QED
  BY <1>1 DEF WriterInv, MetaInv, WriteLocked, Closing

(* The writer program does not disturb the readers.                        *)
LEMMA NextReaderWriter ==
  ASSUME WriterInv, LockInv, ReaderInv, WriterAction
  PROVE  ReaderInv'
<1>0. UNCHANGED <<call, lockedFname, readStatus, rpc, step, lastVersion,
                  whichVersion, currentStep>>
  BY WriterFrame
<1>1. ReaderTypeInv' /\ TogetherInv' /\ WantedInv'
  <2>1. ReaderTypeInv'
    BY <1>0 DEF ReaderInv, ReaderTypeInv
  <2>2. TogetherInv'
    BY <1>0 DEF ReaderInv, TogetherInv
  <2>3. \A r \in Readers : Wanted(r)' = Wanted(r)
    BY <1>0 DEF Wanted, WhichVersion
  <2>4. WantedInv'
    BY <1>0, <2>3 DEF ReaderInv, WantedInv
  <2> QED
    BY <2>1, <2>2, <2>4
<1>2. ASSUME NEW r \in Readers
      PROVE  Position(r)' /\ Attempt(r)' /\ Asked(r)'
  <2>1. Position(r) /\ Attempt(r) /\ Asked(r)
    BY DEF ReaderInv
  <2>2. currentStep[r] \in Int /\ version.last \in Int
    BY VersionType, ReaderTypes
  <2>3. Dimes' = Dimes /\ WhichVersion(call.last)' = WhichVersion(call.last)
    BY <1>0 DEF Dimes, WhichVersion
  <2>4. /\ version'.last \in Int /\ version'.last >= version.last
        /\ version.terminated => version'.terminated
    BY WriterEffect
  <2>5. rpc[r] \in ReadLocked => version' = version /\ files' = files
    BY WriterEffect DEF LockInv
  <2>6. /\ rpc'[r] = rpc[r] /\ step'[r] = step[r] /\ lastVersion'[r] = lastVersion[r]
        /\ whichVersion'[r] = whichVersion[r] /\ currentStep'[r] = currentStep[r]
    BY <1>0
  <2>7. version.last > currentStep[r] + 1 => version'.last > currentStep[r] + 1
    BY <2>2, <2>4
  <2>8. Position(r)'
    <3>1. CASE rpc[r] \in ReadLocked
      BY <3>1, <2>1, <2>3, <2>5, <2>6 DEF Position, Window
    <3>2. CASE rpc[r] \notin ReadLocked
      <4>0. currentStep[r] \in -1 .. version.last
        BY <2>1 DEF Position
      <4>1. currentStep'[r] \in -1 .. version'.last
        BY <4>0, <2>2, <2>4, <2>6
      <4>2. rpc[r] = "end of stream" => version'.terminated /\ currentStep[r] = NSteps - 1
        BY <2>1, <2>4, Zenon DEF Position
      <4>3. rpc[r] # "get group" /\ rpc[r] # "open"
        BY <3>2 DEF ReadLocked
      <4> QED
        BY <4>1, <4>2, <4>3, <2>1, <2>6, <2>7 DEF Position
    <3> QED
      BY <3>1, <3>2
  <2>9. Attempt(r)'
    BY <2>1, <2>3, <2>5, <2>6 DEF Attempt, ReadLocked
  <2>10. Asked(r)'
    BY <2>1, <2>3, <2>6, <2>7 DEF Asked
  <2> QED
    BY <2>8, <2>9, <2>10
<1> QED
  BY <1>1, <1>2 DEF ReaderInv

-----------------------------------------------------------------------------
(* The ranks that look at VERSION@ ask for the same step, so they all come *)
(* to the same result.                                                     *)
LEMMA GetVersionResult ==
  ASSUME WriterInv, LockInv, ReaderInv, GetVersion
  PROVE  /\ \A r \in Readers :
              /\ rpc[r] = "get version" /\ step[r] = currentStep[0] + 1
              /\ currentStep[r] = currentStep[0]
              /\ whichVersion[r] = whichVersion[0]
         /\ \/ /\ version.last = -1
               /\ rpc' = [r \in Readers |-> "not found"] /\ step' = step
            \/ /\ version.last > currentStep[0]
               /\ rpc' = [r \in Readers |-> "get file"]
               /\ step' = [r \in Readers |-> FirstTried(r)]
            \/ /\ version.last = currentStep[0] /\ version.terminated
               /\ rpc' = [r \in Readers |-> "end of stream"] /\ step' = step
            \/ /\ version.last = currentStep[0] /\ version.last >= 0
               /\ rpc' = [r \in Readers |-> "not ready"] /\ step' = step
<1>1. ASSUME NEW r \in Readers
      PROVE  /\ rpc[r] = "get version" /\ step[r] = currentStep[0] + 1
             /\ currentStep[r] = currentStep[0]
             /\ whichVersion[r] = whichVersion[0]
  <2>1. \A q \in Readers : rpc[q] = "get version"
    BY DEF GetVersion
  <2>2. currentStep[r] = currentStep[0] /\ Wanted(r) = Wanted(0)
    BY <2>1, Ranks DEF ReaderInv, TogetherInv, WantedInv
  <2>3. step[r] = currentStep[r] + 1
    BY <2>1 DEF ReaderInv, Position, Waiting
  <2> QED
    BY <2>1, <2>2, <2>3, Ranks DEF Wanted
<1>2. /\ version.last \in Int /\ currentStep[0] \in Int
      /\ currentStep[0] >= -1 /\ currentStep[0] <= version.last
  <2>1. currentStep[0] \in -1 .. version.last
    BY Ranks DEF ReaderInv, Position
  <2>2. version.last \in Int /\ currentStep[0] \in Int
    BY Ranks, VersionType, ReaderTypes
  <2> QED
    BY <2>1, <2>2
<1>3. rpc' = [r \in Readers |-> VersionStatus(r)]
  BY DEF GetVersion
<1>4. step' = [r \in Readers |-> IF rpc'[r] = "get file" THEN FirstTried(r)
                                 ELSE step[r]]
  BY DEF GetVersion
<1>5. step = [r \in Readers |-> step[r]]
  BY DEF ReaderInv, ReaderTypeInv
<1>6. CASE version.last = -1
  <2>1. \A r \in Readers : VersionStatus(r) = "not found"
    BY <1>6 DEF VersionStatus
  <2>2. rpc' = [r \in Readers |-> "not found"]
    BY <2>1, <1>3
  <2>3. step' = step
    BY <2>2, <1>4, <1>5
  <2> QED
    BY <1>6, <2>2, <2>3, <1>1
<1>7. CASE version.last > currentStep[0]
  <2>1. ASSUME NEW r \in Readers PROVE VersionStatus(r) = "get file"
    <3>1. step[r] = currentStep[0] + 1
      BY <1>1
    <3> QED
      BY <1>7, <3>1, <1>2 DEF VersionStatus
  <2>2. rpc' = [r \in Readers |-> "get file"]
    BY <2>1, <1>3
  <2>3. step' = [r \in Readers |-> FirstTried(r)]
    BY <2>2, <1>4
  <2> QED
    BY <1>7, <2>2, <2>3, <1>1
<1>8. CASE version.last = currentStep[0] /\ version.last # -1 /\ version.terminated
  <2>1. ASSUME NEW r \in Readers PROVE VersionStatus(r) = "end of stream"
    <3>1. step[r] = currentStep[0] + 1
      BY <1>1
    <3> QED
      BY <1>8, <3>1, <1>2 DEF VersionStatus
  <2>2. rpc' = [r \in Readers |-> "end of stream"]
    BY <2>1, <1>3
  <2>3. step' = step
    BY <2>2, <1>4, <1>5
  <2> QED
    BY <1>8, <2>2, <2>3, <1>1
<1>9. CASE version.last = currentStep[0] /\ version.last # -1 /\ ~version.terminated
  <2>1. ASSUME NEW r \in Readers PROVE VersionStatus(r) = "not ready"
    <3>1. step[r] = currentStep[0] + 1
      BY <1>1
    <3> QED
      BY <1>9, <3>1, <1>2 DEF VersionStatus
  <2>2. rpc' = [r \in Readers |-> "not ready"]
    BY <2>1, <1>3
  <2>3. step' = step
    BY <2>2, <1>4, <1>5
  <2>4. version.last >= 0
    BY <1>9, <1>2
  <2> QED
    BY <1>9, <2>2, <2>3, <2>4, <1>1
<1>10. \/ version.last > currentStep[0] \/ version.last = -1
       \/ version.last = currentStep[0] /\ version.last # -1
  BY <1>2
<1> QED
  BY <1>6, <1>7, <1>8, <1>9, <1>10

(* The ranks that look for FILE@ come to the same result: the step is      *)
(* there, or the next one is tried, or the step has disappeared.           *)
LEMMA GetFileResult ==
  ASSUME MaxVersions > 1, WriterInv, LockInv, ReaderInv, GetFile
  PROVE  /\ files = Window(version.last)
         /\ \A r \in Readers :
              /\ rpc[r] = "get file" /\ step[r] = step[0]
              /\ currentStep[r] = currentStep[0]
              /\ whichVersion[r] = whichVersion[0]
         /\ \/ /\ step[0] \in files /\ currentStep' = step /\ step' = step
               /\ rpc' = [r \in Readers |-> "get group"]
            \/ /\ step[0] \notin files /\ currentStep' = currentStep
               /\ ~Dimes /\ whichVersion[0] = "next available"
               /\ step[0] < version.last
               /\ step' = [r \in Readers |-> step[r] + 1]
               /\ rpc' = [r \in Readers |-> "get file"]
            \/ /\ step[0] \notin files /\ currentStep' = currentStep
               /\ ~Dimes /\ whichVersion[0] = "next"
               /\ step[0] + 1 < version.last
               /\ step' = [r \in Readers |-> step[r] + 1]
               /\ rpc' = [r \in Readers |-> "disappeared"]
<1>0. \A q \in Readers : rpc[q] = "get file"
  BY DEF GetFile
<1>1. ASSUME NEW r \in Readers
      PROVE  /\ rpc[r] = "get file" /\ step[r] = step[0]
             /\ currentStep[r] = currentStep[0]
             /\ whichVersion[r] = whichVersion[0]
             /\ lastVersion[r] = version.last
  <2>2. /\ currentStep[r] = currentStep[0] /\ Wanted(r) = Wanted(0)
        /\ step[r] = step[0]
    BY <1>0, Ranks DEF ReaderInv, TogetherInv, WantedInv
  <2>3. lastVersion[r] = version.last
    BY <1>0 DEF ReaderInv, Attempt
  <2> QED
    BY <1>0, <2>2, <2>3, Ranks DEF Wanted
<1>2. /\ version.last \in Int /\ currentStep[0] \in Int /\ step[0] \in Int
      /\ currentStep[0] >= -1 /\ step[0] > currentStep[0] /\ step[0] <= version.last
      /\ Dimes \/ whichVersion[0] = "last" => step[0] = version.last
  <2>1. /\ currentStep[0] \in -1 .. version.last
        /\ step[0] \in currentStep[0] + 1 .. version.last
        /\ Dimes \/ whichVersion[0] = "last" => step[0] = version.last
    BY Ranks, <1>0 DEF ReaderInv, Position, Attempt
  <2>2. version.last \in Int /\ currentStep[0] \in Int /\ step[0] \in Int
    BY Ranks, VersionType, ReaderTypes
  <2> QED
    BY <2>1, <2>2
<1>3. files = Window(version.last)
  <2>1. 0 \in lockedFname
    BY <1>0, Ranks DEF LockInv, ReadLocked
  <2> QED
    BY <2>1, LockedMeta
<1>4. CASE step[0] \in files
  BY <1>1, <1>3, <1>4 DEF GetFile
<1>5. CASE step[0] \notin files
  <2>1. step[0] + 1 < version.last
    BY <1>2, <1>3, <1>5, Ranks DEF Window
  <2>2. /\ ~Dimes
        /\ whichVersion[0] = "next available" \/ whichVersion[0] = "next"
    <3>1. ~Dimes /\ whichVersion[0] # "last"
      BY <1>2, <2>1
    <3> QED
      BY <3>1, Ranks, ReaderTypes
  <2>3. /\ rpc' = [r \in Readers |-> FileStatus(r)]
        /\ step' = [r \in Readers |-> step[r] + 1]
        /\ currentStep' = currentStep
    BY <1>5 DEF GetFile
  <2>4. CASE whichVersion[0] = "next available"
    <3>1. ASSUME NEW r \in Readers PROVE FileStatus(r) = "get file"
      <4>1. /\ step[r] = step[0] /\ whichVersion[r] = whichVersion[0]
            /\ lastVersion[r] = version.last
        BY <1>1
      <4>2. MaxCheckVersion(r) = version.last
        BY <4>1, <2>4 DEF MaxCheckVersion
      <4>3. step[r] + 1 <= MaxCheckVersion(r)
        BY <4>1, <4>2, <2>1, <1>2
      <4> QED
        BY <2>2, <4>3 DEF FileStatus
    <3>2. rpc' = [r \in Readers |-> "get file"]
      BY <3>1, <2>3
    <3>3. step[0] < version.last
      BY <2>1, <1>2
    <3> QED
      BY <1>1, <1>3, <1>5, <2>2, <2>3, <2>4, <3>2, <3>3
  <2>5. CASE whichVersion[0] = "next"
    <3>1. ASSUME NEW r \in Readers PROVE FileStatus(r) = "disappeared"
      <4>1. /\ step[r] = step[0] /\ whichVersion[r] = whichVersion[0]
            /\ lastVersion[r] = version.last
        BY <1>1
      <4> QED
        BY <2>1, <2>2, <2>5, <4>1, <1>2 DEF FileStatus, MaxCheckVersion
    <3>2. rpc' = [r \in Readers |-> "disappeared"]
      BY <3>1, <2>3
    <3> QED
      BY <1>1, <1>3, <1>5, <2>1, <2>2, <2>3, <2>5, <3>2
  <2> QED
    BY <2>2, <2>4, <2>5
<1> QED
  BY <1>4, <1>5

(* GROUP@ is there whenever FILE@ is.                                      *)
LEMMA GetGroupResult ==
  ASSUME WriterInv, LockInv, ReaderInv, GetGroup
  PROVE  rpc' = [r \in Readers |-> "open"]
<1>1. rpc[0] = "get group"
  BY Ranks DEF GetGroup
<1>2. currentStep[0] \in Window(version.last)
  BY <1>1, Ranks DEF ReaderInv, Position
<1>3. groups = Window(version.last)
  <2>1. 0 \in lockedFname
    BY <1>1, Ranks DEF LockInv, ReadLocked
  <2> QED
    BY <2>1, LockedMeta
<1> QED
  BY <1>2, <1>3 DEF GetGroup

-----------------------------------------------------------------------------
(* A rank whose own state a reader step leaves alone.                      *)
LEMMA RankFrame ==
  ASSUME ReaderAction, NEW q \in Readers, Position(q), Attempt(q), Asked(q),
         rpc'[q] = rpc[q], step'[q] = step[q], lastVersion'[q] = lastVersion[q],
         whichVersion'[q] = whichVersion[q], currentStep'[q] = currentStep[q]
  PROVE  /\ Position(q)' /\ Attempt(q)' /\ Asked(q)'
         /\ Wanted(q)' = Wanted(q)
<1>1. call' = call /\ version' = version /\ files' = files
  BY ReaderFrame
<1>2. Dimes' = Dimes /\ WhichVersion(call.last)' = WhichVersion(call.last)
  BY <1>1 DEF Dimes, WhichVersion
<1>3. Position(q)'
  BY <1>1, <1>2 DEF Position, Window
<1>4. Attempt(q)'
  BY <1>1, <1>2 DEF Attempt
<1>5. Asked(q)'
  BY <1>1, <1>2 DEF Asked
<1>6. Wanted(q)' = Wanted(q)
  BY <1>2 DEF Wanted
<1> QED
  BY <1>3, <1>4, <1>5, <1>6

Attempting == {"get version", "get file", "get group"}

(* What a step of rank r alone establishes for r.                          *)
RankStep(r) ==
  /\ UNCHANGED <<lastVersion, currentStep>>
  /\ rpc[r] # "closed" /\ rpc[r] \notin Attempting
  /\ rpc'[r] \in ReaderPc /\ rpc'[r] \notin Attempting
  /\ rpc' = [rpc EXCEPT ![r] = rpc'[r]]
  /\ step'[r] \in Int /\ step' = [step EXCEPT ![r] = step'[r]]
  /\ whichVersion'[r] \in {"next", "next available", "last"}
  /\ whichVersion' = [whichVersion EXCEPT ![r] = whichVersion'[r]]
  /\ Position(r)' /\ Asked(r)'
  /\ rpc'[r] = "closed" \/ Wanted(r)' = Wanted(r)

(* Such a step keeps the readers' invariant.                               *)
LEMMA RankStepInv ==
  ASSUME ReaderInv, ReaderAction, NEW r \in Readers, RankStep(r),
         readStatus' \in Int
  PROVE  ReaderInv'
<1>0. /\ rpc \in [Readers -> ReaderPc] /\ step \in [Readers -> Int]
      /\ whichVersion \in [Readers -> {"next", "next available", "last"}]
      /\ lastVersion \in [Readers -> Int] /\ currentStep \in [Readers -> Int]
  BY DEF ReaderInv, ReaderTypeInv
<1>1. ReaderTypeInv'
  BY <1>0 DEF ReaderTypeInv, RankStep
<1>2. ASSUME NEW q \in Readers
      PROVE  /\ q # r => /\ rpc'[q] = rpc[q] /\ step'[q] = step[q]
                         /\ whichVersion'[q] = whichVersion[q]
             /\ lastVersion'[q] = lastVersion[q] /\ currentStep'[q] = currentStep[q]
  BY <1>0 DEF RankStep
<1>3. ASSUME NEW q \in Readers
      PROVE  /\ Position(q)' /\ Attempt(q)' /\ Asked(q)'
             /\ rpc'[q] # "closed" => rpc[q] # "closed" /\ Wanted(q)' = Wanted(q)
  <2>1. CASE q = r
    <3>1. Position(r)' /\ Asked(r)' /\ rpc'[r] # "get file"
      BY DEF RankStep, Attempting
    <3>2. Attempt(r)'
      BY <3>1 DEF Attempt
    <3>3. rpc'[r] # "closed" => rpc[r] # "closed" /\ Wanted(r)' = Wanted(r)
      BY DEF RankStep
    <3> QED
      BY <2>1, <3>1, <3>2, <3>3
  <2>2. CASE q # r
    <3>1. Position(q) /\ Attempt(q) /\ Asked(q)
      BY DEF ReaderInv
    <3>2. /\ rpc'[q] = rpc[q] /\ step'[q] = step[q]
          /\ whichVersion'[q] = whichVersion[q]
          /\ lastVersion'[q] = lastVersion[q] /\ currentStep'[q] = currentStep[q]
      BY <1>2, <2>2
    <3> QED
      BY <3>1, <3>2, RankFrame
  <2> QED
    BY <2>1, <2>2
<1>4. TogetherInv'
  <2> SUFFICES ASSUME NEW q \in Readers, NEW p \in Readers
               PROVE  /\ currentStep'[q] = currentStep'[p]
                      /\ rpc'[q] \notin Attempting
    BY DEF TogetherInv, Attempting
  <2>1. currentStep'[q] = currentStep'[p]
    BY <1>2 DEF ReaderInv, TogetherInv
  <2>2. rpc[q] \notin Attempting
    BY DEF ReaderInv, TogetherInv, RankStep, Attempting
  <2>3. rpc'[q] \notin Attempting
    BY <2>2, <1>2 DEF RankStep
  <2> QED
    BY <2>1, <2>3
<1>5. WantedInv'
  BY <1>3 DEF ReaderInv, WantedInv
<1> QED
  BY <1>1, <1>3, <1>4, <1>5 DEF ReaderInv

(* Every step of a single rank keeps the readers' invariant.               *)
LEMMA NextRank ==
  ASSUME WriterInv, ReaderInv, NEW r \in Readers,
         ReaderStep(r) \/ TimeoutExpired(r)
  PROVE  ReaderInv'
<1>0. ReaderAction
  BY DEF ReaderAction
<1>1. /\ rpc \in [Readers -> ReaderPc] /\ step \in [Readers -> Int]
      /\ whichVersion \in [Readers -> {"next", "next available", "last"}]
      /\ readStatus \in Int
  BY DEF ReaderInv, ReaderTypeInv
<1>2. Position(r) /\ Asked(r) /\ currentStep[r] \in Int /\ version.last \in Int
  BY ReaderTypes, VersionType DEF ReaderInv
<1>3. /\ call' = call /\ version' = version /\ Dimes' = Dimes
      /\ WhichVersion(call.last)' = WhichVersion(call.last)
  BY <1>0, ReaderFrame DEF Dimes, WhichVersion
<1>4. readStatus' \in Int
  BY <1>1, <1>2 DEF ReaderStep, TimeoutExpired, Poll, ReadOpen, ReleaseStep,
                    AdvanceStep, ReadClose, Released, spaceVars
<1>5. CASE Poll(r)
  <2>1. /\ rpc[r] = "not found" \/ rpc[r] = "not ready"
        /\ rpc'[r] = "lock" /\ rpc' = [rpc EXCEPT ![r] = "lock"]
        /\ UNCHANGED <<step, whichVersion, lastVersion, currentStep>>
    BY <1>1, <1>5 DEF Poll
  <2>2. Position(r)'
    BY <1>2, <1>3, <2>1 DEF Position, Waiting
  <2>3. Asked(r)'
    <3>1. /\ rpc[r] = "not found" => currentStep[r] = -1
          /\ rpc[r] = "not ready" => whichVersion[r] = WhichVersion(call.last)
          /\ currentStep[r] = -1 => whichVersion[r] = "next available"
      BY <1>2 DEF Position, Asked
    <3>2. currentStep'[r] = currentStep[r] /\ whichVersion'[r] = whichVersion[r]
      BY <2>1
    <3>3. ASSUME rpc[r] = "not found" PROVE ~(currentStep[r] >= 0)
      <4>1. currentStep[r] = -1
        BY <3>1, <3>3
      <4> QED
        BY <4>1
    <3> QED
      BY <1>3, <2>1, <3>1, <3>2, <3>3 DEF Asked
  <2>4. Wanted(r)' = Wanted(r)
    BY <2>1, <1>3 DEF Wanted
  <2> QED
    BY <1>0, <1>1, <1>4, <2>1, <2>2, <2>3, <2>4, RankStepInv
    DEF RankStep, Attempting, ReaderPc, Waiting
<1>6. CASE TimeoutExpired(r)
  <2>1. /\ \/ rpc[r] = "not found" /\ rpc'[r] = "no stream"
           \/ rpc[r] = "not ready" /\ rpc'[r] = "timed out"
        /\ rpc' = [rpc EXCEPT ![r] = rpc'[r]]
        /\ UNCHANGED <<step, whichVersion, lastVersion, currentStep>>
    BY <1>1, <1>6 DEF TimeoutExpired
  <2>2. Position(r)'
    BY <1>2, <1>3, <2>1 DEF Position, Waiting
  <2>3. Asked(r)'
    BY <1>2, <1>3, <2>1 DEF Asked, Position
  <2>4. Wanted(r)' = Wanted(r)
    BY <2>1, <1>3 DEF Wanted
  <2> QED
    BY <1>0, <1>1, <1>4, <2>1, <2>2, <2>3, <2>4, RankStepInv
    DEF RankStep, Attempting, ReaderPc, Waiting
<1>7. CASE ReadOpen(r)
  <2>1. /\ rpc[r] = "start" \/ rpc[r] = "no stream"
        /\ rpc'[r] = "lock" /\ rpc' = [rpc EXCEPT ![r] = "lock"]
        /\ step'[r] = 0 /\ step' = [step EXCEPT ![r] = 0]
        /\ whichVersion'[r] = "next available"
        /\ whichVersion' = [whichVersion EXCEPT ![r] = "next available"]
        /\ UNCHANGED <<lastVersion, currentStep>>
    BY <1>1, <1>7 DEF ReadOpen
  <2>2. currentStep[r] = -1 /\ whichVersion[r] = "next available"
    BY <1>2, <2>1 DEF Position, Asked
  <2>a. currentStep'[r] = -1 /\ currentStep'[r] \in -1 .. version'.last
    BY <1>2, <1>3, <2>1, <2>2 DEF Position
  <2>c. step'[r] = 0
    BY <2>1
  <2>b. step'[r] = currentStep'[r] + 1 /\ ~(currentStep'[r] >= 0)
    BY <2>a, <2>c
  <2>d. step'[r] \in Int
    BY <2>c
  <2>3. Position(r)'
    BY <2>1, <2>a, <2>b DEF Position, Waiting
  <2>4. Asked(r)'
    BY <2>1, <2>a, <2>b DEF Asked
  <2>5. Wanted(r)' = Wanted(r)
    BY <2>1, <2>2 DEF Wanted
  <2>6. RankStep(r)
    BY <1>1, <2>1, <2>c, <2>d, <2>3, <2>4, <2>5
       DEF RankStep, Attempting, ReaderPc, Waiting
  <2> QED
    BY <1>0, <1>4, <2>6, RankStepInv
<1>8. CASE ReleaseStep(r)
  <2>1. /\ rpc[r] = "open" /\ rpc'[r] = "released"
        /\ rpc' = [rpc EXCEPT ![r] = "released"]
        /\ UNCHANGED <<step, whichVersion, lastVersion, currentStep>>
    BY <1>1, <1>8 DEF ReleaseStep
  <2>2. Position(r)'
    BY <1>2, <1>3, <2>1 DEF Position, Waiting
  <2>3. Asked(r)'
    BY <1>2, <1>3, <2>1 DEF Asked, Position
  <2>4. Wanted(r)' = Wanted(r)
    BY <2>1, <1>3 DEF Wanted
  <2> QED
    BY <1>0, <1>1, <1>4, <2>1, <2>2, <2>3, <2>4, RankStepInv
    DEF RankStep, Attempting, ReaderPc
<1>9. CASE AdvanceStep(r)
  <2>1. /\ rpc[r] \in {"released", "open", "timed out", "disappeared"}
        /\ rpc'[r] = "lock" /\ rpc' = [rpc EXCEPT ![r] = "lock"]
        /\ step'[r] = currentStep[r] + 1
        /\ step' = [step EXCEPT ![r] = currentStep[r] + 1]
        /\ UNCHANGED <<lastVersion, currentStep>>
    BY <1>1, <1>9 DEF AdvanceStep
  <2>2. /\ whichVersion'[r] = WhichVersion(call.last \/ rpc[r] = "disappeared")
        /\ whichVersion' = [whichVersion EXCEPT
                              ![r] = WhichVersion(call.last \/ rpc[r] = "disappeared")]
    BY <1>1, <1>9 DEF AdvanceStep
  <2>3. currentStep[r] >= 0
    BY <1>2, <2>1 DEF Position
  <2>4. Position(r)'
    BY <1>2, <1>3, <2>1, <2>3 DEF Position, Waiting
  <2>7. currentStep'[r] = currentStep[r] /\ currentStep[r] # -1
    <3>1. currentStep' = currentStep
      BY <2>1
    <3>2. currentStep[r] # -1
      BY <2>3
    <3> QED
      BY <3>1, <3>2
  <2>8. step'[r] \in Int
    <3>1. step'[r] = currentStep[r] + 1
      BY <2>1
    <3> QED
      BY <1>2, <3>1
  <2>5. CASE rpc[r] = "disappeared"
    <3>1. whichVersion'[r] = "last" /\ version.last > currentStep[r] + 1
      BY <1>2, <2>2, <2>5 DEF WhichVersion, Position
    <3>2. Asked(r)'
      BY <1>3, <2>1, <2>7, <3>1 DEF Asked
    <3>3. Wanted(r)' = Wanted(r)
      BY <2>1, <2>5, <3>1 DEF Wanted
    <3>6. RankStep(r)
      BY <1>1, <2>1, <2>2, <2>4, <2>8, <3>1, <3>2, <3>3
      DEF RankStep, Attempting, ReaderPc, Waiting
    <3> QED
      BY <1>0, <1>4, <3>6, RankStepInv
  <2>6. CASE rpc[r] # "disappeared"
    <3>1. whichVersion'[r] = WhichVersion(call.last)
      BY <2>2, <2>6 DEF WhichVersion
    <3>2. Asked(r)'
      BY <1>3, <2>1, <2>7, <3>1 DEF Asked
    <3>3. Wanted(r) = WhichVersion(call.last)
      BY <1>2, <2>1, <2>6 DEF Wanted, Asked
    <3>4. Wanted(r)' = Wanted(r)
      BY <2>1, <3>1, <3>3 DEF Wanted
    <3>5. whichVersion'[r] \in {"next", "next available", "last"}
      BY <3>1 DEF WhichVersion
    <3>6. RankStep(r)
      BY <1>1, <2>1, <2>2, <2>4, <2>8, <3>2, <3>4, <3>5
      DEF RankStep, Attempting, ReaderPc, Waiting
    <3> QED
      BY <1>0, <1>4, <3>6, RankStepInv
  <2> QED
    BY <2>5, <2>6
<1>10. CASE ReadClose(r)
  <2>1. /\ rpc[r] \notin Attempting /\ rpc[r] # "closed"
        /\ rpc'[r] = "closed" /\ rpc' = [rpc EXCEPT ![r] = "closed"]
        /\ UNCHANGED <<step, whichVersion, lastVersion, currentStep>>
    BY <1>1, <1>10 DEF ReadClose, Attempting
  <2>2. Position(r)'
    BY <1>2, <1>3, <2>1 DEF Position, Waiting
  <2>3. Asked(r)'
    BY <1>2, <1>3, <2>1 DEF Asked
  <2> QED
    BY <1>0, <1>1, <1>4, <2>1, <2>2, <2>3, RankStepInv
    DEF RankStep, Attempting, ReaderPc
<1> QED
  BY <1>5, <1>6, <1>7, <1>8, <1>9, <1>10 DEF ReaderStep

-----------------------------------------------------------------------------
(* All ranks come to the same result pc: what remains to show.             *)
LEMMA CollectiveStepInv ==
  ASSUME ReaderInv, NEW pc \in ReaderPc, rpc' = [r \in Readers |-> pc],
         step' \in [Readers -> Int], lastVersion' \in [Readers -> Int],
         whichVersion' = whichVersion, readStatus' = readStatus,
         currentStep' \in [Readers -> Int],
         \A r, q \in Readers : /\ currentStep'[r] = currentStep'[q]
                               /\ pc = "get file" => step'[r] = step'[q]
                               /\ whichVersion[r] = whichVersion[q],
         \A r \in Readers : Position(r)' /\ Attempt(r)' /\ Asked(r)'
  PROVE  ReaderInv'
<1>1. ReaderTypeInv'
  BY DEF ReaderInv, ReaderTypeInv
<1>2. TogetherInv'
  BY DEF TogetherInv
<1>3. WantedInv'
  <2> SUFFICES ASSUME NEW r \in Readers, NEW q \in Readers
               PROVE  Wanted(r)' = Wanted(q)'
    BY DEF WantedInv
  <2>1. rpc'[r] = pc /\ rpc'[q] = pc /\ whichVersion'[r] = whichVersion'[q]
    OBVIOUS
  <2> QED
    BY <2>1 DEF Wanted
<1> QED
  BY <1>1, <1>2, <1>3 DEF ReaderInv

(* The collective read lock keeps the readers' invariant.                  *)
LEMMA LockOnReadInv ==
  ASSUME WriterInv, ReaderInv, LockOnRead
  PROVE  ReaderInv'
<1>0. ReaderAction
  BY DEF ReaderAction
<1>1. /\ \A q \in Readers : rpc[q] = "lock"
      /\ rpc' = [r \in Readers |-> "get version"]
      /\ UNCHANGED <<readStatus, step, lastVersion, whichVersion, currentStep>>
  BY DEF LockOnRead
<1>2. ASSUME NEW r \in Readers, NEW q \in Readers
      PROVE  currentStep[r] = currentStep[q] /\ whichVersion[r] = whichVersion[q]
  <2>1. currentStep[r] = currentStep[q] /\ Wanted(r) = Wanted(q)
    BY <1>1 DEF ReaderInv, TogetherInv, WantedInv
  <2> QED
    BY <1>1, <2>1 DEF Wanted
<1>3. ASSUME NEW r \in Readers
      PROVE  Position(r)' /\ Attempt(r)' /\ Asked(r)'
  <2>1. Position(r) /\ Asked(r) /\ rpc[r] = "lock" /\ rpc'[r] = "get version"
    BY <1>1 DEF ReaderInv
  <2>2. /\ step'[r] = step[r] /\ currentStep'[r] = currentStep[r]
        /\ whichVersion'[r] = whichVersion[r]
    BY <1>1
  <2>3. /\ version' = version /\ WhichVersion(call.last)' = WhichVersion(call.last)
    BY <1>0, ReaderFrame DEF WhichVersion
  <2>4. Position(r)'
    BY <2>1, <2>2, <2>3 DEF Position, Waiting
  <2>5. Asked(r)'
    BY <2>1, <2>2, <2>3 DEF Asked
  <2>6. Attempt(r)'
    BY <2>1 DEF Attempt
  <2> QED
    BY <2>4, <2>5, <2>6
<1>4. /\ step' \in [Readers -> Int] /\ lastVersion' \in [Readers -> Int]
      /\ currentStep' \in [Readers -> Int]
  BY <1>1 DEF ReaderInv, ReaderTypeInv
<1>5. "get version" \in ReaderPc
  BY DEF ReaderPc, ReadLocked
<1>6. \A r, q \in Readers : /\ currentStep'[r] = currentStep'[q]
                            /\ whichVersion[r] = whichVersion[q]
  BY <1>1, <1>2
<1> DEFINE pc == "get version"
<1>7. pc # "get file" /\ pc \in ReaderPc /\ rpc' = [r \in Readers |-> pc]
  BY <1>1, <1>5
<1>8. whichVersion' = whichVersion /\ readStatus' = readStatus
  BY <1>1
<1> HIDE DEF pc
<1> QED
  BY <1>3, <1>4, <1>6, <1>7, <1>8, CollectiveStepInv

(* Reading VERSION@ keeps the readers' invariant.                          *)
LEMMA GetVersionInv ==
  ASSUME WriterInv, LockInv, ReaderInv, GetVersion
  PROVE  ReaderInv'
<1>0. ReaderAction
  BY DEF ReaderAction, ReaderCollective
<1>1. ASSUME NEW r \in Readers
      PROVE  /\ rpc[r] = "get version" /\ step[r] = currentStep[0] + 1
             /\ currentStep[r] = currentStep[0]
             /\ whichVersion[r] = whichVersion[0]
  BY GetVersionResult
<1>2. /\ lastVersion' = [r \in Readers |-> version.last]
      /\ whichVersion' = whichVersion /\ currentStep' = currentStep
      /\ readStatus' = readStatus
  BY DEF GetVersion
<1>3. /\ version' = version /\ files' = files /\ Dimes' = Dimes
      /\ WhichVersion(call.last)' = WhichVersion(call.last)
  BY <1>0, ReaderFrame DEF Dimes, WhichVersion
<1>4. /\ version.last \in Int /\ currentStep[0] \in Int
      /\ currentStep[0] \in -1 .. version.last
  <2>1. version.last \in Int /\ currentStep[0] \in Int
    BY Ranks, VersionType, ReaderTypes
  <2>2. currentStep[0] \in -1 .. version.last
    BY Ranks DEF ReaderInv, Position
  <2> QED
    BY <2>1, <2>2
<1>5. lastVersion' \in [Readers -> Int] /\ currentStep' \in [Readers -> Int]
  BY <1>2, <1>4 DEF ReaderInv, ReaderTypeInv
<1>6. ASSUME NEW r \in Readers
      PROVE  Position(r) /\ Asked(r)
  BY DEF ReaderInv
<1>7. ASSUME NEW pc \in ReaderPc, rpc' = [r \in Readers |-> pc], step' = step,
             pc # "get file",
             \A r \in Readers : Position(r)' /\ Asked(r)'
      PROVE  ReaderInv'
  <2>1. \A r \in Readers : Attempt(r)'
    BY <1>7 DEF Attempt
  <2>2. step' \in [Readers -> Int]
    BY <1>7 DEF ReaderInv, ReaderTypeInv
  <2> QED
    BY <1>1, <1>2, <1>5, <1>7, <2>1, <2>2, CollectiveStepInv
<1>8. CASE /\ version.last = -1
           /\ rpc' = [r \in Readers |-> "not found"] /\ step' = step
  <2>1. ASSUME NEW r \in Readers
        PROVE  Position(r)' /\ Asked(r)'
    <3>1. /\ rpc'[r] = "not found" /\ step'[r] = step[r]
          /\ whichVersion'[r] = whichVersion[r] /\ currentStep'[r] = currentStep[r]
      BY <1>8, <1>2
    <3>2. currentStep[r] = -1
      <4>0. version.last = -1
        BY <1>8
      <4>1. currentStep[0] = -1
        BY <1>4, <4>0
      <4> QED
        BY <4>1, <1>1
    <3>3. step[r] = currentStep[r] + 1
      BY <1>1
    <3>4. Position(r)'
      BY <3>1, <3>2, <3>3, <1>3, <1>6 DEF Position, Waiting
    <3>5. Asked(r)'
      BY <3>1, <3>2, <1>6 DEF Asked
    <3> QED
      BY <3>4, <3>5
  <2>2. "not found" \in ReaderPc
    BY DEF ReaderPc, Waiting
  <2> QED
    BY <1>7, <1>8, <2>1, <2>2
<1>9. CASE /\ version.last = currentStep[0] /\ version.terminated
           /\ rpc' = [r \in Readers |-> "end of stream"] /\ step' = step
  <2>1. ASSUME NEW r \in Readers
        PROVE  Position(r)' /\ Asked(r)'
    <3>1. /\ rpc'[r] = "end of stream" /\ step'[r] = step[r]
          /\ whichVersion'[r] = whichVersion[r] /\ currentStep'[r] = currentStep[r]
      BY <1>9, <1>2
    <3>2. version.last = NSteps - 1 /\ version.terminated
      BY <1>9 DEF WriterInv, VersionInv
    <3>3. currentStep[r] = NSteps - 1
      BY <1>1, <1>9, <3>2
    <3>4. Position(r)'
      BY <3>1, <3>2, <3>3, <1>3, <1>6 DEF Position, Waiting
    <3>5. Asked(r)'
      BY <3>1, <1>6 DEF Asked
    <3> QED
      BY <3>4, <3>5
  <2>2. "end of stream" \in ReaderPc
    BY DEF ReaderPc
  <2> QED
    BY <1>7, <1>9, <2>1, <2>2
<1>10. CASE /\ version.last = currentStep[0] /\ version.last >= 0
            /\ rpc' = [r \in Readers |-> "not ready"] /\ step' = step
  <2>1. ASSUME NEW r \in Readers
        PROVE  Position(r)' /\ Asked(r)'
    <3>1. /\ rpc'[r] = "not ready" /\ step'[r] = step[r]
          /\ whichVersion'[r] = whichVersion[r] /\ currentStep'[r] = currentStep[r]
      BY <1>10, <1>2
    <3>2. currentStep[r] >= 0 /\ currentStep[r] = version.last
      BY <1>1, <1>10
    <3>3. step[r] = currentStep[r] + 1
      BY <1>1
    <3>4. Position(r)'
      BY <3>1, <3>2, <3>3, <1>3, <1>6 DEF Position, Waiting
    <3>5. whichVersion[r] = WhichVersion(call.last)
      <4>1. ~(version.last > currentStep[r] + 1)
        BY <3>2, <1>4
      <4> QED
        BY <4>1, <3>2, <1>1, <1>6 DEF Asked
    <3>6. Asked(r)'
      BY <3>1, <3>5, <1>3, <1>6 DEF Asked
    <3> QED
      BY <3>4, <3>6
  <2>2. "not ready" \in ReaderPc
    BY DEF ReaderPc, Waiting
  <2> QED
    BY <1>7, <1>10, <2>1, <2>2
<1>11. CASE /\ version.last > currentStep[0]
            /\ rpc' = [r \in Readers |-> "get file"]
            /\ step' = [r \in Readers |-> FirstTried(r)]
  <2>1. ASSUME NEW r \in Readers
        PROVE  /\ FirstTried(r) \in Int
               /\ FirstTried(r) \in currentStep[0] + 1 .. version.last
               /\ FirstTried(r) = FirstTried(0)
               /\ Dimes \/ whichVersion[r] = "last" => FirstTried(r) = version.last
               /\ whichVersion[r] # "last" /\ ~Dimes => FirstTried(r) = currentStep[0] + 1
    <3>1. FirstTried(r) = FirstTried(0)
      BY <1>1, Ranks DEF FirstTried
    <3>2. /\ Dimes \/ whichVersion[r] = "last" => FirstTried(r) = version.last
          /\ whichVersion[r] # "last" /\ ~Dimes => FirstTried(r) = currentStep[0] + 1
      BY <1>1 DEF FirstTried
    <3>3. FirstTried(r) = version.last \/ FirstTried(r) = currentStep[0] + 1
      BY <3>2
    <3>a. version.last > currentStep[0]
      BY <1>11
    <3>4. /\ FirstTried(r) \in Int
          /\ FirstTried(r) \in currentStep[0] + 1 .. version.last
      BY <3>3, <1>4, <3>a
    <3> QED
      BY <3>1, <3>2, <3>4
  <2>2. ASSUME NEW r \in Readers
        PROVE  Position(r)' /\ Attempt(r)' /\ Asked(r)'
    <3>1. /\ rpc'[r] = "get file" /\ step'[r] = FirstTried(r)
          /\ lastVersion'[r] = version.last
          /\ whichVersion'[r] = whichVersion[r] /\ currentStep'[r] = currentStep[0]
      BY <1>11, <1>2, <1>1
    <3>2. Position(r)'
      BY <3>1, <1>3, <1>4 DEF Position, Waiting
    <3>3. Asked(r)'
      BY <3>1, <1>1, <1>6 DEF Asked
    <3>4. whichVersion[r] # "last" /\ ~Dimes
            => \A s \in currentStep[0] + 1 .. FirstTried(r) - 1 : s \notin files
      BY <2>1, <1>4
    <3>5. Attempt(r)'
      BY <2>1, <3>1, <3>4, <1>3 DEF Attempt
    <3> QED
      BY <3>2, <3>3, <3>5
  <2>3. step' \in [Readers -> Int]
    BY <1>11, <2>1
  <2>4. "get file" \in ReaderPc
    BY DEF ReaderPc, ReadLocked
  <2>5. \A r, q \in Readers : step'[r] = step'[q]
    BY <1>11, <2>1
  <2> QED
    BY <1>1, <1>2, <1>5, <1>11, <2>2, <2>3, <2>4, <2>5, CollectiveStepInv
<1> QED
  BY <1>8, <1>9, <1>10, <1>11, GetVersionResult

-----------------------------------------------------------------------------
(* Looking for FILE@ keeps the readers' invariant.                         *)
LEMMA GetFileInv ==
  ASSUME MaxVersions > 1, WriterInv, LockInv, ReaderInv, GetFile
  PROVE  ReaderInv'
<1>0. ReaderAction
  BY DEF ReaderAction, ReaderCollective
<1>1. ASSUME NEW r \in Readers
      PROVE  /\ rpc[r] = "get file" /\ step[r] = step[0]
             /\ currentStep[r] = currentStep[0]
             /\ whichVersion[r] = whichVersion[0]
  BY GetFileResult
<1>2. /\ lastVersion' = lastVersion /\ whichVersion' = whichVersion
      /\ readStatus' = readStatus
  BY DEF GetFile
<1>3. /\ version' = version /\ files' = files /\ Dimes' = Dimes
  BY <1>0, ReaderFrame DEF Dimes
<1>4. /\ version.last \in Int /\ currentStep[0] \in Int /\ step[0] \in Int
  BY Ranks, VersionType, ReaderTypes
<1>5. /\ currentStep[0] \in -1 .. version.last
      /\ step[0] \in currentStep[0] + 1 .. version.last
  BY <1>1, Ranks DEF ReaderInv, Position, Attempt
<1>6. /\ lastVersion' \in [Readers -> Int] /\ step \in [Readers -> Int]
      /\ currentStep \in [Readers -> Int]
  BY <1>2 DEF ReaderInv, ReaderTypeInv
<1>7. ASSUME NEW r \in Readers
      PROVE  Position(r) /\ Attempt(r) /\ Asked(r)
  BY DEF ReaderInv
<1>8. files = Window(version.last)
  BY GetFileResult
<1>9. CASE /\ step[0] \in files /\ currentStep' = step /\ step' = step
           /\ rpc' = [r \in Readers |-> "get group"]
  <2>1. ASSUME NEW r \in Readers
        PROVE  Position(r)' /\ Attempt(r)' /\ Asked(r)'
    <3>1. /\ rpc'[r] = "get group" /\ currentStep'[r] = step[0]
      BY <1>9, <1>1
    <3>2. step[0] >= 0 /\ step[0] \in -1 .. version.last /\ step[0] # -1
      BY <1>4, <1>5
    <3>3. step[0] \in Window(version.last)
      BY <1>8, <1>9
    <3>4. Dimes => step[0] = version.last
      <4>1. Attempt(r) /\ rpc[r] = "get file" /\ step[r] = step[0]
        BY <1>1, <1>7
      <4> QED
        BY <4>1 DEF Attempt
    <3>5. Window(version.last)' = Window(version.last)
      BY <1>3 DEF Window
    <3>6. Position(r)'
      BY <3>1, <3>2, <3>3, <3>4, <3>5, <1>3 DEF Position, Waiting
    <3>7. Attempt(r)'
      BY <3>1 DEF Attempt
    <3>8. Asked(r)'
      BY <3>1, <3>2 DEF Asked
    <3> QED
      BY <3>6, <3>7, <3>8
  <2> DEFINE pc == "get group"
  <2>2. pc \in ReaderPc /\ pc # "get file" /\ rpc' = [r \in Readers |-> pc]
    BY <1>9 DEF ReaderPc, ReadLocked
  <2>3. step' \in [Readers -> Int] /\ currentStep' \in [Readers -> Int]
    BY <1>6, <1>9
  <2>4. \A r, q \in Readers : /\ currentStep'[r] = currentStep'[q]
                              /\ whichVersion[r] = whichVersion[q]
    BY <1>1, <1>9
  <2> HIDE DEF pc
  <2> QED
    BY <1>2, <1>6, <2>1, <2>2, <2>3, <2>4, CollectiveStepInv
<1>10. CASE /\ step[0] \notin files /\ currentStep' = currentStep
            /\ ~Dimes /\ whichVersion[0] = "next available"
            /\ step[0] < version.last
            /\ step' = [r \in Readers |-> step[r] + 1]
            /\ rpc' = [r \in Readers |-> "get file"]
  <2>1. ASSUME NEW r \in Readers
        PROVE  Position(r)' /\ Attempt(r)' /\ Asked(r)'
    <3>1. /\ rpc'[r] = "get file" /\ currentStep'[r] = currentStep[0]
          /\ step'[r] = step[0] + 1 /\ whichVersion'[r] = "next available"
          /\ lastVersion'[r] = lastVersion[r]
      BY <1>10, <1>1, <1>2
    <3>2. step[0] < version.last
      BY <1>10
    <3>3. step[0] + 1 \in currentStep[0] + 1 .. version.last
      BY <3>2, <1>4, <1>5
    <3>4. lastVersion[r] = version.last
      BY <1>1, <1>7 DEF Attempt
    <3>5. \A s \in currentStep[0] + 1 .. step[0] - 1 : s \notin files
      <4>1. whichVersion[r] # "last" /\ ~Dimes
        BY <1>10, <1>1
      <4>2. \A s \in currentStep[r] + 1 .. step[r] - 1 : s \notin files
        BY <4>1, <1>1, <1>7 DEF Attempt
      <4> QED
        BY <4>2, <1>1
    <3>6. step[0] \notin files
      BY <1>10
    <3>7. \A s \in currentStep[0] + 1 .. (step[0] + 1) - 1 : s \notin files
      <4>1. ASSUME NEW s \in currentStep[0] + 1 .. (step[0] + 1) - 1
            PROVE  s = step[0] \/ s \in currentStep[0] + 1 .. step[0] - 1
        BY <1>4
      <4> QED
        BY <4>1, <3>5, <3>6
    <3>8. ~Dimes'
      BY <1>3, <1>10
    <3>9. Position(r)'
      BY <3>1, <1>3, <1>5 DEF Position, Waiting
    <3>10. Attempt(r)'
      <4>1. /\ lastVersion'[r] = version'.last /\ whichVersion'[r] = "next available"
        BY <3>1, <3>4, <1>3
      <4>2. step'[r] \in currentStep'[r] + 1 .. version'.last
        BY <3>1, <3>3, <1>3
      <4>3. \A s \in currentStep'[r] + 1 .. step'[r] - 1 : s \notin files'
        <5>1. currentStep'[r] = currentStep[0] /\ step'[r] = step[0] + 1
          BY <3>1
        <5>2. currentStep'[r] + 1 .. step'[r] - 1
                = currentStep[0] + 1 .. (step[0] + 1) - 1
          BY <5>1, Zenon
        <5> QED
          BY <5>2, <3>7, <1>3
      <4> QED
        BY <4>1, <4>2, <4>3, <3>8 DEF Attempt
    <3>11. Asked(r)'
      BY <3>1 DEF Asked
    <3> QED
      BY <3>9, <3>10, <3>11
  <2>2. "get file" \in ReaderPc
    BY DEF ReaderPc, ReadLocked
  <2>3. step' \in [Readers -> Int] /\ currentStep' \in [Readers -> Int]
    <3>1. step' = [r \in Readers |-> step[r] + 1] /\ currentStep' = currentStep
      BY <1>10
    <3>2. \A r \in Readers : step[r] + 1 \in Int
      BY <1>6
    <3> QED
      BY <3>1, <3>2, <1>6
  <2>4. \A r, q \in Readers : /\ currentStep'[r] = currentStep'[q]
                              /\ step'[r] = step'[q]
                              /\ whichVersion[r] = whichVersion[q]
    BY <1>1, <1>10
  <2> QED
    BY <1>2, <1>6, <1>10, <2>1, <2>2, <2>3, <2>4, CollectiveStepInv
<1>11. CASE /\ step[0] \notin files /\ currentStep' = currentStep
            /\ ~Dimes /\ whichVersion[0] = "next"
            /\ step[0] + 1 < version.last
            /\ step' = [r \in Readers |-> step[r] + 1]
            /\ rpc' = [r \in Readers |-> "disappeared"]
  <2>1. ASSUME NEW r \in Readers
        PROVE  Position(r)' /\ Attempt(r)' /\ Asked(r)'
    <3>1. /\ rpc'[r] = "disappeared" /\ currentStep'[r] = currentStep[0]
      BY <1>11, <1>1
    <3>2. currentStep[0] # -1
      <4>1. whichVersion[r] = "next" /\ currentStep[r] = currentStep[0]
        BY <1>1, <1>11
      <4> QED
        BY <4>1, <1>7 DEF Asked
    <3>3. step[0] + 1 < version.last
      BY <1>11
    <3>4. currentStep[0] >= 0 /\ version.last > currentStep[0] + 1
      BY <3>2, <3>3, <1>4, <1>5
    <3>5. Position(r)'
      BY <3>1, <3>4, <1>3, <1>5 DEF Position, Waiting
    <3>6. Attempt(r)'
      BY <3>1 DEF Attempt
    <3>7. Asked(r)'
      BY <3>1, <3>2 DEF Asked
    <3> QED
      BY <3>5, <3>6, <3>7
  <2> DEFINE pc == "disappeared"
  <2>2. pc \in ReaderPc /\ pc # "get file" /\ rpc' = [r \in Readers |-> pc]
    BY <1>11 DEF ReaderPc
  <2>3. step' \in [Readers -> Int] /\ currentStep' \in [Readers -> Int]
    BY <1>6, <1>11
  <2>4. \A r, q \in Readers : /\ currentStep'[r] = currentStep'[q]
                              /\ whichVersion[r] = whichVersion[q]
    BY <1>1, <1>11
  <2> HIDE DEF pc
  <2> QED
    BY <1>2, <1>6, <2>1, <2>2, <2>3, <2>4, CollectiveStepInv
<1> QED
  BY <1>9, <1>10, <1>11, GetFileResult

(* Reading GROUP@ keeps the readers' invariant.                            *)
LEMMA GetGroupInv ==
  ASSUME WriterInv, LockInv, ReaderInv, GetGroup
  PROVE  ReaderInv'
<1>0. ReaderAction
  BY DEF ReaderAction, ReaderCollective
<1>1. /\ \A q \in Readers : rpc[q] = "get group"
      /\ rpc' = [r \in Readers |-> "open"]
      /\ UNCHANGED <<readStatus, step, lastVersion, whichVersion, currentStep>>
  BY GetGroupResult DEF GetGroup
<1>2. ASSUME NEW r \in Readers, NEW q \in Readers
      PROVE  currentStep[r] = currentStep[q] /\ whichVersion[r] = whichVersion[q]
  <2>1. currentStep[r] = currentStep[q] /\ Wanted(r) = Wanted(q)
    BY <1>1 DEF ReaderInv, TogetherInv, WantedInv
  <2> QED
    BY <1>1, <2>1 DEF Wanted
<1>3. ASSUME NEW r \in Readers
      PROVE  Position(r)' /\ Attempt(r)' /\ Asked(r)'
  <2>1. Position(r) /\ Asked(r) /\ rpc[r] = "get group" /\ rpc'[r] = "open"
    BY <1>1 DEF ReaderInv
  <2>2. /\ step'[r] = step[r] /\ currentStep'[r] = currentStep[r]
        /\ whichVersion'[r] = whichVersion[r]
    BY <1>1
  <2>3. /\ version' = version /\ Dimes' = Dimes
        /\ Window(version.last)' = Window(version.last)
    BY <1>0, ReaderFrame DEF Dimes, Window
  <2>4. Position(r)'
    BY <2>1, <2>2, <2>3 DEF Position, Waiting
  <2>5. Asked(r)'
    BY <2>1, <2>2 DEF Asked
  <2>6. Attempt(r)'
    BY <2>1 DEF Attempt
  <2> QED
    BY <2>4, <2>5, <2>6
<1>4. /\ step' \in [Readers -> Int] /\ lastVersion' \in [Readers -> Int]
      /\ currentStep' \in [Readers -> Int]
  BY <1>1 DEF ReaderInv, ReaderTypeInv
<1> DEFINE pc == "open"
<1>5. pc \in ReaderPc /\ pc # "get file" /\ rpc' = [r \in Readers |-> pc]
  BY <1>1 DEF ReaderPc, ReadLocked
<1>6. \A r, q \in Readers : /\ currentStep'[r] = currentStep'[q]
                            /\ whichVersion[r] = whichVersion[q]
  BY <1>1, <1>2
<1>7. whichVersion' = whichVersion /\ readStatus' = readStatus
  BY <1>1
<1> HIDE DEF pc
<1> QED
  BY <1>3, <1>4, <1>5, <1>6, <1>7, CollectiveStepInv

(* The reader program keeps the read lock exactly while a rank is in an    *)
(* attempt or has a step open.                                             *)
LEMMA NextLockReader ==
  ASSUME MaxVersions > 1, WriterInv, LockInv, ReaderInv, ReaderAction
  PROVE  LockInv'
<1>0. writeLock' = writeLock /\ wpc' = wpc
  BY ReaderFrame
<1>1. rpc \in [Readers -> ReaderPc]
  BY DEF ReaderInv, ReaderTypeInv
<1>2. ASSUME /\ lockedFname' = {r \in Readers : rpc'[r] \in ReadLocked}
             /\ writeLock => lockedFname' = {}
      PROVE  LockInv'
  BY <1>0, <1>2 DEF LockInv
<1>3. CASE LockOnRead
  BY <1>2, <1>3 DEF LockOnRead, ReadLocked
<1>4. CASE GetVersion
  <2>1. /\ lockedFname' = {r \in Readers : rpc'[r] = "get file"}
        /\ \A r \in Readers : rpc[r] = "get version"
    BY <1>4 DEF GetVersion
  <2>2. ~writeLock
    BY <2>1, Ranks DEF LockInv, ReadLocked
  <2>3. \A r \in Readers : rpc'[r] \in {"not found", "get file", "end of stream", "not ready"}
    BY <1>4, GetVersionResult
  <2>4. lockedFname' = {r \in Readers : rpc'[r] \in ReadLocked}
    BY <2>1, <2>3 DEF ReadLocked
  <2> QED
    BY <1>2, <2>2, <2>4
<1>5. CASE GetFile
  <2>1. \A r \in Readers : rpc[r] = "get file"
    BY <1>5 DEF GetFile
  <2>2. ~writeLock /\ lockedFname = Readers
    BY <2>1, Ranks DEF LockInv, ReadLocked
  <2>3. \/ rpc' = [r \in Readers |-> "get group"] /\ step[0] \in files
        \/ rpc' = [r \in Readers |-> "get file"] /\ step[0] \notin files
        \/ rpc' = [r \in Readers |-> "disappeared"] /\ step[0] \notin files
    BY <1>5, GetFileResult
  <2>4. lockedFname' = {r \in Readers : rpc'[r] \in ReadLocked}
    BY <1>5, <2>2, <2>3 DEF GetFile, ReadLocked
  <2> QED
    BY <1>2, <2>2, <2>4
<1>6. CASE GetGroup
  <2>1. (\A r \in Readers : rpc[r] = "get group") /\ rpc' = [r \in Readers |-> "open"]
    BY <1>6, GetGroupResult DEF GetGroup
  <2>2. ~writeLock /\ lockedFname = Readers
    BY <2>1, Ranks DEF LockInv, ReadLocked
  <2>3. rpc'[0] = "open"
    BY <2>1, Ranks
  <2>4. lockedFname' = lockedFname
    BY <1>6, <2>3, Ranks DEF GetGroup
  <2>5. lockedFname' = {r \in Readers : rpc'[r] \in ReadLocked}
    BY <2>1, <2>2, <2>4 DEF ReadLocked
  <2> QED
    BY <1>2, <2>2, <2>5
<1>7. ASSUME NEW r \in Readers, ReaderStep(r) \/ TimeoutExpired(r)
      PROVE  LockInv'
  <2>1. /\ rpc' = [rpc EXCEPT ![r] = rpc'[r]] /\ rpc'[r] \notin ReadLocked
        /\ lockedFname' = lockedFname \ {r}
    <3>1. CASE Poll(r) \/ TimeoutExpired(r)
      <4>1. rpc[r] \in {"not found", "not ready"} /\ lockedFname' = lockedFname
            /\ rpc' = [rpc EXCEPT ![r] = rpc'[r]]
            /\ rpc'[r] \in {"lock", "no stream", "timed out"}
        BY <1>1, <3>1 DEF Poll, TimeoutExpired, spaceVars
      <4>2. r \notin lockedFname
        BY <4>1 DEF LockInv, ReadLocked
      <4> QED
        BY <4>1, <4>2 DEF ReadLocked
    <3>2. CASE ReadOpen(r)
      <4>1. rpc[r] \in {"start", "no stream"} /\ lockedFname' = lockedFname
            /\ rpc' = [rpc EXCEPT ![r] = "lock"]
        BY <3>2 DEF ReadOpen, spaceVars
      <4>2. r \notin lockedFname
        BY <4>1 DEF LockInv, ReadLocked
      <4> QED
        BY <1>1, <4>1, <4>2 DEF ReadLocked
    <3>3. CASE ReleaseStep(r) \/ AdvanceStep(r) \/ ReadClose(r)
      <4>1. /\ \/ rpc' = [rpc EXCEPT ![r] = "released"]
               \/ rpc' = [rpc EXCEPT ![r] = "lock"]
               \/ rpc' = [rpc EXCEPT ![r] = "closed"]
            /\ lockedFname' = lockedFname \ {r}
        BY <3>3 DEF ReleaseStep, AdvanceStep, ReadClose
      <4> QED
        BY <1>1, <4>1 DEF ReadLocked
    <3> QED
      BY <1>7, <3>1, <3>2, <3>3 DEF ReaderStep
  <2>2. lockedFname = {q \in Readers : rpc[q] \in ReadLocked}
    BY DEF LockInv
  <2>3. \A q \in Readers : q # r => rpc'[q] = rpc[q]
    BY <1>1, <2>1
  <2>4. lockedFname' = {q \in Readers : rpc'[q] \in ReadLocked}
    BY <2>1, <2>2, <2>3
  <2>5. writeLock => lockedFname' = {}
    BY <2>1 DEF LockInv
  <2> QED
    BY <1>2, <2>4, <2>5
<1> QED
  BY <1>3, <1>4, <1>5, <1>6, <1>7 DEF ReaderAction, ReaderCollective

-----------------------------------------------------------------------------
(* The writer program announces the end only once the step is released.    *)
LEMMA NextDrainWriter ==
  ASSUME WriterInv, LockInv, ReaderInv, DrainInv, WriterAction
  PROVE  DrainInv'
<1> SUFFICES ASSUME Dimes', ~gaveUp', NEW r \in Readers
             PROVE  /\ readStatus' <= currentStep'[r]
                    /\ \A w \in Writers \ {0} : Drained(w, r)'
  BY DEF DrainInv
<1>0. UNCHANGED <<call, lockedFname, readStatus, rpc, currentStep>>
  BY WriterFrame
<1>1. Dimes
  BY <1>0 DEF Dimes
<1>2. wpc \in [Writers -> WriterPc]
  BY DEF WriterInv, WriterTypeInv
<1>3. ASSUME NEW u \in Writers \ {0}, Drained(u, r), wpc'[u] = wpc[u]
      PROVE  Drained(u, r)'
  BY <1>0, <1>3 DEF Drained
<1>4. ASSUME ~gaveUp PROVE readStatus' <= currentStep'[r] /\ \A w \in Writers \ {0} : Drained(w, r)
  BY <1>0, <1>1, <1>4 DEF DrainInv
<1>5. ASSUME NEW w \in Writers, WriterStep(w) \/ FinalLock(w)
      PROVE  /\ readStatus' <= currentStep'[r]
             /\ \A u \in Writers \ {0} : Drained(u, r)'
  <2>1. ~gaveUp
    BY <1>5 DEF WriterStep, FinalLock, Open, Write, Finalize, LastVersionRead,
                CheckTimeout, FinalPut, FinalUnlock, Disconnect
  <2>2. wpc' = [wpc EXCEPT ![w] = wpc'[w]]
    BY <1>2, <1>5
       DEF WriterStep, FinalLock, Open, Write, Finalize, LastVersionRead,
                CheckTimeout, FinalPut, FinalUnlock, Disconnect, WriterAt
  <2>3. ASSUME w # 0 PROVE Drained(w, r)'
    <3>0. Drained(w, r)
      BY <1>4, <2>1, <2>3
    <3>1. CASE wpc'[w] \in {"lock", "barrier", "check"}
      BY <3>1 DEF Drained, Ending, FinalLocked
    <3>2. CASE LastVersionRead(w)
      <4>1. wpc[w] = "check" /\ wpc'[w] = "final lock" /\ readStatus = timeIndex[w]
        BY <1>2, <3>2 DEF LastVersionRead, WriterAt
      <4>2. timeIndex[w] = NSteps - 1 /\ version.last = NSteps - 1
        BY <4>1 DEF WriterInv, VersionInv, Opening, Ending, Closing
      <4>3. readStatus <= currentStep[r] /\ currentStep[r] \in -1 .. version.last
        BY <1>0, <1>4, <2>1 DEF ReaderInv, Position
      <4>4. currentStep[r] = NSteps - 1
        <5>1. currentStep[r] \in Int /\ readStatus = NSteps - 1
          BY <4>1, <4>2, ReaderTypes
        <5> QED
          BY <5>1, <4>2, <4>3, Ranks
      <4> QED
        BY <1>0, <4>1, <4>4 DEF Drained
    <3>3. CASE FinalLock(w)
      <4>1. /\ wpc[w] = "final lock" /\ wpc'[w] = "final put" /\ lockedFname = {}
        BY <1>2, <3>3 DEF FinalLock, WriterAt
      <4>2. rpc[r] \notin ReadLocked
        BY <4>1 DEF LockInv
      <4>3. currentStep[r] = NSteps - 1
        BY <3>0, <4>1 DEF Drained, Ending
      <4> QED
        BY <1>0, <4>2, <4>3 DEF Drained, ReadLocked
    <3>4. CASE FinalPut(w) \/ FinalUnlock(w) \/ Disconnect(w)
      <4>1. wpc[w] \in {"final put", "final unlock", "announced"}
        BY <3>4 DEF FinalPut, FinalUnlock, Disconnect, WriterAt
      <4>2. /\ currentStep[r] = NSteps - 1
            /\ rpc[r] \notin {"get file", "get group", "open"}
        BY <3>0, <4>1 DEF Drained, Ending, FinalLocked
      <4> QED
        BY <1>0, <4>2 DEF Drained
    <3>5. CASE Open(w) \/ Write(w) \/ Finalize(w)
      <4>1. wpc'[w] \in {"lock", "barrier", "check"}
        BY <1>1, <1>2, <2>3, <3>5 DEF Open, Write, Finalize, WriterAt, Announces
      <4> QED
        BY <4>1, <3>1
    <3>6. ~CheckTimeout(w)
      BY DEF CheckTimeout
    <3> QED
      BY <1>5, <3>2, <3>3, <3>4, <3>5, <3>6 DEF WriterStep
  <2>4. ASSUME NEW u \in Writers \ {0} PROVE Drained(u, r)'
    <3>1. CASE u = w
      BY <2>3, <2>4, <3>1
    <3>2. CASE u # w
      <4>1. wpc'[u] = wpc[u]
        BY <1>2, <2>2, <3>2
      <4> QED
        BY <1>3, <1>4, <2>1, <4>1
    <3> QED
      BY <3>1, <3>2
  <2> QED
    BY <1>4, <2>1, <2>4
<1>6. CASE WriterCollective \/ LockOnWrite
  <2>1. gaveUp' = gaveUp
    BY <1>6 DEF WriterCollective, CloseBarrier, PutGroup, PutFile, PutVersion,
                UnlockOnWrite, LockOnWrite
  <2>2. ASSUME NEW u \in Writers \ {0}
        PROVE  wpc'[u] = wpc[u] \/ wpc'[u] \in {"unlock", "idle", "write"}
    BY <1>2, <1>6
       DEF WriterCollective, CloseBarrier, PutGroup, PutFile, PutVersion,
                UnlockOnWrite, LockOnWrite, WriterAt, WritersAt
  <2>3. ASSUME NEW u \in Writers \ {0} PROVE Drained(u, r)'
    <3>1. CASE wpc'[u] = wpc[u]
      BY <1>3, <1>4, <2>1, <3>1
    <3>2. CASE wpc'[u] \in {"unlock", "idle", "write"}
      BY <3>2 DEF Drained, Ending, FinalLocked
    <3> QED
      BY <2>2, <3>1, <3>2
  <2> QED
    BY <1>4, <2>1, <2>3
<1> QED
  BY <1>5, <1>6 DEF WriterAction

(* The readers do not open the last step again once it is released.        *)
LEMMA NextDrainReader ==
  ASSUME MaxVersions > 1, WriterInv, LockInv, ReaderInv, DrainInv, ReaderAction
  PROVE  DrainInv'
<1> SUFFICES ASSUME Dimes', ~gaveUp', NEW r \in Readers
             PROVE  /\ readStatus' <= currentStep'[r]
                    /\ \A w \in Writers \ {0} : Drained(w, r)'
  BY DEF DrainInv
<1>0. /\ Dimes /\ ~gaveUp /\ wpc' = wpc
  BY ReaderFrame DEF Dimes
<1>1. ASSUME NEW q \in Readers
      PROVE  /\ readStatus <= currentStep[q]
             /\ \A w \in Writers \ {0} : Drained(w, q)
  BY <1>0 DEF DrainInv
<1>2. /\ rpc \in [Readers -> ReaderPc] /\ readStatus \in Int
      /\ currentStep \in [Readers -> Int]
  BY DEF ReaderInv, ReaderTypeInv
<1>3. ASSUME NEW q \in Readers, NEW p \in Readers
      PROVE  currentStep[q] = currentStep[p]
  BY DEF ReaderInv, TogetherInv
<1>4. ASSUME currentStep' = currentStep,
             rpc'[r] \notin {"get file", "get group", "open"},
             readStatus' <= currentStep[r]
      PROVE  /\ readStatus' <= currentStep'[r]
             /\ \A w \in Writers \ {0} : Drained(w, r)'
  BY <1>0, <1>1, <1>4 DEF Drained
<1>5. CASE LockOnRead
  BY <1>1, <1>4, <1>5 DEF LockOnRead
<1>6. CASE GetVersion
  <2>1. currentStep' = currentStep /\ readStatus' = readStatus
    BY <1>6 DEF GetVersion
  <2>2. CASE rpc'[r] \notin {"get file", "get group", "open"}
    BY <1>1, <1>4, <2>1, <2>2
  <2>3. CASE rpc'[r] \in {"get file", "get group", "open"}
    <3>1. version.last > currentStep[r]
      BY <1>6, <2>3, <1>3, Ranks, GetVersionResult
    <3>2. currentStep[r] # NSteps - 1
      <4>1. currentStep[r] \in Int /\ version.last <= NSteps - 1 /\ version.last \in Int
        BY <1>2, VersionType
      <4> QED
        BY <3>1, <4>1, Ranks
    <3>3. \A w \in Writers \ {0} : wpc[w] \notin Ending \ {"check"}
      BY <1>1, <3>2 DEF Drained
    <3>4. \A w \in Writers \ {0} : Drained(w, r)'
      BY <1>0, <3>3 DEF Drained
    <3> QED
      BY <1>1, <2>1, <3>4
  <2> QED
    BY <2>2, <2>3
<1>7. CASE GetFile
  <2>1. /\ \A q \in Readers : rpc[q] = "get file"
        /\ readStatus' = readStatus
    BY <1>7 DEF GetFile
  <2>2. step[r] \in currentStep[r] + 1 .. version.last
    BY <2>1 DEF ReaderInv, Attempt
  <2>3. currentStep[r] # NSteps - 1
    <3>1. currentStep[r] \in Int /\ version.last <= NSteps - 1 /\ version.last \in Int
      BY <1>2, VersionType
    <3> QED
      BY <2>2, <3>1, Ranks
  <2>4. \A w \in Writers \ {0} : wpc[w] \notin Ending \ {"check"}
    BY <1>1, <2>3 DEF Drained
  <2>5. \A w \in Writers \ {0} : Drained(w, r)'
    BY <1>0, <2>4 DEF Drained
  <2>6. currentStep' = currentStep \/ currentStep' = step
    BY <1>7, GetFileResult
  <2>7. readStatus <= step[r] /\ readStatus <= currentStep[r]
    <3>1. currentStep[r] \in Int /\ readStatus <= currentStep[r] /\ version.last \in Int
      BY <1>1, <1>2, VersionType
    <3> QED
      BY <3>1, <2>2, <1>2
  <2>8. readStatus' <= currentStep'[r]
    BY <2>1, <2>6, <2>7
  <2> QED
    BY <2>5, <2>8
<1>8. CASE GetGroup
  <2>1. /\ rpc[r] = "get group" /\ currentStep' = currentStep
        /\ readStatus' = readStatus
    BY <1>8 DEF GetGroup
  <2>2. \A w \in Writers \ {0} : Drained(w, r)'
    BY <1>0, <1>1, <2>1 DEF Drained
  <2> QED
    BY <1>1, <2>1, <2>2
<1>9. ASSUME NEW q \in Readers, ReaderStep(q) \/ TimeoutExpired(q)
      PROVE  /\ readStatus' <= currentStep'[r]
             /\ \A w \in Writers \ {0} : Drained(w, r)'
  <2>1. /\ currentStep' = currentStep
        /\ readStatus' = readStatus \/ readStatus' = currentStep[q]
    BY <1>9
       DEF ReaderStep, TimeoutExpired, Poll, ReadOpen, ReleaseStep, AdvanceStep,
                ReadClose, Released, spaceVars
  <2>2. /\ rpc' = [rpc EXCEPT ![q] = rpc'[q]]
        /\ rpc'[q] \notin {"get file", "get group", "open"}
    BY <1>2, <1>9 DEF ReaderStep, TimeoutExpired, Poll, ReadOpen, ReleaseStep,
                      AdvanceStep, ReadClose
  <2>3. readStatus' <= currentStep[r]
    <3>1. currentStep[q] = currentStep[r] /\ currentStep[r] \in Int
      BY <1>2, <1>3
    <3> QED
      BY <3>1, <1>1, <2>1
  <2>4. CASE rpc'[r] \notin {"get file", "get group", "open"}
    BY <1>4, <2>1, <2>3, <2>4
  <2>5. CASE rpc'[r] = rpc[r]
    <3>1. currentStep'[r] = currentStep[r]
      BY <2>1
    <3> QED
      BY <1>0, <1>1, <2>3, <2>5, <3>1 DEF Drained
  <2> QED
    BY <1>2, <2>2, <2>4, <2>5
<1> QED
  BY <1>5, <1>6, <1>7, <1>8, <1>9 DEF ReaderAction, ReaderCollective

-----------------------------------------------------------------------------
(* The inductive invariant holds initially.                                *)
LEMMA InitInv == Init => IInv
<1> SUFFICES ASSUME Init PROVE IInv
  OBVIOUS
<1> USE Ranks
<1>0. -1 \in Int /\ -1 \in -1 .. NSteps - 1 /\ -1 <= -1 /\ 0 \in Int
  OBVIOUS
<1>1. Window(-1) = {}
  BY DEF Window
<1>2. WriterInv
  <2>1. WriterTypeInv
    <3>1. /\ version = [last |-> -1, terminated |-> FALSE]
          /\ wpc = [w \in Writers |-> "idle"] /\ timeIndex = [w \in Writers |-> -1]
      BY DEF Init
    <3> QED
      BY <1>0, <3>1 DEF WriterTypeInv, WriterPc
  <2>2. PhaseInv
    BY DEF Init, PhaseInv, Phase, Closing, FinalLocked
  <2>3. VersionInv
    BY DEF Init, VersionInv, Opening, Closing, Ending, FinalLocked
  <2>4. MetaInv
    BY <1>1 DEF Init, MetaInv
  <2>5. DataInv
    BY <1>1 DEF Init, DataInv, DataOf, LastPut
  <2> QED
    BY <2>1, <2>2, <2>3, <2>4, <2>5 DEF WriterInv
<1>3. LockInv
  BY DEF Init, LockInv, WriteLocked, ReadLocked, Closing, FinalLocked
<1>4. ReaderInv
  <2>1. ReaderTypeInv
    <3>1. /\ readStatus = -1 /\ rpc = [r \in Readers |-> "start"]
          /\ step = [r \in Readers |-> 0] /\ lastVersion = [r \in Readers |-> -1]
          /\ whichVersion = [r \in Readers |-> "next available"]
          /\ currentStep = [r \in Readers |-> -1]
      BY DEF Init
    <3> QED
      BY <1>0, <3>1 DEF ReaderTypeInv, ReaderPc, Waiting
  <2>2. TogetherInv
    BY DEF Init, TogetherInv
  <2>3. ASSUME NEW r \in Readers PROVE Position(r) /\ Attempt(r) /\ Asked(r)
    <3>1. /\ rpc[r] = "start" /\ step[r] = 0 /\ currentStep[r] = -1
          /\ whichVersion[r] = "next available" /\ version.last = -1
      BY DEF Init
    <3>2. /\ step[r] = currentStep[r] + 1 /\ currentStep[r] \in -1 .. version.last
          /\ ~(currentStep[r] >= 0)
      <4>1. step[r] = 0 /\ currentStep[r] = -1 /\ version.last = -1
        BY <3>1
      <4> QED
        BY <4>1
    <3> QED
      BY <3>1, <3>2 DEF Position, Attempt, Asked, Waiting
  <2>4. WantedInv
    BY DEF Init, WantedInv, Wanted
  <2> QED
    BY <2>1, <2>2, <2>3, <2>4 DEF ReaderInv
<1>5. DrainInv
  <2>1. ASSUME NEW r \in Readers PROVE readStatus <= currentStep[r]
    <3>1. readStatus = -1 /\ currentStep[r] = -1
      BY DEF Init
    <3> QED
      BY <3>1
  <2>2. ASSUME NEW w \in Writers PROVE wpc[w] = "idle"
    BY DEF Init
  <2> QED
    BY <2>1, <2>2 DEF DrainInv, Drained, Ending, FinalLocked
<1> QED
  BY <1>2, <1>3, <1>4, <1>5 DEF IInv, Init

(* Every step keeps the inductive invariant.                               *)
LEMMA NextInv ==
  ASSUME MaxVersions > 1, IInv, [Next]_vars
  PROVE  IInv'
<1>1. CASE WriterAction
  <2>1. call' = call
    BY <1>1, WriterFrame
  <2>2. WriterTypeInv /\ PhaseInv /\ VersionInv /\ MetaInv /\ DataInv
    BY DEF IInv, WriterInv
  <2>3. WriterInv'
    BY <1>1, <2>2, NextWriterType, NextPhase, NextVersion, NextMeta, NextData
    DEF IInv, WriterInv
  <2>4. LockInv' /\ ReaderInv' /\ DrainInv'
    BY <1>1, <2>2, NextLockWriter, NextReaderWriter, NextDrainWriter DEF IInv
  <2> QED
    BY <2>1, <2>3, <2>4 DEF IInv
<1>2. CASE ReaderAction
  <2>1. UNCHANGED <<call, writeLock, version, files, groups, data, wpc, timeIndex>>
    BY <1>2, ReaderFrame
  <2>2. WriterInv'
    <3>1. WriterTypeInv' /\ PhaseInv' /\ VersionInv'
      BY <2>1
         DEF IInv, WriterInv, WriterTypeInv, PhaseInv, Phase, VersionInv,
             Opening
    <3>2. MetaInv' /\ DataInv'
      BY <2>1
         DEF IInv, WriterInv, MetaInv, DataInv, DataOf, LastPut, Window, Dimes
    <3> QED
      BY <3>1, <3>2 DEF WriterInv
  <2>3. LockInv' /\ DrainInv'
    BY <1>2, NextLockReader, NextDrainReader DEF IInv
  <2>4. ReaderInv'
    BY <1>2, NextRank, LockOnReadInv, GetVersionInv, GetFileInv, GetGroupInv
    DEF IInv, ReaderAction, ReaderCollective
  <2> QED
    BY <2>1, <2>2, <2>3, <2>4 DEF IInv
<1>3. CASE UNCHANGED vars
  <2> USE <1>3 DEF vars, spaceVars, writerVars, readerVars
  <2>1. WriterTypeInv' /\ PhaseInv' /\ VersionInv'
    BY DEF IInv, WriterInv, WriterTypeInv, PhaseInv, Phase, VersionInv, Opening
  <2>2. MetaInv' /\ DataInv'
    BY DEF IInv, WriterInv, MetaInv, DataInv, DataOf, LastPut, Window, Dimes
  <2>3. ReaderTypeInv' /\ TogetherInv' /\ WantedInv'
    <3>1. ReaderTypeInv'
      BY DEF IInv, ReaderInv, ReaderTypeInv
    <3>2. TogetherInv'
      BY DEF IInv, ReaderInv, TogetherInv
    <3>3. \A r \in Readers : Wanted(r)' = Wanted(r)
      BY DEF Wanted, WhichVersion
    <3>4. WantedInv'
      BY <3>3 DEF IInv, ReaderInv, WantedInv
    <3> QED
      BY <3>1, <3>2, <3>4
  <2>4. ASSUME NEW r \in Readers PROVE Position(r)' /\ Attempt(r)' /\ Asked(r)'
    BY DEF IInv, ReaderInv, Position, Attempt, Asked, Window, Dimes,
           WhichVersion
  <2>5. LockInv' /\ DrainInv'
    BY DEF IInv, LockInv, DrainInv, Drained, Dimes
  <2> QED
    BY <2>1, <2>2, <2>3, <2>4, <2>5 DEF IInv, WriterInv, ReaderInv
<1> QED
  BY <1>1, <1>2, <1>3, NextCases

(* The inductive invariant holds in every behaviour.                       *)
LEMMA Invariance ==
  ASSUME MaxVersions > 1
  PROVE  SafeSpec => []IInv
  BY InitInv, NextInv, PTL DEF SafeSpec

-----------------------------------------------------------------------------
(***************************************************************************)
(* The theorems.  They need two versions of an object in the servers: with *)
(* one, the search of a rank for a step that is gone ends in "not ready"   *)
(* with the step incremented, while a rank that timed out meanwhile starts *)
(* again from the step it had.                                             *)
(***************************************************************************)

(* The ranks of the reader program that have a step open have the same.    *)
THEOREM DataSpacesRanksAgree ==
  ASSUME MaxVersions > 1
  PROVE  SafeSpec => []RanksAgree
<1>1. IInv => RanksAgree
  BY DEF IInv, ReaderInv, TogetherInv, RanksAgree
<1> QED
  BY <1>1, Invariance, PTL

(* get_step never comes to its "Unexpected state": VERSION@ announces only *)
(* versions whose FILE@ and GROUP@ are there.                              *)
THEOREM DataSpacesNoUnexpectedState ==
  ASSUME MaxVersions > 1
  PROVE  SafeSpec => []NoUnexpectedState
<1>1. IInv => NoUnexpectedState
  BY DEF IInv, ReaderInv, Position, NoUnexpectedState
<1> QED
  BY <1>1, Invariance, PTL

(* A reader is told of the end of the stream when the writer has finalized *)
(* and the reader has seen the last step.                                  *)
THEOREM DataSpacesEndMeansAllSeen ==
  ASSUME MaxVersions > 1
  PROVE  SafeSpec => []EndMeansAllSeen
<1>1. IInv => EndMeansAllSeen
  BY DEF IInv, ReaderInv, Position, EndMeansAllSeen
<1> QED
  BY <1>1, Invariance, PTL

(* While a reader holds the lock, every rank of the writer program has put *)
(* its arrays of the step VERSION@ announces and of no later one.          *)
LEMMA LockedData ==
  ASSUME WriterInv, LockInv, lockedFname # {}, NEW w \in Writers
  PROVE  LastPut(w) = version.last /\ wpc[w] # "write"
<1>1. wpc[w] \notin WriteLocked
  BY DEF LockInv
<1>2. wpc[w] # "write" /\ wpc[w] # "unlock" /\ wpc[w] # "barrier" /\ wpc[w] \notin Closing
  BY <1>1 DEF WriteLocked
<1>3. timeIndex[w] = IF wpc[w] = "lock" THEN version.last + 1 ELSE version.last
  BY <1>2 DEF WriterInv, VersionInv, Opening
<1>4. version.last \in Int
  BY VersionType
<1>5. CASE wpc[w] = "lock"
  <2>1. timeIndex[w] = version.last + 1
    BY <1>3, <1>5
  <2>2. LastPut(w) = timeIndex[w] - 1
    BY <1>5 DEF LastPut
  <2> QED
    BY <2>1, <2>2, <1>2, <1>4
<1>6. CASE wpc[w] # "lock"
  BY <1>2, <1>3, <1>6 DEF LastPut
<1> QED
  BY <1>5, <1>6

(* A step a reader has open keeps all its arrays until the reader lets it  *)
(* go.  DIMES needs a second writer: rank 0 does not wait for the readers  *)
(* in adios_finalize, so a writer program of one rank frees the arrays of  *)
(* its last step while they are read.                                      *)
THEOREM DataSpacesOpenStepComplete ==
  ASSUME MaxVersions > 1, NW > 1 \/ \A c \in Calls : c.method # "DIMES"
  PROVE  SafeSpec => []OpenStepComplete
<1>1. ASSUME IInv PROVE OpenStepComplete
  <2> SUFFICES ASSUME NEW r \in Readers, rpc[r] = "open", ~gaveUp, NEW w \in Writers
               PROVE  currentStep[r] \in data[w]
    BY DEF OpenStepComplete
  <2>0. WriterInv /\ LockInv /\ DrainInv /\ DataOf(w)
    BY <1>1 DEF IInv, WriterInv, DataInv
  <2>1. lockedFname # {}
    BY <2>0 DEF LockInv, ReadLocked
  <2>2. LastPut(w) = version.last /\ wpc[w] # "write"
    BY <2>0, <2>1, LockedData
  <2>3. /\ currentStep[r] \in Window(version.last) /\ currentStep[r] >= 0
        /\ Dimes => currentStep[r] = version.last
    BY <1>1 DEF IInv, ReaderInv, Position
  <2>4. CASE ~Dimes
    BY <2>0, <2>2, <2>3, <2>4 DEF DataOf
  <2>5. CASE Dimes
    <3>1. 1 \in Writers \ {0}
      <4>1. NW > 1
        BY <1>1, <2>5 DEF IInv, Dimes
      <4> QED
        BY <4>1, DataSpacesAssumption DEF Writers
    <3>2. wpc[1] \notin {"announced", "done"}
      <4>1. Drained(1, r)
        BY <2>0, <2>5, <3>1 DEF DrainInv
      <4> QED
        BY <4>1 DEF Drained, Ending
    <3>3. wpc[w] # "done"
      BY <1>1, <3>1, <3>2 DEF IInv, WriterInv, PhaseInv, Phase
    <3>4. LastPut(w) # -1
      <4>1. LastPut(w) = currentStep[r]
        BY <2>2, <2>3, <2>5
      <4>2. currentStep[r] # -1
        BY <2>3
      <4> QED
        BY <4>1, <4>2
    <3> QED
      BY <2>0, <2>2, <2>3, <2>5, <3>3, <3>4 DEF DataOf
  <2> QED
    BY <2>4, <2>5
<1> QED
  BY <1>1, Invariance, PTL

(* A reader moves forward only, and unless it asks for the last step it    *)
(* skips only steps whose arrays are gone.                                 *)
THEOREM DataSpacesSkipsOnlyGoneSteps ==
  ASSUME MaxVersions > 1
  PROVE  SafeSpec => SkipsOnlyGoneSteps
<1> DEFINE Skip(r) ==
      currentStep'[r] # currentStep[r] =>
        /\ currentStep'[r] > currentStep[r]
        /\ whichVersion[r] # "last" =>
             \A s \in currentStep[r] + 1 .. currentStep'[r] - 1 :
               \E w \in Writers : s \notin data[w]
<1>1. ASSUME IInv, [Next]_vars, NEW r \in Readers PROVE Skip(r)
  <2>0. WriterInv /\ LockInv /\ ReaderInv /\ DataOf(0)
    BY <1>1, Ranks DEF IInv, WriterInv, DataInv
  <2>1. CASE ~GetFile
    <3>1. currentStep' = currentStep
      <4>1. CASE WriterAction
        BY <4>1, WriterFrame
      <4>2. CASE ReaderAction
        BY <4>2, <2>1
           DEF ReaderAction, ReaderCollective, LockOnRead, GetVersion,
           GetGroup, ReaderStep, TimeoutExpired, Poll, ReadOpen, ReleaseStep,
           AdvanceStep, ReadClose
      <4>3. CASE UNCHANGED vars
        BY <4>3 DEF vars, readerVars
      <4> QED
        BY <1>1, <4>1, <4>2, <4>3, NextCases
    <3> QED
      BY <3>1
  <2>2. CASE GetFile
    <3>1. /\ rpc[r] = "get file" /\ step[r] = step[0]
          /\ files = Window(version.last)
          /\ currentStep' = step \/ currentStep' = currentStep
      BY <2>0, <2>2, GetFileResult
    <3>2. Attempt(r)
      BY <2>0 DEF ReaderInv
    <3>3. /\ step[r] \in Int /\ currentStep[r] \in Int /\ version.last \in Int
      BY <2>0, ReaderTypes, VersionType
    <3>4. step[r] \in currentStep[r] + 1 .. version.last
      BY <3>1, <3>2 DEF Attempt
    <3>5. LastPut(0) = version.last
      <4>1. r \in lockedFname
        BY <2>0, <3>1 DEF LockInv, ReadLocked
      <4> QED
        BY <2>0, <4>1, LockedData, Ranks
    <3>6. ASSUME whichVersion[r] # "last",
                 NEW s \in currentStep[r] + 1 .. step[r] - 1
          PROVE  s \notin data[0]
      <4>1. CASE Dimes
        <5>1. step[r] = version.last
          BY <3>1, <3>2, <4>1 DEF Attempt
        <5>2. s # version.last
          BY <5>1, <3>3
        <5>3. data[0] = {} \/ data[0] = {version.last}
          BY <2>0, <3>5, <4>1 DEF DataOf
        <5> QED
          BY <5>2, <5>3
      <4>2. CASE ~Dimes
        <5>1. s \notin files
          BY <3>1, <3>2, <3>6, <4>2 DEF Attempt
        <5> QED
          BY <5>1, <2>0, <3>1, <3>5, <4>2 DEF DataOf
      <4> QED
        BY <4>1, <4>2
    <3>7. CASE currentStep' = currentStep
      BY <3>7
    <3>8. CASE currentStep' = step
      <4>1. currentStep'[r] = step[r]
        BY <3>8
      <4>2. step[r] > currentStep[r]
        BY <3>3, <3>4
      <4> QED
        BY <4>1, <4>2, <3>6, Ranks
    <3> QED
      BY <3>1, <3>7, <3>8
  <2> QED
    BY <2>1, <2>2
<1>2. IInv /\ [Next]_vars => [\A r \in Readers : Skip(r)]_vars
  BY <1>1
<1> QED
  BY <1>2, Invariance, PTL DEF SafeSpec, SkipsOnlyGoneSteps

==============================================================================
