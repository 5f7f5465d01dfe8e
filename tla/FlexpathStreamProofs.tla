------------------------ MODULE FlexpathStreamProofs -------------------------
(***************************************************************************)
(* Proofs about the Flexpath stream, for every number of writers and of    *)
(* readers, every QUEUE_SIZE and every number of steps.                    *)
(***************************************************************************)
EXTENDS FlexpathStream, FiniteSetTheorems, WellFoundedInduction, TLAPS

(* A writer that is publishing a step has not published the last one yet,  *)
(* and one that finalizes has.                                             *)
PublishingInv ==
  \A w \in Writers :
    /\ wpc[w] \in {"gather", "publish step", "publish group"}
         => writerStep[w] < NSteps
    /\ wpc[w] \in {"finalize", "finalized"} => writerStep[w] = NSteps

(* A reader that has sent a data request still lists the writer it asked.  *)
PerformingInv ==
  \A r \in Readers :
    rpc[r] \in {"perform sent", "perform wait"} => sendees[r] # <<>>

TypeInv == TypeOK /\ PublishingInv /\ PerformingInv

-----------------------------------------------------------------------------
(* Facts about the operators the model is built from.                      *)

(* Appending an element keeps a sequence's type.                           *)
LEMMA AppendType ==
  ASSUME NEW S, NEW q \in Seq(S), NEW x \in S
  PROVE  Append(q, x) \in Seq(S)
  OBVIOUS

(* The head and the tail of a nonempty sequence have its type.             *)
LEMMA HeadTailType ==
  ASSUME NEW S, NEW q \in Seq(S), q # <<>>
  PROVE  Head(q) \in S /\ Tail(q) \in Seq(S)
  OBVIOUS

(* A sequence is empty exactly when its length is zero.                    *)
LEMMA EmptyIffLenZero ==
  ASSUME NEW S, NEW q \in Seq(S)
  PROVE  Len(q) = 0 <=> q = <<>>
  OBVIOUS

(* The multiqueue action keeps the newest step message, and keeps one when *)
(* there is one.                                                           *)
LEMMA KeepNewestType ==
  ASSUME NEW S, NEW q \in Seq(S)
  PROVE  /\ KeepNewest(q) \in Seq(S)
         /\ q # <<>> => KeepNewest(q) # <<>>
<1>1. CASE Len(q) > 1
  <2>1. q # <<>>
    BY <1>1
  <2>2. Tail(q) \in Seq(S) /\ Len(Tail(q)) = Len(q) - 1
    BY <2>1
  <2>3. Tail(q) # <<>>
    <3>1. Len(Tail(q)) # 0
      BY <1>1, <2>2
    <3> QED
      BY <3>1, <2>2, EmptyIffLenZero
  <2> QED
    BY <1>1, <2>2, <2>3 DEF KeepNewest
<1>2. CASE ~(Len(q) > 1)
  BY <1>2 DEF KeepNewest
<1> QED
  BY <1>1, <1>2

(* The loops over the bridges take the lowest writer that qualifies, and   *)
(* there is one whenever some writer qualifies.                            *)
LEMMA MinInSet ==
  ASSUME NEW T \in SUBSET Writers, T # {}
  PROVE  Min(T) \in T /\ Min(T) \in Writers
<1> DEFINE R == {p \in Nat \X Nat : p[1] < p[2]}
<1>0. IsWellFoundedOn(R, Nat)
  BY NatLessThanWellFounded, Zenon DEF OpToRel
<1> HIDE DEF R
<1>a. T \subseteq Nat
  BY StreamAssumption DEF Writers
<1>1. PICK x \in T : \A y \in T : ~(<<y, x>> \in R)
  BY <1>0, <1>a, WFMin
<1>2. \A y \in T : x <= y
  <2> SUFFICES ASSUME NEW y \in T, y < x PROVE FALSE
    BY <1>a
  <2>1. <<y, x>> \in R
    BY <1>a DEF R
  <2> QED
    BY <2>1, <1>1
<1> QED
  BY <1>2 DEF Min

(* The arithmetic of adios_read_flexpath_open stays within the writers: a  *)
(* reader's first bridges and its coordinator exist.                       *)
LEMMA BridgesExist ==
  ASSUME NEW r \in Readers
  PROVE  Coordinator(r) \in Writers /\ FirstBridges(r) \subseteq Writers
<1>1. CASE NR < NW
  <2>1. /\ PerReader \in Nat
        /\ PerReader * NR <= NW
        /\ PerReader >= 1
    BY <1>1, StreamAssumption DEF PerReader
  <2>2. r \in Nat /\ r + 1 <= NR /\ NR \in Nat /\ NW \in Nat
    BY StreamAssumption DEF Readers
  <2>3. PerReader * (r + 1) <= PerReader * NR
    BY <2>1, <2>2
  <2>4. /\ PerReader * (r + 1) = PerReader * r + PerReader
        /\ PerReader * r \in Nat
    BY <2>1, <2>2
  <2> QED
    BY <1>1, <2>1, <2>2, <2>3, <2>4
    DEF Coordinator, FirstBridges, Writers
<1>2. CASE ~(NR < NW)
  <2>1. r % NW \in Writers
    BY StreamAssumption DEF Writers, Readers
  <2> QED
    BY <1>2, <2>1 DEF Coordinator, FirstBridges
<1> QED
  BY <1>1, <1>2

(* What is left to open of a reader's bridges is a set of writers.         *)
LEMMA ToOpenType ==
  ASSUME TypeOK, NEW r \in Readers
  PROVE  ToOpen(r) \in SUBSET Writers
  BY BridgesExist DEF TypeOK, ReaderTypeOK, ToOpen

(* The group messages that a drop leaves.                                  *)
LEMMA AfterDropType ==
  ASSUME TypeOK, NEW w \in Writers
  PROVE  AfterDrop(w) \in Seq(Steps)
  BY HeadTailType DEF TypeOK, StoneTypeOK, AfterDrop

-----------------------------------------------------------------------------
(* The type invariant, one lemma per component.                            *)

(* The application thread of a writer.                                     *)
LEMMA WriterStepTypes ==
  ASSUME TypeInv, NEW w \in Writers, WriterStep(w)
  PROVE  TypeInv'
<1>a. /\ AppTypeOK /\ StoneTypeOK /\ ControlTypeOK /\ ReaderTypeOK
      /\ RequestTypeOK /\ PublishingInv /\ PerformingInv
  BY DEF TypeInv, TypeOK
<1>b. /\ writerStep[w] \in 0 .. NSteps
      /\ wpc[w] \in {"gather", "publish step", "publish group"}
           => writerStep[w] \in Steps
      /\ writerStep[w] < NSteps => writerStep[w] \in Steps
      /\ NSteps \in Nat /\ NSteps - 1 \in Steps
  <2>1. NSteps \in Nat /\ NSteps - 1 \in Steps
    BY StreamAssumption DEF Steps
  <2>2. writerStep[w] \in 0 .. NSteps
    BY <1>a DEF AppTypeOK
  <2>3. writerStep[w] < NSteps => writerStep[w] \in Steps
    BY <2>1, <2>2 DEF Steps
  <2>4. wpc[w] \in {"gather", "publish step", "publish group"}
          => writerStep[w] < NSteps
    BY <1>a DEF PublishingInv
  <2> QED
    BY <2>1, <2>2, <2>3, <2>4
<1>1. CASE CloseEnqueue(w)
  <2>1. Append(dataQueue[w], writerStep[w]) \in Seq(Steps)
    BY <1>1, <1>a, <1>b, AppendType DEF CloseEnqueue, AppTypeOK
  <2>2. Append(evgroup[w], writerStep[w]) \in Seq(Steps)
    BY <1>1, <1>a, <1>b, AppendType DEF CloseEnqueue, StoneTypeOK
  <2>3. AppTypeOK'
    BY <1>1, <1>a, <2>1 DEF CloseEnqueue, AppTypeOK
  <2>4. StoneTypeOK'
    BY <1>1, <1>a, <2>2 DEF CloseEnqueue, StoneTypeOK, WriterRest
  <2>5. PublishingInv'
    BY <1>1, <1>a, <1>b DEF CloseEnqueue, AppTypeOK, PublishingInv
  <2> QED
    BY <1>1, <1>a, <2>3, <2>4, <2>5
    DEF CloseEnqueue, WriterRest, readerVars, ControlTypeOK, ReaderTypeOK,
        RequestTypeOK, PerformingInv,
        TypeInv, TypeOK
<1>2. CASE PublishStep(w)
  <2>1. Append(stepMsg[w], [step |-> writerStep[w], finalized |-> FALSE])
          \in Seq(StepMsgs)
    <3>1. [step |-> writerStep[w], finalized |-> FALSE] \in StepMsgs
      BY <1>2, <1>b DEF PublishStep, StepMsgs
    <3> QED
      BY <3>1, <1>a, AppendType DEF StoneTypeOK
  <2>2. StoneTypeOK'
    BY <1>2, <1>a, <2>1 DEF PublishStep, StoneTypeOK, WriterRest
  <2>3. AppTypeOK' /\ PublishingInv'
    BY <1>2, <1>a, <1>b DEF PublishStep, AppTypeOK, PublishingInv
  <2> QED
    BY <1>2, <1>a, <2>2, <2>3
    DEF PublishStep, WriterRest, readerVars, ControlTypeOK, ReaderTypeOK,
        RequestTypeOK, PerformingInv,
        TypeInv, TypeOK
<1>3. CASE PublishGroup(w)
  <2>1. Append(evgroup[w], writerStep[w]) \in Seq(Steps)
    BY <1>3, <1>a, <1>b, AppendType DEF PublishGroup, StoneTypeOK
  <2>2. StoneTypeOK'
    BY <1>3, <1>a, <2>1 DEF PublishGroup, StoneTypeOK, WriterRest
  <2>3. writerStep[w] < NSteps
    BY <1>3, <1>a DEF PublishGroup, PublishingInv
  <2>4. writerStep[w] + 1 \in 0 .. NSteps
    <3>1. writerStep[w] \in 0 .. NSteps /\ NSteps \in Nat
      BY <1>b
    <3> QED
      BY <3>1, <2>3
  <2>5. AppTypeOK'
    BY <1>3, <1>a, <2>4 DEF PublishGroup, AppTypeOK
  <2>6. PublishingInv'
    BY <1>3, <1>a DEF PublishGroup, AppTypeOK, PublishingInv
  <2> QED
    BY <1>3, <1>a, <2>2, <2>5, <2>6
    DEF PublishGroup, WriterRest, readerVars, ControlTypeOK, ReaderTypeOK,
        RequestTypeOK, PerformingInv,
        TypeInv, TypeOK
<1>4. CASE FinalizeAnnounce(w)
  <2>1. Append(stepMsg[w], [step |-> writerStep[w] - 1, finalized |-> TRUE])
          \in Seq(StepMsgs)
    <3>1. [step |-> writerStep[w] - 1, finalized |-> TRUE] \in StepMsgs
      BY <1>4, <1>b DEF FinalizeAnnounce, StepMsgs
    <3> QED
      BY <3>1, <1>a, AppendType DEF StoneTypeOK
  <2>2. StoneTypeOK'
    BY <1>4, <1>a, <2>1 DEF FinalizeAnnounce, StoneTypeOK, WriterRest
  <2>3. AppTypeOK' /\ PublishingInv'
    BY <1>4, <1>a, <1>b DEF FinalizeAnnounce, AppTypeOK, PublishingInv
  <2> QED
    BY <1>4, <1>a, <2>2, <2>3
    DEF FinalizeAnnounce, WriterRest, readerVars, ControlTypeOK, ReaderTypeOK,
        RequestTypeOK, PerformingInv,
        TypeInv, TypeOK
<1>5. CASE FinalizeReturn(w)
  <2>1. AppTypeOK' /\ PublishingInv'
    BY <1>5, <1>a, <1>b DEF FinalizeReturn, AppTypeOK, PublishingInv
  <2> QED
    BY <1>5, <1>a, <2>1
    DEF FinalizeReturn, WriterRest, readerVars, StoneTypeOK, ControlTypeOK,
        ReaderTypeOK, RequestTypeOK, PerformingInv,
        TypeInv, TypeOK
<1> QED
  BY <1>1, <1>2, <1>3, <1>4, <1>5 DEF WriterStep

(* MPI_Allgather of the writers.                                           *)
LEMMA AllgatherTypes ==
  ASSUME TypeInv, Allgather
  PROVE  TypeInv'
<1>1. AppTypeOK' /\ PublishingInv'
  BY DEF Allgather, TypeInv, TypeOK, AppTypeOK, PublishingInv
<1> QED
  BY <1>1
  DEF Allgather, WriterRest, readerVars, StoneTypeOK, ControlTypeOK,
      ReaderTypeOK, RequestTypeOK, PerformingInv,
        TypeInv, TypeOK

(* The multiqueue stone.                                                   *)
LEMMA MultiqueueTypes ==
  ASSUME TypeInv, NEW w \in Writers, MultiqueueAction(w)
  PROVE  TypeInv'
<1>a. /\ AppTypeOK /\ StoneTypeOK /\ ControlTypeOK /\ ReaderTypeOK
      /\ RequestTypeOK /\ PublishingInv /\ PerformingInv /\ TypeOK
  BY DEF TypeInv, TypeOK
<1>b. /\ evgroup' = [evgroup EXCEPT ![w] = AfterDrop(w)]
      /\ AfterDrop(w) \in Seq(Steps)
      /\ stepMsg' = [stepMsg EXCEPT ![w] = KeepNewest(stepMsg[w])]
      /\ stepMsg[w] \in Seq(StepMsgs)
      /\ KeepNewest(stepMsg[w]) \in Seq(StepMsgs)
  BY <1>a, AfterDropType, KeepNewestType DEF MultiqueueAction, StoneTypeOK
<1>c. /\ UNCHANGED <<wpc, writerStep, dataQueue, closer, readerStep, openCount,
                     bridgeOpened, askedVars, rpc, awaiting, dst, mystep,
                     created, opened, want, need, sendees, numPending,
                     numCompleted, got>>
      /\ cpc' \in [Writers -> {"idle", "close", "close waits", "close resumes"}]
  BY <1>a DEF MultiqueueAction, ControlTypeOK
<1>d. AppTypeOK' /\ PublishingInv' /\ PerformingInv'
  BY <1>a, <1>c DEF AppTypeOK, PublishingInv, PerformingInv
<1>1. CASE LeaveFlush(w)
  <2>1. StoneTypeOK'
    BY <1>1, <1>a, <1>b DEF LeaveFlush, StoneTypeOK
  <2> QED
    BY <1>1, <1>a, <1>c, <1>d, <2>1
    DEF LeaveFlush, ControlTypeOK, ReaderTypeOK, RequestTypeOK, TypeInv, TypeOK
<1>2. CASE AnswerFlush(w)
  <2> DEFINE c == Head(flush[w])
  <2>1. /\ flush[w] # <<>>
        /\ flush[w] \in Seq(FlushMsgs)
        /\ flush' = [flush EXCEPT ![w] = Tail(flush[w])]
    BY <1>2, <1>a DEF AnswerFlush, Answerable, StoneTypeOK
  <2>2. c \in FlushMsgs /\ Tail(flush[w]) \in Seq(FlushMsgs)
    BY <2>1, HeadTailType
  <2>3. c.from \in Readers
    BY <2>2 DEF FlushMsgs
  <2>4. StoneTypeOK'
    BY <1>a, <1>b, <2>1, <2>2 DEF StoneTypeOK
  <2> HIDE DEF c
  <2>5. CASE c.type = "STEP" /\ AnswerStep(c.from, Head(KeepNewest(stepMsg[w])))
    <3>1. Head(KeepNewest(stepMsg[w])) \in StepMsgs
      <4>1. stepMsg[w] # <<>>
        BY <1>2, <2>5 DEF AnswerFlush, Answerable, c
      <4> QED
        BY <4>1, <1>b, KeepNewestType, HeadTailType
    <3>2. ReaderTypeOK' /\ RequestTypeOK' /\ ControlTypeOK'
      BY <2>5, <2>3, <3>1, <1>a, <1>c
      DEF AnswerStep, StepMsgs, ReaderTypeOK, RequestTypeOK, ControlTypeOK
    <3> QED
      BY <1>d, <2>4, <3>2 DEF TypeInv, TypeOK
  <2>6. CASE c.type = "EVGROUP" /\ AnswerGroup(c.from, Head(AfterDrop(w)))
    <3>1. Head(AfterDrop(w)) \in Steps
      <4>1. AfterDrop(w) # <<>>
        BY <1>2, <2>6 DEF AnswerFlush, Answerable, c
      <4> QED
        BY <4>1, <1>b, HeadTailType
    <3>2. ReaderTypeOK' /\ RequestTypeOK' /\ ControlTypeOK'
      BY <2>6, <2>3, <3>1, <1>a, <1>c
      DEF AnswerGroup, ReaderTypeOK, RequestTypeOK, ControlTypeOK
    <3> QED
      BY <1>d, <2>4, <3>2 DEF TypeInv, TypeOK
  <2>7. CASE c.type = "DATA" /\ PassData(w, c.from)
    <3>1. Append(controlQueue[w],
                 [type |-> "DATA_FLUSH", from |-> c.from, step |-> None])
            \in Seq(ControlMsgs)
      <4>1. [type |-> "DATA_FLUSH", from |-> c.from, step |-> None] \in ControlMsgs
        BY <2>3 DEF ControlMsgs
      <4> QED
        BY <4>1, <1>a, AppendType DEF ControlTypeOK
    <3>2. ReaderTypeOK' /\ RequestTypeOK' /\ ControlTypeOK'
      BY <2>7, <2>3, <3>1, <1>a, <1>c
      DEF PassData, ReaderTypeOK, RequestTypeOK, ControlTypeOK
    <3> QED
      BY <1>d, <2>4, <3>2 DEF TypeInv, TypeOK
  <2> QED
    BY <1>2, <2>5, <2>6, <2>7 DEF AnswerFlush, c
<1> QED
  BY <1>1, <1>2 DEF MultiqueueAction

(* The control thread of a writer.                                         *)
LEMMA ControlStepTypes ==
  ASSUME TypeInv, NEW w \in Writers, ControlStep(w)
  PROVE  TypeInv'
<1>a. /\ AppTypeOK /\ StoneTypeOK /\ ControlTypeOK /\ ReaderTypeOK
      /\ RequestTypeOK /\ PublishingInv /\ PerformingInv
  BY DEF TypeInv, TypeOK
<1> DEFINE m == Head(controlQueue[w])
<1>b. ASSUME NEW type, Receive(w, type)
      PROVE  /\ m.from \in Readers
             /\ controlQueue' \in [Writers -> Seq(ControlMsgs)]
  <2>1. controlQueue[w] # <<>> /\ controlQueue[w] \in Seq(ControlMsgs)
    BY <1>a, <1>b DEF Receive, ControlTypeOK
  <2>2. m \in ControlMsgs /\ Tail(controlQueue[w]) \in Seq(ControlMsgs)
    BY <2>1, HeadTailType
  <2> QED
    BY <1>a, <1>b, <2>2 DEF Receive, ControlTypeOK, ControlMsgs
<1> HIDE DEF m
<1>c. /\ openCount \in [Writers -> Int]
      /\ readerStep \in [Writers -> Nat]
      /\ bridgeOpened \in [Writers -> SUBSET Readers]
  BY <1>a DEF ControlTypeOK
<1>d. /\ openCount[w] + 1 \in Int
      /\ openCount[w] - 1 \in Int
      /\ readerStep[w] + 1 \in Nat
  BY <1>c
<1>1. CASE ProcessVar(w)
  <2>1. m.from \in Readers /\ controlQueue' \in [Writers -> Seq(ControlMsgs)]
    BY <1>1, <1>b DEF ProcessVar
  <2>2. ControlTypeOK'
    BY <1>1, <2>1, <1>a DEF ProcessVar, ControlTypeOK, m
  <2> QED
    BY <1>1, <1>a, <2>2
    DEF ProcessVar, readerVars, AppTypeOK, StoneTypeOK, ReaderTypeOK,
        RequestTypeOK, PublishingInv, PerformingInv,
        TypeInv, TypeOK
<1>2. CASE ProcessDataFlush(w)
  <2>1. m.from \in Readers /\ controlQueue' \in [Writers -> Seq(ControlMsgs)]
    BY <1>2, <1>b DEF ProcessDataFlush
  <2>2. /\ bridgeOpened' = [bridgeOpened EXCEPT ![w] = @ \cup {m.from}]
        /\ openCount' = [openCount EXCEPT
             ![w] = IF m.from \in bridgeOpened[w] THEN @ ELSE @ + 1]
        /\ RawHandler(w, m.from)
    BY <1>2 DEF ProcessDataFlush, m
  <2>3. Head(dataQueue[w]) \in Steps
    BY <1>2, <1>a, HeadTailType DEF ProcessDataFlush, AppTypeOK
  <2>4. [writer |-> w, step |-> Head(dataQueue[w]),
         asked |-> m.from \in askedVars[w]] \in Replies
    BY <2>3 DEF Replies
  <2>5. ControlTypeOK'
    <3>1. openCount' \in [Writers -> Int]
      BY <2>2, <1>c, <1>d
    <3>2. bridgeOpened' \in [Writers -> SUBSET Readers]
      BY <2>1, <2>2, <1>c
    <3>3. UNCHANGED <<cpc, closer, readerStep, askedVars>>
      BY <1>2 DEF ProcessDataFlush
    <3> QED
      BY <2>1, <3>1, <3>2, <3>3, <1>a DEF ControlTypeOK
  <2>6. ReaderTypeOK'
    BY <1>2, <2>1, <2>2, <1>a DEF ProcessDataFlush, RawHandler, ReaderTypeOK
  <2>7. RequestTypeOK'
    BY <1>2, <2>1, <2>2, <2>4, <1>a
    DEF ProcessDataFlush, RawHandler, RequestTypeOK
  <2> QED
    BY <1>2, <1>a, <2>5, <2>6, <2>7
    DEF ProcessDataFlush, AppTypeOK, StoneTypeOK, PublishingInv, PerformingInv,
        TypeInv, TypeOK
<1>3. CASE ProcessOpen(w)
  <2>1. m.from \in Readers /\ controlQueue' \in [Writers -> Seq(ControlMsgs)]
    BY <1>3, <1>b DEF ProcessOpen
  <2>2. openCount' \in [Writers -> Int]
    <3>1. \/ openCount' = openCount
          \/ openCount' = [openCount EXCEPT ![w] = openCount[w] + 1]
      BY <1>3 DEF ProcessOpen
    <3> QED
      BY <3>1, <1>c, <1>d
  <2>3. bridgeOpened' \in [Writers -> SUBSET Readers]
    <3>1. \/ bridgeOpened' = bridgeOpened
          \/ bridgeOpened' = [bridgeOpened EXCEPT ![w] = @ \cup {m.from}]
      BY <1>3 DEF ProcessOpen, m
    <3> QED
      BY <3>1, <2>1, <1>c
  <2>4. cond' \in [Readers -> BOOLEAN]
    BY <1>3, <2>1, <1>a DEF ProcessOpen, ReaderTypeOK, m
  <2>5. UNCHANGED <<cpc, closer, readerStep, askedVars, rpc, awaiting, dst,
                    mystep, created, opened>>
    BY <1>3 DEF ProcessOpen
  <2>6. ControlTypeOK'
    BY <2>1, <2>2, <2>3, <2>5, <1>a DEF ControlTypeOK
  <2>7. ReaderTypeOK'
    BY <2>4, <2>5, <1>a DEF ReaderTypeOK
  <2> QED
    BY <1>3, <1>a, <2>6, <2>7
    DEF ProcessOpen, AppTypeOK, StoneTypeOK, RequestTypeOK, PublishingInv,
        PerformingInv,
        TypeInv, TypeOK
<1>4. CASE ProcessClose(w)
  <2>1. m.from \in Readers /\ controlQueue' \in [Writers -> Seq(ControlMsgs)]
    BY <1>4, <1>b DEF ProcessClose
  <2>2. ControlTypeOK'
    <3>1. openCount' \in [Writers -> Int]
      <4>1. openCount' = [openCount EXCEPT ![w] = openCount[w] - 1]
        BY <1>4 DEF ProcessClose
      <4> QED
        BY <4>1, <1>c, <1>d
    <3>2. bridgeOpened' \in [Writers -> SUBSET Readers]
      BY <1>4, <1>a DEF ProcessClose, ControlTypeOK
    <3>3. cpc' \in [Writers -> {"idle", "close", "close waits", "close resumes"}]
      BY <1>4, <1>a DEF ProcessClose, ControlTypeOK
    <3>4. closer' \in [Writers -> Readers \cup {None}]
      BY <1>4, <2>1, <1>a DEF ProcessClose, ControlTypeOK, m
    <3>5. UNCHANGED <<readerStep, askedVars>>
      BY <1>4 DEF ProcessClose
    <3> QED
      BY <2>1, <3>1, <3>2, <3>3, <3>4, <3>5, <1>a DEF ControlTypeOK
  <2>3. ReaderTypeOK'
    BY <1>4, <2>1, <1>a DEF ProcessClose, ReaderTypeOK, m
  <2> QED
    BY <1>4, <1>a, <2>2, <2>3
    DEF ProcessClose, AppTypeOK, StoneTypeOK, RequestTypeOK, PublishingInv,
        PerformingInv,
        TypeInv, TypeOK
<1>5. CASE CloseDequeue(w)
  <2>1. Tail(dataQueue[w]) \in Seq(Steps)
    BY <1>5, <1>a, HeadTailType DEF CloseDequeue, AppTypeOK
  <2>2. AppTypeOK' /\ ControlTypeOK'
    BY <1>5, <2>1, <1>a DEF CloseDequeue, AppTypeOK, ControlTypeOK
  <2> QED
    BY <1>5, <1>a, <2>2
    DEF CloseDequeue, readerVars, StoneTypeOK, ReaderTypeOK, RequestTypeOK,
        PublishingInv, PerformingInv,
        TypeInv, TypeOK
<1>6. CASE CloseAck(w)
  <2>1. ControlTypeOK'
    <3>1. readerStep' \in [Writers -> Nat]
      <4>1. readerStep' = [readerStep EXCEPT ![w] = readerStep[w] + 1]
        BY <1>6 DEF CloseAck
      <4> QED
        BY <4>1, <1>c, <1>d
    <3>2. /\ cpc' \in [Writers -> {"idle", "close", "close waits", "close resumes"}]
          /\ closer' \in [Writers -> Readers \cup {None}]
      BY <1>6, <1>a DEF CloseAck, ControlTypeOK
    <3>3. UNCHANGED <<controlQueue, openCount, bridgeOpened, askedVars>>
      BY <1>6 DEF CloseAck
    <3> QED
      BY <3>1, <3>2, <3>3, <1>a DEF ControlTypeOK
  <2>2. ReaderTypeOK'
    BY <1>6, <1>a DEF CloseAck, ReaderTypeOK
  <2> QED
    BY <1>6, <1>a, <2>1, <2>2
    DEF CloseAck, AppTypeOK, StoneTypeOK, RequestTypeOK, PublishingInv,
        PerformingInv,
        TypeInv, TypeOK
<1> QED
  BY <1>1, <1>2, <1>3, <1>4, <1>5, <1>6 DEF ControlStep

(* A step that leaves the writers' own state alone keeps its types.        *)
LEMMA WriterSideTypes ==
  ASSUME TypeInv, UNCHANGED WriterSide,
         flush' \in [Writers -> Seq(FlushMsgs)],
         controlQueue' \in [Writers -> Seq(ControlMsgs)]
  PROVE  AppTypeOK' /\ StoneTypeOK' /\ ControlTypeOK' /\ PublishingInv'
  BY DEF WriterSide, TypeInv, TypeOK, AppTypeOK, StoneTypeOK, ControlTypeOK,
         PublishingInv

(* send_open_msg and send_close_msg.                                       *)
LEMMA SendOpTypes ==
  ASSUME TypeOK, NEW r \in Readers, NEW w \in Writers,
         NEW type \in {"OPEN", "CLOSE"}, SendOp(r, w, type)
  PROVE  /\ controlQueue' \in [Writers -> Seq(ControlMsgs)]
         /\ cond' \in [Readers -> BOOLEAN]
         /\ dst' \in [Readers -> Writers]
         /\ awaiting' \in [Readers -> {"nothing", "OPEN", "CLOSE"}]
         /\ created' \in [Readers -> SUBSET Writers]
<1>1. [type |-> type, from |-> r, step |-> mystep[r]] \in ControlMsgs
  BY DEF TypeOK, ReaderTypeOK, ControlMsgs
<1>2. controlQueue \in [Writers -> Seq(ControlMsgs)]
  BY DEF TypeOK, ControlTypeOK
<1>3. Append(controlQueue[w], [type |-> type, from |-> r, step |-> mystep[r]])
        \in Seq(ControlMsgs)
  BY <1>1, <1>2, AppendType
<1>4. controlQueue' \in [Writers -> Seq(ControlMsgs)]
  BY <1>2, <1>3 DEF SendOp
<1> QED
  BY <1>4 DEF SendOp, TypeOK, ReaderTypeOK

(* send_flush_msg.                                                         *)
LEMMA SendFlushTypes ==
  ASSUME TypeOK, NEW r \in Readers, NEW w \in Writers,
         NEW type \in {"DATA", "EVGROUP", "STEP"}, SendFlush(r, w, type)
  PROVE  flush' \in [Writers -> Seq(FlushMsgs)]
<1>1. [type |-> type, from |-> r] \in FlushMsgs
  BY DEF FlushMsgs
<1>2. flush \in [Writers -> Seq(FlushMsgs)]
  BY DEF TypeOK, StoneTypeOK
<1>3. Append(flush[w], [type |-> type, from |-> r]) \in Seq(FlushMsgs)
  BY <1>1, <1>2, AppendType
<1> QED
  BY <1>2, <1>3 DEF SendFlush

(* The application thread of a reader.                                     *)
LEMMA ReaderStepTypes ==
  ASSUME TypeInv, NEW r \in Readers, ReaderStep(r)
  PROVE  TypeInv'
<1>a. /\ TypeOK /\ ReaderTypeOK /\ RequestTypeOK /\ PerformingInv
      /\ flush \in [Writers -> Seq(FlushMsgs)]
      /\ controlQueue \in [Writers -> Seq(ControlMsgs)]
  BY DEF TypeInv, TypeOK, StoneTypeOK, ControlTypeOK
<1>b. Coordinator(r) \in Writers
  BY BridgesExist
<1>c. /\ 0 \in 0 .. 1 /\ 1 \in 0 .. 1 /\ 0 \in Nat
      /\ numPending \in [Readers -> 0 .. 1]
      /\ numCompleted \in [Readers -> Nat]
  BY <1>a DEF RequestTypeOK
<1>1. CASE OpAcknowledged(r)
  <2>1. ReaderTypeOK'
    BY <1>1, <1>a DEF OpAcknowledged, Goto, ReaderTypeOK
  <2>2. RequestTypeOK' /\ PerformingInv'
    BY <1>1, <1>a DEF OpAcknowledged, At, Goto, ReaderTypeOK,
       RequestTypeOK, PerformingInv
  <2> QED
    BY <1>1, <1>a, <2>1, <2>2, WriterSideTypes
    DEF OpAcknowledged, TypeInv, TypeOK
<1>2. CASE OpenNext(r)
  <2>0. Min(ToOpen(r)) \in Writers
    BY <1>2, <1>a, MinInSet, ToOpenType DEF OpenNext
  <2>1. /\ controlQueue' \in [Writers -> Seq(ControlMsgs)]
        /\ cond' \in [Readers -> BOOLEAN]
        /\ dst' \in [Readers -> Writers]
        /\ awaiting' \in [Readers -> {"nothing", "OPEN", "CLOSE"}]
        /\ created' \in [Readers -> SUBSET Writers]
    BY <1>2, <1>a, <2>0, SendOpTypes DEF OpenNext
  <2>2. ReaderTypeOK'
    BY <1>2, <1>a, <2>1 DEF OpenNext, ReaderTypeOK
  <2>3. RequestTypeOK' /\ PerformingInv'
    BY <1>2, <1>a DEF OpenNext, At, Goto, ReaderTypeOK,
       RequestTypeOK, PerformingInv
  <2> QED
    BY <1>2, <1>a, <2>1, <2>2, <2>3, WriterSideTypes
    DEF OpenNext, TypeInv, TypeOK
<1>3. CASE Fetch(r)
  <2>1. flush' \in [Writers -> Seq(FlushMsgs)]
    BY <1>3, <1>a, <1>b, SendFlushTypes DEF Fetch
  <2>2. ReaderTypeOK'
    BY <1>3, <1>a DEF Fetch, Goto, ReaderTypeOK
  <2>3. RequestTypeOK'
    <3>1. /\ numPending' \in [Readers -> 0 .. 1]
          /\ numCompleted' \in [Readers -> Nat]
      BY <1>3, <1>c DEF Fetch
    <3> QED
      BY <1>3, <1>a, <3>1 DEF Fetch, RequestTypeOK
  <2>3b. PerformingInv'
    BY <1>3, <1>a DEF Fetch, At, Goto, ReaderTypeOK, PerformingInv
  <2> QED
    BY <1>3, <1>a, <2>1, <2>2, <2>3, <2>3b, WriterSideTypes
    DEF Fetch, TypeInv, TypeOK
<1>4. CASE FetchGroup(r)
  <2>1. flush' \in [Writers -> Seq(FlushMsgs)]
    BY <1>4, <1>a, <1>b, SendFlushTypes DEF FetchGroup
  <2>2. ReaderTypeOK'
    BY <1>4, <1>a DEF FetchGroup, Goto, ReaderTypeOK
  <2>3. RequestTypeOK' /\ PerformingInv'
    BY <1>4, <1>a DEF FetchGroup, At, Goto, ReaderTypeOK,
       RequestTypeOK, PerformingInv
  <2> QED
    BY <1>4, <1>a, <2>1, <2>2, <2>3, WriterSideTypes
    DEF FetchGroup, TypeInv, TypeOK
<1>5. CASE ScheduleReads(r)
  <2>1. ReaderTypeOK'
    BY <1>5, <1>a DEF ScheduleReads, Goto, ReaderTypeOK
  <2>2. RequestTypeOK'
    <3>1. /\ want' \in [Readers -> SUBSET Writers]
          /\ need' \in [Readers -> SUBSET Writers]
      BY <1>5, <1>a, StreamAssumption DEF ScheduleReads, RequestTypeOK
    <3> QED
      BY <1>5, <1>a, <3>1 DEF ScheduleReads, RequestTypeOK
  <2>2b. PerformingInv'
    BY <1>5, <1>a DEF ScheduleReads, At, Goto, ReaderTypeOK, PerformingInv
  <2> QED
    BY <1>5, <1>a, <2>1, <2>2, <2>2b, WriterSideTypes
    DEF ScheduleReads, TypeInv, TypeOK
<1>6. CASE VarOpen(r)
  <2>0. Min(need[r]) \in Writers
    BY <1>6, <1>a, MinInSet DEF VarOpen, RequestTypeOK
  <2>1. /\ controlQueue' \in [Writers -> Seq(ControlMsgs)]
        /\ cond' \in [Readers -> BOOLEAN]
        /\ dst' \in [Readers -> Writers]
        /\ awaiting' \in [Readers -> {"nothing", "OPEN", "CLOSE"}]
        /\ created' \in [Readers -> SUBSET Writers]
    BY <1>6, <1>a, <2>0, SendOpTypes DEF VarOpen
  <2>2. ReaderTypeOK'
    BY <1>6, <1>a, <2>1 DEF VarOpen, ReaderTypeOK
  <2>3. RequestTypeOK' /\ PerformingInv'
    BY <1>6, <1>a DEF VarOpen, At, Goto, ReaderTypeOK,
       RequestTypeOK, PerformingInv
  <2> QED
    BY <1>6, <1>a, <2>1, <2>2, <2>3, WriterSideTypes
    DEF VarOpen, TypeInv, TypeOK
<1>7. CASE VarSend(r)
  <2>0. need[r] \in SUBSET Writers /\ Min(need[r]) \in Writers
    BY <1>7, <1>a, MinInSet DEF VarSend, RequestTypeOK
  <2>1. [type |-> "VAR", from |-> r, step |-> None] \in ControlMsgs
    BY DEF ControlMsgs
  <2>2. Append(controlQueue[Min(need[r])],
               [type |-> "VAR", from |-> r, step |-> None]) \in Seq(ControlMsgs)
    BY <1>a, <2>0, <2>1, AppendType
  <2>3. controlQueue' \in [Writers -> Seq(ControlMsgs)]
    BY <1>7, <1>a, <2>0, <2>2 DEF VarSend
  <2>4. Append(sendees[r], Min(need[r])) \in Seq(Writers)
    BY <1>a, <2>0, AppendType DEF RequestTypeOK
  <2>5. ReaderTypeOK'
    BY <1>7, <1>a DEF VarSend, ReaderTypeOK
  <2>6. RequestTypeOK' /\ PerformingInv'
    BY <1>7, <1>a, <2>0, <2>4 DEF VarSend, At, Goto, ReaderTypeOK,
       RequestTypeOK, PerformingInv
  <2> QED
    BY <1>7, <1>a, <2>3, <2>5, <2>6, WriterSideTypes
    DEF VarSend, TypeInv, TypeOK
<1>8. CASE PerformReads(r)
  <2>1. ReaderTypeOK'
    BY <1>8, <1>a DEF PerformReads, Goto, ReaderTypeOK
  <2>2. RequestTypeOK'
    <3>1. /\ numPending' \in [Readers -> 0 .. 1]
          /\ numCompleted' \in [Readers -> Nat]
      BY <1>8, <1>c DEF PerformReads
    <3> QED
      BY <1>8, <1>a, <3>1 DEF PerformReads, RequestTypeOK
  <2>2b. PerformingInv'
    BY <1>8, <1>a DEF PerformReads, At, Goto, ReaderTypeOK, PerformingInv
  <2> QED
    BY <1>8, <1>a, <2>1, <2>2, <2>2b, WriterSideTypes
    DEF PerformReads, TypeInv, TypeOK
<1>9. CASE PerformSend(r)
  <2>0. Head(sendees[r]) \in Writers
    BY <1>9, <1>a, HeadTailType DEF PerformSend, RequestTypeOK
  <2>1. flush' \in [Writers -> Seq(FlushMsgs)]
    BY <1>9, <1>a, <2>0, SendFlushTypes DEF PerformSend
  <2>2. ReaderTypeOK'
    BY <1>9, <1>a DEF PerformSend, Goto, ReaderTypeOK
  <2>3. RequestTypeOK' /\ PerformingInv'
    BY <1>9, <1>a DEF PerformSend, At, Goto, ReaderTypeOK,
       RequestTypeOK, PerformingInv
  <2> QED
    BY <1>9, <1>a, <2>1, <2>2, <2>3, WriterSideTypes
    DEF PerformSend, TypeInv, TypeOK
<1>10. CASE PerformPending(r)
  <2>1. ReaderTypeOK'
    BY <1>10, <1>a DEF PerformPending, Goto, ReaderTypeOK
  <2>2. RequestTypeOK'
    <3>1. /\ numPending' \in [Readers -> 0 .. 1]
          /\ numCompleted' \in [Readers -> Nat]
      BY <1>10, <1>c DEF PerformPending
    <3> QED
      BY <1>10, <1>a, <3>1 DEF PerformPending, RequestTypeOK
  <2>2b. PerformingInv'
    BY <1>10, <1>a DEF PerformPending, At, Goto, ReaderTypeOK, PerformingInv
  <2> QED
    BY <1>10, <1>a, <2>1, <2>2, <2>2b, WriterSideTypes
    DEF PerformPending, TypeInv, TypeOK
<1>11. CASE PerformBatchDone(r)
  <2>1. ReaderTypeOK'
    BY <1>11, <1>a DEF PerformBatchDone, Goto, ReaderTypeOK
  <2>2. RequestTypeOK'
    <3>1. /\ numPending' \in [Readers -> 0 .. 1]
          /\ numCompleted' \in [Readers -> Nat]
      BY <1>11, <1>c DEF PerformBatchDone
    <3>2. Tail(sendees[r]) \in Seq(Writers)
      BY <1>11, <1>a, HeadTailType DEF PerformBatchDone, At, PerformingInv, RequestTypeOK
    <3> QED
      BY <1>11, <1>a, <3>1, <3>2 DEF PerformBatchDone, RequestTypeOK
  <2>2b. PerformingInv'
    <3>1. /\ rpc' = [rpc EXCEPT ![r] = "perform"]
          /\ sendees \in [Readers -> Seq(Writers)]
          /\ sendees' = [sendees EXCEPT ![r] = Tail(sendees[r])]
          /\ DOMAIN rpc = Readers
      BY <1>11, <1>a DEF PerformBatchDone, Goto, ReaderTypeOK, RequestTypeOK
    <3> SUFFICES ASSUME NEW q \in Readers,
                        rpc'[q] \in {"perform sent", "perform wait"}
                 PROVE  sendees'[q] # <<>>
      BY DEF PerformingInv
    <3>2. q # r
      BY <3>1
    <3>3. rpc'[q] = rpc[q] /\ sendees'[q] = sendees[q]
      BY <3>1, <3>2
    <3> QED
      BY <3>3, <1>a DEF PerformingInv
  <2> QED
    BY <1>11, <1>a, <2>1, <2>2, <2>2b, WriterSideTypes
    DEF PerformBatchDone, TypeInv, TypeOK
<1>12. CASE PerformReturn(r)
  <2>1. ReaderTypeOK'
    BY <1>12, <1>a DEF PerformReturn, Goto, ReaderTypeOK
  <2>2. RequestTypeOK' /\ PerformingInv'
    BY <1>12, <1>a DEF PerformReturn, At, Goto, ReaderTypeOK,
       RequestTypeOK, PerformingInv
  <2> QED
    BY <1>12, <1>a, <2>1, <2>2, WriterSideTypes
    DEF PerformReturn, TypeInv, TypeOK
<1>13. CASE ReleaseReturn(r)
  <2>1. ReaderTypeOK'
    BY <1>13, <1>a DEF ReleaseReturn, Goto, ReaderTypeOK
  <2>2. RequestTypeOK' /\ PerformingInv'
    BY <1>13, <1>a DEF ReleaseReturn, At, Goto, ReaderTypeOK,
       RequestTypeOK, PerformingInv
  <2> QED
    BY <1>13, <1>a, <2>1, <2>2, WriterSideTypes
    DEF ReleaseReturn, TypeInv, TypeOK
<1>14. CASE PollSend(r)
  <2>1. flush' \in [Writers -> Seq(FlushMsgs)]
    BY <1>14, <1>a, <1>b, SendFlushTypes DEF PollSend
  <2>2. ReaderTypeOK'
    BY <1>14, <1>a DEF PollSend, Goto, ReaderTypeOK
  <2>3. RequestTypeOK' /\ PerformingInv'
    BY <1>14, <1>a DEF PollSend, At, Goto, ReaderTypeOK,
       RequestTypeOK, PerformingInv
  <2> QED
    BY <1>14, <1>a, <2>1, <2>2, <2>3, WriterSideTypes
    DEF PollSend, TypeInv, TypeOK
<1>15. CASE PollReturn(r)
  <2>1. ReaderTypeOK'
    BY <1>15, <1>a DEF PollReturn, Goto, ReaderTypeOK
  <2>2. RequestTypeOK' /\ PerformingInv'
    BY <1>15, <1>a DEF PollReturn, At, Goto, ReaderTypeOK,
       RequestTypeOK, PerformingInv
  <2> QED
    BY <1>15, <1>a, <2>1, <2>2, WriterSideTypes
    DEF PollReturn, TypeInv, TypeOK
<1>16. CASE CloseNext(r)
  <2>0. Min(opened[r]) \in Writers
    BY <1>16, <1>a, MinInSet DEF CloseNext, ReaderTypeOK
  <2>1. /\ controlQueue' \in [Writers -> Seq(ControlMsgs)]
        /\ cond' \in [Readers -> BOOLEAN]
        /\ dst' \in [Readers -> Writers]
        /\ awaiting' \in [Readers -> {"nothing", "OPEN", "CLOSE"}]
        /\ created' \in [Readers -> SUBSET Writers]
    BY <1>16, <1>a, <2>0, SendOpTypes DEF CloseNext
  <2>2. ReaderTypeOK'
    BY <1>16, <1>a, <2>1 DEF CloseNext, ReaderTypeOK
  <2>3. RequestTypeOK' /\ PerformingInv'
    BY <1>16, <1>a DEF CloseNext, At, Goto, ReaderTypeOK,
       RequestTypeOK, PerformingInv
  <2> QED
    BY <1>16, <1>a, <2>1, <2>2, <2>3, WriterSideTypes
    DEF CloseNext, TypeInv, TypeOK
<1>17. CASE CloseLoopDone(r)
  <2>1. ReaderTypeOK'
    BY <1>17, <1>a DEF CloseLoopDone, Goto, ReaderTypeOK
  <2>2. RequestTypeOK' /\ PerformingInv'
    BY <1>17, <1>a DEF CloseLoopDone, At, Goto, ReaderTypeOK,
       RequestTypeOK, PerformingInv
  <2> QED
    BY <1>17, <1>a, <2>1, <2>2, WriterSideTypes
    DEF CloseLoopDone, TypeInv, TypeOK
<1> QED
  BY <1>1, <1>2, <1>3, <1>4, <1>5, <1>6, <1>7, <1>8, <1>9, <1>10, <1>11, <1>12, <1>13, <1>14, <1>15, <1>16, <1>17
  DEF ReaderStep

(* MPI_Barrier of the readers.                                             *)
LEMMA BarrierTypes ==
  ASSUME TypeInv, ReaderBarriers
  PROVE  TypeInv'
<1>a. /\ ReaderTypeOK /\ RequestTypeOK /\ PerformingInv
      /\ flush \in [Writers -> Seq(FlushMsgs)]
      /\ controlQueue \in [Writers -> Seq(ControlMsgs)]
  BY DEF TypeInv, TypeOK, StoneTypeOK, ControlTypeOK
<1>b. ASSUME NEW from,
             NEW to \in {"release", "poll", "reopen"}, Barrier(from, to),
             mystep' \in [Readers -> Nat], got' \in [Readers -> SUBSET Replies]
      PROVE  TypeInv'
  <2>1. ReaderTypeOK'
    BY <1>a, <1>b DEF Barrier, ReaderTypeOK
  <2>2. RequestTypeOK' /\ PerformingInv'
    BY <1>a, <1>b DEF Barrier, RequestTypeOK, PerformingInv
  <2> QED
    BY <1>a, <1>b, <2>1, <2>2, WriterSideTypes DEF Barrier, TypeInv, TypeOK
<1>1. CASE ReleaseBarrier
  BY <1>1, <1>a, <1>b DEF ReleaseBarrier, ReaderTypeOK, RequestTypeOK
<1>2. CASE AdvanceBarrier
  BY <1>2, <1>a, <1>b DEF AdvanceBarrier, ReaderTypeOK, RequestTypeOK
<1>3. CASE StepBarrier
  <2>1. mystep' \in [Readers -> Nat] /\ got' \in [Readers -> SUBSET Replies]
    <3>0. mystep \in [Readers -> Nat]
      BY <1>a DEF ReaderTypeOK
    <3>1. \A r \in Readers : mystep[r] + 1 \in Nat
      BY <3>0
    <3> QED
      BY <1>3, <3>1 DEF StepBarrier
  <2> QED
    BY <1>3, <1>b, <2>1 DEF StepBarrier
<1> QED
  BY <1>1, <1>2, <1>3 DEF ReaderBarriers

(* The initial state is well typed.                                        *)
LEMMA InitTypes ==
  ASSUME Init
  PROVE  TypeInv
<1>1. 0 \in 0 .. NSteps /\ 0 \in Steps /\ NSteps # 0
  BY StreamAssumption DEF Steps
<1>2. AppTypeOK /\ PublishingInv
  BY <1>1 DEF Init, AppTypeOK, PublishingInv
<1>3. StoneTypeOK /\ ControlTypeOK
  BY DEF Init, StoneTypeOK, ControlTypeOK
<1>4. ReaderTypeOK /\ PerformingInv
  BY BridgesExist DEF Init, ReaderTypeOK, PerformingInv
<1>5. RequestTypeOK
  BY <1>1 DEF Init, RequestTypeOK
<1> QED
  BY <1>2, <1>3, <1>4, <1>5 DEF TypeInv, TypeOK

(* A stuttering step keeps the type invariant.                             *)
LEMMA StutterTypes ==
  ASSUME TypeInv, UNCHANGED vars
  PROVE  TypeInv'
  BY DEF TypeInv, TypeOK, AppTypeOK, StoneTypeOK, ControlTypeOK, ReaderTypeOK,
         RequestTypeOK, PublishingInv, PerformingInv, vars, writerVars, readerVars

(* Every behaviour of the stream keeps TypeInv, on which the other proofs  *)
(* build.                                                                  *)
THEOREM StreamTypeInvariant == SafeSpec => []TypeInv
<1>1. Init => TypeInv
  BY InitTypes
<1>2. TypeInv /\ [Next]_vars => TypeInv'
  <2> SUFFICES ASSUME TypeInv, [Next]_vars PROVE TypeInv'
    OBVIOUS
  <2>1. CASE Allgather
    BY <2>1, AllgatherTypes
  <2>2. CASE ReaderBarriers
    BY <2>2, BarrierTypes
  <2>3. ASSUME NEW w \in Writers,
               WriterStep(w) \/ MultiqueueAction(w) \/ ControlStep(w)
        PROVE  TypeInv'
    BY <2>3, WriterStepTypes, MultiqueueTypes, ControlStepTypes
  <2>4. ASSUME NEW r \in Readers, ReaderStep(r)
        PROVE  TypeInv'
    BY <2>4, ReaderStepTypes
  <2>5. CASE Terminated \/ UNCHANGED vars
    BY <2>5, StutterTypes DEF Terminated
  <2> QED
    BY <2>1, <2>2, <2>3, <2>4, <2>5 DEF Next
<1> QED
  BY <1>1, <1>2, PTL DEF SafeSpec

(* Every variable keeps its type; in particular every step number that the *)
(* writers buffer, announce or send is one they have published.            *)
THEOREM StreamTypeCorrect == SafeSpec => []TypeOK
<1>1. TypeInv => TypeOK
  BY DEF TypeInv
<1> QED
  BY <1>1, StreamTypeInvariant, PTL

-----------------------------------------------------------------------------
(* The window of buffered steps.                                           *)

(* Reader steps and barriers leave the writers' own state alone.           *)
LEMMA ReaderFrame ==
  ASSUME ReaderBarriers \/ \E r \in Readers : ReaderStep(r)
  PROVE  UNCHANGED WriterSide
<1>1. CASE ReaderBarriers
  BY <1>1 DEF ReaderBarriers, ReleaseBarrier, AdvanceBarrier, StepBarrier, Barrier
<1>2. ASSUME NEW r \in Readers, ReaderStep(r)
      PROVE  UNCHANGED WriterSide
  BY <1>2 DEF ReaderStep, OpAcknowledged, OpenNext, Fetch, FetchGroup,
     ScheduleReads, VarOpen, VarSend, PerformReads, PerformSend, PerformPending,
     PerformBatchDone, PerformReturn, ReleaseReturn, PollSend, PollReturn,
     CloseNext, CloseLoopDone
<1> QED
  BY <1>1, <1>2

(* Only threaded_enqueue in close and threaded_dequeue in the processing   *)
(* of a CLOSE move the window of a writer's data queue: every other step,  *)
(* of whichever thread or process, leaves its contents and both its ends.  *)
LEMMA WindowFrame ==
  ASSUME TypeInv, [Next]_vars, NEW w \in Writers
  PROVE  \/ CloseEnqueue(w)
         \/ CloseDequeue(w)
         \/ /\ dataQueue'[w] = dataQueue[w]
            /\ ServedStep(w)' = ServedStep(w)
            /\ EnqueuedSteps(w)' = EnqueuedSteps(w)
<1> DEFINE Still == /\ dataQueue'[w] = dataQueue[w]
                    /\ ServedStep(w)' = ServedStep(w)
                    /\ EnqueuedSteps(w)' = EnqueuedSteps(w)
<1>a. /\ wpc \in [Writers -> {"close", "gather", "publish step",
                              "publish group", "finalize", "finalized"}]
      /\ writerStep \in [Writers -> 0 .. NSteps]
      /\ cpc \in [Writers -> {"idle", "close", "close waits", "close resumes"}]
      /\ readerStep \in [Writers -> Nat]
      /\ dataQueue \in [Writers -> Seq(Steps)]
  BY DEF TypeInv, TypeOK, AppTypeOK, ControlTypeOK
<1>1. CASE UNCHANGED <<wpc, writerStep, dataQueue, cpc, readerStep>>
  BY <1>1 DEF ServedStep, EnqueuedSteps
<1>2. CASE Allgather
  <2>1. UNCHANGED <<writerStep, dataQueue, cpc, readerStep>>
    BY <1>2 DEF Allgather, WriterRest
  <2>2. wpc[w] = "gather" /\ wpc'[w] = "publish step"
    BY <1>2 DEF Allgather
  <2> QED
    BY <2>1, <2>2 DEF ServedStep, EnqueuedSteps
<1>3. ASSUME NEW v \in Writers, WriterStep(v), ~CloseEnqueue(w)
      PROVE  Still
  <2>0. UNCHANGED <<cpc, readerStep>>
    BY <1>3 DEF WriterStep, CloseEnqueue, PublishStep, PublishGroup,
       FinalizeAnnounce, FinalizeReturn, WriterRest
  <2>1. CASE v # w
    <3>1. /\ wpc'[w] = wpc[w] /\ writerStep'[w] = writerStep[w]
          /\ dataQueue'[w] = dataQueue[w]
      BY <1>3, <2>1, <1>a DEF WriterStep, CloseEnqueue, PublishStep,
         PublishGroup, FinalizeAnnounce, FinalizeReturn
    <3> QED
      BY <2>0, <3>1 DEF ServedStep, EnqueuedSteps
  <2>2. CASE v = w
    <3>1. CASE PublishGroup(w)
      <4>1. /\ wpc[w] = "publish group" /\ wpc'[w] = "close"
            /\ writerStep'[w] = writerStep[w] + 1
            /\ dataQueue' = dataQueue
        BY <3>1, <1>a DEF PublishGroup
      <4> QED
        BY <2>0, <4>1 DEF ServedStep, EnqueuedSteps
    <3>2. CASE PublishStep(w) \/ FinalizeAnnounce(w) \/ FinalizeReturn(w)
      <4>1. UNCHANGED <<writerStep, dataQueue>>
        BY <3>2 DEF PublishStep, FinalizeAnnounce, FinalizeReturn
      <4>2. wpc[w] \in {"gather", "publish step", "publish group"}
              <=> wpc'[w] \in {"gather", "publish step", "publish group"}
        BY <3>2, <1>a DEF PublishStep, FinalizeAnnounce, FinalizeReturn
      <4> QED
        BY <2>0, <4>1, <4>2 DEF ServedStep, EnqueuedSteps
    <3> QED
      BY <1>3, <2>2, <3>1, <3>2 DEF WriterStep
  <2> QED
    BY <2>1, <2>2
<1>4. ASSUME NEW v \in Writers, MultiqueueAction(v)
      PROVE  Still
  <2>1. UNCHANGED <<wpc, writerStep, dataQueue, readerStep>>
    BY <1>4 DEF MultiqueueAction
  <2>2. cpc[w] \in {"close waits", "close resumes"}
          <=> cpc'[w] \in {"close waits", "close resumes"}
    BY <1>4, <1>a DEF MultiqueueAction
  <2> QED
    BY <2>1, <2>2 DEF ServedStep, EnqueuedSteps
<1>5. ASSUME NEW v \in Writers, ControlStep(v), ~CloseDequeue(w)
      PROVE  Still
  <2>0. UNCHANGED <<wpc, writerStep>>
    BY <1>5 DEF ControlStep, ProcessVar, ProcessDataFlush, ProcessOpen,
       ProcessClose, CloseDequeue, CloseAck
  <2>1. CASE v # w
    <3>1. /\ cpc'[w] = cpc[w] /\ readerStep'[w] = readerStep[w]
          /\ dataQueue'[w] = dataQueue[w]
      <4>1. CASE ProcessClose(v)
        BY <4>1, <2>1, <1>a DEF ProcessClose
      <4>2. CASE CloseDequeue(v)
        BY <4>2, <2>1, <1>a DEF CloseDequeue
      <4>3. CASE CloseAck(v)
        BY <4>3, <2>1, <1>a DEF CloseAck
      <4>4. CASE ProcessVar(v) \/ ProcessDataFlush(v) \/ ProcessOpen(v)
        BY <4>4 DEF ProcessVar, ProcessDataFlush, ProcessOpen
      <4> QED
        BY <1>5, <4>1, <4>2, <4>3, <4>4 DEF ControlStep
    <3> QED
      BY <2>0, <3>1 DEF ServedStep, EnqueuedSteps
  <2>2. CASE v = w
    <3>1. CASE ProcessVar(w) \/ ProcessDataFlush(w) \/ ProcessOpen(w)
      <4>1. UNCHANGED <<dataQueue, cpc, readerStep>>
        BY <3>1 DEF ProcessVar, ProcessDataFlush, ProcessOpen
      <4> QED
        BY <2>0, <4>1 DEF ServedStep, EnqueuedSteps
    <3>2. CASE ProcessClose(w)
      <4>1. UNCHANGED <<readerStep, dataQueue>>
        BY <3>2 DEF ProcessClose
      <4>2. cpc[w] = "idle" /\ cpc'[w] \in {"idle", "close"}
        BY <3>2, <1>a DEF ProcessClose, Receive
      <4> QED
        BY <2>0, <4>1, <4>2 DEF ServedStep, EnqueuedSteps
    <3>3. CASE CloseAck(w)
      <4>1. /\ cpc[w] = "close resumes" /\ cpc'[w] = "idle"
            /\ readerStep'[w] = readerStep[w] + 1
            /\ dataQueue' = dataQueue
        BY <3>3, <1>a DEF CloseAck
      <4> QED
        BY <2>0, <4>1 DEF ServedStep, EnqueuedSteps
    <3> QED
      BY <1>5, <2>2, <3>1, <3>2, <3>3 DEF ControlStep
  <2> QED
    BY <2>1, <2>2
<1>6. CASE ReaderBarriers \/ \E r \in Readers : ReaderStep(r)
  BY <1>6, <1>1, ReaderFrame DEF WriterSide
<1>7. CASE Terminated \/ UNCHANGED vars
  BY <1>7, <1>1 DEF Terminated, vars, writerVars
<1> QED
  BY <1>2, <1>3, <1>4, <1>5, <1>6, <1>7 DEF Next

(* The queue of a writer never holds more than maxQueueSize + 1 steps.     *)
THEOREM StreamBufferBound == SafeSpec => []BufferBound
<1>1. Init => BufferBound
  BY StreamAssumption DEF Init, BufferBound
<1>2. TypeInv /\ BufferBound /\ [Next]_vars => BufferBound'
  <2> SUFFICES ASSUME TypeInv, BufferBound, [Next]_vars, MaxQueueSize > 0,
                      NEW w \in Writers
               PROVE  Len(dataQueue'[w]) <= MaxQueueSize + 1
    BY DEF BufferBound
  <2>1. dataQueue \in [Writers -> Seq(Steps)] /\ dataQueue[w] \in Seq(Steps)
    BY DEF TypeInv, TypeOK, AppTypeOK
  <2>2. /\ Len(dataQueue[w]) \in Nat /\ MaxQueueSize \in Int
        /\ Len(dataQueue[w]) <= MaxQueueSize + 1
    BY <2>1, StreamAssumption DEF BufferBound
  <2>3. CASE CloseEnqueue(w)
    <3>1. /\ Len(dataQueue[w]) <= MaxQueueSize
          /\ dataQueue'[w] = Append(dataQueue[w], writerStep[w])
      BY <2>3, <2>1 DEF CloseEnqueue
    <3>2. Len(dataQueue'[w]) = Len(dataQueue[w]) + 1
      BY <3>1, <2>1
    <3> QED
      BY <3>1, <3>2, <2>2
  <2>4. CASE CloseDequeue(w)
    <3>1. dataQueue[w] # <<>> /\ dataQueue'[w] = Tail(dataQueue[w])
      BY <2>4, <2>1 DEF CloseDequeue
    <3>2. Len(dataQueue'[w]) = Len(dataQueue[w]) - 1
      BY <3>1, <2>1
    <3> QED
      BY <3>2, <2>2
  <2> QED
    BY <2>2, <2>3, <2>4, WindowFrame
<1> QED
  BY <1>1, <1>2, StreamTypeInvariant, PTL DEF SafeSpec

(* A queue q that starts at step s and ends before step e.                 *)
IsWindow(q, s, e) ==
  /\ s + Len(q) = e
  /\ \A i \in 1 .. Len(q) : q[i] = s + i - 1

(* Appending the next step to a window gives a window.                     *)
LEMMA WindowAppend ==
  ASSUME NEW q \in Seq(Steps), NEW s \in Nat, NEW e \in Steps, IsWindow(q, s, e)
  PROVE  IsWindow(Append(q, e), s, e + 1)
<1>a. Len(q) \in Nat /\ s + Len(q) = e
  BY DEF IsWindow
<1>b. \A i \in 1 .. Len(q) : q[i] = s + i - 1
  BY DEF IsWindow
<1>1. Len(Append(q, e)) = Len(q) + 1
  OBVIOUS
<1>2. ASSUME NEW i \in 1 .. Len(q) + 1
      PROVE  Append(q, e)[i] = s + i - 1
  <2>1. CASE i = Len(q) + 1
    <3>1. Append(q, e)[i] = e
      BY <2>1
    <3> QED
      BY <2>1, <3>1, <1>a
  <2>2. CASE i # Len(q) + 1
    <3>1. i \in 1 .. Len(q)
      BY <2>2, <1>a
    <3>2. Append(q, e)[i] = q[i]
      BY <3>1
    <3> QED
      BY <3>1, <3>2, <1>b
  <2> QED
    BY <2>1, <2>2
<1>3. s + Len(Append(q, e)) = e + 1
  BY <1>1, <1>a
<1> QED
  BY <1>1, <1>2, <1>3 DEF IsWindow

(* So does dropping the first step of a window that has one.               *)
LEMMA WindowTail ==
  ASSUME NEW q \in Seq(Steps), NEW s \in Nat, NEW e \in Nat, IsWindow(q, s, e),
         q # <<>>
  PROVE  IsWindow(Tail(q), s + 1, e)
<1>a. Len(q) \in Nat /\ s + Len(q) = e
  BY DEF IsWindow
<1>b. \A i \in 1 .. Len(q) : q[i] = s + i - 1
  BY DEF IsWindow
<1>1. Len(Tail(q)) = Len(q) - 1
  OBVIOUS
<1>2. ASSUME NEW i \in 1 .. Len(q) - 1
      PROVE  Tail(q)[i] = (s + 1) + i - 1
  <2>1. i + 1 \in 1 .. Len(q) /\ i \in Nat
    BY <1>a
  <2>2. Tail(q)[i] = q[i + 1]
    BY <1>a
  <2>3. q[i + 1] = s + (i + 1) - 1
    BY <2>1, <1>b
  <2> QED
    BY <2>1, <2>2, <2>3
<1>3. (s + 1) + Len(Tail(q)) = e
  BY <1>1, <1>a
<1> QED
  BY <1>1, <1>2, <1>3 DEF IsWindow

(* No step is skipped, repeated or reordered between adios_flexpath_close  *)
(* and the control thread: the data queue is at all times exactly the      *)
(* window from the step that is served to the one written last.            *)
THEOREM StreamQueueIsWindow == SafeSpec => []QueueIsWindow
<1> DEFINE Inv == \A w \in Writers :
                    IsWindow(dataQueue[w], ServedStep(w), EnqueuedSteps(w))
<1>1. Init => Inv
  <2> SUFFICES ASSUME Init, NEW w \in Writers
               PROVE  IsWindow(dataQueue[w], ServedStep(w), EnqueuedSteps(w))
    OBVIOUS
  <2>1. dataQueue[w] = <<>> /\ ServedStep(w) = 0 /\ EnqueuedSteps(w) = 0
    BY DEF Init, ServedStep, EnqueuedSteps
  <2> QED
    BY <2>1 DEF IsWindow
<1>2. TypeInv /\ Inv /\ [Next]_vars => Inv'
  <2> SUFFICES ASSUME TypeInv, Inv, [Next]_vars, NEW w \in Writers
               PROVE  IsWindow(dataQueue'[w], ServedStep(w)', EnqueuedSteps(w)')
    OBVIOUS
  <2>1. /\ dataQueue \in [Writers -> Seq(Steps)]
        /\ wpc \in [Writers -> {"close", "gather", "publish step",
                                "publish group", "finalize", "finalized"}]
        /\ cpc \in [Writers -> {"idle", "close", "close waits", "close resumes"}]
    BY DEF TypeInv, TypeOK, AppTypeOK, ControlTypeOK
  <2>2. /\ readerStep[w] \in Nat /\ writerStep[w] \in Nat
        /\ writerStep[w] < NSteps => writerStep[w] \in Steps
    <3>1. readerStep \in [Writers -> Nat] /\ writerStep \in [Writers -> 0 .. NSteps]
      BY DEF TypeInv, TypeOK, AppTypeOK, ControlTypeOK
    <3>2. readerStep[w] \in Nat /\ writerStep[w] \in 0 .. NSteps
      BY <3>1
    <3> QED
      BY <3>2, StreamAssumption DEF Steps
  <2>3. ServedStep(w) \in Nat /\ EnqueuedSteps(w) \in Nat
    <3>1. readerStep[w] + 1 \in Nat /\ writerStep[w] + 1 \in Nat
      BY <2>2
    <3> QED
      BY <2>2, <3>1 DEF ServedStep, EnqueuedSteps
  <2>4. IsWindow(dataQueue[w], ServedStep(w), EnqueuedSteps(w))
    OBVIOUS
  <2> HIDE DEF Inv
  <2>5. CASE CloseEnqueue(w)
    <3>1. /\ wpc[w] = "close"
          /\ writerStep[w] < NSteps
          /\ wpc'[w] \in {"gather", "publish step"}
          /\ dataQueue'[w] = Append(dataQueue[w], writerStep[w])
          /\ UNCHANGED <<writerStep, cpc, readerStep>>
      BY <2>5, <2>1 DEF CloseEnqueue, WriterRest
    <3>2. /\ EnqueuedSteps(w) = writerStep[w]
          /\ EnqueuedSteps(w)' = EnqueuedSteps(w) + 1
          /\ ServedStep(w)' = ServedStep(w)
      BY <3>1 DEF EnqueuedSteps, ServedStep
    <3> QED
      BY <3>1, <3>2, <2>1, <2>2, <2>3, <2>4, WindowAppend
  <2>6. CASE CloseDequeue(w)
    <3>1. /\ cpc[w] = "close" /\ cpc'[w] = "close waits"
          /\ dataQueue[w] # <<>>
          /\ dataQueue'[w] = Tail(dataQueue[w])
          /\ UNCHANGED <<wpc, writerStep, readerStep>>
      BY <2>6, <2>1 DEF CloseDequeue
    <3>2. /\ EnqueuedSteps(w)' = EnqueuedSteps(w)
          /\ ServedStep(w)' = ServedStep(w) + 1
      BY <3>1 DEF EnqueuedSteps, ServedStep
    <3> QED
      BY <3>1, <3>2, <2>1, <2>3, <2>4, WindowTail
  <2> QED
    BY <2>4, <2>5, <2>6, WindowFrame
<1>3. Inv => QueueIsWindow
  BY DEF QueueIsWindow, IsWindow
<1> QED
  BY <1>1, <1>2, <1>3, StreamTypeInvariant, PTL DEF SafeSpec

-----------------------------------------------------------------------------
(* The writers meet in MPI_Allgather.                                      *)

(* How many times a writer has come out of the Allgather of close.         *)
Gathered(w) ==
  IF wpc[w] \in {"publish step", "publish group"} THEN writerStep[w] + 1
  ELSE writerStep[w]

(* All writers have, equally often.                                        *)
LockstepInv == GlobalVars => \A v, w \in Writers : Gathered(v) = Gathered(w)

(* Only the Allgather itself changes how often a writer came out of it.    *)
LEMMA GatheredFrame ==
  ASSUME TypeInv, [Next]_vars, GlobalVars, ~Allgather, NEW w \in Writers
  PROVE  Gathered(w)' = Gathered(w)
<1>a. /\ wpc \in [Writers -> {"close", "gather", "publish step",
                              "publish group", "finalize", "finalized"}]
      /\ writerStep \in [Writers -> 0 .. NSteps]
  BY DEF TypeInv, TypeOK, AppTypeOK
<1>1. CASE UNCHANGED <<wpc, writerStep>>
  BY <1>1 DEF Gathered
<1>2. ASSUME NEW v \in Writers, WriterStep(v)
      PROVE  Gathered(w)' = Gathered(w)
  <2>1. CASE v # w
    <3>1. wpc'[w] = wpc[w] /\ writerStep'[w] = writerStep[w]
      BY <1>2, <2>1, <1>a DEF WriterStep, CloseEnqueue, PublishStep,
         PublishGroup, FinalizeAnnounce, FinalizeReturn
    <3> QED
      BY <3>1 DEF Gathered
  <2>2. CASE v = w
    <3>1. CASE PublishGroup(w)
      <4>1. /\ wpc[w] = "publish group" /\ wpc'[w] = "close"
            /\ writerStep'[w] = writerStep[w] + 1
        BY <3>1, <1>a DEF PublishGroup
      <4> QED
        BY <4>1 DEF Gathered
    <3>2. CASE \/ CloseEnqueue(w) \/ PublishStep(w)
               \/ FinalizeAnnounce(w) \/ FinalizeReturn(w)
      <4>1. writerStep' = writerStep
        BY <3>2 DEF CloseEnqueue, PublishStep, FinalizeAnnounce, FinalizeReturn
      <4>2. wpc[w] \in {"publish step", "publish group"}
              <=> wpc'[w] \in {"publish step", "publish group"}
        BY <3>2, <1>a
        DEF CloseEnqueue, PublishStep, FinalizeAnnounce, FinalizeReturn
      <4> QED
        BY <4>1, <4>2 DEF Gathered
    <3> QED
      BY <1>2, <2>2, <3>1, <3>2 DEF WriterStep
  <2> QED
    BY <2>1, <2>2
<1>3. ASSUME NEW v \in Writers, MultiqueueAction(v) \/ ControlStep(v)
      PROVE  UNCHANGED <<wpc, writerStep>>
  BY <1>3 DEF MultiqueueAction, ControlStep, ProcessVar, ProcessDataFlush,
     ProcessOpen, ProcessClose, CloseDequeue, CloseAck
<1>4. CASE ReaderBarriers \/ \E r \in Readers : ReaderStep(r)
  BY <1>4, <1>1, ReaderFrame DEF WriterSide
<1>5. CASE Terminated \/ UNCHANGED vars
  BY <1>5, <1>1 DEF Terminated, vars, writerVars
<1> QED
  BY <1>1, <1>2, <1>3, <1>4, <1>5 DEF Next

(* With global arrays no writer runs ahead of another by more than a step, *)
(* because every close goes through the same collective.                   *)
THEOREM StreamLockstep == SafeSpec => []WritersInLockstep
<1>1. Init => LockstepInv
  BY DEF Init, LockstepInv, Gathered
<1>2. TypeInv /\ LockstepInv /\ [Next]_vars => LockstepInv'
  <2> SUFFICES ASSUME TypeInv, LockstepInv, [Next]_vars, GlobalVars,
                      NEW v \in Writers, NEW w \in Writers
               PROVE  Gathered(v)' = Gathered(w)'
    BY DEF LockstepInv
  <2>1. Gathered(v) = Gathered(w)
    BY DEF LockstepInv
  <2>2. CASE Allgather
    <3>1. /\ wpc[v] = "gather" /\ wpc'[v] = "publish step"
          /\ wpc[w] = "gather" /\ wpc'[w] = "publish step"
          /\ writerStep' = writerStep
      BY <2>2 DEF Allgather
    <3> QED
      BY <2>1, <3>1 DEF Gathered
  <2>3. CASE ~Allgather
    BY <2>1, <2>3, GatheredFrame
  <2> QED
    BY <2>2, <2>3
<1>3. TypeInv /\ LockstepInv => WritersInLockstep
  <2> SUFFICES ASSUME TypeInv, LockstepInv, GlobalVars,
                      NEW v \in Writers, NEW w \in Writers
               PROVE  writerStep[v] - writerStep[w] <= 1
    BY DEF WritersInLockstep
  <2>1. writerStep[v] \in Int /\ writerStep[w] \in Int
    <3>1. writerStep \in [Writers -> 0 .. NSteps]
      BY DEF TypeInv, TypeOK, AppTypeOK
    <3> QED
      BY <3>1
  <2>2. Gathered(v) = Gathered(w)
    BY DEF LockstepInv
  <2>3. /\ Gathered(v) = writerStep[v] \/ Gathered(v) = writerStep[v] + 1
        /\ Gathered(w) = writerStep[w] \/ Gathered(w) = writerStep[w] + 1
    BY DEF Gathered
  <2> QED
    BY <2>1, <2>2, <2>3
<1> QED
  BY <1>1, <1>2, <1>3, StreamTypeInvariant, PTL DEF SafeSpec
-----------------------------------------------------------------------------
(***************************************************************************)
(* The protocol between the readers and the writers, for every choice of   *)
(* reads.                                                                  *)
(***************************************************************************)

-----------------------------------------------------------------------------
(* The end of the stream.                                                  *)

(* An announcement of the end names the last step, on its way and once a   *)
(* reader has it.                                                          *)
AnnouncedInv ==
  /\ \A w \in Writers : \A i \in 1 .. Len(stepMsg[w]) :
       stepMsg[w][i].finalized => stepMsg[w][i].step = NSteps - 1
  /\ \A r \in Readers : finalized[r] => lastStep[r] = NSteps - 1

(* Elements of a sequence after Append and after Tail.                     *)
LEMMA AppendElement ==
  ASSUME NEW S, NEW q \in Seq(S), NEW x \in S, NEW i \in 1 .. Len(Append(q, x))
  PROVE  \/ i \in 1 .. Len(q) /\ Append(q, x)[i] = q[i]
         \/ i = Len(q) + 1 /\ Append(q, x)[i] = x
<1>1. Len(Append(q, x)) = Len(q) + 1 /\ Len(q) \in Nat
  OBVIOUS
<1>2. CASE i = Len(q) + 1
  BY <1>2
<1>3. CASE i # Len(q) + 1
  <2>1. i \in 1 .. Len(q)
    BY <1>1, <1>3
  <2> QED
    BY <2>1
<1> QED
  BY <1>2, <1>3

(* The head of a nonempty sequence is its first element.                   *)
LEMMA HeadElement ==
  ASSUME NEW S, NEW q \in Seq(S), q # <<>>
  PROVE  1 \in 1 .. Len(q) /\ Head(q) = q[1]
  OBVIOUS

(* The tail's elements are the sequence's, one place down.                 *)
LEMMA TailElement ==
  ASSUME NEW S, NEW q \in Seq(S), q # <<>>, NEW i \in 1 .. Len(Tail(q))
  PROVE  i + 1 \in 1 .. Len(q) /\ Tail(q)[i] = q[i + 1]
<1>1. Len(Tail(q)) = Len(q) - 1 /\ Len(q) \in Nat
  OBVIOUS
<1> QED
  BY <1>1

(* What the multiqueue action keeps of the step messages was there.        *)
LEMMA KeepNewestElement ==
  ASSUME NEW S, NEW q \in Seq(S), NEW i \in 1 .. Len(KeepNewest(q))
  PROVE  \E j \in 1 .. Len(q) : KeepNewest(q)[i] = q[j]
<1>1. CASE Len(q) > 1
  <2>1. q # <<>> /\ KeepNewest(q) = Tail(q)
    BY <1>1 DEF KeepNewest
  <2>2. i \in 1 .. Len(Tail(q))
    BY <2>1
  <2>3. i + 1 \in 1 .. Len(q) /\ Tail(q)[i] = q[i + 1]
    BY <2>1, <2>2, TailElement
  <2> QED
    BY <2>1, <2>3
<1>2. CASE ~(Len(q) > 1)
  BY <1>2 DEF KeepNewest
<1> QED
  BY <1>1, <1>2

(* Steps that send no announcement and deliver none.                       *)
LEMMA AnnouncedFrame ==
  ASSUME AnnouncedInv, UNCHANGED <<stepMsg, lastStep, finalized>>
  PROVE  AnnouncedInv'
  BY DEF AnnouncedInv

(* The reader's own steps deliver none, and leave the announcements.       *)
LEMMA AnnouncedReaders ==
  ASSUME ReaderBarriers \/ \E r \in Readers : ReaderStep(r)
  PROVE  UNCHANGED <<stepMsg, lastStep, finalized>>
<1>1. CASE ReaderBarriers
  BY <1>1 DEF ReaderBarriers, ReleaseBarrier, AdvanceBarrier, StepBarrier,
     Barrier, WriterSide
<1>2. ASSUME NEW r \in Readers, ReaderStep(r)
      PROVE  UNCHANGED <<stepMsg, lastStep, finalized>>
  BY <1>2 DEF ReaderStep, OpAcknowledged, OpenNext, Fetch, FetchGroup,
     ScheduleReads, VarOpen, VarSend, PerformReads, PerformSend, PerformPending,
     PerformBatchDone, PerformReturn, ReleaseReturn, PollSend, PollReturn,
     CloseNext, CloseLoopDone, WriterSide
<1> QED
  BY <1>1, <1>2

(* Every step keeps the announcements right: finalize is the only one that *)
(* announces the end, and it names the last step.                          *)
LEMMA AnnouncedStep ==
  ASSUME TypeInv, AnnouncedInv, [Next]_vars
  PROVE  AnnouncedInv'
<1>a. /\ stepMsg \in [Writers -> Seq(StepMsgs)]
      /\ lastStep \in [Readers -> Steps]
      /\ finalized \in [Readers -> BOOLEAN]
      /\ flush \in [Writers -> Seq(FlushMsgs)]
  BY DEF TypeInv, TypeOK, StoneTypeOK, RequestTypeOK
<1>b. /\ \A w \in Writers : \A i \in 1 .. Len(stepMsg[w]) :
           stepMsg[w][i].finalized => stepMsg[w][i].step = NSteps - 1
      /\ \A r \in Readers : finalized[r] => lastStep[r] = NSteps - 1
  BY DEF AnnouncedInv
<1>c. ASSUME NEW w \in Writers, NEW m \in StepMsgs,
             m.finalized => m.step = NSteps - 1,
             stepMsg' = [stepMsg EXCEPT ![w] = Append(@, m)],
             UNCHANGED <<lastStep, finalized>>
      PROVE  AnnouncedInv'
  <2> SUFFICES ASSUME NEW v \in Writers, NEW i \in 1 .. Len(stepMsg'[v]),
                      stepMsg'[v][i].finalized
               PROVE  stepMsg'[v][i].step = NSteps - 1
    BY <1>b, <1>c DEF AnnouncedInv
  <2>1. CASE v = w
    <3>1. stepMsg'[v] = Append(stepMsg[v], m) /\ stepMsg[v] \in Seq(StepMsgs)
      BY <1>a, <1>c, <2>1
    <3>2. \/ i \in 1 .. Len(stepMsg[v]) /\ stepMsg'[v][i] = stepMsg[v][i]
          \/ stepMsg'[v][i] = m
      BY <3>1, AppendElement
    <3> QED
      BY <3>2, <1>b, <1>c
  <2>2. CASE v # w
    <3>1. stepMsg'[v] = stepMsg[v]
      BY <1>a, <1>c, <2>2
    <3> QED
      BY <3>1, <1>b
  <2> QED
    BY <2>1, <2>2
<1>1. ASSUME NEW w \in Writers, PublishStep(w)
      PROVE  AnnouncedInv'
  <2> DEFINE m == [step |-> writerStep[w], finalized |-> FALSE]
  <2>1. writerStep[w] \in Steps
    <3>1. writerStep[w] \in 0 .. NSteps /\ writerStep[w] < NSteps
      BY <1>1 DEF PublishStep, TypeInv, TypeOK, AppTypeOK, PublishingInv
    <3> QED
      BY <3>1, StreamAssumption DEF Steps
  <2>2. m \in StepMsgs /\ ~m.finalized
    BY <2>1 DEF StepMsgs
  <2>3. /\ stepMsg' = [stepMsg EXCEPT ![w] = Append(@, m)]
        /\ UNCHANGED <<lastStep, finalized>>
    BY <1>1 DEF PublishStep, WriterRest, readerVars
  <2> HIDE DEF m
  <2> QED
    BY <2>2, <2>3, <1>c
<1>2. ASSUME NEW w \in Writers, FinalizeAnnounce(w)
      PROVE  AnnouncedInv'
  <2> DEFINE m == [step |-> writerStep[w] - 1, finalized |-> TRUE]
  <2>1. writerStep[w] = NSteps /\ NSteps - 1 \in Steps
    BY <1>2, StreamAssumption DEF FinalizeAnnounce, Steps
  <2>2. m \in StepMsgs /\ m.step = NSteps - 1
    BY <2>1 DEF StepMsgs
  <2>3. /\ stepMsg' = [stepMsg EXCEPT ![w] = Append(@, m)]
        /\ UNCHANGED <<lastStep, finalized>>
    BY <1>2 DEF FinalizeAnnounce, WriterRest, readerVars
  <2> HIDE DEF m
  <2> QED
    BY <2>2, <2>3, <1>c
<1>3. ASSUME NEW w \in Writers, MultiqueueAction(w)
      PROVE  AnnouncedInv'
  <2>1. /\ stepMsg' = [stepMsg EXCEPT ![w] = KeepNewest(stepMsg[w])]
        /\ stepMsg[w] \in Seq(StepMsgs)
    BY <1>3, <1>a DEF MultiqueueAction
  <2>2. KeepNewest(stepMsg[w]) \in Seq(StepMsgs)
    BY <2>1, KeepNewestType
  <2>3. ASSUME NEW i \in 1 .. Len(KeepNewest(stepMsg[w])),
               KeepNewest(stepMsg[w])[i].finalized
        PROVE  KeepNewest(stepMsg[w])[i].step = NSteps - 1
    <3>1. PICK j \in 1 .. Len(stepMsg[w]) :
                 KeepNewest(stepMsg[w])[i] = stepMsg[w][j]
      BY <2>1, KeepNewestElement
    <3> QED
      BY <3>1, <2>3, <1>b
  <2>4. ASSUME NEW v \in Writers, NEW i \in 1 .. Len(stepMsg'[v]),
               stepMsg'[v][i].finalized
        PROVE  stepMsg'[v][i].step = NSteps - 1
    <3>1. CASE v = w
      <4>1. stepMsg'[v] = KeepNewest(stepMsg[w])
        BY <3>1, <2>1, <1>a
      <4> QED
        BY <4>1, <2>3, <2>4
    <3>2. CASE v # w
      <4>1. stepMsg'[v] = stepMsg[v]
        BY <3>2, <2>1, <1>a
      <4> QED
        BY <4>1, <2>4, <1>b
    <3> QED
      BY <3>1, <3>2
  <2>5. \A r \in Readers : finalized'[r] => lastStep'[r] = NSteps - 1
    <3>1. CASE UNCHANGED <<lastStep, finalized>>
      BY <3>1, <1>b
    <3>2. CASE ~UNCHANGED <<lastStep, finalized>>
      <4> DEFINE m == Head(KeepNewest(stepMsg[w]))
      <4>1. /\ Answerable(w) /\ Head(flush[w]).type = "STEP"
            /\ AnswerStep(Head(flush[w]).from, m)
        BY <1>3, <3>2 DEF MultiqueueAction, AnswerFlush, LeaveFlush,
           AnswerGroup, PassData
      <4>2. KeepNewest(stepMsg[w]) # <<>>
        BY <4>1, <2>1, KeepNewestType DEF Answerable
      <4>3. /\ 1 \in 1 .. Len(KeepNewest(stepMsg[w]))
            /\ m = KeepNewest(stepMsg[w])[1]
        BY <4>2, <2>2
      <4>4. m.finalized => m.step = NSteps - 1
        BY <4>3, <2>3
      <4> HIDE DEF m
      <4>5. /\ lastStep' = [lastStep EXCEPT ![Head(flush[w]).from] = m.step]
            /\ finalized' = [finalized EXCEPT ![Head(flush[w]).from] = m.finalized]
        BY <4>1 DEF AnswerStep
      <4> QED
        BY <4>4, <4>5, <1>a, <1>b
    <3> QED
      BY <3>1, <3>2
  <2> QED
    BY <2>4, <2>5 DEF AnnouncedInv
<1>4. ASSUME NEW w \in Writers,
             \/ CloseEnqueue(w) \/ PublishGroup(w) \/ FinalizeReturn(w)
             \/ ControlStep(w)
      PROVE  AnnouncedInv'
  BY <1>4, AnnouncedFrame
  DEF CloseEnqueue, PublishGroup, FinalizeReturn, ControlStep, ProcessVar,
      ProcessDataFlush, ProcessOpen, ProcessClose, CloseDequeue, CloseAck,
      WriterRest, readerVars
<1>5. CASE Allgather \/ Terminated \/ UNCHANGED vars
  BY <1>5, AnnouncedFrame
  DEF Allgather, Terminated, vars, writerVars, readerVars, WriterRest
<1>6. CASE ReaderBarriers \/ \E r \in Readers : ReaderStep(r)
  BY <1>6, AnnouncedReaders, AnnouncedFrame
<1> QED
  BY <1>1, <1>2, <1>3, <1>4, <1>5, <1>6 DEF Next, WriterStep

(* A reader leaves the stream at the writer's last step only, although the *)
(* answers to its polls may be older than the writer's state.              *)
THEOREM StreamEndsAtLastStep == SafeSpec => []EndOfStreamAtLastStep
<1>1. Init => AnnouncedInv /\ EndOfStreamAtLastStep
  BY DEF Init, AnnouncedInv, EndOfStreamAtLastStep
<1>2. TypeInv /\ AnnouncedInv /\ EndOfStreamAtLastStep /\ [Next]_vars
        => AnnouncedInv' /\ EndOfStreamAtLastStep'
  <2> SUFFICES ASSUME TypeInv, AnnouncedInv, EndOfStreamAtLastStep, [Next]_vars
               PROVE  EndOfStreamAtLastStep'
    BY AnnouncedStep
  <2> SUFFICES ASSUME NEW r \in Readers, rpc'[r] \in {"end of stream", "done"}
               PROVE  mystep'[r] = NSteps - 1
    BY DEF EndOfStreamAtLastStep
  <2>a. DOMAIN rpc = Readers
    BY DEF TypeInv, TypeOK, ReaderTypeOK
  <2>1. CASE UNCHANGED <<rpc, mystep>>
    BY <2>1 DEF EndOfStreamAtLastStep
  <2>2. CASE ReaderBarriers
    BY <2>2 DEF ReaderBarriers, ReleaseBarrier, AdvanceBarrier, StepBarrier,
       Barrier
  <2>3. ASSUME NEW q \in Readers, PollReturn(q)
        PROVE  mystep'[r] = NSteps - 1
    <3>1. CASE q = r
      <4>1. finalized[r] /\ mystep[r] = lastStep[r] /\ mystep' = mystep
        BY <2>3, <3>1, <2>a DEF PollReturn, Goto
      <4> QED
        BY <4>1 DEF AnnouncedInv
    <3>2. CASE q # r
      BY <2>3, <3>2, <2>a DEF PollReturn, Goto, EndOfStreamAtLastStep
    <3> QED
      BY <3>1, <3>2
  <2>4. ASSUME NEW q \in Readers, CloseLoopDone(q)
        PROVE  mystep'[r] = NSteps - 1
    BY <2>4, <2>a DEF CloseLoopDone, Goto, EndOfStreamAtLastStep
  <2>5. ASSUME NEW q \in Readers,
               ReaderStep(q), ~PollReturn(q), ~CloseLoopDone(q)
        PROVE  mystep'[r] = NSteps - 1
    <3>1. mystep' = mystep
      BY <2>5 DEF ReaderStep, OpAcknowledged, OpenNext, Fetch, FetchGroup,
         ScheduleReads, VarOpen, VarSend, PerformReads, PerformSend,
         PerformPending, PerformBatchDone, PerformReturn, ReleaseReturn,
         PollSend, CloseNext
    <3>2. CASE rpc' = rpc
      BY <3>1, <3>2 DEF EndOfStreamAtLastStep
    <3>3. CASE rpc' # rpc
      <4>1. PICK l \in {"fetch", "group", "schedule", "perform", "perform sent",
                        "perform wait", "release barrier", "advance barrier",
                        "poll wait"} : rpc' = [rpc EXCEPT ![q] = l]
        BY <2>5, <3>3 DEF ReaderStep, OpAcknowledged, OpenNext, Fetch,
         FetchGroup, ScheduleReads, VarOpen, VarSend, PerformReads, PerformSend,
         PerformPending, PerformBatchDone, PerformReturn, ReleaseReturn,
         PollSend, CloseNext, Goto
      <4>2. q # r /\ rpc'[r] = rpc[r]
        BY <4>1, <2>a
      <4> QED
        BY <3>1, <4>2 DEF EndOfStreamAtLastStep
    <3> QED
      BY <3>2, <3>3
  <2>6. ASSUME NEW w \in Writers,
               WriterStep(w) \/ MultiqueueAction(w) \/ ControlStep(w)
        PROVE  UNCHANGED <<rpc, mystep>>
    BY <2>6 DEF WriterStep, CloseEnqueue, PublishStep, PublishGroup,
       FinalizeAnnounce, FinalizeReturn, MultiqueueAction, ControlStep,
       ProcessVar, ProcessDataFlush, ProcessOpen, ProcessClose, CloseDequeue,
       CloseAck, WriterRest, readerVars
  <2>7. CASE Allgather \/ Terminated \/ UNCHANGED vars
    BY <2>7, <2>1 DEF Allgather, Terminated, vars, readerVars, WriterRest
  <2> QED
    BY <2>1, <2>2, <2>3, <2>4, <2>5, <2>6, <2>7 DEF Next
<1> QED
  BY <1>1, <1>2, StreamTypeInvariant, PTL DEF SafeSpec
-----------------------------------------------------------------------------
(* Requests and acknowledgements.                                          *)

(* Past the barrier of advance_step, up to the next step.                  *)
Late == {"poll", "poll wait", "close", "end of stream", "step barrier", "done"}

(* Reader r waits for the buffer of writer w.                              *)
Asking(r, w) ==
  \/ rpc[r] = "fetch" /\ w = Coordinator(r)
  \/ rpc[r] \in {"perform sent", "perform wait"} /\ w = Head(sendees[r])

(* Message m is a request that reader r waits to be answered.              *)
Request(m, r) == m.from = r /\ m.type # "VAR"

(* Where the sender of a message in writer w's control queue is.           *)
ControlDue(w, m) ==
  /\ m.type = "OPEN" => /\ awaiting[m.from] = "OPEN" /\ dst[m.from] = w
                        /\ m.step = mystep[m.from]
  /\ m.type = "CLOSE" => /\ awaiting[m.from] = "CLOSE" /\ dst[m.from] = w
                         /\ m.from \in bridgeOpened[w]
  /\ m.type = "DATA_FLUSH" => Asking(m.from, w)
  /\ ~cond[m.from]

(* Where the sender of a flush message at writer w's stone is.             *)
FlushDue(w, m) ==
  /\ m.type = "DATA" => Asking(m.from, w)
  /\ m.type = "EVGROUP" => rpc[m.from] = "group" /\ w = Coordinator(m.from)
  /\ m.type = "STEP" => rpc[m.from] = "poll wait"
  /\ ~cond[m.from]

DueInv(r) ==
  \A w \in Writers :
    /\ \A i \in 1 .. Len(controlQueue[w]) :
         Request(controlQueue[w][i], r) => ControlDue(w, controlQueue[w][i])
    /\ \A i \in 1 .. Len(flush[w]) :
         Request(flush[w][i], r) => FlushDue(w, flush[w][i])

(* A reader has at most one request under way.                             *)
SingleInv(r) ==
  \A v, w \in Writers :
    /\ \A i \in 1 .. Len(controlQueue[v]), j \in 1 .. Len(controlQueue[w]) :
         Request(controlQueue[v][i], r) /\ Request(controlQueue[w][j], r)
           => v = w /\ i = j
    /\ \A i \in 1 .. Len(flush[v]), j \in 1 .. Len(flush[w]) :
         Request(flush[v][i], r) /\ Request(flush[w][j], r) => v = w /\ i = j
    /\ \A i \in 1 .. Len(controlQueue[v]), j \in 1 .. Len(flush[w]) :
         ~(Request(controlQueue[v][i], r) /\ Request(flush[w][j], r))

(* The two ends of a bridge agree, but for an operation under way.         *)
BridgeInv(r) ==
  \A w \in Writers :
    /\ r \in bridgeOpened[w] =>
         /\ readerStep[w] = mystep[r]
         /\ w \in opened[r] \/ (awaiting[r] = "OPEN" /\ dst[r] = w /\ cond[r])
    /\ w \in opened[r] =>
         r \in bridgeOpened[w] \/ (awaiting[r] = "CLOSE" /\ dst[r] = w)

(* Where a reader may be when it waits for an acknowledgement.             *)
AwaitInv(r) ==
  /\ awaiting[r] = "OPEN" =>
       /\ rpc[r] \in {"open", "schedule", "release", "reopen"}
       /\ dst[r] \notin opened[r]
       /\ cond[r] => r \in bridgeOpened[dst[r]]
  /\ awaiting[r] = "CLOSE" =>
       /\ rpc[r] \in {"close", "end of stream"}
       /\ dst[r] \in opened[r]
       /\ cond[r] => r \notin bridgeOpened[dst[r]]

(* What a reader has open, and whom it still has to ask.                   *)
OpenInv(r) ==
  /\ Coordinator(r) \in created[r]
  /\ rpc[r] \notin {"open", "reopen", "close", "end of stream", "step barrier",
                    "done"} => Coordinator(r) \in opened[r]
  /\ rpc[r] = "step barrier" => opened[r] = {}
  /\ rpc[r] = "perform" => ~cond[r]
  /\ rpc[r] \notin {"schedule", "perform", "perform sent", "perform wait"}
       => sendees[r] = <<>>
  /\ \A i \in 1 .. Len(sendees[r]) : sendees[r][i] \in opened[r]

ReaderInv(r) ==
  DueInv(r) /\ SingleInv(r) /\ BridgeInv(r) /\ AwaitInv(r) /\ OpenInv(r)

(* The reader whose CLOSE writer w is processing.                          *)
CloserInv(w) ==
  cpc[w] # "idle" =>
    /\ bridgeOpened[w] = {}
    /\ closer[w] \in Readers
    /\ awaiting[closer[w]] = "CLOSE" /\ dst[closer[w]] = w /\ ~cond[closer[w]]
    /\ mystep[closer[w]] = readerStep[w]

(* The readers go from step to step together.                              *)
TogetherInv ==
  \A r, q \in Readers :
    mystep[r] = mystep[q] /\ (rpc[r] \in Late => rpc[q] \in Late)

ProtocolInv ==
  /\ \A r \in Readers : ReaderInv(r)
  /\ \A w \in Writers : CloserInv(w)
  /\ TogetherInv
  /\ OpenCountExact

(* Reader r has no request under way.                                      *)
Quiet(r) ==
  \A w \in Writers :
    /\ \A i \in 1 .. Len(controlQueue[w]) : ~Request(controlQueue[w][i], r)
    /\ \A i \in 1 .. Len(flush[w]) : ~Request(flush[w][i], r)

(* Its only request is m, the last of writer v's control queue or flushes. *)
OnlyControl(r, v, m) ==
  \A w \in Writers :
    /\ \A i \in 1 .. Len(controlQueue[w]) :
         Request(controlQueue[w][i], r) =>
           w = v /\ i = Len(controlQueue[v]) /\ controlQueue[w][i] = m
    /\ \A i \in 1 .. Len(flush[w]) : ~Request(flush[w][i], r)

OnlyFlush(r, v, m) ==
  \A w \in Writers :
    /\ \A i \in 1 .. Len(controlQueue[w]) : ~Request(controlQueue[w][i], r)
    /\ \A i \in 1 .. Len(flush[w]) :
         Request(flush[w][i], r) =>
           w = v /\ i = Len(flush[v]) /\ flush[w][i] = m

-----------------------------------------------------------------------------
(* Queues.                                                                 *)

(* Every request of r in queue new is one of queue old, at the same place  *)
(* or one place further down.                                              *)
Keeps(old, new, r) ==
  \E k \in {0, 1} : \A i \in 1 .. Len(new) :
    Request(new[i], r) => i + k \in 1 .. Len(old) /\ old[i + k] = new[i]

(* A queue that is left alone keeps its requests.                          *)
LEMMA KeepsSame ==
  ASSUME NEW q, NEW r
  PROVE  Keeps(q, q, r)
<1>1. \A i \in 1 .. Len(q) : i + 0 = i
  OBVIOUS
<1>2. \A i \in 1 .. Len(q) :
        Request(q[i], r) => i + 0 \in 1 .. Len(q) /\ q[i + 0] = q[i]
  BY <1>1
<1> QED
  BY <1>2 DEF Keeps

(* So does one whose oldest message is taken.                              *)
LEMMA KeepsTail ==
  ASSUME NEW S, NEW q \in Seq(S), q # <<>>, NEW r
  PROVE  Keeps(q, Tail(q), r)
<1>1. \A i \in 1 .. Len(Tail(q)) : i + 1 \in 1 .. Len(q) /\ q[i + 1] = Tail(q)[i]
  BY TailElement
<1> QED
  BY <1>1 DEF Keeps

(* So does one to which something other than a request of r is added.      *)
LEMMA KeepsAppend ==
  ASSUME NEW S, NEW q \in Seq(S), NEW x \in S, NEW r, ~Request(x, r)
  PROVE  Keeps(q, Append(q, x), r)
<1>1. ASSUME NEW i \in 1 .. Len(Append(q, x)), Request(Append(q, x)[i], r)
      PROVE  i + 0 \in 1 .. Len(q) /\ q[i + 0] = Append(q, x)[i]
  <2>1. i \in 1 .. Len(q) /\ Append(q, x)[i] = q[i]
    BY <1>1, AppendElement
  <2>2. i + 0 = i
    BY <2>1
  <2> QED
    BY <2>1, <2>2
<1> QED
  BY <1>1 DEF Keeps

(* A step that adds no request of r and takes at most one of the others.   *)
SameRequests(r) ==
  \A w \in Writers : /\ Keeps(controlQueue[w], controlQueue'[w], r)
                     /\ Keeps(flush[w], flush'[w], r)

(* A step that leaves the state of reader r.                               *)
SameReader(r) ==
  /\ rpc'[r] = rpc[r] /\ awaiting'[r] = awaiting[r] /\ dst'[r] = dst[r]
  /\ cond'[r] = cond[r] /\ mystep'[r] = mystep[r] /\ created'[r] = created[r]
  /\ opened'[r] = opened[r] /\ sendees'[r] = sendees[r]

(* A step that leaves the writers' ends of its bridges.                    *)
SameBridges(r) ==
  \A w \in Writers : /\ r \in bridgeOpened'[w] <=> r \in bridgeOpened[w]
                     /\ r \in bridgeOpened[w] => readerStep'[w] = readerStep[w]

(* A step that leaves reader r, its bridges and its requests alone leaves  *)
(* its requests due.                                                       *)
LEMMA DueFrame ==
  ASSUME NEW r \in Readers, DueInv(r), SameReader(r), SameBridges(r),
         SameRequests(r)
  PROVE  DueInv(r)'
<1>1. ASSUME NEW w \in Writers, NEW m, Request(m, r), ControlDue(w, m)
      PROVE  ControlDue(w, m)'
  BY <1>1 DEF Request, ControlDue, Asking, SameReader, SameBridges
<1>2. ASSUME NEW w \in Writers, NEW m, Request(m, r), FlushDue(w, m)
      PROVE  FlushDue(w, m)'
  BY <1>2 DEF Request, FlushDue, Asking, SameReader, SameBridges
<1>3. ASSUME NEW w \in Writers, NEW i \in 1 .. Len(controlQueue'[w]),
             Request(controlQueue'[w][i], r)
      PROVE  ControlDue(w, controlQueue[w][i])'
  <2>1. PICK k \in {0, 1} : /\ i + k \in 1 .. Len(controlQueue[w])
                            /\ controlQueue[w][i + k] = controlQueue'[w][i]
    BY <1>3 DEF SameRequests, Keeps
  <2>2. ControlDue(w, controlQueue[w][i + k])
    BY <1>3, <2>1 DEF DueInv
  <2>3. PICK m : m = controlQueue'[w][i]
    OBVIOUS
  <2>4. ControlDue(w, m)'
    BY <1>1, <1>3, <2>1, <2>2, <2>3
  <2> QED
    BY <2>3, <2>4 DEF ControlDue, Asking
<1>4. ASSUME NEW w \in Writers, NEW i \in 1 .. Len(flush'[w]),
             Request(flush'[w][i], r)
      PROVE  FlushDue(w, flush[w][i])'
  <2>1. PICK k \in {0, 1} : /\ i + k \in 1 .. Len(flush[w])
                            /\ flush[w][i + k] = flush'[w][i]
    BY <1>4 DEF SameRequests, Keeps
  <2>2. FlushDue(w, flush[w][i + k])
    BY <1>4, <2>1 DEF DueInv
  <2>3. PICK m : m = flush'[w][i]
    OBVIOUS
  <2>4. FlushDue(w, m)'
    BY <1>2, <1>4, <2>1, <2>2, <2>3
  <2> QED
    BY <2>3, <2>4 DEF FlushDue, Asking
<1> QED
  BY <1>3, <1>4 DEF DueInv

(* A step that adds no request of r leaves it at most one.                 *)
LEMMA SingleFrame ==
  ASSUME NEW r \in Readers, SingleInv(r), SameRequests(r)
  PROVE  SingleInv(r)'
<1> SUFFICES ASSUME NEW v \in Writers, NEW w \in Writers
    PROVE
    /\ \A i \in 1 .. Len(controlQueue'[v]), j \in 1 .. Len(controlQueue'[w]) :
         Request(controlQueue'[v][i], r) /\ Request(controlQueue'[w][j], r)
           => v = w /\ i = j
    /\ \A i \in 1 .. Len(flush'[v]), j \in 1 .. Len(flush'[w]) :
         Request(flush'[v][i], r) /\ Request(flush'[w][j], r) => v = w /\ i = j
    /\ \A i \in 1 .. Len(controlQueue'[v]), j \in 1 .. Len(flush'[w]) :
         ~(Request(controlQueue'[v][i], r) /\ Request(flush'[w][j], r))
  BY DEF SingleInv, Request
<1>1. PICK kv \in {0, 1} : \A i \in 1 .. Len(controlQueue'[v]) :
        Request(controlQueue'[v][i], r) =>
          /\ i + kv \in 1 .. Len(controlQueue[v])
          /\ controlQueue[v][i + kv] = controlQueue'[v][i]
  BY DEF SameRequests, Keeps
<1>2. PICK kw \in {0, 1} : \A i \in 1 .. Len(controlQueue'[w]) :
        Request(controlQueue'[w][i], r) =>
          /\ i + kw \in 1 .. Len(controlQueue[w])
          /\ controlQueue[w][i + kw] = controlQueue'[w][i]
  BY DEF SameRequests, Keeps
<1>3. PICK fv \in {0, 1} : \A i \in 1 .. Len(flush'[v]) :
        Request(flush'[v][i], r) =>
          i + fv \in 1 .. Len(flush[v]) /\ flush[v][i + fv] = flush'[v][i]
  BY DEF SameRequests, Keeps
<1>4. PICK fw \in {0, 1} : \A i \in 1 .. Len(flush'[w]) :
        Request(flush'[w][i], r) =>
          i + fw \in 1 .. Len(flush[w]) /\ flush[w][i + fw] = flush'[w][i]
  BY DEF SameRequests, Keeps
<1>5. ASSUME NEW i \in 1 .. Len(controlQueue'[v]),
             NEW j \in 1 .. Len(controlQueue'[w]),
             Request(controlQueue'[v][i], r), Request(controlQueue'[w][j], r)
      PROVE  v = w /\ i = j
  <2>1. /\ i + kv \in 1 .. Len(controlQueue[v])
        /\ Request(controlQueue[v][i + kv], r)
        /\ j + kw \in 1 .. Len(controlQueue[w])
        /\ Request(controlQueue[w][j + kw], r)
    BY <1>1, <1>2, <1>5
  <2>2. v = w
    BY <2>1 DEF SingleInv
  <2>3. j + kv \in 1 .. Len(controlQueue[v]) /\ Request(controlQueue[v][j + kv], r)
    <3>1. j \in 1 .. Len(controlQueue'[v]) /\ Request(controlQueue'[v][j], r)
      BY <1>5, <2>2
    <3> QED
      BY <1>1, <3>1
  <2>4. i + kv = j + kv
    <3>1. \A a, b \in 1 .. Len(controlQueue[v]) :
            Request(controlQueue[v][a], r) /\ Request(controlQueue[v][b], r) => a = b
      BY DEF SingleInv
    <3> QED
      BY <2>1, <2>3, <3>1
  <2> QED
    BY <2>2, <2>4
<1>6. ASSUME NEW i \in 1 .. Len(flush'[v]), NEW j \in 1 .. Len(flush'[w]),
             Request(flush'[v][i], r), Request(flush'[w][j], r)
      PROVE  v = w /\ i = j
  <2>1. /\ i + fv \in 1 .. Len(flush[v]) /\ Request(flush[v][i + fv], r)
        /\ j + fw \in 1 .. Len(flush[w]) /\ Request(flush[w][j + fw], r)
    BY <1>3, <1>4, <1>6
  <2>2. v = w
    BY <2>1 DEF SingleInv
  <2>3. j + fv \in 1 .. Len(flush[v]) /\ Request(flush[v][j + fv], r)
    <3>1. j \in 1 .. Len(flush'[v]) /\ Request(flush'[v][j], r)
      BY <1>6, <2>2
    <3> QED
      BY <1>3, <3>1
  <2>4. i + fv = j + fv
    <3>1. \A a, b \in 1 .. Len(flush[v]) :
            Request(flush[v][a], r) /\ Request(flush[v][b], r) => a = b
      BY DEF SingleInv
    <3> QED
      BY <2>1, <2>3, <3>1
  <2> QED
    BY <2>2, <2>4
<1>7. ASSUME NEW i \in 1 .. Len(controlQueue'[v]), NEW j \in 1 .. Len(flush'[w]),
             Request(controlQueue'[v][i], r), Request(flush'[w][j], r)
      PROVE  FALSE
  <2>1. /\ i + kv \in 1 .. Len(controlQueue[v])
        /\ Request(controlQueue[v][i + kv], r)
        /\ j + fw \in 1 .. Len(flush[w]) /\ Request(flush[w][j + fw], r)
    BY <1>1, <1>4, <1>7
  <2> QED
    BY <2>1 DEF SingleInv
<1> QED
  BY <1>5, <1>6, <1>7

(* A step that touches nothing of reader r keeps what holds of it.         *)
LEMMA ReaderKeeps ==
  ASSUME NEW r \in Readers, ReaderInv(r), dst \in [Readers -> Writers],
         SameReader(r), SameBridges(r), SameRequests(r)
  PROVE  ReaderInv(r)'
<1>1. DueInv(r)' /\ SingleInv(r)'
  BY DueFrame, SingleFrame DEF ReaderInv
<1>2. BridgeInv(r)'
  BY DEF ReaderInv, BridgeInv, SameReader, SameBridges
<1>3. AwaitInv(r)'
  BY DEF ReaderInv, AwaitInv, SameReader, SameBridges
<1>4. OpenInv(r)'
  BY DEF ReaderInv, OpenInv, SameReader
<1> QED
  BY <1>1, <1>2, <1>3, <1>4 DEF ReaderInv

-----------------------------------------------------------------------------
(* Requests under way.                                                     *)

(* The messages in the queues of a well typed state.                       *)
LEMMA MessageTypes ==
  ASSUME TypeInv, NEW w \in Writers
  PROVE  /\ controlQueue[w] \in Seq(ControlMsgs)
         /\ flush[w] \in Seq(FlushMsgs)
         /\ \A i \in 1 .. Len(controlQueue[w]) :
              controlQueue[w][i].type \in {"OPEN", "CLOSE", "VAR", "DATA_FLUSH"}
         /\ \A i \in 1 .. Len(flush[w]) :
              flush[w][i].type \in {"DATA", "EVGROUP", "STEP"}
<1>1. controlQueue[w] \in Seq(ControlMsgs) /\ flush[w] \in Seq(FlushMsgs)
  BY DEF TypeInv, TypeOK, StoneTypeOK, ControlTypeOK
<1>2. \A i \in 1 .. Len(controlQueue[w]) : controlQueue[w][i] \in ControlMsgs
  BY <1>1
<1>3. \A i \in 1 .. Len(flush[w]) : flush[w][i] \in FlushMsgs
  BY <1>1
<1> QED
  BY <1>1, <1>2, <1>3 DEF ControlMsgs, FlushMsgs

(* A reader whose condition is signalled, or that waits for nothing, has   *)
(* no request under way.                                                   *)
LEMMA QuietWhen ==
  ASSUME TypeInv, NEW r \in Readers, ReaderInv(r),
         \/ cond[r]
         \/ /\ awaiting[r] = "nothing"
            /\ rpc[r] \notin {"fetch", "group", "perform sent", "perform wait",
                              "poll wait"}
  PROVE  Quiet(r)
<1>1. ASSUME NEW w \in Writers, NEW i \in 1 .. Len(controlQueue[w]),
             Request(controlQueue[w][i], r)
      PROVE  FALSE
  <2>1. ControlDue(w, controlQueue[w][i])
    BY <1>1 DEF ReaderInv, DueInv
  <2>2. controlQueue[w][i].type \in {"OPEN", "CLOSE", "VAR", "DATA_FLUSH"}
    BY MessageTypes
  <2> QED
    BY <1>1, <2>1, <2>2 DEF Request, ControlDue, Asking
<1>2. ASSUME NEW w \in Writers, NEW i \in 1 .. Len(flush[w]),
             Request(flush[w][i], r)
      PROVE  FALSE
  <2>1. FlushDue(w, flush[w][i])
    BY <1>2 DEF ReaderInv, DueInv
  <2>2. flush[w][i].type \in {"DATA", "EVGROUP", "STEP"}
    BY MessageTypes
  <2> QED
    BY <1>2, <2>1, <2>2 DEF Request, FlushDue, Asking
<1> QED
  BY <1>1, <1>2 DEF Quiet

(* A step that adds no request of r leaves it quiet.                       *)
LEMMA QuietKeeps ==
  ASSUME NEW r \in Readers, Quiet(r), SameRequests(r)
  PROVE  Quiet(r)'
<1>1. ASSUME NEW w \in Writers, NEW i \in 1 .. Len(controlQueue'[w]),
             Request(controlQueue'[w][i], r)
      PROVE  FALSE
  BY <1>1 DEF SameRequests, Keeps, Quiet
<1>2. ASSUME NEW w \in Writers, NEW i \in 1 .. Len(flush'[w]),
             Request(flush'[w][i], r)
      PROVE  FALSE
  BY <1>2 DEF SameRequests, Keeps, Quiet
<1> QED
  BY <1>1, <1>2 DEF Quiet, Request

(* A reader without a request under way has none that is not due.          *)
LEMMA QuietDue ==
  ASSUME NEW r \in Readers, Quiet(r)'
  PROVE  DueInv(r)' /\ SingleInv(r)'
<1>1. \A w \in Writers : \A i \in 1 .. Len(controlQueue'[w]) :
        ~Request(controlQueue'[w][i], r)
  BY DEF Quiet, Request
<1>2. \A w \in Writers : \A i \in 1 .. Len(flush'[w]) : ~Request(flush'[w][i], r)
  BY DEF Quiet, Request
<1>3. DueInv(r)'
  BY <1>1, <1>2 DEF DueInv, Request
<1>4. SingleInv(r)'
  BY <1>1, <1>2 DEF SingleInv, Request
<1> QED
  BY <1>3, <1>4

(* A reader whose only request is one that is due, in a control queue.     *)
LEMMA OnlyControlDue ==
  ASSUME NEW r \in Readers, NEW v \in Writers, NEW m, OnlyControl(r, v, m)',
         ControlDue(v, m)'
  PROVE  DueInv(r)' /\ SingleInv(r)'
<1>1. \A w \in Writers : \A i \in 1 .. Len(controlQueue'[w]) :
        Request(controlQueue'[w][i], r) =>
          w = v /\ i = Len(controlQueue'[v]) /\ controlQueue'[w][i] = m
  BY DEF OnlyControl, Request
<1>2. \A w \in Writers : \A i \in 1 .. Len(flush'[w]) : ~Request(flush'[w][i], r)
  BY DEF OnlyControl, Request
<1>3. ASSUME NEW w \in Writers, NEW i \in 1 .. Len(controlQueue'[w]),
             Request(controlQueue'[w][i], r)
      PROVE  ControlDue(w, controlQueue[w][i])'
  <2>1. w = v /\ controlQueue'[w][i] = m
    BY <1>1, <1>3
  <2> QED
    BY <2>1 DEF ControlDue, Asking
<1>4. DueInv(r)'
  BY <1>2, <1>3 DEF DueInv, Request
<1>5. SingleInv(r)'
  BY <1>1, <1>2 DEF SingleInv, Request
<1> QED
  BY <1>4, <1>5

(* The same for a flush message.                                           *)
LEMMA OnlyFlushDue ==
  ASSUME NEW r \in Readers, NEW v \in Writers, NEW m, OnlyFlush(r, v, m)',
         FlushDue(v, m)'
  PROVE  DueInv(r)' /\ SingleInv(r)'
<1>1. \A w \in Writers : \A i \in 1 .. Len(flush'[w]) :
        Request(flush'[w][i], r) =>
          w = v /\ i = Len(flush'[v]) /\ flush'[w][i] = m
  BY DEF OnlyFlush, Request
<1>2. \A w \in Writers : \A i \in 1 .. Len(controlQueue'[w]) :
        ~Request(controlQueue'[w][i], r)
  BY DEF OnlyFlush, Request
<1>3. ASSUME NEW w \in Writers, NEW i \in 1 .. Len(flush'[w]),
             Request(flush'[w][i], r)
      PROVE  FlushDue(w, flush[w][i])'
  <2>1. w = v /\ flush'[w][i] = m
    BY <1>1, <1>3
  <2> QED
    BY <2>1 DEF FlushDue, Asking
<1>4. DueInv(r)'
  BY <1>2, <1>3 DEF DueInv, Request
<1>5. SingleInv(r)'
  BY <1>1, <1>2 DEF SingleInv, Request
<1> QED
  BY <1>4, <1>5

(* A reader with no request under way sends one.                           *)
LEMMA SentControl ==
  ASSUME TypeInv, NEW r \in Readers, NEW v \in Writers, NEW m \in ControlMsgs,
         Quiet(r), UNCHANGED flush,
         controlQueue' = [controlQueue EXCEPT ![v] = Append(@, m)]
  PROVE  OnlyControl(r, v, m)'
<1>a. controlQueue \in [Writers -> Seq(ControlMsgs)]
  BY DEF TypeInv, TypeOK, ControlTypeOK
<1>1. ASSUME NEW w \in Writers, NEW i \in 1 .. Len(controlQueue'[w]),
             Request(controlQueue'[w][i], r)
      PROVE  w = v /\ i = Len(controlQueue'[v]) /\ controlQueue'[w][i] = m
  <2>1. CASE w = v
    <3>1. controlQueue'[w] = Append(controlQueue[w], m)
      BY <1>a, <2>1
    <3>2. Len(controlQueue'[w]) = Len(controlQueue[w]) + 1
      BY <3>1, <1>a
    <3>3. \/ i \in 1 .. Len(controlQueue[w]) /\ controlQueue'[w][i] = controlQueue[w][i]
          \/ i = Len(controlQueue[w]) + 1 /\ controlQueue'[w][i] = m
      BY <3>1, <1>a, AppendElement
    <3> QED
      BY <1>1, <2>1, <3>2, <3>3 DEF Quiet
  <2>2. CASE w # v
    <3>1. controlQueue'[w] = controlQueue[w]
      BY <1>a, <2>2
    <3> QED
      BY <1>1, <3>1 DEF Quiet
  <2> QED
    BY <2>1, <2>2
<1>2. \A w \in Writers : \A i \in 1 .. Len(flush'[w]) : ~Request(flush'[w][i], r)
  BY DEF Quiet
<1> QED
  BY <1>1, <1>2 DEF OnlyControl, Request

(* After a quiet reader's flush message that one is its only request.      *)
LEMMA SentFlush ==
  ASSUME TypeInv, NEW r \in Readers, NEW v \in Writers, NEW m \in FlushMsgs,
         Quiet(r), UNCHANGED controlQueue,
         flush' = [flush EXCEPT ![v] = Append(@, m)]
  PROVE  OnlyFlush(r, v, m)'
<1>a. flush \in [Writers -> Seq(FlushMsgs)]
  BY DEF TypeInv, TypeOK, StoneTypeOK
<1>1. ASSUME NEW w \in Writers, NEW i \in 1 .. Len(flush'[w]),
             Request(flush'[w][i], r)
      PROVE  w = v /\ i = Len(flush'[v]) /\ flush'[w][i] = m
  <2>1. CASE w = v
    <3>1. flush'[w] = Append(flush[w], m)
      BY <1>a, <2>1
    <3>2. Len(flush'[w]) = Len(flush[w]) + 1
      BY <3>1, <1>a
    <3>3. \/ i \in 1 .. Len(flush[w]) /\ flush'[w][i] = flush[w][i]
          \/ i = Len(flush[w]) + 1 /\ flush'[w][i] = m
      BY <3>1, <1>a, AppendElement
    <3> QED
      BY <1>1, <2>1, <3>2, <3>3 DEF Quiet
  <2>2. CASE w # v
    <3>1. flush'[w] = flush[w]
      BY <1>a, <2>2
    <3> QED
      BY <1>1, <3>1 DEF Quiet
  <2> QED
    BY <2>1, <2>2
<1>2. \A w \in Writers : \A i \in 1 .. Len(controlQueue'[w]) :
        ~Request(controlQueue'[w][i], r)
  BY DEF Quiet
<1> QED
  BY <1>1, <1>2 DEF OnlyFlush, Request

(* The control thread takes the request of a reader.                       *)
LEMMA TookControl ==
  ASSUME TypeInv, NEW r \in Readers, NEW v \in Writers, SingleInv(r),
         controlQueue[v] # <<>>, Request(Head(controlQueue[v]), r),
         UNCHANGED flush,
         controlQueue' = [controlQueue EXCEPT ![v] = Tail(@)]
  PROVE  Quiet(r)'
<1>a. controlQueue \in [Writers -> Seq(ControlMsgs)]
  BY DEF TypeInv, TypeOK, ControlTypeOK
<1>b. 1 \in 1 .. Len(controlQueue[v]) /\ Request(controlQueue[v][1], r)
  BY <1>a
<1>1. ASSUME NEW w \in Writers, NEW i \in 1 .. Len(controlQueue'[w]),
             Request(controlQueue'[w][i], r)
      PROVE  FALSE
  <2>1. CASE w = v
    <3>1. controlQueue'[w] = Tail(controlQueue[w])
      BY <1>a, <2>1
    <3>2. /\ i + 1 \in 1 .. Len(controlQueue[w])
          /\ controlQueue'[w][i] = controlQueue[w][i + 1]
      BY <3>1, <2>1, <1>a, TailElement
    <3>3. i + 1 = 1
      BY <1>b, <1>1, <2>1, <3>2 DEF SingleInv
    <3> QED
      BY <3>3
  <2>2. CASE w # v
    <3>1. controlQueue'[w] = controlQueue[w]
      BY <1>a, <2>2
    <3> QED
      BY <1>b, <1>1, <2>2, <3>1 DEF SingleInv
  <2> QED
    BY <2>1, <2>2
<1>2. \A w \in Writers : \A i \in 1 .. Len(flush'[w]) : ~Request(flush'[w][i], r)
  BY <1>b DEF SingleInv
<1> QED
  BY <1>1, <1>2 DEF Quiet, Request

(* The stone takes the flush message of a reader.                          *)
LEMMA TookFlush ==
  ASSUME TypeInv, NEW r \in Readers, NEW v \in Writers, SingleInv(r),
         flush[v] # <<>>, Request(Head(flush[v]), r),
         flush' = [flush EXCEPT ![v] = Tail(@)]
  PROVE  /\ \A w \in Writers : \A i \in 1 .. Len(controlQueue[w]) :
              ~Request(controlQueue[w][i], r)
         /\ \A w \in Writers : \A i \in 1 .. Len(flush'[w]) :
              ~Request(flush'[w][i], r)
<1>a. flush \in [Writers -> Seq(FlushMsgs)]
  BY DEF TypeInv, TypeOK, StoneTypeOK
<1>b. 1 \in 1 .. Len(flush[v]) /\ Request(flush[v][1], r)
  BY <1>a
<1>1. ASSUME NEW w \in Writers, NEW i \in 1 .. Len(flush'[w]),
             Request(flush'[w][i], r)
      PROVE  FALSE
  <2>1. CASE w = v
    <3>1. flush'[w] = Tail(flush[w])
      BY <1>a, <2>1
    <3>2. i + 1 \in 1 .. Len(flush[w]) /\ flush'[w][i] = flush[w][i + 1]
      BY <3>1, <2>1, <1>a, TailElement
    <3>3. i + 1 = 1
      BY <1>b, <1>1, <2>1, <3>2 DEF SingleInv
    <3> QED
      BY <3>3
  <2>2. CASE w # v
    <3>1. flush'[w] = flush[w]
      BY <1>a, <2>2
    <3> QED
      BY <1>b, <1>1, <2>2, <3>1 DEF SingleInv
  <2> QED
    BY <2>1, <2>2
<1>2. \A w \in Writers : \A i \in 1 .. Len(controlQueue[w]) :
        ~Request(controlQueue[w][i], r)
  BY <1>b DEF SingleInv
<1> QED
  BY <1>1, <1>2

-----------------------------------------------------------------------------
(* Frames.                                                                 *)

(* What a step may do to the queues without touching q's requests.         *)
LEMMA QueueFrame ==
  ASSUME TypeInv, NEW q \in Readers,
         \A w \in Writers :
           \/ controlQueue'[w] = controlQueue[w]
           \/ controlQueue[w] # <<>> /\ controlQueue'[w] = Tail(controlQueue[w])
           \/ \E m \in ControlMsgs : /\ ~Request(m, q)
                                     /\ controlQueue'[w] = Append(controlQueue[w], m),
         \A w \in Writers :
           \/ flush'[w] = flush[w]
           \/ flush[w] # <<>> /\ flush'[w] = Tail(flush[w])
           \/ \E m \in FlushMsgs : /\ ~Request(m, q)
                                   /\ flush'[w] = Append(flush[w], m)
  PROVE  SameRequests(q)
<1> SUFFICES ASSUME NEW w \in Writers
             PROVE  /\ Keeps(controlQueue[w], controlQueue'[w], q)
                    /\ Keeps(flush[w], flush'[w], q)
  BY DEF SameRequests
<1>a. controlQueue[w] \in Seq(ControlMsgs) /\ flush[w] \in Seq(FlushMsgs)
  BY MessageTypes
<1>1. Keeps(controlQueue[w], controlQueue'[w], q)
  <2>1. CASE controlQueue'[w] = controlQueue[w]
    BY <2>1, KeepsSame
  <2>2. CASE controlQueue[w] # <<>> /\ controlQueue'[w] = Tail(controlQueue[w])
    BY <2>2, <1>a, KeepsTail
  <2>3. ASSUME NEW m \in ControlMsgs, ~Request(m, q),
               controlQueue'[w] = Append(controlQueue[w], m)
        PROVE  Keeps(controlQueue[w], controlQueue'[w], q)
    BY <2>3, <1>a, KeepsAppend
  <2> QED
    BY <2>1, <2>2, <2>3
<1>2. Keeps(flush[w], flush'[w], q)
  <2>1. CASE flush'[w] = flush[w]
    BY <2>1, KeepsSame
  <2>2. CASE flush[w] # <<>> /\ flush'[w] = Tail(flush[w])
    BY <2>2, <1>a, KeepsTail
  <2>3. ASSUME NEW m \in FlushMsgs, ~Request(m, q),
               flush'[w] = Append(flush[w], m)
        PROVE  Keeps(flush[w], flush'[w], q)
    BY <2>3, <1>a, KeepsAppend
  <2> QED
    BY <2>1, <2>2, <2>3
<1> QED
  BY <1>1, <1>2

(* The reader whose CLOSE is being processed, when nothing about it or     *)
(* about the writer's bridges changes.                                     *)
LEMMA CloserKeeps ==
  ASSUME NEW w \in Writers, CloserInv(w), cpc'[w] = "idle" <=> cpc[w] = "idle",
         closer'[w] = closer[w], readerStep'[w] = readerStep[w],
         bridgeOpened'[w] = bridgeOpened[w],
         cpc[w] # "idle" => SameReader(closer[w])
  PROVE  CloserInv(w)'
  BY DEF CloserInv, SameReader

(* A reader acts only when it waits for nothing or has been answered, so   *)
(* it is not the one whose CLOSE is being processed.                       *)
LEMMA ReaderActs ==
  ASSUME TypeInv, ProtocolInv, NEW r \in Readers, UNCHANGED WriterSide,
         \A q \in Readers : q # r => SameReader(q) /\ SameRequests(q),
         awaiting[r] = "nothing" \/ cond[r],
         mystep' = mystep, rpc'[r] \in Late <=> rpc[r] \in Late,
         ReaderInv(r)'
  PROVE  ProtocolInv'
<1>a. dst \in [Readers -> Writers]
  BY DEF TypeInv, TypeOK, ReaderTypeOK
<1>b. UNCHANGED <<cpc, closer, readerStep, openCount, bridgeOpened>>
  BY DEF WriterSide
<1>1. ASSUME NEW q \in Readers PROVE ReaderInv(q)'
  <2>1. CASE q = r
    BY <2>1
  <2>2. CASE q # r
    <3>1. SameBridges(q)
      BY <1>b DEF SameBridges
    <3> QED
      BY <2>2, <3>1, <1>a, ReaderKeeps DEF ProtocolInv
  <2> QED
    BY <2>1, <2>2
<1>2. ASSUME NEW w \in Writers PROVE CloserInv(w)'
  <2>1. cpc[w] # "idle" => closer[w] \in Readers /\ closer[w] # r
    BY DEF ProtocolInv, CloserInv
  <2> QED
    BY <2>1, <1>b, CloserKeeps DEF ProtocolInv
<1>3. \A q \in Readers : rpc'[q] \in Late <=> rpc[q] \in Late
  BY DEF SameReader
<1>4. TogetherInv'
  BY <1>3 DEF ProtocolInv, TogetherInv
<1>5. OpenCountExact'
  BY <1>b DEF ProtocolInv, OpenCountExact
<1> QED
  BY <1>1, <1>2, <1>4, <1>5 DEF ProtocolInv

-----------------------------------------------------------------------------
(* The acting reader.                                                      *)

(* A step of a reader with no request under way that sends none.           *)
LEMMA LocalStep ==
  ASSUME TypeInv, NEW r \in Readers, ReaderInv(r), Quiet(r), SameRequests(r),
         awaiting[r] = "nothing", awaiting'[r] = "nothing",
         UNCHANGED <<bridgeOpened, readerStep>>, mystep'[r] = mystep[r],
         opened'[r] = opened[r], OpenInv(r)'
  PROVE  ReaderInv(r)'
<1>1. DueInv(r)' /\ SingleInv(r)'
  BY QuietKeeps, QuietDue
<1>2. BridgeInv(r)'
  BY DEF ReaderInv, BridgeInv
<1>3. AwaitInv(r)'
  BY DEF AwaitInv
<1> QED
  BY <1>1, <1>2, <1>3 DEF ReaderInv

(* send_open_msg and send_close_msg.                                       *)
LEMMA OpSent ==
  ASSUME TypeInv, NEW r \in Readers, ReaderInv(r), NEW v \in Writers,
         NEW type \in {"OPEN", "CLOSE"}, SendOp(r, v, type),
         awaiting[r] = "nothing",
         type = "OPEN" => /\ rpc[r] \in {"open", "schedule", "release", "reopen"}
                          /\ v \notin opened[r],
         type = "CLOSE" => /\ rpc[r] \in {"close", "end of stream"}
                           /\ v \in opened[r],
         UNCHANGED <<WriterSide, flush, rpc, mystep, opened, sendees>>
  PROVE  ReaderInv(r)'
<1>a. /\ awaiting \in [Readers -> {"nothing", "OPEN", "CLOSE"}]
      /\ dst \in [Readers -> Writers] /\ cond \in [Readers -> BOOLEAN]
      /\ created \in [Readers -> SUBSET Writers]
      /\ mystep \in [Readers -> Nat]
  BY DEF TypeInv, TypeOK, ReaderTypeOK
<1>b. /\ awaiting'[r] = type /\ dst'[r] = v /\ ~cond'[r]
      /\ created'[r] = created[r] \cup {v}
      /\ UNCHANGED <<bridgeOpened, readerStep, rpc, mystep, opened, sendees>>
  BY <1>a DEF SendOp, WriterSide
<1>c. PICK m \in ControlMsgs : m = [type |-> type, from |-> r, step |-> mystep[r]]
  BY <1>a DEF ControlMsgs
<1>d. m.type = type /\ m.from = r /\ m.step = mystep[r]
  BY <1>c
<1>1. BridgeInv(r)'
  BY <1>b DEF ReaderInv, BridgeInv
<1>2. AwaitInv(r)'
  BY <1>b DEF AwaitInv
<1>3. OpenInv(r)'
  BY <1>b DEF ReaderInv, OpenInv
<1>4. Quiet(r)
  BY QuietWhen
<1>5. OnlyControl(r, v, m)'
  <2>1. controlQueue' = [controlQueue EXCEPT ![v] = Append(@, m)]
    BY <1>c DEF SendOp
  <2> QED
    BY <1>4, <2>1, SentControl
<1>6. ControlDue(v, m)'
  <2>1. type = "CLOSE" => r \in bridgeOpened'[v]
    BY <1>b DEF ReaderInv, BridgeInv
  <2> QED
    BY <1>b, <1>d, <2>1 DEF ControlDue
<1>7. DueInv(r)' /\ SingleInv(r)'
  BY <1>5, <1>6, OnlyControlDue
<1> QED
  BY <1>1, <1>2, <1>3, <1>7 DEF ReaderInv

(* send_flush_msg.                                                         *)
LEMMA FlushSent ==
  ASSUME TypeInv, NEW r \in Readers, ReaderInv(r), NEW v \in Writers,
         NEW type \in {"DATA", "EVGROUP", "STEP"}, SendFlush(r, v, type),
         awaiting[r] = "nothing", Quiet(r),
         type = "DATA" => Asking(r, v)',
         type = "EVGROUP" => rpc'[r] = "group" /\ v = Coordinator(r),
         type = "STEP" => rpc'[r] = "poll wait",
         ~cond'[r], OpenInv(r)',
         UNCHANGED <<WriterSide, controlQueue, awaiting, mystep, opened>>
  PROVE  ReaderInv(r)'
<1>b. UNCHANGED <<bridgeOpened, readerStep, awaiting, mystep, opened>>
  BY DEF WriterSide
<1>c. PICK m \in FlushMsgs : m = [type |-> type, from |-> r]
  BY DEF FlushMsgs
<1>d. m.type = type /\ m.from = r
  BY <1>c
<1>1. BridgeInv(r)'
  BY <1>b DEF ReaderInv, BridgeInv
<1>2. AwaitInv(r)'
  BY <1>b DEF AwaitInv
<1>5. OnlyFlush(r, v, m)'
  <2>1. flush' = [flush EXCEPT ![v] = Append(@, m)]
    BY <1>c DEF SendFlush
  <2> QED
    BY <2>1, SentFlush
<1>6. FlushDue(v, m)'
  BY <1>d DEF FlushDue, Asking
<1>7. DueInv(r)' /\ SingleInv(r)'
  BY <1>5, <1>6, OnlyFlushDue
<1> QED
  BY <1>1, <1>2, <1>7 DEF ReaderInv

(* The queues after a step that leaves them, after an operation and after  *)
(* a flush message has been sent.                                          *)
LEMMA QueuesUnchanged ==
  ASSUME TypeInv, NEW q \in Readers, UNCHANGED <<flush, controlQueue>>
  PROVE  SameRequests(q)
  BY QueueFrame

(* An OPEN or CLOSE of r is nothing to the other readers.                  *)
LEMMA OpSentOthers ==
  ASSUME TypeInv, NEW r \in Readers, NEW v \in Writers,
         NEW type \in {"OPEN", "CLOSE"}, SendOp(r, v, type), UNCHANGED flush,
         NEW q \in Readers, q # r
  PROVE  SameRequests(q)
<1>1. PICK m \in ControlMsgs : m = [type |-> type, from |-> r, step |-> mystep[r]]
  <2>1. mystep[r] \in Nat
    BY DEF TypeInv, TypeOK, ReaderTypeOK
  <2> QED
    BY <2>1 DEF ControlMsgs
<1>2. ~Request(m, q)
  BY <1>1 DEF Request
<1>3. \A w \in Writers :
        \/ controlQueue'[w] = controlQueue[w]
        \/ controlQueue'[w] = Append(controlQueue[w], m)
  BY <1>1 DEF SendOp, TypeInv, TypeOK, ControlTypeOK
<1> QED
  BY <1>2, <1>3, QueueFrame

(* Nor is its flush message.                                               *)
LEMMA FlushSentOthers ==
  ASSUME TypeInv, NEW r \in Readers, NEW v \in Writers,
         NEW type \in {"DATA", "EVGROUP", "STEP"}, SendFlush(r, v, type),
         UNCHANGED controlQueue, NEW q \in Readers, q # r
  PROVE  SameRequests(q)
<1>1. PICK m \in FlushMsgs : m = [type |-> type, from |-> r]
  BY DEF FlushMsgs
<1>2. ~Request(m, q)
  BY <1>1 DEF Request
<1>3. \A w \in Writers :
        flush'[w] = flush[w] \/ flush'[w] = Append(flush[w], m)
  BY <1>1 DEF SendFlush, TypeInv, TypeOK, StoneTypeOK
<1> QED
  BY <1>2, <1>3, QueueFrame

(* Every step of a reader keeps the protocol invariant.                    *)
LEMMA ReaderStepProtocol ==
  ASSUME TypeInv, ProtocolInv, NEW r \in Readers, ReaderStep(r)
  PROVE  ProtocolInv'
<1>a. /\ DOMAIN rpc = Readers /\ DOMAIN mystep = Readers
      /\ awaiting \in [Readers -> {"nothing", "OPEN", "CLOSE"}]
      /\ dst \in [Readers -> Writers]
      /\ cond \in [Readers -> BOOLEAN]
      /\ created \in [Readers -> SUBSET Writers]
      /\ opened \in [Readers -> SUBSET Writers]
      /\ need \in [Readers -> SUBSET Writers]
      /\ sendees \in [Readers -> Seq(Writers)]
  BY DEF TypeInv, TypeOK, ReaderTypeOK, RequestTypeOK
<1>b. ReaderInv(r) /\ AwaitInv(r) /\ OpenInv(r) /\ BridgeInv(r)
  BY DEF ProtocolInv, ReaderInv
<1>c. Coordinator(r) \in Writers
  BY BridgesExist
<1>1. CASE OpAcknowledged(r)
  <2>1. /\ \A q \in Readers : q # r => SameReader(q)
        /\ UNCHANGED <<WriterSide, flush, controlQueue, rpc, mystep, sendees,
                       created>>
        /\ cond[r] /\ ~cond'[r] /\ awaiting'[r] = "nothing"
    BY <1>1, <1>a DEF OpAcknowledged, SameReader
  <2>2. UNCHANGED <<bridgeOpened, readerStep>>
    BY <2>1 DEF WriterSide
  <2>3. \A q \in Readers : SameRequests(q)
    BY <2>1, QueuesUnchanged
  <2>4. Quiet(r)
    BY <2>1, <1>b, QuietWhen
  <2>5. DueInv(r)' /\ SingleInv(r)'
    BY <2>3, <2>4, QuietKeeps, QuietDue
  <2>6. BridgeInv(r)' /\ OpenInv(r)'
    <3>1. CASE awaiting[r] = "OPEN"
      <4>1. opened'[r] = opened[r] \cup {dst[r]} /\ dst[r] \in Writers
        BY <1>1, <3>1, <1>a DEF OpAcknowledged
      <4>2. BridgeInv(r)'
        BY <4>1, <2>1, <2>2, <3>1, <1>b DEF BridgeInv, AwaitInv
      <4>3. OpenInv(r)'
        BY <4>1, <2>1, <3>1, <1>b DEF OpenInv, AwaitInv
      <4> QED
        BY <4>2, <4>3
    <3>2. CASE awaiting[r] = "CLOSE"
      <4>1. opened'[r] = opened[r] \ {dst[r]} /\ dst[r] \in Writers
        BY <1>1, <3>2, <1>a DEF OpAcknowledged
      <4>2. BridgeInv(r)'
        BY <4>1, <2>1, <2>2, <3>2, <1>b DEF BridgeInv, AwaitInv
      <4>3. sendees'[r] = <<>>
        BY <2>1, <3>2, <1>b DEF OpenInv, AwaitInv
      <4>4. 1 .. Len(sendees'[r]) = {}
        BY <4>3
      <4>5. rpc'[r] \in {"close", "end of stream"}
        BY <2>1, <3>2, <1>b DEF AwaitInv
      <4>6. OpenInv(r)'
        BY <4>3, <4>4, <4>5, <2>1, <1>b DEF OpenInv
      <4> QED
        BY <4>2, <4>6
    <3> QED
      BY <3>1, <3>2, <1>1 DEF OpAcknowledged
  <2>7. AwaitInv(r)'
    BY <2>1 DEF AwaitInv
  <2>8. ReaderInv(r)'
    BY <2>5, <2>6, <2>7 DEF ReaderInv
  <2> QED
    BY <2>1, <2>3, <2>8, ReaderActs
<1>s. ASSUME NEW v \in Writers, NEW type \in {"OPEN", "CLOSE"},
             SendOp(r, v, type), awaiting[r] = "nothing",
             type = "OPEN" => /\ rpc[r] \in {"open", "schedule", "release", "reopen"}
                              /\ v \notin opened[r],
             type = "CLOSE" => /\ rpc[r] \in {"close", "end of stream"}
                               /\ v \in opened[r],
             UNCHANGED <<WriterSide, flush, rpc, mystep, opened, sendees>>
      PROVE  ProtocolInv'
  <2>1. ReaderInv(r)'
    BY <1>s, <1>b, OpSent
  <2>2. \A q \in Readers : q # r => SameReader(q)
    BY <1>s, <1>a DEF SendOp, SameReader
  <2>3. \A q \in Readers : q # r => SameRequests(q)
    BY <1>s, OpSentOthers
  <2> QED
    BY <1>s, <2>1, <2>2, <2>3, ReaderActs
<1>2. CASE OpenNext(r)
  <2>1. Min(ToOpen(r)) \in ToOpen(r) /\ Min(ToOpen(r)) \in Writers
    <3>1. ToOpen(r) \in SUBSET Writers /\ ToOpen(r) # {}
      BY <1>2, ToOpenType DEF TypeInv, OpenNext
    <3> QED
      BY <3>1, MinInSet
  <2>2. Min(ToOpen(r)) \notin opened[r]
    BY <2>1 DEF ToOpen
  <2> QED
    BY <1>2, <2>1, <2>2, <1>s DEF OpenNext
<1>3. CASE VarOpen(r)
  <2>1. Min(need[r]) \in Writers
    BY <1>3, <1>a, MinInSet DEF VarOpen
  <2> QED
    BY <1>3, <2>1, <1>s DEF VarOpen, At
<1>4. CASE CloseNext(r)
  <2>1. Min(opened[r]) \in opened[r] /\ Min(opened[r]) \in Writers
    BY <1>4, <1>a, MinInSet DEF CloseNext
  <2> QED
    BY <1>4, <2>1, <1>s DEF CloseNext
<1>f. ASSUME NEW v \in Writers, NEW type \in {"DATA", "EVGROUP", "STEP"},
             SendFlush(r, v, type), awaiting[r] = "nothing",
             \/ cond[r]
             \/ rpc[r] \notin {"fetch", "group", "perform sent", "perform wait",
                               "poll wait"},
             NEW l, rpc' = [rpc EXCEPT ![r] = l], l \in Late <=> rpc[r] \in Late,
             type = "DATA" => Asking(r, v)',
             type = "EVGROUP" => l = "group" /\ v = Coordinator(r),
             type = "STEP" => l = "poll wait",
             ~cond'[r], OpenInv(r)',
             \A q \in Readers : q # r => SameReader(q),
             UNCHANGED <<WriterSide, controlQueue, awaiting, mystep, opened>>
      PROVE  ProtocolInv'
  <2>1. rpc'[r] = l
    BY <1>f, <1>a
  <2>2. Quiet(r)
    BY <1>f, <1>b, QuietWhen
  <2>3. ReaderInv(r)'
    BY <1>f, <1>b, <2>1, <2>2, FlushSent
  <2>4. \A q \in Readers : q # r => SameRequests(q)
    BY <1>f, FlushSentOthers
  <2> QED
    BY <1>f, <2>1, <2>3, <2>4, ReaderActs
<1>5. CASE Fetch(r)
  <2>1. /\ rpc[r] \in {"open", "reopen"} /\ awaiting[r] = "nothing"
        /\ rpc' = [rpc EXCEPT ![r] = "fetch"] /\ rpc'[r] = "fetch"
        /\ ~cond'[r] /\ SendFlush(r, Coordinator(r), "DATA")
        /\ \A q \in Readers : q # r => SameReader(q)
        /\ UNCHANGED <<WriterSide, controlQueue, awaiting, mystep, opened,
                       created, sendees>>
    BY <1>5, <1>a DEF Fetch, Goto, SameReader
  <2>2. Coordinator(r) \in opened[r]
    BY <1>5, <1>b DEF Fetch, ToOpen, OpenInv
  <2>3. OpenInv(r)'
    BY <2>1, <2>2, <1>b DEF OpenInv
  <2>4. Asking(r, Coordinator(r))'
    BY <2>1 DEF Asking
  <2> QED
    BY <2>1, <2>3, <2>4, <1>c, <1>f DEF Late
<1>6. CASE FetchGroup(r)
  <2>1. /\ rpc[r] = "fetch" /\ awaiting[r] = "nothing" /\ cond[r]
        /\ rpc' = [rpc EXCEPT ![r] = "group"] /\ rpc'[r] = "group"
        /\ ~cond'[r] /\ SendFlush(r, Coordinator(r), "EVGROUP")
        /\ \A q \in Readers : q # r => SameReader(q)
        /\ UNCHANGED <<WriterSide, controlQueue, awaiting, mystep, opened,
                       created, sendees>>
    BY <1>6, <1>a DEF FetchGroup, At, Goto, SameReader
  <2>2. OpenInv(r)'
    BY <2>1, <1>b DEF OpenInv
  <2> QED
    BY <2>1, <2>2, <1>c, <1>f DEF Late
<1>7. CASE PerformSend(r)
  <2>1. /\ rpc[r] = "perform" /\ awaiting[r] = "nothing"
        /\ rpc' = [rpc EXCEPT ![r] = "perform sent"] /\ rpc'[r] = "perform sent"
        /\ SendFlush(r, Head(sendees[r]), "DATA")
        /\ \A q \in Readers : q # r => SameReader(q)
        /\ UNCHANGED <<WriterSide, controlQueue, awaiting, mystep, opened,
                       created, sendees, cond>>
    BY <1>7, <1>a DEF PerformSend, At, Goto, SameReader
  <2>2. OpenInv(r)' /\ ~cond'[r]
    BY <2>1, <1>b DEF OpenInv
  <2>3. Asking(r, Head(sendees[r]))'
    BY <2>1 DEF Asking
  <2>4. PICK v \in Writers : v = Head(sendees[r])
    BY <1>7, <1>a, HeadTailType DEF PerformSend
  <2>5. Asking(r, v)' /\ SendFlush(r, v, "DATA")
    BY <2>1, <2>3, <2>4 DEF Asking
  <2> QED
    BY <2>1, <2>2, <2>5, <1>f DEF Late
<1>8. CASE PollSend(r)
  <2>1. /\ rpc[r] = "poll" /\ awaiting[r] = "nothing"
        /\ rpc' = [rpc EXCEPT ![r] = "poll wait"] /\ rpc'[r] = "poll wait"
        /\ ~cond'[r] /\ SendFlush(r, Coordinator(r), "STEP")
        /\ \A q \in Readers : q # r => SameReader(q)
        /\ UNCHANGED <<WriterSide, controlQueue, awaiting, mystep, opened,
                       created, sendees>>
    BY <1>8, <1>a DEF PollSend, At, Goto, SameReader
  <2>2. OpenInv(r)'
    BY <2>1, <1>b DEF OpenInv
  <2> QED
    BY <2>1, <2>2, <1>c, <1>f DEF Late
<1>l. ASSUME awaiting[r] = "nothing", UNCHANGED <<WriterSide, awaiting, mystep>>,
             \/ cond[r]
             \/ rpc[r] \notin {"fetch", "group", "perform sent", "perform wait",
                               "poll wait"},
             rpc'[r] \in Late <=> rpc[r] \in Late, opened'[r] = opened[r],
             \A q \in Readers : q # r => SameReader(q),
             \A q \in Readers : SameRequests(q),
             OpenInv(r)'
      PROVE  ProtocolInv'
  <2>1. Quiet(r)
    BY <1>l, <1>b, QuietWhen
  <2>2. UNCHANGED <<bridgeOpened, readerStep>>
    BY <1>l DEF WriterSide
  <2>3. ReaderInv(r)'
    BY <1>l, <1>b, <2>1, <2>2, LocalStep
  <2> QED
    BY <1>l, <2>3, ReaderActs
<1>9. CASE ScheduleReads(r)
  <2>1. /\ rpc[r] = "group" /\ awaiting[r] = "nothing" /\ cond[r]
        /\ rpc'[r] = "schedule"
        /\ \A q \in Readers : q # r => SameReader(q)
        /\ UNCHANGED <<WriterSide, controlQueue, flush, awaiting, mystep,
                       opened, created, sendees>>
    BY <1>9, <1>a DEF ScheduleReads, At, Goto, SameReader
  <2>2. OpenInv(r)'
    BY <2>1, <1>b DEF OpenInv
  <2> QED
    BY <2>1, <2>2, <1>l, QueuesUnchanged DEF Late
<1>10. CASE VarSend(r)
  <2>1. /\ rpc[r] = "schedule" /\ awaiting[r] = "nothing"
        /\ \A q \in Readers : q # r => SameReader(q)
        /\ UNCHANGED <<WriterSide, flush, rpc, awaiting, mystep, opened, created,
                       cond>>
        /\ sendees'[r] = Append(sendees[r], Min(need[r]))
        /\ sendees[r] \in Seq(Writers)
        /\ Min(need[r]) \in opened[r]
        /\ Min(need[r]) \in Writers
    BY <1>10, <1>a DEF VarSend, At, SameReader
  <2>2. \A i \in 1 .. Len(sendees'[r]) : sendees'[r][i] \in opened[r]
    <3> SUFFICES ASSUME NEW i \in 1 .. Len(sendees'[r])
                 PROVE  sendees'[r][i] \in opened[r]
      OBVIOUS
    <3>1. \/ i \in 1 .. Len(sendees[r]) /\ sendees'[r][i] = sendees[r][i]
          \/ sendees'[r][i] = Min(need[r])
      BY <2>1, AppendElement
    <3> QED
      BY <3>1, <2>1, <1>b DEF OpenInv
  <2>3. OpenInv(r)'
    BY <2>1, <2>2, <1>b DEF OpenInv
  <2>4. ASSUME NEW q \in Readers PROVE SameRequests(q)
    <3>1. PICK m \in ControlMsgs : m = [type |-> "VAR", from |-> r, step |-> None]
      BY DEF ControlMsgs
    <3>2. ~Request(m, q)
      BY <3>1 DEF Request
    <3>3. \A w \in Writers :
            \/ controlQueue'[w] = controlQueue[w]
            \/ controlQueue'[w] = Append(controlQueue[w], m)
      BY <1>10, <3>1 DEF VarSend, TypeInv, TypeOK, ControlTypeOK
    <3> QED
      BY <2>1, <3>2, <3>3, QueueFrame
  <2> QED
    BY <2>1, <2>3, <2>4, <1>l
<1>11. CASE PerformReads(r)
  <2>1. /\ rpc[r] = "schedule" /\ awaiting[r] = "nothing" /\ ~cond'[r]
        /\ rpc'[r] = "perform"
        /\ \A q \in Readers : q # r => SameReader(q)
        /\ UNCHANGED <<WriterSide, controlQueue, flush, awaiting, mystep,
                       opened, created, sendees>>
    BY <1>11, <1>a DEF PerformReads, At, Goto, SameReader
  <2>2. OpenInv(r)'
    BY <2>1, <1>b DEF OpenInv
  <2> QED
    BY <2>1, <2>2, <1>l, QueuesUnchanged DEF Late
<1>12. CASE PerformPending(r)
  <2>1. /\ rpc[r] = "perform sent" /\ awaiting[r] = "nothing"
        /\ rpc'[r] = "perform wait"
        /\ \A q \in Readers : q # r => SameReader(q)
        /\ UNCHANGED <<WriterSide, controlQueue, flush, awaiting, dst, cond,
                       mystep, opened, created, sendees>>
    BY <1>12, <1>a DEF PerformPending, At, Goto, SameReader
  <2>2. OpenInv(r)'
    BY <2>1, <1>b DEF OpenInv
  <2>3. UNCHANGED <<bridgeOpened, readerStep>>
    BY <2>1 DEF WriterSide
  <2>4. BridgeInv(r)' /\ AwaitInv(r)'
    BY <2>1, <2>3, <1>b DEF BridgeInv, AwaitInv
  <2>5. DueInv(r)'
    <3>1. ASSUME NEW w \in Writers, NEW i \in 1 .. Len(controlQueue[w]),
                 Request(controlQueue[w][i], r)
          PROVE  ControlDue(w, controlQueue[w][i])'
      <4>1. ControlDue(w, controlQueue[w][i])
        BY <3>1, <1>b DEF ReaderInv, DueInv
      <4> QED
        BY <3>1, <4>1, <2>1, <2>3 DEF Request, ControlDue, Asking
    <3>2. ASSUME NEW w \in Writers, NEW i \in 1 .. Len(flush[w]),
                 Request(flush[w][i], r)
          PROVE  FlushDue(w, flush[w][i])'
      <4>1. FlushDue(w, flush[w][i])
        BY <3>2, <1>b DEF ReaderInv, DueInv
      <4> QED
        BY <3>2, <4>1, <2>1 DEF Request, FlushDue, Asking
    <3> QED
      BY <3>1, <3>2, <2>1 DEF DueInv
  <2>6. \A q \in Readers : SameRequests(q)
    BY <2>1, QueuesUnchanged
  <2>7. SingleInv(r)'
    BY <2>6, <1>b, SingleFrame DEF ReaderInv
  <2>8. ReaderInv(r)'
    BY <2>2, <2>4, <2>5, <2>7 DEF ReaderInv
  <2> QED
    BY <2>1, <2>6, <2>8, ReaderActs DEF Late
<1>13. CASE PerformBatchDone(r)
  <2>1. /\ rpc[r] = "perform wait" /\ awaiting[r] = "nothing" /\ cond[r]
        /\ ~cond'[r] /\ rpc'[r] = "perform"
        /\ \A q \in Readers : q # r => SameReader(q)
        /\ UNCHANGED <<WriterSide, controlQueue, flush, awaiting, mystep,
                       opened, created>>
        /\ sendees'[r] = Tail(sendees[r])
        /\ sendees[r] \in Seq(Writers)
    BY <1>13, <1>a DEF PerformBatchDone, At, Goto, SameReader
  <2>2. sendees[r] # <<>>
    BY <2>1 DEF TypeInv, PerformingInv
  <2>3. \A i \in 1 .. Len(sendees'[r]) : sendees'[r][i] \in opened[r]
    <3>1. \A i \in 1 .. Len(sendees'[r]) :
            /\ i + 1 \in 1 .. Len(sendees[r])
            /\ sendees'[r][i] = sendees[r][i + 1]
      BY <2>1, <2>2, TailElement
    <3> QED
      BY <3>1, <1>b DEF OpenInv
  <2>4. OpenInv(r)'
    BY <2>1, <2>3, <1>b DEF OpenInv
  <2> QED
    BY <2>1, <2>4, <1>l, QueuesUnchanged DEF Late
<1>14. CASE PerformReturn(r)
  <2>1. /\ rpc[r] = "perform" /\ awaiting[r] = "nothing"
        /\ rpc'[r] \in {"release barrier", "advance barrier"}
        /\ \A q \in Readers : q # r => SameReader(q)
        /\ UNCHANGED <<WriterSide, controlQueue, flush, awaiting, mystep,
                       opened, created, sendees>>
        /\ sendees[r] = <<>>
    BY <1>14, <1>a DEF PerformReturn, At, Goto, SameReader
  <2>2. OpenInv(r)'
    BY <2>1, <1>b DEF OpenInv
  <2> QED
    BY <2>1, <2>2, <1>l, QueuesUnchanged DEF Late
<1>15. CASE ReleaseReturn(r)
  <2>1. /\ rpc[r] = "release" /\ awaiting[r] = "nothing"
        /\ rpc'[r] = "advance barrier"
        /\ \A q \in Readers : q # r => SameReader(q)
        /\ UNCHANGED <<WriterSide, controlQueue, flush, awaiting, mystep,
                       opened, created, sendees>>
    BY <1>15, <1>a DEF ReleaseReturn, At, Goto, SameReader
  <2>2. OpenInv(r)'
    BY <2>1, <1>b DEF OpenInv
  <2> QED
    BY <2>1, <2>2, <1>l, QueuesUnchanged DEF Late
<1>16. CASE PollReturn(r)
  <2>1. /\ rpc[r] = "poll wait" /\ awaiting[r] = "nothing" /\ cond[r]
        /\ rpc'[r] \in {"close", "end of stream", "poll"}
        /\ \A q \in Readers : q # r => SameReader(q)
        /\ UNCHANGED <<WriterSide, controlQueue, flush, awaiting, mystep,
                       opened, created, sendees>>
    BY <1>16, <1>a DEF PollReturn, At, Goto, SameReader
  <2>2. OpenInv(r)'
    BY <2>1, <1>b DEF OpenInv
  <2> QED
    BY <2>1, <2>2, <1>l, QueuesUnchanged DEF Late
<1>17. CASE CloseLoopDone(r)
  <2>1. /\ rpc[r] \in {"close", "end of stream"} /\ awaiting[r] = "nothing"
        /\ rpc'[r] \in {"step barrier", "done"}
        /\ opened[r] = {}
        /\ \A q \in Readers : q # r => SameReader(q)
        /\ UNCHANGED <<WriterSide, controlQueue, flush, awaiting, mystep,
                       opened, created, sendees>>
    BY <1>17, <1>a DEF CloseLoopDone, At, Goto, SameReader
  <2>2. OpenInv(r)'
    BY <2>1, <1>b DEF OpenInv
  <2> QED
    BY <2>1, <2>2, <1>l, QueuesUnchanged DEF Late
<1> QED
  BY <1>1, <1>2, <1>3, <1>4, <1>5, <1>6, <1>7, <1>8, <1>9, <1>10, <1>11, <1>12,
     <1>13, <1>14, <1>15, <1>16, <1>17 DEF ReaderStep

-----------------------------------------------------------------------------
(* The writers' threads and the handlers at the readers.                   *)

(* A reader that asks for a buffer has the bridge open at both ends.       *)
LEMMA AskingBridge ==
  ASSUME TypeInv, NEW r \in Readers, ReaderInv(r), NEW w \in Writers, Asking(r, w)
  PROVE  /\ awaiting[r] = "nothing"
         /\ w \in opened[r]
         /\ r \in bridgeOpened[w]
         /\ readerStep[w] = mystep[r]
<1>1. awaiting[r] \in {"nothing", "OPEN", "CLOSE"} /\ sendees[r] \in Seq(Writers)
  BY DEF TypeInv, TypeOK, ReaderTypeOK, RequestTypeOK
<1>2. awaiting[r] = "nothing"
  BY <1>1 DEF ReaderInv, AwaitInv, Asking
<1>3. w \in opened[r]
  <2>1. CASE rpc[r] = "fetch" /\ w = Coordinator(r)
    BY <2>1 DEF ReaderInv, OpenInv
  <2>2. CASE rpc[r] \in {"perform sent", "perform wait"} /\ w = Head(sendees[r])
    <3>1. sendees[r] # <<>>
      BY <2>2 DEF TypeInv, PerformingInv
    <3>2. 1 \in 1 .. Len(sendees[r]) /\ w = sendees[r][1]
      BY <1>1, <2>2, <3>1, HeadElement
    <3> QED
      BY <3>2 DEF ReaderInv, OpenInv
  <2> QED
    BY <2>1, <2>2 DEF Asking
<1> QED
  BY <1>2, <1>3 DEF ReaderInv, BridgeInv

(* A step by which only reader a is answered.                              *)
LEMMA OneAnswered ==
  ASSUME TypeInv, ProtocolInv, NEW a \in Readers, UNCHANGED <<rpc, mystep>>,
         \A q \in Readers : q # a =>
           SameReader(q) /\ SameBridges(q) /\ SameRequests(q),
         ReaderInv(a)', \A w \in Writers : CloserInv(w)', OpenCountExact'
  PROVE  ProtocolInv'
<1>a. dst \in [Readers -> Writers]
  BY DEF TypeInv, TypeOK, ReaderTypeOK
<1>1. \A q \in Readers : ReaderInv(q)'
  BY <1>a, ReaderKeeps DEF ProtocolInv
<1>2. TogetherInv'
  BY DEF ProtocolInv, TogetherInv
<1> QED
  BY <1>1, <1>2 DEF ProtocolInv

(* A step by which none is.                                                *)
LEMMA NoneAnswered ==
  ASSUME TypeInv, ProtocolInv, UNCHANGED <<rpc, mystep>>,
         \A q \in Readers : SameReader(q) /\ SameBridges(q) /\ SameRequests(q),
         \A w \in Writers : CloserInv(w)', OpenCountExact'
  PROVE  ProtocolInv'
<1>a. dst \in [Readers -> Writers]
  BY DEF TypeInv, TypeOK, ReaderTypeOK
<1>1. \A q \in Readers : ReaderInv(q)'
  BY <1>a, ReaderKeeps DEF ProtocolInv
<1>2. TogetherInv'
  BY DEF ProtocolInv, TogetherInv
<1> QED
  BY <1>1, <1>2 DEF ProtocolInv

(* The condition of a reader that waits for data, for the group or for the *)
(* step is signalled, and it has no request left.                          *)
LEMMA Answered ==
  ASSUME TypeInv, NEW r \in Readers, ReaderInv(r), Quiet(r)',
         awaiting[r] = "nothing", rpc[r] # "perform",
         UNCHANGED <<rpc, awaiting, dst, mystep, created, opened, sendees,
                     bridgeOpened, readerStep>>
  PROVE  ReaderInv(r)'
<1>1. DueInv(r)' /\ SingleInv(r)'
  BY QuietDue
<1>2. BridgeInv(r)'
  BY DEF ReaderInv, BridgeInv
<1>3. AwaitInv(r)'
  BY DEF AwaitInv
<1>4. OpenInv(r)'
  BY DEF ReaderInv, OpenInv
<1> QED
  BY <1>1, <1>2, <1>3, <1>4 DEF ReaderInv

(* The multiqueue stone.                                                   *)
LEMMA MultiqueueProtocol ==
  ASSUME TypeInv, ProtocolInv, NEW w \in Writers, MultiqueueAction(w)
  PROVE  ProtocolInv'
<1>a. /\ cpc \in [Writers -> {"idle", "close", "close waits", "close resumes"}]
      /\ flush \in [Writers -> Seq(FlushMsgs)]
      /\ controlQueue \in [Writers -> Seq(ControlMsgs)]
      /\ cond \in [Readers -> BOOLEAN]
      /\ awaiting \in [Readers -> {"nothing", "OPEN", "CLOSE"}]
  BY DEF TypeInv, TypeOK, StoneTypeOK, ControlTypeOK, ReaderTypeOK
<1>b. UNCHANGED <<closer, readerStep, openCount, bridgeOpened, rpc, awaiting, dst,
                  mystep, created, opened, sendees>>
  BY DEF MultiqueueAction
<1>c. \A v \in Writers : cpc'[v] = "idle" <=> cpc[v] = "idle"
  BY <1>a DEF MultiqueueAction
<1>d. OpenCountExact' /\ \A q \in Readers : SameBridges(q)
  BY <1>b DEF ProtocolInv, OpenCountExact, SameBridges
<1>e. ASSUME \A v \in Writers : cpc[v] # "idle" => cond'[closer[v]] = cond[closer[v]],
             NEW v \in Writers
      PROVE  CloserInv(v)'
  BY <1>b, <1>c, <1>e, CloserKeeps DEF ProtocolInv, SameReader
<1>1. CASE LeaveFlush(w)
  <2>1. UNCHANGED <<flush, controlQueue, cond>>
    BY <1>1 DEF LeaveFlush
  <2>2. \A q \in Readers : SameReader(q) /\ SameRequests(q)
    BY <2>1, <1>b, QueuesUnchanged DEF SameReader
  <2> QED
    BY <2>1, <2>2, <1>b, <1>d, <1>e, NoneAnswered
<1>2. CASE AnswerFlush(w)
  <2>1. /\ flush[w] # <<>> /\ flush[w] \in Seq(FlushMsgs)
        /\ flush' = [flush EXCEPT ![w] = Tail(@)]
    BY <1>2, <1>a DEF AnswerFlush, Answerable
  <2>2. PICK m \in FlushMsgs : m = Head(flush[w])
    BY <2>1, HeadTailType
  <2>3. PICK r \in Readers : r = m.from
    BY DEF FlushMsgs
  <2>4. Request(m, r) /\ m.type \in {"DATA", "EVGROUP", "STEP"}
    BY <2>3 DEF Request, FlushMsgs
  <2>5. ReaderInv(r) /\ SingleInv(r)
    BY DEF ProtocolInv, ReaderInv
  <2>6. FlushDue(w, m)
    <3>1. 1 \in 1 .. Len(flush[w]) /\ flush[w][1] = m
      BY <2>1, <2>2
    <3> QED
      BY <3>1, <2>4, <2>5 DEF ReaderInv, DueInv
  <2>7. awaiting[r] = "nothing" /\ rpc[r] # "perform" /\ ~cond[r]
    <3>1. m.type = "DATA" => awaiting[r] = "nothing" /\ rpc[r] # "perform"
      BY <2>3, <2>5, <2>6, AskingBridge DEF FlushDue, Asking
    <3>2. m.type # "DATA" => rpc[r] \in {"group", "poll wait"}
      BY <2>3, <2>4, <2>6 DEF FlushDue
    <3>3. m.type # "DATA" => awaiting[r] = "nothing"
      BY <3>2, <2>5, <1>a DEF ReaderInv, AwaitInv
    <3> QED
      BY <3>1, <3>2, <3>3, <2>3, <2>6 DEF FlushDue
  <2>8. \A v \in Writers :
          flush'[v] = flush[v] \/ (flush[v] # <<>> /\ flush'[v] = Tail(flush[v]))
    BY <2>1, <1>a
  <2>9. /\ \A v \in Writers : \A i \in 1 .. Len(controlQueue[v]) :
             ~Request(controlQueue[v][i], r)
        /\ \A v \in Writers : \A i \in 1 .. Len(flush'[v]) :
             ~Request(flush'[v][i], r)
    <3>1. Request(Head(flush[w]), r)
      BY <2>2, <2>4
    <3> QED
      BY <3>1, <2>1, <2>5, TookFlush
  <2>10. CASE /\ UNCHANGED controlQueue
              /\ cond' = [cond EXCEPT ![r] = TRUE]
    <3>1. \A q \in Readers : SameRequests(q)
      BY <2>8, <2>10, QueueFrame
    <3>2. \A q \in Readers : q # r => SameReader(q)
      BY <2>10, <1>a, <1>b DEF SameReader
    <3>3. Quiet(r)'
      BY <2>9, <2>10 DEF Quiet, Request
    <3>4. ReaderInv(r)'
      BY <3>3, <2>5, <2>7, <1>b, Answered
    <3>5. \A v \in Writers : cpc[v] # "idle" => cond'[closer[v]] = cond[closer[v]]
      BY <2>7, <2>10, <1>a DEF ProtocolInv, CloserInv
    <3>6. \A v \in Writers : CloserInv(v)'
      BY <3>5, <1>e
    <3> QED
      BY <3>1, <3>2, <3>4, <3>6, <1>b, <1>d, OneAnswered
  <2>11. CASE m.type = "DATA" /\ PassData(w, r)
    <3>1. PICK d \in ControlMsgs :
                 d = [type |-> "DATA_FLUSH", from |-> r, step |-> None]
      BY DEF ControlMsgs
    <3>2. /\ controlQueue' = [controlQueue EXCEPT ![w] = Append(@, d)]
          /\ UNCHANGED cond
      BY <2>11, <3>1 DEF PassData
    <3>3. \A q \in Readers : q # r => SameRequests(q)
      <4>1. \A q \in Readers : q # r => ~Request(d, q)
        BY <3>1 DEF Request
      <4>2. \A v \in Writers : \/ controlQueue'[v] = controlQueue[v]
                               \/ controlQueue'[v] = Append(controlQueue[v], d)
        BY <3>2, <1>a
      <4> QED
        BY <4>1, <4>2, <2>8, QueueFrame
    <3>4. \A q \in Readers : SameReader(q)
      BY <3>2, <1>b DEF SameReader
    <3>5. OnlyControl(r, w, d)'
      <4>1. ASSUME NEW v \in Writers, NEW i \in 1 .. Len(controlQueue'[v]),
                   Request(controlQueue'[v][i], r)
            PROVE  v = w /\ i = Len(controlQueue'[w]) /\ controlQueue'[v][i] = d
        <5>1. CASE v = w
          <6>0. controlQueue[v] \in Seq(ControlMsgs)
            BY <1>a
          <6>1. controlQueue'[v] = Append(controlQueue[v], d)
            BY <3>2, <5>1, <1>a
          <6>2. Len(controlQueue'[v]) = Len(controlQueue[v]) + 1
            BY <6>0, <6>1
          <6>3. \/ /\ i \in 1 .. Len(controlQueue[v])
                   /\ controlQueue'[v][i] = controlQueue[v][i]
                \/ i = Len(controlQueue[v]) + 1 /\ controlQueue'[v][i] = d
            BY <6>0, <6>1, AppendElement
          <6> QED
            BY <4>1, <5>1, <6>2, <6>3, <2>9
        <5>2. CASE v # w
          <6>1. controlQueue'[v] = controlQueue[v]
            BY <3>2, <5>2, <1>a
          <6> QED
            BY <4>1, <6>1, <2>9
        <5> QED
          BY <5>1, <5>2
      <4> QED
        BY <4>1, <2>9 DEF OnlyControl, Request
    <3>6. ControlDue(w, d)'
      <4>1. Asking(r, w)' /\ ~cond'[r]
        BY <2>11, <2>3, <2>6, <2>7, <3>2, <1>b DEF FlushDue, Asking
      <4>2. d.type = "DATA_FLUSH" /\ d.from = r
        BY <3>1
      <4> QED
        BY <4>1, <4>2 DEF ControlDue
    <3>7. DueInv(r)' /\ SingleInv(r)'
      BY <3>5, <3>6, OnlyControlDue
    <3>8. BridgeInv(r)' /\ AwaitInv(r)' /\ OpenInv(r)'
      BY <3>2, <2>5, <1>b DEF ReaderInv, BridgeInv, AwaitInv, OpenInv
    <3>9. ReaderInv(r)'
      BY <3>7, <3>8 DEF ReaderInv
    <3>10. \A v \in Writers : CloserInv(v)'
      BY <3>2, <1>e
    <3> QED
      BY <3>3, <3>4, <3>9, <3>10, <1>b, <1>d, OneAnswered
  <2> QED
    BY <1>2, <2>2, <2>3, <2>10, <2>11
    DEF AnswerFlush, AnswerStep, AnswerGroup, PassData
<1> QED
  BY <1>1, <1>2 DEF MultiqueueAction

(* The number of bridges a writer has open.                                *)
LEMMA BridgesFinite ==
  ASSUME NEW T \in SUBSET Readers
  PROVE  IsFiniteSet(T) /\ Cardinality(T) \in Nat
<1>1. IsFiniteSet(Readers)
  <2>1. 0 \in Int /\ NR - 1 \in Int
    BY StreamAssumption
  <2> QED
    BY <2>1, FS_Interval DEF Readers
<1>2. IsFiniteSet(T)
  BY <1>1, FS_Subset
<1> QED
  BY <1>2, FS_CardinalityType

(* The control thread of a writer.                                         *)
LEMMA ControlStepProtocol ==
  ASSUME TypeInv, ProtocolInv, NEW w \in Writers, ControlStep(w)
  PROVE  ProtocolInv'
<1>a. /\ cpc \in [Writers -> {"idle", "close", "close waits", "close resumes"}]
      /\ DOMAIN closer = Writers
      /\ bridgeOpened \in [Writers -> SUBSET Readers]
      /\ cond \in [Readers -> BOOLEAN]
      /\ awaiting \in [Readers -> {"nothing", "OPEN", "CLOSE"}]
      /\ dst \in [Readers -> Writers]
  BY DEF TypeInv, TypeOK, ControlTypeOK, ReaderTypeOK
<1>b. /\ readerStep \in [Writers -> Nat] /\ openCount \in [Writers -> Int]
  BY DEF TypeInv, TypeOK, ControlTypeOK
<1>c. controlQueue \in [Writers -> Seq(ControlMsgs)]
  BY DEF TypeInv, TypeOK, ControlTypeOK
<1>d. \A v \in Writers : openCount[v] = Cardinality(bridgeOpened[v])
  BY DEF ProtocolInv, OpenCountExact
<1>q. ASSUME NEW q \in Readers, UNCHANGED flush,
             controlQueue[w] # <<>>,
             controlQueue' = [controlQueue EXCEPT ![w] = Tail(@)]
      PROVE  SameRequests(q)
  <2>1. \A v \in Writers :
          \/ controlQueue'[v] = controlQueue[v]
          \/ controlQueue[v] # <<>> /\ controlQueue'[v] = Tail(controlQueue[v])
    BY <1>c, <1>q
  <2> QED
    BY <1>q, <2>1, QueueFrame
<1>r. ASSUME NEW type \in {"OPEN", "CLOSE", "DATA_FLUSH"}, Receive(w, type),
             UNCHANGED flush
      PROVE  \E m \in ControlMsgs : \E r \in Readers :
               /\ m = Head(controlQueue[w]) /\ m.from = r /\ m.type = type
               /\ ControlDue(w, m) /\ Quiet(r)' /\ ReaderInv(r)
               /\ \A q \in Readers : SameRequests(q)
  <2>1. /\ controlQueue[w] # <<>> /\ Head(controlQueue[w]).type = type
        /\ controlQueue' = [controlQueue EXCEPT ![w] = Tail(@)]
        /\ controlQueue[w] \in Seq(ControlMsgs)
    BY <1>r, <1>c DEF Receive
  <2>2. PICK m \in ControlMsgs : m = Head(controlQueue[w])
    BY <2>1, HeadTailType
  <2>3. PICK r \in Readers : r = m.from
    BY DEF ControlMsgs
  <2>4. Request(m, r) /\ m.type = type
    BY <1>r, <2>1, <2>2, <2>3 DEF Request
  <2>5. ReaderInv(r) /\ SingleInv(r)
    BY DEF ProtocolInv, ReaderInv
  <2>6. ControlDue(w, m)
    <3>1. 1 \in 1 .. Len(controlQueue[w]) /\ controlQueue[w][1] = m
      BY <2>1, <2>2, HeadElement
    <3> QED
      BY <3>1, <2>4, <2>5 DEF ReaderInv, DueInv
  <2>7. Quiet(r)'
    <3>1. Request(Head(controlQueue[w]), r)
      BY <2>2, <2>4
    <3> QED
      BY <3>1, <1>r, <2>1, <2>5, TookControl
  <2>8. \A q \in Readers : SameRequests(q)
    BY <1>q, <1>r, <2>1
  <2> QED
    BY <2>2, <2>3, <2>4, <2>5, <2>6, <2>7, <2>8
<1>1. CASE ProcessVar(w)
  <2>1. /\ UNCHANGED <<flush, cpc, closer, readerStep, openCount, bridgeOpened,
                       rpc, awaiting, dst, cond, mystep, created, opened, sendees>>
        /\ controlQueue[w] # <<>>
        /\ controlQueue' = [controlQueue EXCEPT ![w] = Tail(@)]
    BY <1>1 DEF ProcessVar, Receive, readerVars
  <2>2. \A q \in Readers : SameReader(q) /\ SameBridges(q) /\ SameRequests(q)
    BY <2>1, <1>q DEF SameReader, SameBridges
  <2>3. \A v \in Writers : CloserInv(v)'
    BY <2>1, CloserKeeps DEF ProtocolInv, SameReader
  <2>4. OpenCountExact'
    BY <2>1, <1>d DEF OpenCountExact
  <2> QED
    BY <2>1, <2>2, <2>3, <2>4, NoneAnswered
<1>2. CASE ProcessDataFlush(w)
  <2>1. /\ Receive(w, "DATA_FLUSH")
        /\ UNCHANGED <<flush, cpc, closer, readerStep, rpc, awaiting, dst, mystep,
                       created, opened, sendees>>
    BY <1>2 DEF ProcessDataFlush
  <2>2. PICK m \in ControlMsgs : \E r \in Readers :
          /\ m = Head(controlQueue[w]) /\ m.from = r /\ m.type = "DATA_FLUSH"
          /\ ControlDue(w, m) /\ Quiet(r)' /\ ReaderInv(r)
          /\ \A q \in Readers : SameRequests(q)
    BY <2>1, <1>r
  <2>3. PICK r \in Readers :
          /\ m = Head(controlQueue[w]) /\ m.from = r /\ m.type = "DATA_FLUSH"
          /\ ControlDue(w, m) /\ Quiet(r)' /\ ReaderInv(r)
          /\ \A q \in Readers : SameRequests(q)
    BY <2>2
  <2>4. Asking(r, w)
    BY <2>3 DEF ControlDue
  <2>5. awaiting[r] = "nothing" /\ r \in bridgeOpened[w]
    BY <2>3, <2>4, AskingBridge
  <2>6. /\ UNCHANGED <<bridgeOpened, openCount>>
        /\ \A q \in Readers : q # r => cond'[q] = cond[q]
    <3>1. /\ bridgeOpened' = [bridgeOpened EXCEPT ![w] = @ \cup {r}]
          /\ openCount' = [openCount EXCEPT
               ![w] = IF r \in bridgeOpened[w] THEN @ ELSE @ + 1]
          /\ RawHandler(w, r)
      BY <1>2, <2>3 DEF ProcessDataFlush
    <3>2. bridgeOpened[w] \cup {r} = bridgeOpened[w]
      BY <2>5
    <3>3. bridgeOpened' = bridgeOpened
      BY <3>1, <3>2, <1>a
    <3>4. openCount' = openCount
      BY <3>1, <2>5, <1>b
    <3> QED
      BY <3>1, <3>3, <3>4, <1>a DEF RawHandler
  <2>7. \A q \in Readers : q # r =>
          SameReader(q) /\ SameBridges(q) /\ SameRequests(q)
    BY <2>1, <2>3, <2>6 DEF SameReader, SameBridges
  <2>8. ReaderInv(r)'
    BY <2>1, <2>3, <2>4, <2>5, <2>6, Answered DEF Asking
  <2>9. ASSUME NEW v \in Writers PROVE CloserInv(v)'
    <3>1. cpc[v] # "idle" => closer[v] \in Readers /\ closer[v] # r
      BY <2>5 DEF ProtocolInv, CloserInv
    <3> QED
      BY <3>1, <2>1, <2>6, <2>7, CloserKeeps DEF ProtocolInv
  <2>10. OpenCountExact'
    BY <2>6, <1>d DEF OpenCountExact
  <2> QED
    BY <2>1, <2>7, <2>8, <2>9, <2>10, OneAnswered
<1>3. CASE ProcessOpen(w)
  <2>1. /\ Receive(w, "OPEN") /\ cpc[w] = "idle"
        /\ UNCHANGED <<flush, cpc, closer, readerStep, rpc, awaiting, dst, mystep,
                       created, opened, sendees>>
    BY <1>3 DEF ProcessOpen, Receive
  <2>2. PICK m \in ControlMsgs : \E r \in Readers :
          /\ m = Head(controlQueue[w]) /\ m.from = r /\ m.type = "OPEN"
          /\ ControlDue(w, m) /\ Quiet(r)' /\ ReaderInv(r)
          /\ \A q \in Readers : SameRequests(q)
    BY <2>1, <1>r
  <2>3. PICK r \in Readers :
          /\ m = Head(controlQueue[w]) /\ m.from = r /\ m.type = "OPEN"
          /\ ControlDue(w, m) /\ Quiet(r)' /\ ReaderInv(r)
          /\ \A q \in Readers : SameRequests(q)
    BY <2>2
  <2>4. awaiting[r] = "OPEN" /\ dst[r] = w /\ m.step = mystep[r] /\ ~cond[r]
    BY <2>3 DEF ControlDue
  <2>5. AwaitInv(r) /\ BridgeInv(r) /\ OpenInv(r)
    BY <2>3 DEF ReaderInv
  <2>6. CASE m.step = readerStep[w]
    <3>1. /\ openCount' = [openCount EXCEPT ![w] = @ + 1]
          /\ bridgeOpened' = [bridgeOpened EXCEPT ![w] = @ \cup {r}]
          /\ cond' = [cond EXCEPT ![r] = TRUE]
      BY <1>3, <2>3, <2>6 DEF ProcessOpen
    <3>2. r \notin bridgeOpened[w]
      BY <2>4, <2>5 DEF AwaitInv, BridgeInv
    <3>3. /\ \A v \in Writers : v # w => bridgeOpened'[v] = bridgeOpened[v]
          /\ bridgeOpened'[w] = bridgeOpened[w] \cup {r}
          /\ cond'[r] /\ \A q \in Readers : q # r => cond'[q] = cond[q]
      BY <3>1, <1>a
    <3>4. \A q \in Readers : q # r =>
            SameReader(q) /\ SameBridges(q) /\ SameRequests(q)
      BY <2>1, <2>3, <3>3 DEF SameReader, SameBridges
    <3>5. DueInv(r)' /\ SingleInv(r)'
      BY <2>3, QuietDue
    <3>6. BridgeInv(r)'
      <4> SUFFICES ASSUME NEW v \in Writers
           PROVE /\ r \in bridgeOpened'[v] =>
                      /\ readerStep'[v] = mystep'[r]
                      /\ \/ v \in opened'[r]
                         \/ awaiting'[r] = "OPEN" /\ dst'[r] = v /\ cond'[r]
                 /\ v \in opened'[r] => \/ r \in bridgeOpened'[v]
                                        \/ awaiting'[r] = "CLOSE" /\ dst'[r] = v
        BY DEF BridgeInv
      <4>1. CASE v = w
        BY <4>1, <2>1, <2>4, <2>6, <3>3
      <4>2. CASE v # w
        BY <4>2, <2>1, <2>4, <2>5, <3>3 DEF BridgeInv
      <4> QED
        BY <4>1, <4>2
    <3>7. AwaitInv(r)'
      BY <2>1, <2>4, <2>5, <3>3 DEF AwaitInv
    <3>8. OpenInv(r)'
      BY <2>1, <2>4, <2>5 DEF OpenInv, AwaitInv
    <3>9. ReaderInv(r)'
      BY <3>5, <3>6, <3>7, <3>8 DEF ReaderInv
    <3>10. ASSUME NEW v \in Writers PROVE CloserInv(v)'
      <4>1. CASE v = w
        BY <4>1, <2>1 DEF CloserInv
      <4>2. CASE v # w
        <5>1. cpc[v] # "idle" => closer[v] \in Readers /\ closer[v] # r
          BY <2>4 DEF ProtocolInv, CloserInv
        <5> QED
          BY <4>2, <5>1, <2>1, <3>3, <3>4, CloserKeeps DEF ProtocolInv
      <4> QED
        BY <4>1, <4>2
    <3>11. OpenCountExact'
      <4>1. Cardinality(bridgeOpened[w] \cup {r}) = Cardinality(bridgeOpened[w]) + 1
        <5>1. IsFiniteSet(bridgeOpened[w])
          BY <1>a, BridgesFinite
        <5> QED
          BY <5>1, <3>2, FS_AddElement
      <4>2. openCount'[w] = openCount[w] + 1
        BY <3>1, <1>b
      <4>3. \A v \in Writers : v # w => openCount'[v] = openCount[v]
        BY <3>1, <1>b
      <4>4. openCount'[w] = Cardinality(bridgeOpened'[w])
        BY <4>1, <4>2, <3>3, <1>d
      <4> QED
        BY <4>3, <4>4, <3>3, <1>d DEF OpenCountExact
    <3> QED
      BY <2>1, <3>4, <3>9, <3>10, <3>11, OneAnswered
  <2>7. CASE m.step # readerStep[w]
    <3>1. UNCHANGED <<openCount, bridgeOpened, cond>>
      BY <1>3, <2>3, <2>7 DEF ProcessOpen
    <3>2. \A q \in Readers : SameReader(q) /\ SameBridges(q) /\ SameRequests(q)
      BY <2>1, <2>3, <3>1 DEF SameReader, SameBridges
    <3>3. \A v \in Writers : CloserInv(v)'
      BY <2>1, <3>1, CloserKeeps DEF ProtocolInv, SameReader
    <3>4. OpenCountExact'
      BY <3>1, <1>d DEF OpenCountExact
    <3> QED
      BY <2>1, <3>2, <3>3, <3>4, NoneAnswered
  <2> QED
    BY <2>6, <2>7
<1>4. CASE ProcessClose(w)
  <2>1. /\ Receive(w, "CLOSE") /\ cpc[w] = "idle"
        /\ UNCHANGED <<flush, readerStep, rpc, awaiting, dst, mystep, created,
                       opened, sendees>>
    BY <1>4 DEF ProcessClose, Receive
  <2>2. PICK m \in ControlMsgs : \E r \in Readers :
          /\ m = Head(controlQueue[w]) /\ m.from = r /\ m.type = "CLOSE"
          /\ ControlDue(w, m) /\ Quiet(r)' /\ ReaderInv(r)
          /\ \A q \in Readers : SameRequests(q)
    BY <2>1, <1>r
  <2>3. PICK r \in Readers :
          /\ m = Head(controlQueue[w]) /\ m.from = r /\ m.type = "CLOSE"
          /\ ControlDue(w, m) /\ Quiet(r)' /\ ReaderInv(r)
          /\ \A q \in Readers : SameRequests(q)
    BY <2>2
  <2>4. awaiting[r] = "CLOSE" /\ dst[r] = w /\ r \in bridgeOpened[w] /\ ~cond[r]
    BY <2>3 DEF ControlDue
  <2>5. AwaitInv(r) /\ BridgeInv(r) /\ OpenInv(r)
    BY <2>3 DEF ReaderInv
  <2>6. /\ openCount' = [openCount EXCEPT ![w] = @ - 1]
        /\ bridgeOpened' = [bridgeOpened EXCEPT ![w] = @ \ {r}]
    BY <1>4, <2>3 DEF ProcessClose
  <2>7. /\ \A v \in Writers : v # w => bridgeOpened'[v] = bridgeOpened[v]
        /\ bridgeOpened'[w] = bridgeOpened[w] \ {r}
    BY <2>6, <1>a
  <2>8. OpenCountExact'
    <3>1. Cardinality(bridgeOpened[w] \ {r}) = Cardinality(bridgeOpened[w]) - 1
      <4>1. IsFiniteSet(bridgeOpened[w])
        BY <1>a, BridgesFinite
      <4> QED
        BY <4>1, <2>4, FS_RemoveElement
    <3>2. openCount'[w] = openCount[w] - 1
      BY <2>6, <1>b
    <3>3. \A v \in Writers : v # w => openCount'[v] = openCount[v]
      BY <2>6, <1>b
    <3>4. openCount'[w] = Cardinality(bridgeOpened'[w])
      BY <3>1, <3>2, <2>7, <1>d
    <3> QED
      BY <3>3, <3>4, <2>7, <1>d DEF OpenCountExact
  <2>9. /\ \A v \in Writers : v # w => cpc'[v] = cpc[v] /\ closer'[v] = closer[v]
        /\ \A q \in Readers : q # r => cond'[q] = cond[q]
        /\ \/ cpc'[w] = "idle"
           \/ openCount[w] - 1 = 0 /\ closer'[w] = r /\ ~cond'[r]
    <3>1. CASE openCount[w] - 1 = 0
      <4>1. /\ cpc' = [cpc EXCEPT ![w] = "close"]
            /\ closer' = [closer EXCEPT ![w] = r]
            /\ UNCHANGED cond
        BY <1>4, <2>3, <3>1 DEF ProcessClose
      <4> QED
        BY <3>1, <4>1, <2>4, <1>a
    <3>2. CASE openCount[w] - 1 # 0
      <4>1. cond' = [cond EXCEPT ![r] = TRUE] /\ UNCHANGED <<cpc, closer>>
        BY <1>4, <2>3, <3>2 DEF ProcessClose
      <4> QED
        BY <4>1, <2>1, <1>a
    <3> QED
      BY <3>1, <3>2
  <2>10. \A q \in Readers : q # r =>
           SameReader(q) /\ SameBridges(q) /\ SameRequests(q)
    BY <2>1, <2>3, <2>7, <2>9 DEF SameReader, SameBridges
  <2>11. ReaderInv(r)'
    <3>1. DueInv(r)' /\ SingleInv(r)'
      BY <2>3, QuietDue
    <3>2. BridgeInv(r)'
      BY <2>1, <2>4, <2>5, <2>7 DEF BridgeInv
    <3>3. AwaitInv(r)'
      BY <2>1, <2>4, <2>5, <2>7 DEF AwaitInv
    <3>4. OpenInv(r)'
      BY <2>1, <2>4, <2>5 DEF OpenInv, AwaitInv
    <3> QED
      BY <3>1, <3>2, <3>3, <3>4 DEF ReaderInv
  <2>12. ASSUME NEW v \in Writers PROVE CloserInv(v)'
    <3>1. CASE v # w
      <4>1. cpc[v] # "idle" => closer[v] \in Readers /\ closer[v] # r
        BY <3>1, <2>4 DEF ProtocolInv, CloserInv
      <4> QED
        BY <3>1, <4>1, <2>1, <2>7, <2>9, <2>10, CloserKeeps DEF ProtocolInv
    <3>2. CASE v = w /\ cpc'[w] = "idle"
      BY <3>2 DEF CloserInv
    <3>3. CASE v = w /\ openCount[w] - 1 = 0 /\ closer'[w] = r /\ ~cond'[r]
      <4>1. bridgeOpened'[w] = {}
        <5>1. openCount'[w] = 0
          BY <3>3, <2>6, <1>b
        <5>2. Cardinality(bridgeOpened'[w]) = 0
          BY <5>1, <2>8 DEF OpenCountExact
        <5>3. IsFiniteSet(bridgeOpened'[w])
          BY <2>7, <1>a, BridgesFinite
        <5> QED
          BY <5>2, <5>3, FS_EmptySet
      <4>2. mystep[r] = readerStep[w]
        BY <2>4, <2>5 DEF BridgeInv
      <4> QED
        BY <3>3, <4>1, <4>2, <2>1, <2>4 DEF CloserInv
    <3> QED
      BY <3>1, <3>2, <3>3, <2>9
  <2> QED
    BY <2>1, <2>8, <2>10, <2>11, <2>12, OneAnswered
<1>5. CASE CloseDequeue(w)
  <2>1. /\ UNCHANGED <<flush, controlQueue, closer, readerStep, openCount,
                       bridgeOpened, rpc, awaiting, dst, cond, mystep, created,
                       opened, sendees>>
        /\ \A v \in Writers : cpc'[v] = "idle" <=> cpc[v] = "idle"
    BY <1>5, <1>a DEF CloseDequeue, readerVars
  <2>2. \A q \in Readers : SameReader(q) /\ SameBridges(q) /\ SameRequests(q)
    BY <2>1, QueuesUnchanged DEF SameReader, SameBridges
  <2>3. \A v \in Writers : CloserInv(v)'
    BY <2>1, CloserKeeps DEF ProtocolInv, SameReader
  <2>4. OpenCountExact'
    BY <2>1, <1>d DEF OpenCountExact
  <2> QED
    BY <2>1, <2>2, <2>3, <2>4, NoneAnswered
<1>6. CASE CloseAck(w)
  <2>1. /\ UNCHANGED <<flush, controlQueue, openCount, bridgeOpened, rpc, awaiting,
                       dst, mystep, created, opened, sendees>>
        /\ cpc[w] = "close resumes"
        /\ cond' = [cond EXCEPT ![closer[w]] = TRUE]
        /\ cpc'[w] = "idle"
        /\ \A v \in Writers : v # w => cpc'[v] = cpc[v] /\ closer'[v] = closer[v]
    BY <1>6, <1>a DEF CloseAck
  <2>2. \A v \in Writers : v # w => readerStep'[v] = readerStep[v]
    BY <1>6, <1>b DEF CloseAck
  <2>3. /\ bridgeOpened[w] = {}
        /\ closer[w] \in Readers
        /\ awaiting[closer[w]] = "CLOSE" /\ dst[closer[w]] = w
    BY <2>1 DEF ProtocolInv, CloserInv
  <2>4. PICK r \in Readers : r = closer[w]
    BY <2>3
  <2>5. ReaderInv(r) /\ DueInv(r) /\ AwaitInv(r) /\ BridgeInv(r) /\ OpenInv(r)
    BY DEF ProtocolInv, ReaderInv
  <2>6. /\ awaiting[r] = "CLOSE" /\ dst[r] = w
        /\ rpc[r] \in {"close", "end of stream"}
        /\ cond'[r] /\ \A q \in Readers : q # r => cond'[q] = cond[q]
    BY <2>1, <2>3, <2>4, <2>5, <1>a DEF AwaitInv
  <2>7. Quiet(r)
    <3>1. ASSUME NEW v \in Writers, NEW i \in 1 .. Len(controlQueue[v]),
                 Request(controlQueue[v][i], r)
          PROVE  FALSE
      <4>1. ControlDue(v, controlQueue[v][i])
        BY <3>1, <2>5 DEF DueInv
      <4>2. controlQueue[v][i].type \in {"OPEN", "CLOSE", "VAR", "DATA_FLUSH"}
        BY MessageTypes
      <4> QED
        BY <3>1, <4>1, <4>2, <2>3, <2>6 DEF Request, ControlDue, Asking
    <3>2. ASSUME NEW v \in Writers, NEW i \in 1 .. Len(flush[v]),
                 Request(flush[v][i], r)
          PROVE  FALSE
      <4>1. FlushDue(v, flush[v][i])
        BY <3>2, <2>5 DEF DueInv
      <4>2. flush[v][i].type \in {"DATA", "EVGROUP", "STEP"}
        BY MessageTypes
      <4> QED
        BY <3>2, <4>1, <4>2, <2>6 DEF Request, FlushDue, Asking
    <3> QED
      BY <3>1, <3>2 DEF Quiet
  <2>8. \A q \in Readers : SameRequests(q) /\ SameBridges(q)
    BY <2>1, <2>2, <2>3, QueuesUnchanged DEF SameBridges
  <2>9. \A q \in Readers : q # r => SameReader(q)
    BY <2>1, <2>6 DEF SameReader
  <2>10. ReaderInv(r)'
    <3>1. DueInv(r)' /\ SingleInv(r)'
      BY <2>7, <2>8, QuietKeeps, QuietDue
    <3>2. BridgeInv(r)'
      <4> SUFFICES ASSUME NEW v \in Writers
                   PROVE  /\ r \in bridgeOpened'[v] =>
                               /\ readerStep'[v] = mystep'[r] /\ v \in opened'[r]
                          /\ v \in opened'[r] =>
                               \/ r \in bridgeOpened'[v]
                               \/ awaiting'[r] = "CLOSE" /\ dst'[r] = v
        BY DEF BridgeInv
      <4>1. /\ r \in bridgeOpened[v] => readerStep[v] = mystep[r] /\ v \in opened[r]
            /\ v \in opened[r] =>
                 r \in bridgeOpened[v] \/ (awaiting[r] = "CLOSE" /\ dst[r] = v)
        BY <2>5, <2>6 DEF BridgeInv
      <4>2. r \in bridgeOpened[v] => readerStep'[v] = readerStep[v]
        BY <2>2, <2>3
      <4> QED
        BY <4>1, <4>2, <2>1
    <3>3. AwaitInv(r)'
      BY <2>1, <2>3, <2>5, <2>6 DEF AwaitInv
    <3>4. OpenInv(r)'
      BY <2>1, <2>5, <2>6 DEF OpenInv
    <3> QED
      BY <3>1, <3>2, <3>3, <3>4 DEF ReaderInv
  <2>11. ASSUME NEW v \in Writers PROVE CloserInv(v)'
    <3>1. CASE v = w
      BY <3>1, <2>1 DEF CloserInv
    <3>2. CASE v # w
      <4>1. cpc[v] # "idle" => closer[v] \in Readers /\ closer[v] # r
        BY <3>2, <2>6 DEF ProtocolInv, CloserInv
      <4> QED
        BY <3>2, <4>1, <2>1, <2>2, <2>9, CloserKeeps DEF ProtocolInv
    <3> QED
      BY <3>1, <3>2
  <2>12. OpenCountExact'
    BY <2>1, <1>d DEF OpenCountExact
  <2> QED
    BY <2>1, <2>8, <2>9, <2>10, <2>11, <2>12, OneAnswered
<1> QED
  BY <1>1, <1>2, <1>3, <1>4, <1>5, <1>6 DEF ControlStep

(* The barriers of the readers.  At the last one every bridge is closed at *)
(* both ends and no CLOSE is being processed, so all can take the step.    *)
LEMMA BarrierProtocol ==
  ASSUME TypeInv, ProtocolInv, ReaderBarriers
  PROVE  ProtocolInv'
<1>1. ASSUME NEW f \in {"release barrier", "advance barrier", "step barrier"},
             NEW t \in {"release", "poll", "reopen"}, Barrier(f, t),
             f # "step barrier" => mystep' = mystep /\ t \in {"release", "poll"},
             f = "step barrier" => /\ mystep' = [r \in Readers |-> mystep[r] + 1]
                                   /\ t = "reopen"
      PROVE  ProtocolInv'
  <2>1. /\ \A r \in Readers : rpc[r] = f /\ awaiting[r] = "nothing"
        /\ \A r \in Readers : rpc'[r] = t
        /\ UNCHANGED <<flush, controlQueue, cpc, closer, readerStep, openCount,
                       bridgeOpened, awaiting, dst, cond, created, opened, sendees>>
    BY <1>1 DEF Barrier, At, WriterSide
  <2>2. \A w \in Writers : cpc[w] = "idle"
    BY <2>1 DEF ProtocolInv, CloserInv
  <2>3. \A w \in Writers : CloserInv(w)'
    BY <2>1, <2>2 DEF CloserInv
  <2>4. OpenCountExact'
    BY <2>1 DEF ProtocolInv, OpenCountExact
  <2>5. TogetherInv'
    <3>1. \A r, q \in Readers : mystep[r] = mystep[q]
      BY DEF ProtocolInv, TogetherInv
    <3>2. \A r, q \in Readers : mystep'[r] = mystep'[q]
      BY <1>1, <3>1
    <3> QED
      BY <2>1, <3>2 DEF TogetherInv
  <2>6. ASSUME NEW r \in Readers PROVE ReaderInv(r)'
    <3>1. ReaderInv(r) /\ BridgeInv(r) /\ OpenInv(r)
      BY DEF ProtocolInv, ReaderInv
    <3>2. rpc[r] = f /\ awaiting[r] = "nothing" /\ rpc'[r] = t
      BY <2>1
    <3>3. Quiet(r)
      BY <3>1, <3>2, QuietWhen
    <3>4. DueInv(r)' /\ SingleInv(r)'
      BY <2>1, <3>3, QueuesUnchanged, QuietKeeps, QuietDue
    <3>5. BridgeInv(r)'
      <4>1. CASE f # "step barrier"
        BY <4>1, <1>1, <2>1, <3>1 DEF BridgeInv
      <4>2. CASE f = "step barrier"
        <5>1. opened[r] = {}
          BY <4>2, <3>1, <3>2 DEF OpenInv
        <5>2. \A w \in Writers : r \notin bridgeOpened[w]
          BY <5>1, <3>1, <3>2 DEF BridgeInv
        <5> QED
          BY <5>1, <5>2, <2>1 DEF BridgeInv
      <4> QED
        BY <4>1, <4>2
    <3>6. AwaitInv(r)'
      BY <2>1, <3>2 DEF AwaitInv
    <3>7. OpenInv(r)'
      <4>1. t \in {"release", "poll"} => Coordinator(r) \in opened[r]
        BY <1>1, <3>1, <3>2 DEF OpenInv
      <4> QED
        BY <4>1, <2>1, <3>1, <3>2 DEF OpenInv
    <3> QED
      BY <3>4, <3>5, <3>6, <3>7 DEF ReaderInv
  <2> QED
    BY <2>3, <2>4, <2>5, <2>6 DEF ProtocolInv
<1>2. CASE ReleaseBarrier
  BY <1>1, <1>2 DEF ReleaseBarrier
<1>3. CASE AdvanceBarrier
  BY <1>1, <1>3 DEF AdvanceBarrier
<1>4. CASE StepBarrier
  BY <1>1, <1>4 DEF StepBarrier
<1> QED
  BY <1>2, <1>3, <1>4 DEF ReaderBarriers

(* The application threads of the writers do not take part.                *)
LEMMA OtherStepsProtocol ==
  ASSUME TypeInv, ProtocolInv,
         UNCHANGED <<flush, controlQueue, cpc, closer, readerStep, openCount,
                     bridgeOpened, rpc, awaiting, dst, cond, mystep, created,
                     opened, sendees>>
  PROVE  ProtocolInv'
<1>1. \A q \in Readers : SameReader(q) /\ SameBridges(q) /\ SameRequests(q)
  BY QueuesUnchanged DEF SameReader, SameBridges
<1>2. \A w \in Writers : CloserInv(w)'
  BY DEF ProtocolInv, CloserInv
<1>3. OpenCountExact'
  BY DEF ProtocolInv, OpenCountExact
<1> QED
  BY <1>1, <1>2, <1>3, NoneAnswered

(* The coordinator of a reader is among the bridges it builds first.       *)
LEMMA CoordinatorFirst ==
  ASSUME NEW r \in Readers
  PROVE  Coordinator(r) \in FirstBridges(r)
<1>1. CASE NR < NW
  <2>1. PerReader \in Nat /\ PerReader >= 1
    BY <1>1, StreamAssumption DEF PerReader
  <2>2. r \in Nat
    BY DEF Readers
  <2>3. /\ PerReader * (r + 1) = PerReader * r + PerReader
        /\ PerReader * r \in Nat
    BY <2>1, <2>2
  <2> QED
    BY <1>1, <2>1, <2>3 DEF Coordinator, FirstBridges
<1>2. CASE ~(NR < NW)
  BY <1>2 DEF Coordinator, FirstBridges
<1> QED
  BY <1>1, <1>2

(* Initially no bridge is open and no message is under way.                *)
LEMMA InitProtocol ==
  ASSUME Init
  PROVE  ProtocolInv
<1>1. ASSUME NEW r \in Readers PROVE ReaderInv(r)
  <2>1. \A w \in Writers : Len(controlQueue[w]) = 0 /\ Len(flush[w]) = 0
    BY DEF Init
  <2>2. DueInv(r) /\ SingleInv(r)
    BY <2>1 DEF DueInv, SingleInv
  <2>3. BridgeInv(r) /\ AwaitInv(r)
    BY DEF Init, BridgeInv, AwaitInv
  <2>4. OpenInv(r)
    BY CoordinatorFirst DEF Init, OpenInv
  <2> QED
    BY <2>2, <2>3, <2>4 DEF ReaderInv
<1>2. \A w \in Writers : CloserInv(w)
  BY DEF Init, CloserInv
<1>3. TogetherInv
  BY DEF Init, TogetherInv
<1>4. OpenCountExact
  BY FS_EmptySet DEF Init, OpenCountExact
<1> QED
  BY <1>1, <1>2, <1>3, <1>4 DEF ProtocolInv

(* Readers and writers agree about what is open, who waits for whom and    *)
(* what is under way between them, in every behaviour of the stream.       *)
THEOREM StreamProtocolInvariant == SafeSpec => []ProtocolInv
<1>1. Init => ProtocolInv
  BY InitProtocol
<1>2. TypeInv /\ ProtocolInv /\ [Next]_vars => ProtocolInv'
  <2> SUFFICES ASSUME TypeInv, ProtocolInv, [Next]_vars PROVE ProtocolInv'
    OBVIOUS
  <2>1. CASE Allgather
    BY <2>1, OtherStepsProtocol DEF Allgather, WriterRest, readerVars
  <2>2. CASE ReaderBarriers
    BY <2>2, BarrierProtocol
  <2>3. ASSUME NEW w \in Writers, WriterStep(w)
        PROVE  ProtocolInv'
    BY <2>3, OtherStepsProtocol DEF WriterStep, CloseEnqueue, PublishStep,
       PublishGroup, FinalizeAnnounce, FinalizeReturn, WriterRest, readerVars
  <2>4. ASSUME NEW w \in Writers, MultiqueueAction(w) \/ ControlStep(w)
        PROVE  ProtocolInv'
    BY <2>4, MultiqueueProtocol, ControlStepProtocol
  <2>5. ASSUME NEW r \in Readers, ReaderStep(r)
        PROVE  ProtocolInv'
    BY <2>5, ReaderStepProtocol
  <2>6. CASE Terminated \/ UNCHANGED vars
    BY <2>6, OtherStepsProtocol DEF Terminated, vars, writerVars, readerVars
  <2> QED
    BY <2>1, <2>2, <2>3, <2>4, <2>5, <2>6 DEF Next
<1> QED
  BY <1>1, <1>2, StreamTypeInvariant, PTL DEF SafeSpec

(* The reference count by which process_close_msg decides to drop a step   *)
(* is the number of bridges marked open, for any number of readers.        *)
THEOREM StreamOpenCountExact == SafeSpec => []OpenCountExact
<1>1. ProtocolInv => OpenCountExact
  BY DEF ProtocolInv
<1> QED
  BY <1>1, StreamProtocolInvariant, PTL

(* The head of the data queue is the step that is being served.            *)
LEMMA HeadServed ==
  ASSUME TypeInv, QueueIsWindow, NEW w \in Writers, dataQueue[w] # <<>>
  PROVE  Head(dataQueue[w]) = ServedStep(w)
<1>1. dataQueue[w] \in Seq(Steps)
  BY DEF TypeInv, TypeOK, AppTypeOK
<1>2. ServedStep(w) \in Nat
  <2>1. readerStep[w] \in Nat
    BY DEF TypeInv, TypeOK, ControlTypeOK
  <2>2. readerStep[w] + 1 \in Nat
    BY <2>1
  <2> QED
    BY <2>1, <2>2 DEF ServedStep
<1>3. 1 \in 1 .. Len(dataQueue[w]) /\ Head(dataQueue[w]) = dataQueue[w][1]
  BY <1>1, HeadElement
<1>4. dataQueue[w][1] = ServedStep(w) + 1 - 1
  BY <1>3 DEF QueueIsWindow
<1>5. \A s \in Nat : s + 1 - 1 = s
  OBVIOUS
<1> QED
  BY <1>2, <1>3, <1>4, <1>5

(* A writer with a bridge open is not in the middle of dropping a step.    *)
LEMMA OpenBridgeServes ==
  ASSUME ProtocolInv, NEW w \in Writers, NEW r \in Readers, r \in bridgeOpened[w]
  PROVE  cpc[w] = "idle" /\ ServedStep(w) = mystep[r]
<1>1. cpc[w] = "idle"
  BY DEF ProtocolInv, CloserInv
<1>2. readerStep[w] = mystep[r]
  BY DEF ProtocolInv, ReaderInv, BridgeInv
<1> QED
  BY <1>1, <1>2 DEF ServedStep

(* While a reader has a step open the writer knows it, is at that step and *)
(* keeps its buffer in front.                                              *)
THEOREM StreamOpenStepRetained == SafeSpec => []OpenStepRetained
<1>1. TypeInv /\ ProtocolInv /\ QueueIsWindow => OpenStepRetained
  <2> SUFFICES ASSUME TypeInv, ProtocolInv, QueueIsWindow, NEW r \in Readers,
                      NEW w \in opened[r], ~(awaiting[r] = "CLOSE" /\ dst[r] = w)
               PROVE  /\ r \in bridgeOpened[w]
                      /\ readerStep[w] = mystep[r]
                      /\ dataQueue[w] # <<>> => Head(dataQueue[w]) = mystep[r]
    BY DEF OpenStepRetained
  <2>1. w \in Writers
    BY DEF TypeInv, TypeOK, ReaderTypeOK
  <2>2. r \in bridgeOpened[w] /\ readerStep[w] = mystep[r]
    BY <2>1 DEF ProtocolInv, ReaderInv, BridgeInv
  <2> QED
    BY <2>1, <2>2, HeadServed, OpenBridgeServes
<1> QED
  BY <1>1, StreamTypeInvariant, StreamProtocolInvariant, StreamQueueIsWindow, PTL

-----------------------------------------------------------------------------
(* What a reader works with belongs to its step.                           *)

(* The request that the control thread takes is due.                       *)
LEMMA HeadDue ==
  ASSUME TypeInv, ProtocolInv, NEW w \in Writers,
         NEW type \in {"OPEN", "CLOSE", "DATA_FLUSH"}, Receive(w, type)
  PROVE  /\ Head(controlQueue[w]).from \in Readers
         /\ Head(controlQueue[w]).type = type
         /\ ControlDue(w, Head(controlQueue[w]))
<1>1. /\ controlQueue[w] # <<>> /\ Head(controlQueue[w]).type = type
      /\ controlQueue[w] \in Seq(ControlMsgs)
  BY DEF Receive, TypeInv, TypeOK, ControlTypeOK
<1>2. Head(controlQueue[w]) \in ControlMsgs
  BY <1>1, HeadTailType
<1>3. PICK r \in Readers : r = Head(controlQueue[w]).from
  BY <1>2 DEF ControlMsgs
<1>4. Request(Head(controlQueue[w]), r)
  BY <1>1, <1>3 DEF Request
<1>5. 1 \in 1 .. Len(controlQueue[w]) /\ Head(controlQueue[w]) = controlQueue[w][1]
  BY <1>1, HeadElement
<1>6. DueInv(r)
  BY DEF ProtocolInv, ReaderInv
<1> QED
  BY <1>1, <1>3, <1>4, <1>5, <1>6 DEF DueInv

(* The flush message that the stone answers is due.                        *)
LEMMA FlushHeadDue ==
  ASSUME TypeInv, ProtocolInv, NEW w \in Writers, flush[w] # <<>>
  PROVE  /\ Head(flush[w]).from \in Readers
         /\ Head(flush[w]).type \in {"DATA", "EVGROUP", "STEP"}
         /\ FlushDue(w, Head(flush[w]))
<1>1. flush[w] \in Seq(FlushMsgs)
  BY DEF TypeInv, TypeOK, StoneTypeOK
<1>2. Head(flush[w]) \in FlushMsgs
  BY <1>1, HeadTailType
<1>3. PICK r \in Readers : r = Head(flush[w]).from
  BY <1>2 DEF FlushMsgs
<1>4. Head(flush[w]).type \in {"DATA", "EVGROUP", "STEP"}
  BY <1>2 DEF FlushMsgs
<1>5. Request(Head(flush[w]), r)
  BY <1>3, <1>4 DEF Request
<1>6. 1 \in 1 .. Len(flush[w]) /\ Head(flush[w]) = flush[w][1]
  BY <1>1, HeadElement
<1>7. DueInv(r)
  BY DEF ProtocolInv, ReaderInv
<1> QED
  BY <1>3, <1>4, <1>5, <1>6, <1>7 DEF DueInv

(* The buffer a reader is served is the one of its step.                   *)
LEMMA ServedBuffer ==
  ASSUME TypeInv, ProtocolInv, QueueIsWindow, NEW w \in Writers,
         ProcessDataFlush(w)
  PROVE  /\ Head(controlQueue[w]).from \in Readers
         /\ Asking(Head(controlQueue[w]).from, w)
         /\ Head(dataQueue[w]) = mystep[Head(controlQueue[w]).from]
<1>1. Receive(w, "DATA_FLUSH") /\ dataQueue[w] # <<>>
  BY DEF ProcessDataFlush
<1>2. PICK r \in Readers : r = Head(controlQueue[w]).from
  BY <1>1, HeadDue
<1>3. Asking(r, w)
  BY <1>1, <1>2, HeadDue DEF ControlDue
<1>4. r \in bridgeOpened[w]
  BY <1>3, AskingBridge DEF ProtocolInv
<1> QED
  BY <1>1, <1>2, <1>3, <1>4, HeadServed, OpenBridgeServes

(* Every reply that a reader keeps is of its step.                         *)
GotInv == \A r \in Readers : \A d \in got[r] : d.step = mystep[r]

(* Every step keeps the replies those of the reader's step: a reply is     *)
(* made of the served buffer, and the next step begins with none.          *)
LEMMA GotStep ==
  ASSUME TypeInv, ProtocolInv, QueueIsWindow, GotInv, [Next]_vars
  PROVE  GotInv'
<1>a. got \in [Readers -> SUBSET Replies]
  BY DEF TypeInv, TypeOK, RequestTypeOK
<1>1. CASE UNCHANGED <<got, mystep>>
  BY <1>1 DEF GotInv
<1>2. CASE ReaderBarriers
  <2>1. CASE StepBarrier
    BY <2>1 DEF StepBarrier, GotInv
  <2>2. CASE ReleaseBarrier \/ AdvanceBarrier
    BY <2>2, <1>1 DEF ReleaseBarrier, AdvanceBarrier
  <2> QED
    BY <1>2, <2>1, <2>2 DEF ReaderBarriers
<1>3. ASSUME NEW w \in Writers, ProcessDataFlush(w)
      PROVE  GotInv'
  <2>1. PICK q \in Readers : q = Head(controlQueue[w]).from
    BY <1>3, ServedBuffer
  <2>2. Head(dataQueue[w]) = mystep[q]
    BY <1>3, <2>1, ServedBuffer
  <2>3. /\ got' = [got EXCEPT ![q] = @ \cup
             {[writer |-> w, step |-> Head(dataQueue[w]),
               asked |-> q \in askedVars[w]]}]
        /\ mystep' = mystep
    BY <1>3, <2>1 DEF ProcessDataFlush, RawHandler
  <2>4. ASSUME NEW r \in Readers, NEW d \in got'[r]
        PROVE  d.step = mystep[r]
    <3>1. \/ d \in got[r]
          \/ /\ r = q
             /\ d = [writer |-> w, step |-> Head(dataQueue[w]),
                     asked |-> q \in askedVars[w]]
      BY <2>3, <2>4, <1>a
    <3> QED
      BY <3>1, <2>2 DEF GotInv
  <2> QED
    BY <2>3, <2>4 DEF GotInv
<1>4. ASSUME NEW w \in Writers,
             \/ WriterStep(w) \/ MultiqueueAction(w)
             \/ (ControlStep(w) /\ ~ProcessDataFlush(w))
      PROVE  UNCHANGED <<got, mystep>>
  BY <1>4 DEF WriterStep, CloseEnqueue, PublishStep, PublishGroup,
     FinalizeAnnounce, FinalizeReturn, MultiqueueAction, ControlStep, ProcessVar,
     ProcessOpen, ProcessClose, CloseDequeue, CloseAck, WriterRest, readerVars
<1>5. ASSUME NEW r \in Readers, ReaderStep(r)
      PROVE  UNCHANGED <<got, mystep>>
  BY <1>5 DEF ReaderStep, OpAcknowledged, OpenNext, Fetch, FetchGroup,
     ScheduleReads, VarOpen, VarSend, PerformReads, PerformSend, PerformPending,
     PerformBatchDone, PerformReturn, ReleaseReturn, PollSend, PollReturn,
     CloseNext, CloseLoopDone
<1>6. CASE Allgather \/ Terminated \/ UNCHANGED vars
  BY <1>6, <1>1 DEF Allgather, Terminated, vars, readerVars, WriterRest
<1> QED
  BY <1>1, <1>2, <1>3, <1>4, <1>5, <1>6 DEF Next, ControlStep

(* A reader holds the group message of its step; it has seen it.           *)
GroupHeld(r) ==
  \/ rpc[r] = "group" /\ cond[r]
  \/ rpc[r] \in {"schedule", "perform", "perform sent", "perform wait",
                 "release barrier"}
GroupSeen(r) ==
  GroupHeld(r) \/ rpc[r] \in {"release", "advance barrier"} \cup Late

(* The step of the oldest group message at the stone of writer w.          *)
DroppedStep(w) ==
  IF cpc[w] = "close resumes" THEN readerStep[w] + 1 ELSE readerStep[w]

(* With global arrays the group messages at a coordinator are the window   *)
(* from the step that is being read to the last one published.             *)
GroupWindow(w) == IsWindow(evgroup[w], DroppedStep(w), writerStep[w])

GroupInv ==
  GlobalVars => \A r \in Readers :
    /\ GroupWindow(Coordinator(r))
    /\ GroupSeen(r) => mystep[r] < writerStep[Coordinator(r)]
    /\ GroupHeld(r) => gp[r] = mystep[r]

(* When the last CLOSE of a step is processed every reader is past the     *)
(* barrier of advance_step and has seen the step's group message.          *)
LEMMA ClosingSeen ==
  ASSUME ProtocolInv, NEW w \in Writers, cpc[w] # "idle", NEW r \in Readers
  PROVE  /\ rpc[r] \in Late
         /\ mystep[r] = readerStep[w]
         /\ bridgeOpened[w] = {}
<1>1. /\ closer[w] \in Readers /\ awaiting[closer[w]] = "CLOSE"
      /\ mystep[closer[w]] = readerStep[w] /\ bridgeOpened[w] = {}
  BY DEF ProtocolInv, CloserInv
<1>2. rpc[closer[w]] \in Late
  BY <1>1 DEF ProtocolInv, ReaderInv, AwaitInv, Late
<1> QED
  BY <1>1, <1>2 DEF ProtocolInv, TogetherInv

(* The coordinator's group messages stay the window from the step last     *)
(* dropped to the one last published: the drop message of a step comes     *)
(* after that step's group message has been seen, so it never finds the    *)
(* queue empty.                                                            *)
LEMMA GroupWindowStep ==
  ASSUME TypeInv, ProtocolInv, GroupInv, GlobalVars, [Next]_vars,
         NEW r \in Readers
  PROVE  GroupWindow(Coordinator(r))'
<1>0. PICK w \in Writers : w = Coordinator(r)
  BY BridgesExist
<1> SUFFICES IsWindow(evgroup'[w], DroppedStep(w)', writerStep'[w])
  BY <1>0 DEF GroupWindow
<1>a. /\ evgroup \in [Writers -> Seq(Steps)]
      /\ evgroup[w] \in Seq(Steps)
      /\ DOMAIN wpc = Writers /\ DOMAIN writerStep = Writers
      /\ cpc \in [Writers -> {"idle", "close", "close waits", "close resumes"}]
  BY DEF TypeInv, TypeOK, AppTypeOK, StoneTypeOK, ControlTypeOK
<1>b. readerStep \in [Writers -> Nat] /\ writerStep \in [Writers -> 0 .. NSteps]
  BY DEF TypeInv, TypeOK, AppTypeOK, ControlTypeOK
<1>c. /\ readerStep[w] \in Nat /\ readerStep[w] + 1 \in Nat
      /\ writerStep[w] \in Nat /\ writerStep[w] \in Int
      /\ writerStep[w] < NSteps => writerStep[w] \in Steps
  BY <1>b, StreamAssumption DEF Steps
<1>d. DroppedStep(w) \in Nat
  BY <1>c DEF DroppedStep
<1>e. IsWindow(evgroup[w], DroppedStep(w), writerStep[w])
  BY <1>0 DEF GroupInv, GroupWindow
<1>1. CASE /\ evgroup'[w] = evgroup[w] /\ writerStep'[w] = writerStep[w]
           /\ DroppedStep(w)' = DroppedStep(w)
  BY <1>1, <1>e
<1>2. CASE PublishGroup(w)
  <2>1. /\ evgroup'[w] = Append(evgroup[w], writerStep[w])
        /\ wpc[w] = "publish group"
        /\ UNCHANGED <<cpc, readerStep>>
    BY <1>2, <1>a DEF PublishGroup, WriterRest
  <2>2. writerStep'[w] = writerStep[w] + 1
    BY <1>2, <1>b DEF PublishGroup
  <2>3. writerStep[w] \in Steps
    BY <2>1, <1>c DEF TypeInv, PublishingInv
  <2>4. DroppedStep(w)' = DroppedStep(w)
    BY <2>1 DEF DroppedStep
  <2> QED
    BY <2>1, <2>2, <2>3, <2>4, <1>a, <1>d, <1>e, WindowAppend
<1>3. CASE MultiqueueAction(w)
  <2>1. /\ evgroup'[w] = AfterDrop(w)
        /\ UNCHANGED <<writerStep, readerStep>>
        /\ cpc'[w] = IF cpc[w] = "close waits" THEN "close resumes" ELSE cpc[w]
    BY <1>3, <1>a DEF MultiqueueAction
  <2>2. CASE cpc[w] # "close waits"
    <3>1. evgroup'[w] = evgroup[w]
      BY <2>1, <2>2 DEF AfterDrop
    <3>2. DroppedStep(w)' = DroppedStep(w)
      BY <2>1, <2>2 DEF DroppedStep
    <3> QED
      BY <3>1, <3>2, <2>1, <1>1
  <2>3. CASE cpc[w] = "close waits"
    <3>1. DroppedStep(w) = readerStep[w] /\ DroppedStep(w)' = readerStep[w] + 1
      BY <2>1, <2>3 DEF DroppedStep
    <3>2. mystep[r] = readerStep[w] /\ rpc[r] \in Late
      BY <2>3, ClosingSeen
    <3>3. readerStep[w] < writerStep[w]
      BY <3>2, <1>0 DEF GroupInv, GroupSeen
    <3>4. evgroup[w] # <<>>
      <4>1. Len(evgroup[w]) # 0
        <5>1. DroppedStep(w) + Len(evgroup[w]) = writerStep[w]
          BY <1>e DEF IsWindow
        <5> QED
          BY <5>1, <3>1, <3>3, <1>c
      <4> QED
        BY <4>1
    <3>5. evgroup'[w] = Tail(evgroup[w])
      BY <2>1, <2>3, <3>4 DEF AfterDrop
    <3>6. IsWindow(evgroup[w], readerStep[w], writerStep[w])
      BY <3>1, <1>e
    <3>7. IsWindow(Tail(evgroup[w]), readerStep[w] + 1, writerStep[w])
      BY <3>4, <3>6, <1>a, <1>c, WindowTail
    <3> QED
      BY <3>1, <3>5, <3>7, <2>1
  <2> QED
    BY <2>2, <2>3
<1>4. ASSUME NEW v \in Writers, MultiqueueAction(v), v # w
      PROVE  /\ evgroup'[w] = evgroup[w] /\ writerStep'[w] = writerStep[w]
             /\ DroppedStep(w)' = DroppedStep(w)
  <2>1. /\ evgroup'[w] = evgroup[w] /\ UNCHANGED <<writerStep, readerStep>>
        /\ cpc'[w] = cpc[w]
    BY <1>4, <1>a DEF MultiqueueAction
  <2> QED
    BY <2>1 DEF DroppedStep
<1>5. ASSUME NEW v \in Writers, WriterStep(v), ~PublishGroup(w)
      PROVE  /\ evgroup'[w] = evgroup[w] /\ writerStep'[w] = writerStep[w]
             /\ DroppedStep(w)' = DroppedStep(w)
  <2>1. UNCHANGED <<cpc, readerStep>>
    BY <1>5 DEF WriterStep, CloseEnqueue, PublishStep, PublishGroup,
       FinalizeAnnounce, FinalizeReturn, WriterRest
  <2>2. evgroup'[w] = evgroup[w] /\ writerStep'[w] = writerStep[w]
    <3>1. CASE PublishGroup(v)
      <4>1. v # w
        BY <1>5, <3>1
      <4> QED
        BY <3>1, <4>1, <1>a DEF PublishGroup
    <3>2. CASE ~PublishGroup(v)
      BY <1>5, <3>2 DEF WriterStep, CloseEnqueue, PublishStep,
         FinalizeAnnounce, FinalizeReturn
    <3> QED
      BY <3>1, <3>2
  <2> QED
    BY <2>1, <2>2 DEF DroppedStep
<1>6. ASSUME NEW v \in Writers, ControlStep(v)
      PROVE  /\ evgroup'[w] = evgroup[w] /\ writerStep'[w] = writerStep[w]
             /\ DroppedStep(w)' = DroppedStep(w)
  <2>1. UNCHANGED <<evgroup, writerStep>>
    BY <1>6 DEF ControlStep, ProcessVar, ProcessDataFlush, ProcessOpen,
       ProcessClose, CloseDequeue, CloseAck
  <2>2. DroppedStep(w)' = DroppedStep(w)
    <3>1. CASE CloseAck(v)
      <4>1. CASE v = w
        <5>1. /\ cpc[w] = "close resumes" /\ cpc'[w] = "idle"
          BY <3>1, <4>1, <1>a DEF CloseAck
        <5>2. readerStep'[w] = readerStep[w] + 1
          BY <3>1, <4>1, <1>b DEF CloseAck
        <5> QED
          BY <5>1, <5>2 DEF DroppedStep
      <4>2. CASE v # w
        <5>1. cpc'[w] = cpc[w] /\ readerStep'[w] = readerStep[w]
          BY <3>1, <4>2, <1>a, <1>b DEF CloseAck
        <5> QED
          BY <5>1 DEF DroppedStep
      <4> QED
        BY <4>1, <4>2
    <3>2. CASE ProcessClose(v) \/ CloseDequeue(v)
      <4>1. /\ readerStep' = readerStep
            /\ cpc[w] = "close resumes" <=> cpc'[w] = "close resumes"
        <5>1. CASE ProcessClose(v)
          BY <5>1, <1>a DEF ProcessClose, Receive
        <5>2. CASE CloseDequeue(v)
          BY <5>2, <1>a DEF CloseDequeue
        <5> QED
          BY <3>2, <5>1, <5>2
      <4> QED
        BY <4>1 DEF DroppedStep
    <3>3. CASE ProcessVar(v) \/ ProcessDataFlush(v) \/ ProcessOpen(v)
      BY <3>3 DEF ProcessVar, ProcessDataFlush, ProcessOpen, DroppedStep
    <3> QED
      BY <1>6, <3>1, <3>2, <3>3 DEF ControlStep
  <2> QED
    BY <2>1, <2>2
<1>7. CASE UNCHANGED <<evgroup, writerStep, cpc, readerStep>>
  BY <1>7, <1>1 DEF DroppedStep
<1>8. CASE ReaderBarriers \/ \E q \in Readers : ReaderStep(q)
  BY <1>8, <1>7, ReaderFrame DEF WriterSide
<1>9. CASE Allgather \/ Terminated \/ UNCHANGED vars
  BY <1>9, <1>7 DEF Allgather, Terminated, vars, writerVars, WriterRest
<1> QED
  BY <1>1, <1>2, <1>3, <1>4, <1>5, <1>6, <1>8, <1>9 DEF Next

(* A reader that waits for its group message is signalled by that message  *)
(* only.                                                                   *)
LEMMA GroupCond ==
  ASSUME TypeInv, ProtocolInv, NEW w \in Writers, ControlStep(w),
         NEW r \in Readers, rpc[r] = "group"
  PROVE  cond'[r] = cond[r]
<1>a. cond \in [Readers -> BOOLEAN]
  BY DEF TypeInv, TypeOK, ReaderTypeOK
<1>b. awaiting[r] = "nothing"
  <2>1. awaiting[r] \in {"nothing", "OPEN", "CLOSE"}
    BY DEF TypeInv, TypeOK, ReaderTypeOK
  <2>2. AwaitInv(r)
    BY DEF ProtocolInv, ReaderInv
  <2> QED
    BY <2>1, <2>2 DEF AwaitInv
<1>1. CASE ProcessDataFlush(w)
  <2>1. Receive(w, "DATA_FLUSH") /\ RawHandler(w, Head(controlQueue[w]).from)
    BY <1>1 DEF ProcessDataFlush
  <2>2. r # Head(controlQueue[w]).from
    BY <2>1, HeadDue DEF ControlDue, Asking
  <2> QED
    BY <2>1, <2>2, <1>a DEF RawHandler
<1>2. CASE ProcessOpen(w)
  <2>1. /\ Receive(w, "OPEN")
        /\ \/ cond' = cond
           \/ cond' = [cond EXCEPT ![Head(controlQueue[w]).from] = TRUE]
    BY <1>2 DEF ProcessOpen
  <2>2. r # Head(controlQueue[w]).from
    BY <2>1, <1>b, HeadDue DEF ControlDue
  <2> QED
    BY <2>1, <2>2, <1>a
<1>3. CASE ProcessClose(w)
  <2>1. /\ Receive(w, "CLOSE")
        /\ \/ cond' = cond
           \/ cond' = [cond EXCEPT ![Head(controlQueue[w]).from] = TRUE]
    BY <1>3 DEF ProcessClose
  <2>2. r # Head(controlQueue[w]).from
    BY <2>1, <1>b, HeadDue DEF ControlDue
  <2> QED
    BY <2>1, <2>2, <1>a
<1>4. CASE CloseAck(w)
  <2>1. cond' = [cond EXCEPT ![closer[w]] = TRUE] /\ cpc[w] # "idle"
    BY <1>4 DEF CloseAck
  <2>2. r # closer[w]
    BY <2>1, <1>b DEF ProtocolInv, CloserInv
  <2> QED
    BY <2>1, <2>2, <1>a
<1>5. CASE ProcessVar(w) \/ CloseDequeue(w)
  BY <1>5 DEF ProcessVar, CloseDequeue, readerVars
<1> QED
  BY <1>1, <1>2, <1>3, <1>4, <1>5 DEF ControlStep

(* A reader's group message is the one of its step, and its coordinator    *)
(* has published that step.                                                *)
LEMMA GroupReaderStep ==
  ASSUME TypeInv, ProtocolInv, GroupInv, GlobalVars, [Next]_vars,
         NEW r \in Readers
  PROVE  /\ GroupSeen(r)' => mystep'[r] < writerStep'[Coordinator(r)]
         /\ GroupHeld(r)' => gp'[r] = mystep'[r]
<1> DEFINE Goal == /\ GroupSeen(r)' => mystep'[r] < writerStep'[Coordinator(r)]
                   /\ GroupHeld(r)' => gp'[r] = mystep'[r]
<1>0. PICK w \in Writers : w = Coordinator(r)
  BY BridgesExist
<1>a. /\ DOMAIN rpc = Readers /\ DOMAIN gp = Readers
      /\ cond \in [Readers -> BOOLEAN]
      /\ evgroup[w] \in Seq(Steps)
      /\ DOMAIN writerStep = Writers
  BY DEF TypeInv, TypeOK, AppTypeOK, StoneTypeOK, ReaderTypeOK, RequestTypeOK
<1>b. /\ writerStep[w] \in Nat /\ mystep[r] \in Nat
      /\ writerStep \in [Writers -> 0 .. NSteps]
  <2>1. writerStep \in [Writers -> 0 .. NSteps] /\ mystep \in [Readers -> Nat]
    BY DEF TypeInv, TypeOK, AppTypeOK, ReaderTypeOK
  <2> QED
    BY <2>1, StreamAssumption
<1>c. /\ GroupSeen(r) => mystep[r] < writerStep[w]
      /\ GroupHeld(r) => gp[r] = mystep[r]
      /\ GroupWindow(w)
  BY <1>0 DEF GroupInv
<1>1. CASE /\ writerStep'[w] = writerStep[w] /\ mystep'[r] = mystep[r]
           /\ GroupHeld(r)' => gp'[r] = gp[r] /\ GroupHeld(r)
           /\ GroupSeen(r)' => GroupSeen(r)
  BY <1>1, <1>c, <1>0
<1>2. ASSUME NEW v \in Writers, WriterStep(v)
      PROVE  Goal
  <2>1. UNCHANGED <<mystep, rpc, cond, gp>>
    BY <1>2 DEF WriterStep, CloseEnqueue, PublishStep, PublishGroup,
       FinalizeAnnounce, FinalizeReturn, WriterRest, readerVars
  <2>2. \/ writerStep'[w] = writerStep[w]
        \/ writerStep'[w] = writerStep[w] + 1
    BY <1>2, <1>b DEF WriterStep, CloseEnqueue, PublishStep, PublishGroup,
       FinalizeAnnounce, FinalizeReturn
  <2>3. mystep[r] < writerStep[w] => mystep[r] < writerStep'[w]
    BY <2>2, <1>b
  <2> QED
    BY <2>1, <2>3, <1>0, <1>c DEF GroupSeen, GroupHeld
<1>3. ASSUME NEW v \in Writers, MultiqueueAction(v)
      PROVE  Goal
  <2>1. UNCHANGED <<mystep, rpc, writerStep>>
    BY <1>3 DEF MultiqueueAction
  <2>2. CASE gp'[r] = gp[r] /\ (cond'[r] = cond[r] \/ rpc[r] # "group")
    BY <2>1, <2>2, <1>1 DEF GroupSeen, GroupHeld
  <2>3. CASE ~(gp'[r] = gp[r] /\ (cond'[r] = cond[r] \/ rpc[r] # "group"))
    <3>1. AnswerFlush(v)
      BY <1>3, <2>3 DEF MultiqueueAction, LeaveFlush
    <3>2. flush[v] # <<>> /\ FlushDue(v, Head(flush[v]))
      BY <3>1, FlushHeadDue DEF AnswerFlush, Answerable
    <3>3. /\ Head(flush[v]).type = "EVGROUP"
          /\ AnswerGroup(Head(flush[v]).from, Head(AfterDrop(v)))
          /\ Head(flush[v]).from = r
      <4>1. CASE /\ Head(flush[v]).type = "STEP"
                 /\ AnswerStep(Head(flush[v]).from, Head(KeepNewest(stepMsg[v])))
        <5>1. /\ gp' = gp
              /\ cond' = [cond EXCEPT ![Head(flush[v]).from] = TRUE]
          BY <4>1 DEF AnswerStep
        <5>2. Head(flush[v]).from = r
          BY <5>1, <2>3, <1>a
        <5> QED
          BY <4>1, <5>1, <5>2, <2>3, <3>2 DEF FlushDue
      <4>2. CASE Head(flush[v]).type = "DATA" /\ PassData(v, Head(flush[v]).from)
        BY <4>2, <2>3 DEF PassData
      <4>3. CASE /\ Head(flush[v]).type = "EVGROUP"
                 /\ AnswerGroup(Head(flush[v]).from, Head(AfterDrop(v)))
        <5>1. /\ gp' = [gp EXCEPT ![Head(flush[v]).from] = Head(AfterDrop(v))]
              /\ cond' = [cond EXCEPT ![Head(flush[v]).from] = TRUE]
          BY <4>3 DEF AnswerGroup
        <5>2. Head(flush[v]).from = r
          BY <5>1, <2>3, <1>a
        <5> QED
          BY <4>3, <5>2
      <4> QED
        BY <3>1, <4>1, <4>2, <4>3 DEF AnswerFlush
    <3>4. rpc[r] = "group" /\ v = w
      BY <3>2, <3>3, <1>0 DEF FlushDue
    <3>5. r \in bridgeOpened[w]
      <4>1. ReaderInv(r) /\ awaiting[r] \in {"nothing", "OPEN", "CLOSE"}
        BY DEF ProtocolInv, TypeInv, TypeOK, ReaderTypeOK
      <4>2. w \in opened[r] /\ awaiting[r] = "nothing"
        BY <4>1, <3>4, <1>0 DEF ReaderInv, OpenInv, AwaitInv
      <4> QED
        BY <4>1, <4>2 DEF ReaderInv, BridgeInv
    <3>6. cpc[w] = "idle" /\ readerStep[w] = mystep[r]
      BY <3>5, OpenBridgeServes DEF ServedStep
    <3>7. AfterDrop(w) = evgroup[w] /\ evgroup[w] # <<>>
      BY <3>1, <3>3, <3>4, <3>6 DEF AfterDrop, AnswerFlush, Answerable
    <3>8. /\ mystep[r] + Len(evgroup[w]) = writerStep[w]
          /\ \A i \in 1 .. Len(evgroup[w]) : evgroup[w][i] = mystep[r] + i - 1
      BY <3>6, <1>c DEF GroupWindow, IsWindow, DroppedStep
    <3>9. /\ 1 \in 1 .. Len(evgroup[w]) /\ Head(evgroup[w]) = evgroup[w][1]
          /\ Len(evgroup[w]) \in Nat
      BY <3>7, <1>a, HeadElement
    <3>10. Head(evgroup[w]) = mystep[r] /\ mystep[r] < writerStep[w]
      <4>1. Head(evgroup[w]) = mystep[r] + 1 - 1
        BY <3>8, <3>9
      <4>2. \A n, s, e \in Nat : 1 \in 1 .. n /\ s + n = e
                                   => s + 1 - 1 = s /\ s < e
        OBVIOUS
      <4> QED
        BY <4>1, <4>2, <3>8, <3>9, <1>b
    <3>11. gp'[r] = Head(evgroup[w])
      BY <3>3, <3>4, <3>7, <1>a DEF AnswerGroup
    <3> QED
      BY <3>10, <3>11, <2>1, <1>0
  <2> QED
    BY <2>2, <2>3
<1>4. ASSUME NEW v \in Writers, ControlStep(v)
      PROVE  Goal
  <2>1. UNCHANGED <<mystep, rpc, writerStep, gp>>
    BY <1>4 DEF ControlStep, ProcessVar, ProcessDataFlush, ProcessOpen,
       ProcessClose, CloseDequeue, CloseAck, readerVars
  <2>2. rpc[r] = "group" => cond'[r] = cond[r]
    BY <1>4, GroupCond
  <2> QED
    BY <2>1, <2>2, <1>1 DEF GroupSeen, GroupHeld
<1>5. ASSUME NEW q \in Readers, ReaderStep(q)
      PROVE  Goal
  <2>1. UNCHANGED <<mystep, writerStep>>
    BY <1>5 DEF ReaderStep, OpAcknowledged, OpenNext, Fetch, FetchGroup,
       ScheduleReads, VarOpen, VarSend, PerformReads, PerformSend,
       PerformPending, PerformBatchDone, PerformReturn, ReleaseReturn,
       PollSend, PollReturn, CloseNext, CloseLoopDone, WriterSide
  <2>2. CASE q # r
    <3>1. rpc'[r] = rpc[r] /\ gp'[r] = gp[r]
      BY <1>5, <2>2, <1>a DEF ReaderStep, OpAcknowledged, OpenNext, Fetch,
         FetchGroup, ScheduleReads, VarOpen, VarSend, PerformReads, PerformSend,
         PerformPending, PerformBatchDone, PerformReturn, ReleaseReturn,
         PollSend, PollReturn, CloseNext, CloseLoopDone, Goto
    <3>2. cond'[r] = cond[r]
      BY <1>5, <2>2, <1>a DEF ReaderStep, OpAcknowledged, OpenNext, Fetch,
         FetchGroup, ScheduleReads, VarOpen, VarSend, PerformReads, PerformSend,
         PerformPending, PerformBatchDone, PerformReturn, ReleaseReturn,
         PollSend, PollReturn, CloseNext, CloseLoopDone, SendOp
    <3> QED
      BY <3>1, <3>2, <2>1, <1>1 DEF GroupSeen, GroupHeld
  <2>3. CASE q = r
    <3>1. CASE OpAcknowledged(r) \/ OpenNext(r) \/ VarOpen(r) \/ CloseNext(r)
      <4>1. UNCHANGED <<rpc, gp>> /\ ~cond'[r]
        BY <3>1, <1>a DEF OpAcknowledged, OpenNext, VarOpen, CloseNext, SendOp
      <4> QED
        BY <4>1, <2>1, <1>1 DEF GroupSeen, GroupHeld
    <3>2. CASE Fetch(r) \/ FetchGroup(r)
      <4>1. rpc'[r] \in {"fetch", "group"} /\ ~cond'[r]
        BY <3>2, <1>a DEF Fetch, FetchGroup, Goto
      <4> QED
        BY <4>1, <2>1, <1>1 DEF GroupSeen, GroupHeld, Late
    <3>3. CASE \/ ScheduleReads(r) \/ VarSend(r) \/ PerformReads(r)
               \/ PerformSend(r) \/ PerformPending(r) \/ PerformBatchDone(r)
               \/ PerformReturn(r)
      <4>1. gp' = gp /\ GroupHeld(r)
        BY <3>3 DEF ScheduleReads, VarSend, PerformReads, PerformSend,
           PerformPending, PerformBatchDone, PerformReturn, At, GroupHeld
      <4> QED
        BY <4>1, <2>1, <1>1 DEF GroupSeen
    <3>4. CASE \/ ReleaseReturn(r) \/ PollSend(r) \/ PollReturn(r)
               \/ CloseLoopDone(r)
      <4>1. rpc'[r] \in {"advance barrier", "poll wait", "close",
                         "end of stream", "poll", "step barrier", "done"}
        BY <3>4, <1>a DEF ReleaseReturn, PollSend, PollReturn, CloseLoopDone, Goto
      <4>2. GroupSeen(r)
        BY <3>4 DEF ReleaseReturn, PollSend, PollReturn, CloseLoopDone, At,
           GroupSeen, Late
      <4> QED
        BY <4>1, <4>2, <2>1, <1>1 DEF GroupHeld
    <3> QED
      BY <1>5, <2>3, <3>1, <3>2, <3>3, <3>4 DEF ReaderStep
  <2> QED
    BY <2>2, <2>3
<1>6. CASE ReaderBarriers
  <2>1. CASE ReleaseBarrier \/ AdvanceBarrier
    <3>1. /\ rpc[r] \in {"release barrier", "advance barrier"}
          /\ rpc'[r] \in {"release", "poll"}
          /\ UNCHANGED <<mystep, writerStep, gp>>
      BY <2>1 DEF ReleaseBarrier, AdvanceBarrier, Barrier, At, WriterSide
    <3>2. GroupSeen(r) /\ ~GroupHeld(r)'
      BY <3>1 DEF GroupSeen, GroupHeld
    <3> QED
      BY <3>1, <3>2, <1>1
  <2>2. CASE StepBarrier
    <3>1. rpc'[r] = "reopen"
      BY <2>2 DEF StepBarrier, Barrier
    <3> QED
      BY <3>1 DEF GroupSeen, GroupHeld, Late
  <2> QED
    BY <1>6, <2>1, <2>2 DEF ReaderBarriers
<1>7. CASE Allgather \/ Terminated \/ UNCHANGED vars
  <2>1. UNCHANGED <<mystep, writerStep, gp, rpc, cond>>
    BY <1>7 DEF Allgather, Terminated, vars, writerVars, readerVars, WriterRest
  <2> QED
    BY <2>1, <1>1 DEF GroupSeen, GroupHeld
<1> QED
  BY <1>2, <1>3, <1>4, <1>5, <1>6, <1>7 DEF Next

(* Everything a reader works with is of the step it is at: the buffers     *)
(* that raw_handler copied in and the group message that schedule_read     *)
(* selects writers by, however far the writers have run ahead.             *)
THEOREM StreamStepConsistency == SafeSpec => []StepConsistency
<1>1. Init => GotInv /\ GroupInv
  <2> SUFFICES ASSUME Init PROVE GotInv /\ GroupInv
    OBVIOUS
  <2>1. GotInv
    BY DEF Init, GotInv
  <2>2. ASSUME NEW r \in Readers
        PROVE  /\ GroupWindow(Coordinator(r)) /\ ~GroupSeen(r) /\ ~GroupHeld(r)
    <3>1. PICK w \in Writers : w = Coordinator(r)
      BY BridgesExist
    <3>2. evgroup[w] = <<>> /\ DroppedStep(w) = 0 /\ writerStep[w] = 0
      BY DEF Init, DroppedStep
    <3>3. GroupWindow(w)
      BY <3>2 DEF GroupWindow, IsWindow
    <3> QED
      BY <3>1, <3>3 DEF Init, GroupSeen, GroupHeld, Late
  <2> QED
    BY <2>1, <2>2 DEF GroupInv
<1>2. /\ TypeInv /\ ProtocolInv /\ QueueIsWindow /\ GotInv /\ GroupInv
      /\ [Next]_vars
      => GotInv' /\ GroupInv'
  <2> SUFFICES ASSUME TypeInv, ProtocolInv, QueueIsWindow, GotInv, GroupInv,
                      [Next]_vars
               PROVE  GotInv' /\ GroupInv'
    OBVIOUS
  <2>1. GotInv'
    BY GotStep
  <2>2. GroupInv'
    BY GroupWindowStep, GroupReaderStep DEF GroupInv
  <2> QED
    BY <2>1, <2>2
<1>3. GotInv /\ GroupInv => StepConsistency
  BY DEF GotInv, GroupInv, GroupHeld, StepConsistency
<1> QED
  BY <1>1, <1>2, <1>3, StreamTypeInvariant, StreamProtocolInvariant,
     StreamQueueIsWindow, PTL DEF SafeSpec

-----------------------------------------------------------------------------
(* What a reader asked for it gets.                                        *)

IsVar(m, r) == m.type = "VAR" /\ m.from = r
IsData(m, r) == m.type = "DATA_FLUSH" /\ m.from = r

(* Writer w knows, or will learn from a message under way, what r wants.   *)
VarKnown(w, r) ==
  \/ r \in askedVars[w]
  \/ \E i \in 1 .. Len(controlQueue[w]) : IsVar(controlQueue[w][i], r)

(* In a control queue no VAR message follows a data request of its sender. *)
VarFirst(w, r) ==
  \A i, j \in 1 .. Len(controlQueue[w]) :
    i < j /\ IsData(controlQueue[w][i], r) => ~IsVar(controlQueue[w][j], r)

AskedInv ==
  \A r \in Readers :
    /\ \A k \in 1 .. Len(sendees[r]) : VarKnown(sendees[r][k], r)
    /\ \A w \in Writers : VarFirst(w, r)

(* How a control queue moves: a VAR message that leaves it is recorded,    *)
(* and one that enters it is of a reader with no request under way.        *)
LEMMA QueueMoves ==
  ASSUME TypeInv, ProtocolInv, [Next]_vars, NEW w \in Writers
  PROVE  /\ askedVars[w] \subseteq askedVars'[w]
         /\ \/ controlQueue'[w] = controlQueue[w]
            \/ /\ controlQueue[w] # <<>>
               /\ controlQueue'[w] = Tail(controlQueue[w])
               /\ Head(controlQueue[w]).type = "VAR" =>
                    Head(controlQueue[w]).from \in askedVars'[w]
            \/ \E m \in ControlMsgs :
                 /\ controlQueue'[w] = Append(controlQueue[w], m)
                 /\ m.type = "VAR" => Quiet(m.from)
<1> DEFINE Moves ==
      /\ askedVars[w] \subseteq askedVars'[w]
      /\ \/ controlQueue'[w] = controlQueue[w]
         \/ /\ controlQueue[w] # <<>>
            /\ controlQueue'[w] = Tail(controlQueue[w])
            /\ Head(controlQueue[w]).type = "VAR" =>
                 Head(controlQueue[w]).from \in askedVars'[w]
         \/ \E m \in ControlMsgs :
              /\ controlQueue'[w] = Append(controlQueue[w], m)
              /\ m.type = "VAR" => Quiet(m.from)
<1>a. /\ controlQueue \in [Writers -> Seq(ControlMsgs)]
      /\ askedVars \in [Writers -> SUBSET Readers]
  BY DEF TypeInv, TypeOK, ControlTypeOK
<1>b. mystep \in [Readers -> Nat]
  BY DEF TypeInv, TypeOK, ReaderTypeOK
<1>1. CASE UNCHANGED <<controlQueue, askedVars>>
  BY <1>1
<1>2. ASSUME NEW v \in Writers, ControlStep(v) PROVE Moves
  <2>1. CASE ProcessVar(v)
    <3>1. /\ controlQueue[v] # <<>>
          /\ controlQueue' = [controlQueue EXCEPT ![v] = Tail(@)]
          /\ askedVars' = [askedVars EXCEPT
               ![v] = @ \cup {Head(controlQueue[v]).from}]
      BY <2>1 DEF ProcessVar, Receive
    <3>2. CASE v = w
      <4>1. /\ controlQueue[w] # <<>>
            /\ controlQueue'[w] = Tail(controlQueue[w])
            /\ askedVars'[w] = askedVars[w] \cup {Head(controlQueue[w]).from}
        BY <3>1, <3>2, <1>a
      <4> QED
        BY <4>1
    <3>3. CASE v # w
      <4>1. controlQueue'[w] = controlQueue[w] /\ askedVars'[w] = askedVars[w]
        BY <3>1, <3>3, <1>a
      <4> QED
        BY <4>1
    <3> QED
      BY <3>2, <3>3
  <2>2. CASE CloseDequeue(v) \/ CloseAck(v)
    BY <2>2, <1>1 DEF CloseDequeue, CloseAck
  <2>3. ASSUME NEW type \in {"OPEN", "CLOSE", "DATA_FLUSH"}, Receive(v, type),
               UNCHANGED askedVars
        PROVE  Moves
    <3>1. CASE v = w
      <4>1. /\ controlQueue[w] # <<>>
            /\ controlQueue'[w] = Tail(controlQueue[w])
            /\ Head(controlQueue[w]).type # "VAR"
        BY <2>3, <3>1, <1>a DEF Receive
      <4> QED
        BY <4>1, <2>3
    <3>2. CASE v # w
      <4>1. controlQueue'[w] = controlQueue[w]
        BY <2>3, <3>2, <1>a DEF Receive
      <4> QED
        BY <4>1, <2>3
    <3> QED
      BY <3>1, <3>2
  <2>4. CASE ProcessDataFlush(v)
    BY <2>3, <2>4 DEF ProcessDataFlush
  <2>5. CASE ProcessOpen(v)
    BY <2>3, <2>5 DEF ProcessOpen
  <2>6. CASE ProcessClose(v)
    BY <2>3, <2>6 DEF ProcessClose
  <2> QED
    BY <1>2, <2>1, <2>2, <2>4, <2>5, <2>6 DEF ControlStep
<1>3. ASSUME NEW v \in Writers, MultiqueueAction(v) PROVE Moves
  <2>1. askedVars' = askedVars
    BY <1>3 DEF MultiqueueAction
  <2>2. CASE controlQueue' = controlQueue
    BY <2>1, <2>2
  <2>3. CASE controlQueue' # controlQueue
    <3>1. flush[v] # <<>> /\ PassData(v, Head(flush[v]).from)
      BY <1>3, <2>3 DEF MultiqueueAction, LeaveFlush, AnswerFlush, Answerable,
         AnswerStep, AnswerGroup
    <3>2. Head(flush[v]).from \in Readers
      BY <3>1, FlushHeadDue
    <3>3. PICK m \in ControlMsgs :
            m = [type |-> "DATA_FLUSH", from |-> Head(flush[v]).from, step |-> None]
      BY <3>2 DEF ControlMsgs
    <3>4. controlQueue' = [controlQueue EXCEPT ![v] = Append(@, m)]
      BY <3>1, <3>3 DEF PassData
    <3>5. \/ controlQueue'[w] = controlQueue[w]
          \/ controlQueue'[w] = Append(controlQueue[w], m)
      BY <3>4, <1>a
    <3>6. m.type # "VAR"
      BY <3>3
    <3> QED
      BY <3>5, <3>6, <2>1
  <2> QED
    BY <2>2, <2>3
<1>4. ASSUME NEW r \in Readers, ReaderStep(r) PROVE Moves
  <2>1. askedVars' = askedVars
    BY <1>4, ReaderFrame DEF WriterSide
  <2>2. ASSUME NEW v, NEW type \in {"OPEN", "CLOSE"}, SendOp(r, v, type)
        PROVE  Moves
    <3>1. PICK m \in ControlMsgs :
            m = [type |-> type, from |-> r, step |-> mystep[r]]
      BY <1>b DEF ControlMsgs
    <3>2. m.type # "VAR"
      BY <3>1
    <3>3. controlQueue' = [controlQueue EXCEPT ![v] = Append(@, m)]
      BY <2>2, <3>1 DEF SendOp
    <3>4. \/ controlQueue'[w] = controlQueue[w]
          \/ controlQueue'[w] = Append(controlQueue[w], m)
      BY <3>3, <1>a
    <3> QED
      BY <3>2, <3>4, <2>1
  <2>3. CASE OpenNext(r) \/ VarOpen(r) \/ CloseNext(r)
    BY <2>2, <2>3 DEF OpenNext, VarOpen, CloseNext
  <2>4. CASE VarSend(r)
    <3>1. PICK m \in ControlMsgs : m = [type |-> "VAR", from |-> r, step |-> None]
      BY DEF ControlMsgs
    <3>2. m.from = r
      BY <3>1
    <3>3. Quiet(r)
      BY <2>4, QuietWhen DEF VarSend, At, ProtocolInv
    <3>4. controlQueue' = [controlQueue EXCEPT ![Min(need[r])] = Append(@, m)]
      BY <2>4, <3>1 DEF VarSend
    <3>5. \/ controlQueue'[w] = controlQueue[w]
          \/ controlQueue'[w] = Append(controlQueue[w], m)
      BY <3>4, <1>a
    <3> QED
      BY <3>2, <3>3, <3>5, <2>1
  <2>5. CASE ~OpenNext(r) /\ ~VarOpen(r) /\ ~CloseNext(r) /\ ~VarSend(r)
    <3>1. controlQueue' = controlQueue
      BY <1>4, <2>5 DEF ReaderStep, OpAcknowledged, Fetch, FetchGroup,
         ScheduleReads, PerformReads, PerformSend, PerformPending,
         PerformBatchDone, PerformReturn, ReleaseReturn, PollSend, PollReturn,
         CloseLoopDone
    <3> QED
      BY <3>1, <2>1
  <2> QED
    BY <2>3, <2>4, <2>5
<1>5. ASSUME NEW v \in Writers, WriterStep(v) PROVE Moves
  BY <1>5, <1>1 DEF WriterStep, CloseEnqueue, PublishStep, PublishGroup,
     FinalizeAnnounce, FinalizeReturn, WriterRest
<1>6. CASE Allgather \/ Terminated \/ UNCHANGED vars \/ ReaderBarriers
  BY <1>6, <1>1 DEF Allgather, Terminated, vars, writerVars, WriterRest,
     ReaderBarriers, ReleaseBarrier, AdvanceBarrier, StepBarrier, Barrier,
     WriterSide
<1> QED
  BY <1>2, <1>3, <1>4, <1>5, <1>6 DEF Next

(* What a writer knows or will learn of a reader's reads it does not       *)
(* forget.                                                                 *)
LEMMA VarKnownStays ==
  ASSUME TypeInv, ProtocolInv, [Next]_vars, NEW w \in Writers, NEW r \in Readers,
         VarKnown(w, r)
  PROVE  VarKnown(w, r)'
<1>a. controlQueue[w] \in Seq(ControlMsgs)
  BY MessageTypes
<1>b. askedVars[w] \subseteq askedVars'[w]
  BY QueueMoves
<1>1. CASE r \in askedVars[w]
  BY <1>1, <1>b DEF VarKnown
<1>2. ASSUME NEW i \in 1 .. Len(controlQueue[w]), IsVar(controlQueue[w][i], r)
      PROVE  VarKnown(w, r)'
  <2>1. CASE controlQueue'[w] = controlQueue[w]
    BY <1>2, <2>1 DEF VarKnown, IsVar
  <2>2. CASE /\ controlQueue[w] # <<>>
             /\ controlQueue'[w] = Tail(controlQueue[w])
             /\ Head(controlQueue[w]).type = "VAR" =>
                  Head(controlQueue[w]).from \in askedVars'[w]
    <3>1. CASE i = 1
      <4>1. controlQueue[w][i] = Head(controlQueue[w])
        BY <3>1, <2>2, <1>a, HeadElement
      <4>2. r \in askedVars'[w]
        BY <4>1, <1>2, <2>2 DEF IsVar
      <4> QED
        BY <4>2 DEF VarKnown
    <3>2. CASE i # 1
      <4>1. /\ i - 1 \in 1 .. Len(Tail(controlQueue[w]))
            /\ Tail(controlQueue[w])[i - 1] = controlQueue[w][i]
        <5>1. /\ Len(Tail(controlQueue[w])) = Len(controlQueue[w]) - 1
              /\ Len(controlQueue[w]) \in Nat
          BY <2>2, <1>a
        <5>2. i - 1 \in 1 .. Len(Tail(controlQueue[w]))
          BY <3>2, <5>1
        <5>3. Tail(controlQueue[w])[i - 1] = controlQueue[w][(i - 1) + 1]
          BY <5>2, <2>2, <1>a, TailElement
        <5>4. (i - 1) + 1 = i
          OBVIOUS
        <5> QED
          BY <5>2, <5>3, <5>4
      <4>2. /\ i - 1 \in 1 .. Len(controlQueue'[w])
            /\ IsVar(controlQueue'[w][i - 1], r)
        BY <4>1, <1>2, <2>2
      <4> QED
        BY <4>2 DEF VarKnown, IsVar
    <3> QED
      BY <3>1, <3>2
  <2>3. ASSUME NEW m \in ControlMsgs,
               controlQueue'[w] = Append(controlQueue[w], m)
        PROVE  VarKnown(w, r)'
    <3>1. /\ i \in 1 .. Len(Append(controlQueue[w], m))
          /\ Append(controlQueue[w], m)[i] = controlQueue[w][i]
      BY <1>a
    <3>2. /\ i \in 1 .. Len(controlQueue'[w])
          /\ IsVar(controlQueue'[w][i], r)
      BY <3>1, <2>3, <1>2
    <3> QED
      BY <3>2 DEF VarKnown, IsVar
  <2> QED
    BY <2>1, <2>2, <2>3, QueueMoves
<1> QED
  BY <1>1, <1>2 DEF VarKnown

(* A VAR message never gets behind a data request of its sender.           *)
LEMMA VarFirstStays ==
  ASSUME TypeInv, ProtocolInv, [Next]_vars, NEW w \in Writers, NEW r \in Readers,
         VarFirst(w, r)
  PROVE  VarFirst(w, r)'
<1>a. controlQueue[w] \in Seq(ControlMsgs)
  BY MessageTypes
<1> SUFFICES ASSUME NEW i \in 1 .. Len(controlQueue'[w]),
                    NEW j \in 1 .. Len(controlQueue'[w]), i < j,
                    IsData(controlQueue'[w][i], r), IsVar(controlQueue'[w][j], r)
             PROVE  FALSE
  BY DEF VarFirst, IsData, IsVar
<1>1. CASE controlQueue'[w] = controlQueue[w]
  BY <1>1 DEF VarFirst
<1>2. CASE controlQueue[w] # <<>> /\ controlQueue'[w] = Tail(controlQueue[w])
  <2>1. /\ i + 1 \in 1 .. Len(controlQueue[w])
        /\ controlQueue'[w][i] = controlQueue[w][i + 1]
        /\ j + 1 \in 1 .. Len(controlQueue[w])
        /\ controlQueue'[w][j] = controlQueue[w][j + 1]
    BY <1>2, <1>a, TailElement
  <2>2. i + 1 < j + 1
    OBVIOUS
  <2> QED
    BY <2>1, <2>2 DEF VarFirst
<1>3. ASSUME NEW m \in ControlMsgs,
             controlQueue'[w] = Append(controlQueue[w], m),
             m.type = "VAR" => Quiet(m.from)
      PROVE  FALSE
  <2>0. Len(controlQueue'[w]) = Len(controlQueue[w]) + 1 /\ Len(controlQueue[w]) \in Nat
    BY <1>3, <1>a
  <2>1. i \in 1 .. Len(controlQueue[w]) /\ controlQueue'[w][i] = controlQueue[w][i]
    <3>1. i # Len(controlQueue[w]) + 1
      BY <2>0
    <3> QED
      BY <3>1, <1>3, <1>a, AppendElement
  <2>2. CASE /\ j \in 1 .. Len(controlQueue[w])
             /\ controlQueue'[w][j] = controlQueue[w][j]
    BY <2>1, <2>2 DEF VarFirst
  <2>3. CASE controlQueue'[w][j] = m
    <3>1. Quiet(r)
      BY <2>3, <1>3 DEF IsVar
    <3>2. Request(controlQueue[w][i], r)
      BY <2>1 DEF IsData, Request
    <3> QED
      BY <2>1, <3>1, <3>2 DEF Quiet
  <2> QED
    BY <2>2, <2>3, <1>3, <1>a, AppendElement
<1> QED
  BY <1>1, <1>2, <1>3, QueueMoves

(* Only send_var_message and a finished batch change whom a reader asks.   *)
LEMMA SendeesFrame ==
  ASSUME TypeInv, [Next]_vars, NEW r \in Readers, ~VarSend(r), ~PerformBatchDone(r)
  PROVE  sendees'[r] = sendees[r]
<1>a. DOMAIN sendees = Readers
  BY DEF TypeInv, TypeOK, RequestTypeOK
<1>1. ASSUME NEW q \in Readers, ReaderStep(q) PROVE sendees'[r] = sendees[r]
  <2>1. CASE VarSend(q) \/ PerformBatchDone(q)
    <3>1. q # r
      BY <2>1
    <3> QED
      BY <2>1, <3>1, <1>a DEF VarSend, PerformBatchDone
  <2>2. CASE ~(VarSend(q) \/ PerformBatchDone(q))
    BY <1>1, <2>2 DEF ReaderStep, OpAcknowledged, OpenNext, Fetch, FetchGroup,
       ScheduleReads, VarOpen, PerformReads, PerformSend, PerformPending,
       PerformReturn, ReleaseReturn, PollSend, PollReturn, CloseNext,
       CloseLoopDone
  <2> QED
    BY <2>1, <2>2
<1>2. ASSUME NEW w \in Writers,
             WriterStep(w) \/ MultiqueueAction(w) \/ ControlStep(w)
      PROVE  sendees' = sendees
  BY <1>2 DEF WriterStep, CloseEnqueue, PublishStep, PublishGroup,
     FinalizeAnnounce, FinalizeReturn, MultiqueueAction, ControlStep, ProcessVar,
     ProcessDataFlush, ProcessOpen, ProcessClose, CloseDequeue, CloseAck,
     WriterRest, readerVars
<1>3. CASE Allgather \/ Terminated \/ UNCHANGED vars \/ ReaderBarriers
  BY <1>3 DEF Allgather, Terminated, vars, readerVars, WriterRest,
     ReaderBarriers, ReleaseBarrier, AdvanceBarrier, StepBarrier, Barrier
<1> QED
  BY <1>1, <1>2, <1>3 DEF Next

(* Every step keeps the writers on a reader's list informed.               *)
LEMMA AskedStep ==
  ASSUME TypeInv, ProtocolInv, AskedInv, [Next]_vars
  PROVE  AskedInv'
<1> SUFFICES ASSUME NEW r \in Readers
             PROVE  \A k \in 1 .. Len(sendees'[r]) : VarKnown(sendees[r][k], r)'
  BY VarFirstStays DEF AskedInv
<1>a. sendees \in [Readers -> Seq(Writers)] /\ sendees[r] \in Seq(Writers)
  BY DEF TypeInv, TypeOK, RequestTypeOK
<1>b. ASSUME NEW k \in 1 .. Len(sendees[r]), NEW w \in Writers, w = sendees[r][k]
      PROVE  VarKnown(w, r)'
  BY <1>b, VarKnownStays DEF AskedInv
<1>c. ASSUME NEW k, NEW w \in Writers, w = sendees'[r][k], VarKnown(w, r)'
      PROVE  VarKnown(sendees[r][k], r)'
  BY <1>c DEF VarKnown
<1>1. CASE VarSend(r)
  <2>1. /\ sendees'[r] = Append(sendees[r], Min(need[r]))
        /\ Min(need[r]) \in Writers
    BY <1>1, <1>a DEF VarSend, TypeInv, TypeOK, ReaderTypeOK
  <2>2. PICK v \in Writers : v = Min(need[r])
    BY <2>1
  <2>3. VarKnown(v, r)'
    <3>1. PICK m \in ControlMsgs : m = [type |-> "VAR", from |-> r, step |-> None]
      BY DEF ControlMsgs
    <3>2. /\ controlQueue[v] \in Seq(ControlMsgs)
          /\ controlQueue'[v] = Append(controlQueue[v], m)
      BY <1>1, <2>2, <3>1 DEF VarSend, TypeInv, TypeOK, ControlTypeOK
    <3>3. /\ Len(controlQueue[v]) + 1 \in 1 .. Len(controlQueue'[v])
          /\ controlQueue'[v][Len(controlQueue[v]) + 1] = m
      BY <3>2
    <3>4. IsVar(m, r)
      BY <3>1 DEF IsVar
    <3> QED
      BY <3>3, <3>4 DEF VarKnown, IsVar
  <2>4. ASSUME NEW k \in 1 .. Len(sendees'[r])
        PROVE  VarKnown(sendees[r][k], r)'
    <3>1. CASE k \in 1 .. Len(sendees[r]) /\ sendees'[r][k] = sendees[r][k]
      <4>1. PICK w \in Writers : w = sendees[r][k]
        BY <3>1, <1>a
      <4> QED
        BY <3>1, <4>1, <1>b, <1>c
    <3>2. CASE sendees'[r][k] = v
      BY <3>2, <2>3, <1>c
    <3> QED
      BY <3>1, <3>2, <2>1, <2>2, <1>a, AppendElement
  <2> QED
    BY <2>4
<1>2. CASE PerformBatchDone(r)
  <2>1. sendees'[r] = Tail(sendees[r]) /\ sendees[r] # <<>>
    BY <1>2, <1>a DEF PerformBatchDone, At, TypeInv, PerformingInv
  <2>2. ASSUME NEW k \in 1 .. Len(sendees'[r])
        PROVE  VarKnown(sendees[r][k], r)'
    <3>1. k + 1 \in 1 .. Len(sendees[r]) /\ sendees'[r][k] = sendees[r][k + 1]
      BY <2>1, <1>a, TailElement
    <3>2. PICK w \in Writers : w = sendees[r][k + 1]
      BY <3>1, <1>a
    <3> QED
      BY <3>1, <3>2, <1>b, <1>c
  <2> QED
    BY <2>2
<1>3. CASE ~VarSend(r) /\ ~PerformBatchDone(r)
  <2>1. sendees'[r] = sendees[r]
    BY <1>3, SendeesFrame
  <2>2. ASSUME NEW k \in 1 .. Len(sendees'[r])
        PROVE  VarKnown(sendees[r][k], r)'
    <3>0. k \in 1 .. Len(sendees[r])
      BY <2>1
    <3>1. PICK w \in Writers : w = sendees[r][k]
      BY <3>0, <1>a
    <3>2. VarKnown(w, r)
      BY <3>0, <3>1 DEF AskedInv
    <3>3. VarKnown(w, r)'
      BY <3>2, VarKnownStays, Zenon
    <3> QED
      BY <2>1, <3>1, <3>3, <1>c
  <2> QED
    BY <2>2
<1> QED
  BY <1>1, <1>2, <1>3


(* Where perform_reads waits for a buffer, and where it has returned.      *)
Performing == {"perform sent", "perform wait"}
After == {"release barrier", "release", "advance barrier"} \cup Late

(* Reader r has writer w on its list, or has from it what it asked for.    *)
Listed(r, w) == \E k \in 1 .. Len(sendees[r]) : sendees[r][k] = w
Got(r, w) == [writer |-> w, step |-> mystep[r], asked |-> TRUE] \in got[r]

HeadGot(r) == rpc[r] \in Performing /\ cond[r] => Got(r, Head(sendees[r]))

Pursued(r, w) ==
  /\ rpc[r] = "schedule" => w \in need[r] \/ Listed(r, w)
  /\ rpc[r] \in {"perform"} \cup Performing => Listed(r, w) \/ Got(r, w)
  /\ rpc[r] \in After => Got(r, w)

WantInv == \A r \in Readers : HeadGot(r) /\ \A w \in want[r] : Pursued(r, w)

(* A reader that waits in perform_reads is served with what it asked for:  *)
(* its VAR message has been processed before its data request.             *)
LEMMA ServedAsked ==
  ASSUME TypeInv, ProtocolInv, QueueIsWindow, AskedInv, NEW w \in Writers,
         ProcessDataFlush(w), NEW r \in Readers, r = Head(controlQueue[w]).from,
         rpc[r] \in Performing
  PROVE  w = Head(sendees[r]) /\ Got(r, w)'
<1>a. sendees[r] \in Seq(Writers) /\ sendees[r] # <<>>
  BY DEF TypeInv, TypeOK, RequestTypeOK, PerformingInv, Performing
<1>b. controlQueue[w] \in Seq(ControlMsgs)
  BY MessageTypes
<1>c. got \in [Readers -> SUBSET Replies]
  BY DEF TypeInv, TypeOK, RequestTypeOK
<1>1. w = Head(sendees[r])
  <2>0. Asking(Head(controlQueue[w]).from, w)
    BY ServedBuffer
  <2>1. Asking(r, w)
    BY <2>0
  <2>2. rpc[r] # "fetch"
    BY DEF Performing
  <2> QED
    BY <2>1, <2>2 DEF Asking
<1>2. VarKnown(w, r)
  <2>1. 1 \in 1 .. Len(sendees[r]) /\ Head(sendees[r]) = sendees[r][1]
    BY <1>a, HeadElement
  <2> QED
    BY <1>1, <2>1 DEF AskedInv
<1>3. r \in askedVars[w]
  <2> SUFFICES ASSUME NEW i \in 1 .. Len(controlQueue[w]),
                      IsVar(controlQueue[w][i], r)
               PROVE  FALSE
    BY <1>2 DEF VarKnown
  <2>1. controlQueue[w] # <<>> /\ Head(controlQueue[w]).type = "DATA_FLUSH"
    BY DEF ProcessDataFlush, Receive
  <2>2. 1 \in 1 .. Len(controlQueue[w]) /\ Head(controlQueue[w]) = controlQueue[w][1]
    BY <2>1, <1>b, HeadElement
  <2>3. IsData(controlQueue[w][1], r)
    BY <2>1, <2>2 DEF IsData
  <2>4. CASE i = 1
    BY <2>3, <2>4 DEF IsData, IsVar
  <2>5. CASE i # 1
    <3>1. 1 < i
      BY <2>5
    <3> QED
      BY <3>1, <2>2, <2>3 DEF AskedInv, VarFirst
  <2> QED
    BY <2>4, <2>5
<1>4. Got(r, w)'
  <2>1. Head(dataQueue[w]) = mystep[r]
    BY ServedBuffer
  <2>2. (r \in askedVars[w]) = TRUE
    BY <1>3
  <2>3. /\ mystep' = mystep
        /\ got' = [got EXCEPT ![r] = @ \cup
             {[writer |-> w, step |-> Head(dataQueue[w]),
               asked |-> r \in askedVars[w]]}]
    BY DEF ProcessDataFlush, RawHandler
  <2>4. got'[r] = got[r] \cup {[writer |-> w, step |-> mystep[r], asked |-> TRUE]}
    BY <2>1, <2>2, <2>3, <1>c
  <2> QED
    BY <2>3, <2>4 DEF Got
<1> QED
  BY <1>1, <1>4

(* Until the next step a reader keeps its replies.                         *)
LEMMA GotKept ==
  ASSUME TypeInv, [Next]_vars, NEW r \in Readers
  PROVE  \/ StepBarrier
         \/ mystep'[r] = mystep[r] /\ got[r] \subseteq got'[r]
<1>a. got \in [Readers -> SUBSET Replies]
  BY DEF TypeInv, TypeOK, RequestTypeOK
<1>1. CASE UNCHANGED <<got, mystep>>
  BY <1>1
<1>2. CASE ReleaseBarrier \/ AdvanceBarrier
  BY <1>2, <1>1 DEF ReleaseBarrier, AdvanceBarrier
<1>3. ASSUME NEW w \in Writers, ProcessDataFlush(w)
      PROVE  mystep'[r] = mystep[r] /\ got[r] \subseteq got'[r]
  BY <1>3, <1>a DEF ProcessDataFlush, RawHandler
<1>4. ASSUME NEW w \in Writers,
             \/ WriterStep(w) \/ MultiqueueAction(w)
             \/ (ControlStep(w) /\ ~ProcessDataFlush(w))
      PROVE  UNCHANGED <<got, mystep>>
  BY <1>4 DEF WriterStep, CloseEnqueue, PublishStep, PublishGroup,
     FinalizeAnnounce, FinalizeReturn, MultiqueueAction, ControlStep, ProcessVar,
     ProcessOpen, ProcessClose, CloseDequeue, CloseAck, WriterRest, readerVars
<1>5. ASSUME NEW q \in Readers, ReaderStep(q)
      PROVE  UNCHANGED <<got, mystep>>
  BY <1>5 DEF ReaderStep, OpAcknowledged, OpenNext, Fetch, FetchGroup,
     ScheduleReads, VarOpen, VarSend, PerformReads, PerformSend, PerformPending,
     PerformBatchDone, PerformReturn, ReleaseReturn, PollSend, PollReturn,
     CloseNext, CloseLoopDone
<1>6. CASE Allgather \/ Terminated \/ UNCHANGED vars
  BY <1>6, <1>1 DEF Allgather, Terminated, vars, readerVars, WriterRest
<1> QED
  BY <1>1, <1>2, <1>3, <1>4, <1>5, <1>6 DEF Next, ControlStep, ReaderBarriers

(* While a reader waits in perform_reads, only the reply to its data       *)
(* request signals it.                                                     *)
LEMMA PerformCond ==
  ASSUME TypeInv, ProtocolInv, NEW w \in Writers, NEW r \in Readers,
         MultiqueueAction(w) \/ ControlStep(w), rpc[r] \in Performing
  PROVE  \/ cond'[r] = cond[r]
         \/ ProcessDataFlush(w) /\ r = Head(controlQueue[w]).from
<1>a. cond \in [Readers -> BOOLEAN]
  BY DEF TypeInv, TypeOK, ReaderTypeOK
<1>b. awaiting[r] = "nothing"
  <2>1. awaiting[r] \in {"nothing", "OPEN", "CLOSE"}
    BY DEF TypeInv, TypeOK, ReaderTypeOK
  <2>2. AwaitInv(r)
    BY DEF ProtocolInv, ReaderInv
  <2> QED
    BY <2>1, <2>2 DEF AwaitInv, Performing
<1>1. CASE ProcessDataFlush(w)
  <2>1. RawHandler(w, Head(controlQueue[w]).from)
    BY <1>1 DEF ProcessDataFlush
  <2> QED
    BY <1>1, <2>1, <1>a DEF RawHandler
<1>2. CASE ProcessOpen(w)
  <2>1. /\ Receive(w, "OPEN")
        /\ \/ cond' = cond
           \/ cond' = [cond EXCEPT ![Head(controlQueue[w]).from] = TRUE]
    BY <1>2 DEF ProcessOpen
  <2>2. r # Head(controlQueue[w]).from
    BY <2>1, <1>b, HeadDue DEF ControlDue
  <2> QED
    BY <2>1, <2>2, <1>a
<1>3. CASE ProcessClose(w)
  <2>1. /\ Receive(w, "CLOSE")
        /\ \/ cond' = cond
           \/ cond' = [cond EXCEPT ![Head(controlQueue[w]).from] = TRUE]
    BY <1>3 DEF ProcessClose
  <2>2. r # Head(controlQueue[w]).from
    BY <2>1, <1>b, HeadDue DEF ControlDue
  <2> QED
    BY <2>1, <2>2, <1>a
<1>4. CASE CloseAck(w)
  <2>1. cond' = [cond EXCEPT ![closer[w]] = TRUE] /\ cpc[w] # "idle"
    BY <1>4 DEF CloseAck
  <2>2. r # closer[w]
    BY <2>1, <1>b DEF ProtocolInv, CloserInv
  <2> QED
    BY <2>1, <2>2, <1>a
<1>5. CASE ProcessVar(w) \/ CloseDequeue(w)
  BY <1>5 DEF ProcessVar, CloseDequeue, readerVars
<1>6. CASE MultiqueueAction(w)
  <2>1. CASE cond' = cond
    BY <2>1
  <2>2. CASE cond' # cond
    <3>1. /\ flush[w] # <<>> /\ Head(flush[w]).type \in {"STEP", "EVGROUP"}
          /\ cond' = [cond EXCEPT ![Head(flush[w]).from] = TRUE]
      BY <1>6, <2>2 DEF MultiqueueAction, AnswerFlush, LeaveFlush, Answerable,
         AnswerStep, AnswerGroup, PassData
    <3>2. r # Head(flush[w]).from
      BY <3>1, FlushHeadDue DEF FlushDue, Performing
    <3> QED
      BY <3>1, <3>2, <1>a
  <2> QED
    BY <2>1, <2>2
<1> QED
  BY <1>1, <1>2, <1>3, <1>4, <1>5, <1>6 DEF ControlStep

(* The reads of a reader that does not act are pursued as before.          *)
LEMMA PursuedFrame ==
  ASSUME NEW r \in Readers, NEW w, Pursued(r, w),
         rpc'[r] = rpc[r], need'[r] = need[r], sendees'[r] = sendees[r],
         Got(r, w) => Got(r, w)'
  PROVE  Pursued(r, w)'
  BY DEF Pursued, Listed

(* A reader's own step pursues its reads: a writer moves from need to the  *)
(* list of sendees, and from there, once it has answered, to the replies.  *)
LEMMA WantReaderStep ==
  ASSUME TypeInv, ProtocolInv, WantInv, NEW r \in Readers, ReaderStep(r)
  PROVE  HeadGot(r)' /\ \A w \in want'[r] : Pursued(r, w)'
<1> DEFINE Goal == HeadGot(r)' /\ \A w \in want'[r] : Pursued(r, w)'
<1>a. /\ DOMAIN rpc = Readers /\ cond \in [Readers -> BOOLEAN]
      /\ DOMAIN want = Readers /\ DOMAIN need = Readers
      /\ DOMAIN sendees = Readers
  BY DEF TypeInv, TypeOK, ReaderTypeOK, RequestTypeOK
<1>b. sendees[r] \in Seq(Writers)
  BY DEF TypeInv, TypeOK, RequestTypeOK
<1>c. mystep'[r] = mystep[r] /\ got'[r] = got[r]
  BY DEF ReaderStep, OpAcknowledged, OpenNext, Fetch, FetchGroup,
     ScheduleReads, VarOpen, VarSend, PerformReads, PerformSend, PerformPending,
     PerformBatchDone, PerformReturn, ReleaseReturn, PollSend, PollReturn,
     CloseNext, CloseLoopDone
<1>d. \A w : Got(r, w)' <=> Got(r, w)
  BY <1>c DEF Got
<1>e. HeadGot(r) /\ \A w \in want[r] : Pursued(r, w)
  BY DEF WantInv
<1>1. CASE OpAcknowledged(r) \/ OpenNext(r) \/ VarOpen(r) \/ CloseNext(r)
  <2>1. UNCHANGED <<rpc, want, need, sendees>> /\ ~cond'[r]
    BY <1>1, <1>a DEF OpAcknowledged, OpenNext, VarOpen, CloseNext, SendOp
  <2>2. HeadGot(r)'
    BY <2>1 DEF HeadGot
  <2>3. \A w \in want'[r] : Pursued(r, w)'
    BY <2>1, <1>d, <1>e, PursuedFrame
  <2> QED
    BY <2>2, <2>3
<1>2. CASE Fetch(r) \/ FetchGroup(r)
  <2>1. rpc'[r] \in {"fetch", "group"}
    BY <1>2, <1>a DEF Fetch, FetchGroup, Goto
  <2> QED
    BY <2>1 DEF HeadGot, Pursued, Performing, After, Late
<1>3. CASE ScheduleReads(r)
  <2>1. rpc'[r] = "schedule" /\ want'[r] = need'[r]
    BY <1>3, <1>a DEF ScheduleReads, Goto
  <2> QED
    BY <2>1 DEF HeadGot, Pursued, Performing, After, Late
<1>4. CASE VarSend(r)
  <2>1. /\ rpc'[r] = "schedule" /\ rpc[r] = "schedule" /\ want'[r] = want[r]
        /\ need'[r] = need[r] \ {Min(need[r])}
        /\ sendees'[r] = Append(sendees[r], Min(need[r]))
    BY <1>4, <1>a DEF VarSend, At
  <2>2. PICK m \in Writers : m = Min(need[r])
    <3>1. need[r] \in SUBSET Writers /\ need[r] # {}
      BY <1>4 DEF VarSend, TypeInv, TypeOK, RequestTypeOK
    <3> QED
      BY <3>1, MinInSet
  <2>3. Listed(r, m)'
    <3>1. /\ Len(sendees[r]) + 1 \in 1 .. Len(Append(sendees[r], m))
          /\ Append(sendees[r], m)[Len(sendees[r]) + 1] = m
      BY <1>b
    <3> QED
      BY <3>1, <2>1, <2>2 DEF Listed
  <2>4. ASSUME NEW w, Listed(r, w) PROVE Listed(r, w)'
    <3>1. PICK k \in 1 .. Len(sendees[r]) : sendees[r][k] = w
      BY <2>4 DEF Listed
    <3>2. /\ k \in 1 .. Len(Append(sendees[r], m))
          /\ Append(sendees[r], m)[k] = sendees[r][k]
      BY <1>b
    <3> QED
      BY <3>1, <3>2, <2>1, <2>2 DEF Listed
  <2>5. ASSUME NEW w \in want'[r] PROVE w \in need'[r] \/ Listed(r, w)'
    <3>1. w \in need[r] \/ Listed(r, w)
      BY <2>1, <2>5, <1>e DEF Pursued
    <3> QED
      BY <3>1, <2>1, <2>2, <2>3, <2>4
  <2> QED
    BY <2>1, <2>5 DEF HeadGot, Pursued, Performing, After, Late
<1>5. CASE PerformReads(r)
  <2>1. /\ rpc[r] = "schedule" /\ rpc'[r] = "perform" /\ need[r] = {}
        /\ UNCHANGED <<want, sendees>>
    BY <1>5, <1>a DEF PerformReads, At, Goto
  <2>2. ASSUME NEW w \in want'[r] PROVE Listed(r, w)'
    BY <2>1, <2>2, <1>e DEF Pursued, Listed
  <2> QED
    BY <2>1, <2>2 DEF HeadGot, Pursued, Performing, After, Late
<1>6. CASE PerformSend(r) \/ PerformPending(r)
  <2>1. /\ rpc[r] \in {"perform", "perform sent"} /\ rpc'[r] \in Performing
        /\ UNCHANGED <<want, sendees, cond>>
        /\ PerformSend(r) => rpc[r] = "perform"
        /\ PerformPending(r) => rpc[r] = "perform sent"
    BY <1>6, <1>a DEF PerformSend, PerformPending, At, Goto, Performing
  <2>2. ASSUME NEW w \in want'[r] PROVE Listed(r, w)' \/ Got(r, w)'
    <3>1. Listed(r, w) \/ Got(r, w)
      BY <2>1, <2>2, <1>e DEF Pursued, Performing
    <3> QED
      BY <3>1, <2>1, <1>d DEF Listed
  <2>3. HeadGot(r)'
    <3>1. CASE PerformSend(r)
      <4>1. ~cond'[r]
        BY <3>1, <2>1 DEF ProtocolInv, ReaderInv, OpenInv
      <4> QED
        BY <4>1 DEF HeadGot
    <3>2. CASE PerformPending(r)
      <4>1. cond[r] => Got(r, Head(sendees[r]))
        BY <3>2, <2>1, <1>e DEF HeadGot, Performing
      <4> QED
        BY <4>1, <2>1, <1>c DEF HeadGot, Got
    <3> QED
      BY <1>6, <3>1, <3>2
  <2>4. rpc'[r] # "schedule" /\ rpc'[r] \notin After
    BY <2>1 DEF Performing, After, Late
  <2> QED
    BY <2>2, <2>3, <2>4 DEF Pursued
<1>7. CASE PerformBatchDone(r)
  <2>1. /\ rpc[r] = "perform wait" /\ rpc'[r] = "perform" /\ cond[r]
        /\ want' = want /\ sendees'[r] = Tail(sendees[r])
    BY <1>7, <1>a DEF PerformBatchDone, At, Goto
  <2>2. sendees[r] # <<>>
    BY <2>1 DEF TypeInv, PerformingInv
  <2>3. Got(r, Head(sendees[r]))
    BY <2>1, <1>e DEF HeadGot, Performing
  <2>4. ASSUME NEW w, Listed(r, w) PROVE Listed(r, w)' \/ Got(r, w)
    <3>1. PICK k \in 1 .. Len(sendees[r]) : sendees[r][k] = w
      BY <2>4 DEF Listed
    <3>2. CASE k = 1
      <4>1. w = Head(sendees[r])
        BY <3>1, <3>2, <2>2, <1>b, HeadElement
      <4> QED
        BY <4>1, <2>3
    <3>3. CASE k # 1
      <4>1. /\ Len(Tail(sendees[r])) = Len(sendees[r]) - 1
            /\ Len(sendees[r]) \in Nat
        BY <2>2, <1>b
      <4>2. k - 1 \in 1 .. Len(Tail(sendees[r]))
        BY <3>3, <4>1
      <4>3. Tail(sendees[r])[k - 1] = sendees[r][(k - 1) + 1]
        BY <4>2, <2>2, <1>b, TailElement
      <4>4. (k - 1) + 1 = k
        OBVIOUS
      <4>5. Tail(sendees[r])[k - 1] = w
        BY <4>3, <4>4, <3>1
      <4> QED
        BY <4>2, <4>5, <2>1 DEF Listed
    <3> QED
      BY <3>2, <3>3
  <2>5. ASSUME NEW w \in want'[r] PROVE Listed(r, w)' \/ Got(r, w)'
    <3>1. Listed(r, w) \/ Got(r, w)
      BY <2>1, <2>5, <1>e DEF Pursued, Performing
    <3> QED
      BY <3>1, <2>4, <1>d
  <2> QED
    BY <2>1, <2>5 DEF HeadGot, Pursued, Performing, After, Late
<1>8. CASE PerformReturn(r)
  <2>1. /\ rpc[r] = "perform"
        /\ rpc'[r] \in {"release barrier", "advance barrier"}
        /\ want' = want
    BY <1>8, <1>a DEF PerformReturn, At, Goto
  <2>2. 1 .. Len(sendees[r]) = {}
    <3>1. sendees[r] = <<>>
      BY <1>8 DEF PerformReturn
    <3> QED
      BY <3>1
  <2>3. ASSUME NEW w \in want'[r] PROVE Got(r, w)'
    <3>1. Listed(r, w) \/ Got(r, w)
      BY <2>1, <2>3, <1>e DEF Pursued, Performing
    <3> QED
      BY <3>1, <2>2, <1>d DEF Listed
  <2> QED
    BY <2>1, <2>3 DEF HeadGot, Pursued, Performing
<1>9. CASE ReleaseReturn(r) \/ PollSend(r) \/ PollReturn(r) \/ CloseLoopDone(r)
  <2>1. /\ rpc[r] \in After /\ rpc'[r] \in After /\ want' = want
    BY <1>9, <1>a DEF ReleaseReturn, PollSend, PollReturn, CloseLoopDone, At,
       Goto, After, Late
  <2>2. ASSUME NEW w \in want'[r] PROVE Got(r, w)'
    BY <2>1, <2>2, <1>d, <1>e DEF Pursued
  <2>3. rpc'[r] # "schedule" /\ rpc'[r] # "perform" /\ rpc'[r] \notin Performing
    BY <2>1 DEF After, Late, Performing
  <2> QED
    BY <2>2, <2>3 DEF HeadGot, Pursued
<1> QED
  BY <1>1, <1>2, <1>3, <1>4, <1>5, <1>6, <1>7, <1>8, <1>9 DEF ReaderStep

(* What the steps of the others leave of a reader, its condition apart.    *)
LEMMA ReaderRests ==
  ASSUME TypeInv, [Next]_vars, NEW r \in Readers, ~ReaderStep(r),
         ~ReaderBarriers
  PROVE  /\ rpc'[r] = rpc[r] /\ want'[r] = want[r] /\ need'[r] = need[r]
         /\ sendees'[r] = sendees[r]
         /\ \/ cond'[r] = cond[r]
            \/ \E w \in Writers : MultiqueueAction(w) \/ ControlStep(w)
<1>a. /\ DOMAIN rpc = Readers /\ DOMAIN cond = Readers
      /\ DOMAIN want = Readers /\ DOMAIN need = Readers
      /\ DOMAIN sendees = Readers
  BY DEF TypeInv, TypeOK, ReaderTypeOK, RequestTypeOK
<1> DEFINE Rests == /\ rpc'[r] = rpc[r] /\ want'[r] = want[r]
                    /\ need'[r] = need[r] /\ sendees'[r] = sendees[r]
<1>1. ASSUME NEW q \in Readers, ReaderStep(q)
      PROVE  Rests /\ cond'[r] = cond[r]
  <2>1. q # r
    BY <1>1
  <2>2. CASE OpAcknowledged(q) \/ OpenNext(q) \/ Fetch(q) \/ FetchGroup(q)
    BY <2>1, <2>2, <1>a DEF OpAcknowledged, OpenNext, Fetch, FetchGroup, SendOp,
       Goto
  <2>3. CASE ScheduleReads(q) \/ VarOpen(q) \/ VarSend(q)
    BY <2>1, <2>3, <1>a DEF ScheduleReads, VarOpen, VarSend, SendOp, Goto
  <2>4. CASE \/ PerformReads(q) \/ PerformSend(q) \/ PerformPending(q)
             \/ PerformBatchDone(q) \/ PerformReturn(q)
    BY <2>1, <2>4, <1>a DEF PerformReads, PerformSend, PerformPending,
       PerformBatchDone, PerformReturn, Goto
  <2>5. CASE \/ ReleaseReturn(q) \/ PollSend(q) \/ PollReturn(q)
             \/ CloseNext(q) \/ CloseLoopDone(q)
    BY <2>1, <2>5, <1>a DEF ReleaseReturn, PollSend, PollReturn, CloseNext,
       CloseLoopDone, SendOp, Goto
  <2> QED
    BY <1>1, <2>2, <2>3, <2>4, <2>5 DEF ReaderStep
<1>2. ASSUME NEW w \in Writers, WriterStep(w)
      PROVE  Rests /\ cond'[r] = cond[r]
  BY <1>2 DEF WriterStep, CloseEnqueue, PublishStep, PublishGroup,
     FinalizeAnnounce, FinalizeReturn, WriterRest, readerVars
<1>3. ASSUME NEW w \in Writers, MultiqueueAction(w) \/ ControlStep(w)
      PROVE  Rests
  BY <1>3 DEF MultiqueueAction, ControlStep, ProcessVar, ProcessDataFlush,
     ProcessOpen, ProcessClose, CloseDequeue, CloseAck, readerVars
<1>4. CASE Allgather \/ Terminated \/ UNCHANGED vars
  BY <1>4 DEF Allgather, Terminated, vars, readerVars, WriterRest
<1> QED
  BY <1>1, <1>2, <1>3, <1>4 DEF Next

(* Every step pursues every reader's reads.                                *)
LEMMA WantStep ==
  ASSUME TypeInv, ProtocolInv, QueueIsWindow, AskedInv, WantInv, [Next]_vars
  PROVE  WantInv'
<1> SUFFICES ASSUME NEW r \in Readers
             PROVE  HeadGot(r)' /\ \A w \in want'[r] : Pursued(r, w)'
  BY DEF WantInv
<1>e. HeadGot(r) /\ \A w \in want[r] : Pursued(r, w)
  BY DEF WantInv
<1>1. CASE ReaderStep(r)
  BY <1>1, WantReaderStep
<1>2. CASE StepBarrier
  <2>1. rpc'[r] = "reopen"
    BY <1>2 DEF StepBarrier, Barrier
  <2> QED
    BY <2>1 DEF HeadGot, Pursued, Performing, After, Late
<1>3. CASE ReleaseBarrier \/ AdvanceBarrier
  <2>1. /\ rpc[r] \in After /\ rpc'[r] \in After
        /\ UNCHANGED <<want, mystep, got>>
    BY <1>3 DEF ReleaseBarrier, AdvanceBarrier, Barrier, At, After, Late
  <2>2. ASSUME NEW w \in want'[r] PROVE Got(r, w)'
    BY <2>1, <2>2, <1>e DEF Pursued, Got
  <2>3. rpc'[r] # "schedule" /\ rpc'[r] # "perform" /\ rpc'[r] \notin Performing
    BY <2>1 DEF After, Late, Performing
  <2> QED
    BY <2>2, <2>3 DEF HeadGot, Pursued
<1>4. CASE ~ReaderStep(r) /\ ~ReaderBarriers
  <2>1. /\ rpc'[r] = rpc[r] /\ want'[r] = want[r] /\ need'[r] = need[r]
        /\ sendees'[r] = sendees[r]
        /\ \/ cond'[r] = cond[r]
           \/ \E w \in Writers : MultiqueueAction(w) \/ ControlStep(w)
    BY <1>4, ReaderRests
  <2>2. mystep'[r] = mystep[r] /\ got[r] \subseteq got'[r]
    BY <1>4, GotKept DEF ReaderBarriers
  <2>3. \A w : Got(r, w) => Got(r, w)'
    BY <2>2 DEF Got
  <2>4. \A w \in want'[r] : Pursued(r, w)'
    BY <2>1, <2>3, <1>e, PursuedFrame
  <2>5. HeadGot(r)'
    <3>1. CASE rpc[r] \notin Performing
      BY <3>1, <2>1 DEF HeadGot
    <3>2. CASE cond'[r] = cond[r]
      BY <3>2, <2>1, <2>2, <1>e DEF HeadGot, Got
    <3>3. ASSUME rpc[r] \in Performing, NEW w \in Writers, ProcessDataFlush(w),
                 r = Head(controlQueue[w]).from
          PROVE  HeadGot(r)'
      <4>1. w = Head(sendees[r]) /\ Got(r, w)'
        BY <3>3, ServedAsked
      <4> QED
        BY <4>1, <2>1 DEF HeadGot, Got
    <3> QED
      BY <3>1, <3>2, <3>3, <2>1, PerformCond
  <2> QED
    BY <2>4, <2>5
<1> QED
  BY <1>1, <1>2, <1>3, <1>4 DEF ReaderBarriers

(* Initially nobody has asked for anything.                                *)
LEMMA InitReads == Init => AskedInv /\ WantInv
<1> SUFFICES ASSUME Init, NEW r \in Readers
             PROVE  /\ \A k \in 1 .. Len(sendees[r]) : VarKnown(sendees[r][k], r)
                    /\ \A w \in Writers : VarFirst(w, r)
                    /\ HeadGot(r) /\ \A w \in want[r] : Pursued(r, w)
  BY DEF AskedInv, WantInv
<1>1. sendees[r] = <<>> /\ want[r] = {} /\ rpc[r] = "open"
  BY DEF Init
<1>2. 1 .. Len(sendees[r]) = {}
  BY <1>1
<1>3. ASSUME NEW w \in Writers PROVE VarFirst(w, r)
  <2>1. controlQueue[w] = <<>>
    BY DEF Init
  <2>2. 1 .. Len(controlQueue[w]) = {}
    BY <2>1
  <2> QED
    BY <2>2 DEF VarFirst
<1>4. HeadGot(r)
  BY <1>1 DEF HeadGot, Performing
<1> QED
  BY <1>1, <1>2, <1>3, <1>4

(* What the readers ask for is on its way to them, and arrives.            *)
LEMMA StreamReadsPursued == SafeSpec => [](AskedInv /\ WantInv)
<1>1. /\ TypeInv /\ ProtocolInv /\ QueueIsWindow /\ AskedInv /\ WantInv
      /\ [Next]_vars
      => AskedInv' /\ WantInv'
  BY AskedStep, WantStep
<1> QED
  BY <1>1, InitReads, StreamTypeInvariant, StreamProtocolInvariant,
     StreamQueueIsWindow, PTL DEF SafeSpec

(* perform_reads returns with the buffer of every writer that a scheduled  *)
(* read needs, and in it the arrays the reader asked that writer for: the  *)
(* control thread has processed the VAR message before the data request,   *)
(* and no other signal is taken for the reply.                             *)
THEOREM StreamReadsComplete == SafeSpec => []ReadsComplete
<1>1. WantInv => ReadsComplete
  BY DEF WantInv, Pursued, After, Late, Got, ReadsComplete
<1> QED
  BY <1>1, StreamReadsPursued, PTL

(* A step's buffer leaves the queue only when every reader that needed it  *)
(* has it and no reader still has the step open but for the CLOSE that is  *)
(* being processed.                                                        *)
THEOREM StreamBufferDroppedAfterUse == SafeSpec => BufferDroppedAfterUse
<1> DEFINE Used(w) ==
      Len(dataQueue'[w]) < Len(dataQueue[w]) =>
        \A r \in Readers :
          /\ w \in want[r] /\ mystep[r] = Head(dataQueue[w]) =>
               [writer |-> w, step |-> mystep[r], asked |-> TRUE] \in got[r]
          /\ w \in opened[r] => awaiting[r] = "CLOSE" /\ dst[r] = w
<1>1. TypeInv /\ ProtocolInv /\ WantInv /\ [Next]_vars
        => [\A w \in Writers : Used(w)]_vars
  <2> SUFFICES ASSUME TypeInv, ProtocolInv, WantInv, [Next]_vars,
                      NEW w \in Writers, Len(dataQueue'[w]) < Len(dataQueue[w]),
                      NEW r \in Readers
               PROVE  /\ w \in want[r] => Got(r, w)
                      /\ w \in opened[r] => awaiting[r] = "CLOSE" /\ dst[r] = w
    BY DEF Got
  <2>a. dataQueue \in [Writers -> Seq(Steps)] /\ dataQueue[w] \in Seq(Steps)
    BY DEF TypeInv, TypeOK, AppTypeOK
  <2>1. CloseDequeue(w)
    <3>1. Len(dataQueue[w]) \in Nat
      BY <2>a
    <3>2. dataQueue'[w] # dataQueue[w]
      BY <3>1
    <3>3. ~CloseEnqueue(w)
      <4> SUFFICES ASSUME CloseEnqueue(w) PROVE FALSE
        OBVIOUS
      <4>1. dataQueue'[w] = Append(dataQueue[w], writerStep[w])
        BY <2>a DEF CloseEnqueue
      <4>2. Len(Append(dataQueue[w], writerStep[w])) = Len(dataQueue[w]) + 1
        BY <2>a
      <4> QED
        BY <4>1, <4>2, <3>1
    <3> QED
      BY <3>2, <3>3, WindowFrame
  <2>2. cpc[w] # "idle"
    BY <2>1 DEF CloseDequeue
  <2>3. rpc[r] \in Late /\ bridgeOpened[w] = {}
    BY <2>2, ClosingSeen
  <2>4. w \in want[r] => Got(r, w)
    BY <2>3 DEF WantInv, Pursued, After
  <2>5. w \in opened[r] => awaiting[r] = "CLOSE" /\ dst[r] = w
    BY <2>3 DEF ProtocolInv, ReaderInv, BridgeInv
  <2> QED
    BY <2>4, <2>5
<1> QED
  BY <1>1, StreamTypeInvariant, StreamProtocolInvariant, StreamReadsPursued,
     PTL DEF SafeSpec, BufferDroppedAfterUse
=============================================================================
