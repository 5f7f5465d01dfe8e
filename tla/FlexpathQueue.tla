---------------------------- MODULE FlexpathQueue ----------------------------
(***************************************************************************)
(* The queue of the Flexpath writer (write/adios_flexpath.c): a linked     *)
(* list protected by one mutex, with one condition variable on which the   *)
(* producers wait while the list is full, the control thread waits while   *)
(* it is empty and adios_flexpath_finalize waits until it is empty.  The   *)
(* writer has two: dataQueue (the application thread puts one buffer per   *)
(* step, max_size = maxQueueSize, signal_dequeue = 1) and controlQueue     *)
(* (the communication thread puts the readers' messages, max_size = -1,    *)
(* signal_dequeue = 0).                                                    *)
(*                                                                         *)
(* One action is one stretch of code between two points where the mutex is *)
(* taken, released or waited on: whatever a thread does while it holds the *)
(* mutex cannot be observed by the others.  The broadcast that follows a   *)
(* dequeue is made after the unlock, so it is an action of its own.        *)
(***************************************************************************)
EXTENDS Integers, Sequences, FiniteSets

CONSTANTS
  Producers,        \* threads that call threaded_enqueue
  Consumer,         \* the control thread: threaded_dequeue and threaded_peek
  MaxSize,          \* max_size
  SignalDequeue,    \* signal_dequeue = 1
  Finalizes,        \* producers wait in finalize for the queue to drain
  SpuriousWakeups,  \* pthread_cond_wait may return without a broadcast
  NItems,           \* bound: items per producer
  MaxPeeks          \* bound: calls of threaded_peek

NoThread == "no thread"
NULL == <<>>
Threads == Producers \cup {Consumer}

ASSUME QueueAssumption ==
  /\ IsFiniteSet(Producers)
  /\ Consumer \notin Producers
  /\ NoThread \notin Producers \cup {Consumer}
  /\ MaxSize \in Int
  /\ NItems \in Nat
  /\ MaxPeeks \in Nat
  /\ {SignalDequeue, Finalizes, SpuriousWakeups} \subseteq BOOLEAN

(* A queue somebody waits on for a dequeue is one whose dequeue signals:   *)
(* dataQueue is bounded and drained by finalize and passes signal_dequeue  *)
(* = 1; controlQueue is neither and passes 0.                              *)
ASSUME SignalAssumption == MaxSize > 0 \/ Finalizes => SignalDequeue

VARIABLES
  queue,     \* the list; queue[1] is its tail, the oldest node
  mutex,     \* the thread that holds the mutex
  waiting,   \* the threads blocked in pthread_cond_wait
  pc,        \* where each thread is
  produced,  \* how many items each producer has put
  taken,     \* what threaded_dequeue has returned, in order
  peeked     \* what threaded_peek has returned, in order

vars == <<queue, mutex, waiting, pc, produced, taken, peeked>>

queue_count == Len(queue)

Init ==
  /\ queue = <<>>
  /\ mutex = NoThread
  /\ waiting = {}
  /\ pc = [t \in Threads |-> "idle"]
  /\ produced = [p \in Producers |-> 0]
  /\ taken = <<>>
  /\ peeked = <<>>

(***************************************************************************)
(* The mutex and the condition variable.                                   *)
(***************************************************************************)
(* pthread_mutex_lock, at the start of a call and again when a wait ends.  *)
Lock(t, label) ==
  /\ mutex = NoThread
  /\ t \notin waiting
  /\ mutex' = t
  /\ pc' = [pc EXCEPT ![t] = label]

(* pthread_cond_wait: the mutex is released and the thread blocks; what it *)
(* does once it has the mutex again is the label.                          *)
CondWait(t, label) ==
  /\ mutex' = NoThread
  /\ waiting' = waiting \cup {t}
  /\ pc' = [pc EXCEPT ![t] = label]

Spurious(t) ==
  /\ SpuriousWakeups
  /\ t \in waiting
  /\ waiting' = waiting \ {t}
  /\ UNCHANGED <<queue, mutex, pc, produced, taken, peeked>>

(***************************************************************************)
(* threaded_enqueue                                                        *)
(***************************************************************************)
(* Mutant of MustWait: off by one.                                         *)
MustWaitLater == MaxSize > 0 /\ queue_count > MaxSize + 1

MustWait == MaxSize > 0 /\ queue_count > MaxSize

EnqueueLock(p) ==
  /\ \/ pc[p] = "idle" /\ produced[p] < NItems
     \/ pc[p] = "enqueue waits"
  /\ Lock(p, "enqueue")
  /\ UNCHANGED <<queue, waiting, produced, taken, peeked>>

EnqueueWait(p) ==
  /\ pc[p] = "enqueue"
  /\ MustWait
  /\ CondWait(p, "enqueue waits")
  /\ UNCHANGED <<queue, produced, taken, peeked>>

(* Mutant of EnqueuePush: the push stays inside the loop that waits.       *)
EnqueuePushInLoop(p) ==
  /\ pc[p] = "enqueue"
  /\ ~MustWait
  /\ queue' = Append(queue, <<p, produced[p] + 1>>)
  /\ produced' = [produced EXCEPT ![p] = @ + 1]
  /\ waiting' = {}
  /\ UNCHANGED <<mutex, pc, taken, peeked>>

(* Mutant of EnqueuePush: the new node is linked at the tail.              *)
EnqueuePushAtTail(p) ==
  /\ pc[p] = "enqueue"
  /\ ~MustWait
  /\ queue' = <<<<p, produced[p] + 1>>>> \o queue
  /\ produced' = [produced EXCEPT ![p] = @ + 1]
  /\ waiting' = {}
  /\ mutex' = NoThread
  /\ pc' = [pc EXCEPT ![p] = "idle"]
  /\ UNCHANGED <<taken, peeked>>

EnqueuePush(p) ==
  /\ pc[p] = "enqueue"
  /\ ~MustWait
  /\ queue' = Append(queue, <<p, produced[p] + 1>>)
  /\ produced' = [produced EXCEPT ![p] = @ + 1]
  /\ waiting' = {}
  /\ mutex' = NoThread
  /\ pc' = [pc EXCEPT ![p] = "idle"]
  /\ UNCHANGED <<taken, peeked>>

(***************************************************************************)
(* threaded_dequeue                                                        *)
(***************************************************************************)
DequeueLock ==
  /\ pc[Consumer] \in {"idle", "dequeue waits"}
  /\ Lock(Consumer, "dequeue")
  /\ UNCHANGED <<queue, waiting, produced, taken, peeked>>

DequeueWait ==
  /\ pc[Consumer] = "dequeue"
  /\ queue_count = 0
  /\ CondWait(Consumer, "dequeue waits")
  /\ UNCHANGED <<queue, produced, taken, peeked>>

(* Mutant of DequeueTake: signal_dequeue is ignored.                       *)
DequeueTakeSilently ==
  /\ pc[Consumer] = "dequeue"
  /\ queue_count # 0
  /\ taken' = Append(taken, Head(queue))
  /\ queue' = Tail(queue)
  /\ mutex' = NoThread
  /\ pc' = [pc EXCEPT ![Consumer] = "idle"]
  /\ UNCHANGED <<waiting, produced, peeked>>

DequeueTake ==
  /\ pc[Consumer] = "dequeue"
  /\ queue_count # 0
  /\ taken' = Append(taken, Head(queue))
  /\ queue' = Tail(queue)
  /\ mutex' = NoThread
  /\ pc' = [pc EXCEPT ![Consumer] = IF SignalDequeue THEN "dequeued" ELSE "idle"]
  /\ UNCHANGED <<waiting, produced, peeked>>

DequeueBroadcast ==
  /\ pc[Consumer] = "dequeued"
  /\ waiting' = {}
  /\ pc' = [pc EXCEPT ![Consumer] = "idle"]
  /\ UNCHANGED <<queue, mutex, produced, taken, peeked>>

(***************************************************************************)
(* threaded_peek: the test of the empty queue is an if, so the thread does *)
(* not look again when its wait ends.                                      *)
(***************************************************************************)
PeekLock ==
  /\ \/ pc[Consumer] = "idle" /\ Len(peeked) < MaxPeeks /\ Lock(Consumer, "peek")
     \/ pc[Consumer] = "peek waits" /\ Lock(Consumer, "peek woken")
  /\ UNCHANGED <<queue, waiting, produced, taken, peeked>>

PeekWait ==
  /\ pc[Consumer] = "peek"
  /\ queue_count = 0
  /\ CondWait(Consumer, "peek waits")
  /\ UNCHANGED <<queue, produced, taken, peeked>>

PeekTail == IF queue = <<>> THEN NULL ELSE Head(queue)

PeekReturn ==
  /\ \/ pc[Consumer] = "peek" /\ queue_count # 0
     \/ pc[Consumer] = "peek woken"
  /\ peeked' = Append(peeked, PeekTail)
  /\ mutex' = NoThread
  /\ pc' = [pc EXCEPT ![Consumer] = "idle"]
  /\ UNCHANGED <<queue, waiting, produced, taken>>

(***************************************************************************)
(* adios_flexpath_finalize: wait until the data queue is empty.            *)
(***************************************************************************)
FinalizeLock(p) ==
  /\ Finalizes
  /\ \/ pc[p] = "idle" /\ produced[p] = NItems
     \/ pc[p] = "finalize waits"
  /\ Lock(p, "finalize")
  /\ UNCHANGED <<queue, waiting, produced, taken, peeked>>

FinalizeWait(p) ==
  /\ pc[p] = "finalize"
  /\ queue # <<>>
  /\ CondWait(p, "finalize waits")
  /\ UNCHANGED <<queue, produced, taken, peeked>>

(* Mutant of FinalizeReturn: the empty queue is not waited for.            *)
FinalizeReturnEarly(p) ==
  /\ pc[p] = "finalize"
  /\ mutex' = NoThread
  /\ pc' = [pc EXCEPT ![p] = "finalized"]
  /\ UNCHANGED <<queue, waiting, produced, taken, peeked>>

FinalizeReturn(p) ==
  /\ pc[p] = "finalize"
  /\ queue = <<>>
  /\ mutex' = NoThread
  /\ pc' = [pc EXCEPT ![p] = "finalized"]
  /\ UNCHANGED <<queue, waiting, produced, taken, peeked>>

Dequeue == DequeueLock \/ DequeueWait \/ DequeueTake \/ DequeueBroadcast
Peek == PeekLock \/ PeekWait \/ PeekReturn
Enqueue(p) == EnqueueLock(p) \/ EnqueueWait(p) \/ EnqueuePush(p)
Finalize(p) == FinalizeLock(p) \/ FinalizeWait(p) \/ FinalizeReturn(p)

Next ==
  \/ Dequeue
  \/ Peek
  \/ \E p \in Producers : Enqueue(p) \/ Finalize(p)
  \/ \E t \in Threads : Spurious(t)

SafeSpec == Init /\ [][Next]_vars

(***************************************************************************)
(* Fairness: every thread is scheduled.  The kernel hands a contended      *)
(* mutex to each thread that asks for it sooner or later (strong fairness  *)
(* of the lock actions); a thread that holds it or needs nothing proceeds  *)
(* (weak fairness).  The control thread's loop always comes back to        *)
(* threaded_dequeue; threaded_peek and spurious wakeups are not promised.  *)
(***************************************************************************)
Fairness ==
  /\ SF_vars(DequeueLock)
  /\ WF_vars(DequeueWait \/ DequeueTake \/ DequeueBroadcast)
  /\ SF_vars(PeekLock /\ pc[Consumer] = "peek waits")
  /\ WF_vars(PeekWait \/ PeekReturn)
  /\ \A p \in Producers :
       /\ SF_vars(EnqueueLock(p))
       /\ WF_vars(EnqueueWait(p) \/ EnqueuePush(p))
       /\ SF_vars(FinalizeLock(p))
       /\ WF_vars(FinalizeWait(p) \/ FinalizeReturn(p))

Spec == SafeSpec /\ Fairness

-----------------------------------------------------------------------------
Items == Producers \X (1 .. NItems)

ProducerLabels == {"idle", "enqueue", "enqueue waits",
                   "finalize", "finalize waits", "finalized"}
ConsumerLabels == {"idle", "dequeue", "dequeue waits", "dequeued",
                   "peek", "peek waits", "peek woken"}

(* Every variable keeps its type; producers and the control thread are     *)
(* only ever inside their own calls.                                       *)
TypeOK ==
  /\ queue \in Seq(Items)
  /\ mutex \in Threads \cup {NoThread}
  /\ waiting \subseteq Threads
  /\ pc \in [Threads -> ProducerLabels \cup ConsumerLabels]
  /\ \A p \in Producers : pc[p] \in ProducerLabels
  /\ pc[Consumer] \in ConsumerLabels
  /\ produced \in [Producers -> 0 .. NItems]
  /\ taken \in Seq(Items)
  /\ peeked \in Seq(Items \cup {NULL})

Critical(t) == pc[t] \in {"enqueue", "dequeue", "peek", "peek woken", "finalize"}

(* threaded_enqueue, threaded_dequeue, threaded_peek and finalize: two     *)
(* threads are never inside the list's critical section together, although *)
(* a thread leaves it in the middle of a call to wait.                     *)
MutualExclusion ==
  \A t \in Threads : Critical(t) <=> mutex = t

(* threaded_enqueue tests queue_count > max_size before it pushes, so a    *)
(* bounded queue holds at most one node more than max_size, whatever the   *)
(* producers and the wakeups do.                                           *)
QueueBound == MaxSize > 0 => Len(queue) <= MaxSize + 1

(* A thread that waits for room, for an item or for the drained queue is   *)
(* blocked only while its condition is false or a broadcast is on its way: *)
(* no wakeup is lost although threaded_dequeue broadcasts after unlocking. *)
NoLostWakeup ==
  \A t \in waiting :
    \/ pc[t] = "enqueue waits" /\ MustWait
    \/ pc[t] \in {"dequeue waits", "peek waits"} /\ queue = <<>>
    \/ pc[t] = "finalize waits" /\ queue # <<>>
    \/ pc[t] \in {"enqueue waits", "finalize waits"} /\ pc[Consumer] = "dequeued"

(* Everything that ever entered the list, in order: what threaded_dequeue  *)
(* returned followed by what is still there.                               *)
History == taken \o queue

(* The list is first-in first-out and keeps every item exactly once: the   *)
(* items of one producer pass through it in the order of the calls of      *)
(* threaded_enqueue, none is lost and none comes out twice.                *)
InOrderOnce ==
  /\ \A k \in 1 .. Len(History) : History[k][2] <= produced[History[k][1]]
  /\ \A p \in Producers : \A i \in 1 .. produced[p] :
       \E k \in 1 .. Len(History) : History[k] = <<p, i>>
  /\ \A j, k \in 1 .. Len(History) :
       j < k /\ History[j][1] = History[k][1] => History[j][2] < History[k][2]

(* adios_flexpath_finalize returns to a producer only after every buffer   *)
(* it ever put has been taken out by the control thread.                   *)
FinalizeDrains ==
  \A p \in Producers : pc[p] = "finalized" =>
    \A i \in 1 .. NItems : \E k \in 1 .. Len(taken) : taken[k] = <<p, i>>

(* The list with its locks implements the abstract queue, fairness         *)
(* included: items come out once each, in the order of the pushes, and     *)
(* neither a full nor an empty queue blocks anybody for ever.              *)
Fifo == INSTANCE BoundedFifo WITH fifo <- queue
ImplementsFifo == Fifo!FifoSpec
=============================================================================
