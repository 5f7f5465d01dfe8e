------------------------- MODULE FlexpathQueueProofs -------------------------
(***************************************************************************)
(* Proofs about the mutex-and-condition queue of FlexpathQueue, for every  *)
(* set of producers, every max_size and every number of items.             *)
(***************************************************************************)
EXTENDS FlexpathQueue, TLAPS

(* What a thread in the middle of a call knows of its own progress: one in *)
(* threaded_enqueue still has an item to put, one in finalize has none.    *)
CallsInProgress ==
  \A p \in Producers :
    /\ pc[p] \in {"enqueue", "enqueue waits"} => produced[p] < NItems
    /\ pc[p] \in {"finalize", "finalize waits", "finalized"}
         => Finalizes /\ produced[p] = NItems

TypeInv == TypeOK /\ CallsInProgress

-----------------------------------------------------------------------------
(* Facts about the operators on sequences that the queue is built from.    *)

(* Appending to the history what was pushed, or moving its oldest queued   *)
(* item into the taken part, is what the two list operations do.           *)
LEMMA HistoryAppend ==
  ASSUME NEW S, NEW t \in Seq(S), NEW q \in Seq(S), NEW x \in S
  PROVE  t \o Append(q, x) = Append(t \o q, x)
  OBVIOUS

(* Appending an element keeps a sequence's type.                           *)
LEMMA AppendType ==
  ASSUME NEW S, NEW q \in Seq(S), NEW x \in S
  PROVE  Append(q, x) \in Seq(S)
  OBVIOUS

(* A sequence is empty exactly when its length is zero.                    *)
LEMMA EmptyIffLenZero ==
  ASSUME NEW S, NEW q \in Seq(S)
  PROVE  Len(q) = 0 <=> q = <<>>
  OBVIOUS

(* Moving the oldest queued item to the taken ones keeps the history.      *)
LEMMA HistoryMove ==
  ASSUME NEW S, NEW t \in Seq(S), NEW q \in Seq(S), q # <<>>
  PROVE  Append(t, Head(q)) \o Tail(q) = t \o q
  OBVIOUS

-----------------------------------------------------------------------------
(* The initial state of both queues is well typed, with no call begun.     *)
LEMMA InitTypeInv == Init => TypeInv
  BY QueueAssumption
  DEF Init, TypeInv, TypeOK, CallsInProgress, Threads, ProducerLabels,
      ConsumerLabels, Items

(* Every step keeps the types and the progress facts.                      *)
LEMMA NextTypeInv == TypeInv /\ [Next]_vars => TypeInv'
<1> SUFFICES ASSUME TypeInv, [Next]_vars PROVE TypeInv'
  OBVIOUS
<1>a. /\ queue \in Seq(Items)
      /\ taken \in Seq(Items)
      /\ peeked \in Seq(Items \cup {NULL})
      /\ produced \in [Producers -> 0 .. NItems]
  BY DEF TypeInv, TypeOK
<1>1. ASSUME NEW p \in Producers, EnqueueLock(p) PROVE TypeInv'
  BY <1>1, QueueAssumption
  DEF TypeInv, TypeOK, CallsInProgress, Threads, ProducerLabels,
      ConsumerLabels, Lock, EnqueueLock
<1>2. ASSUME NEW p \in Producers, EnqueueWait(p) PROVE TypeInv'
  BY <1>2, QueueAssumption
  DEF TypeInv, TypeOK, CallsInProgress, Threads, ProducerLabels,
      ConsumerLabels, CondWait, EnqueueWait
<1>3. ASSUME NEW p \in Producers, EnqueuePush(p) PROVE TypeInv'
  <2>0. produced[p] \in 0 .. NItems /\ produced[p] < NItems /\ NItems \in Nat
    BY <1>3, <1>a, QueueAssumption DEF EnqueuePush, TypeInv, CallsInProgress
  <2>1. <<p, produced[p] + 1>> \in Items
    BY <2>0 DEF Items
  <2>2. queue' \in Seq(Items)
    BY <1>3, <2>1, <1>a DEF EnqueuePush
  <2>3. produced' \in [Producers -> 0 .. NItems]
    BY <1>3, <1>a, <2>0 DEF EnqueuePush
  <2>4. CallsInProgress'
    BY <1>3, QueueAssumption
    DEF EnqueuePush, TypeInv, TypeOK, CallsInProgress, Threads
  <2>5. /\ mutex' \in Threads \cup {NoThread}
        /\ waiting' \subseteq Threads
        /\ pc' \in [Threads -> ProducerLabels \cup ConsumerLabels]
        /\ \A q \in Producers : pc'[q] \in ProducerLabels
        /\ pc'[Consumer] \in ConsumerLabels
    BY <1>3, QueueAssumption
    DEF EnqueuePush, TypeInv, TypeOK, Threads, ProducerLabels, ConsumerLabels
  <2> QED
    BY <1>3, <1>a, <2>2, <2>3, <2>4, <2>5 DEF EnqueuePush, TypeInv, TypeOK
<1>4. CASE DequeueLock
  BY <1>4, QueueAssumption
  DEF TypeInv, TypeOK, CallsInProgress, Threads, ProducerLabels,
      ConsumerLabels, Lock, DequeueLock
<1>5. CASE DequeueWait
  BY <1>5, QueueAssumption
  DEF TypeInv, TypeOK, CallsInProgress, Threads, ProducerLabels,
      ConsumerLabels, CondWait, DequeueWait
<1>6. CASE DequeueTake
  <2>1. queue # <<>>
    BY <1>6, <1>a DEF DequeueTake, queue_count
  <2>2. Head(queue) \in Items /\ Tail(queue) \in Seq(Items)
    BY <2>1, <1>a
  <2>3. taken' \in Seq(Items) /\ queue' \in Seq(Items)
    BY <1>6, <2>2, <1>a DEF DequeueTake
  <2>4. /\ CallsInProgress'
        /\ mutex' \in Threads \cup {NoThread}
        /\ waiting' \subseteq Threads
        /\ pc' \in [Threads -> ProducerLabels \cup ConsumerLabels]
        /\ \A q \in Producers : pc'[q] \in ProducerLabels
        /\ pc'[Consumer] \in ConsumerLabels
    BY <1>6, QueueAssumption
    DEF DequeueTake, TypeInv, TypeOK, CallsInProgress, Threads,
        ProducerLabels, ConsumerLabels
  <2> QED
    BY <1>6, <1>a, <2>3, <2>4 DEF DequeueTake, TypeInv, TypeOK
<1>7. CASE DequeueBroadcast
  BY <1>7, QueueAssumption
  DEF TypeInv, TypeOK, CallsInProgress, Threads, ProducerLabels,
      ConsumerLabels, DequeueBroadcast
<1>8. CASE PeekLock
  BY <1>8, QueueAssumption
  DEF TypeInv, TypeOK, CallsInProgress, Threads, ProducerLabels,
      ConsumerLabels, Lock, PeekLock
<1>9. CASE PeekWait
  BY <1>9, QueueAssumption
  DEF TypeInv, TypeOK, CallsInProgress, Threads, ProducerLabels,
      ConsumerLabels, CondWait, PeekWait
<1>10. CASE PeekReturn
  <2>1. PeekTail \in Items \cup {NULL}
    <3>1. CASE queue = <<>>
      BY <3>1 DEF PeekTail
    <3>2. CASE queue # <<>>
      <4>1. Head(queue) \in Items
        BY <3>2, <1>a
      <4> QED
        BY <3>2, <4>1 DEF PeekTail
    <3> QED
      BY <3>1, <3>2
  <2>2. peeked' \in Seq(Items \cup {NULL})
    <3>1. Append(peeked, PeekTail) \in Seq(Items \cup {NULL})
      BY <2>1, <1>a, AppendType, Zenon
    <3> QED
      BY <1>10, <3>1 DEF PeekReturn
  <2>3. /\ CallsInProgress'
        /\ mutex' \in Threads \cup {NoThread}
        /\ pc' \in [Threads -> ProducerLabels \cup ConsumerLabels]
        /\ \A q \in Producers : pc'[q] \in ProducerLabels
        /\ pc'[Consumer] \in ConsumerLabels
    BY <1>10, QueueAssumption
    DEF PeekReturn, TypeInv, TypeOK, CallsInProgress, Threads,
        ProducerLabels, ConsumerLabels
  <2> QED
    BY <1>10, <2>2, <2>3 DEF PeekReturn, TypeInv, TypeOK
<1>11. ASSUME NEW p \in Producers, FinalizeLock(p) PROVE TypeInv'
  BY <1>11, QueueAssumption
  DEF TypeInv, TypeOK, CallsInProgress, Threads, ProducerLabels,
      ConsumerLabels, Lock, FinalizeLock
<1>12. ASSUME NEW p \in Producers, FinalizeWait(p) PROVE TypeInv'
  BY <1>12, QueueAssumption
  DEF TypeInv, TypeOK, CallsInProgress, Threads, ProducerLabels,
      ConsumerLabels, CondWait, FinalizeWait
<1>13. ASSUME NEW p \in Producers, FinalizeReturn(p) PROVE TypeInv'
  BY <1>13, QueueAssumption
  DEF TypeInv, TypeOK, CallsInProgress, Threads, ProducerLabels,
      ConsumerLabels, FinalizeReturn
<1>14. ASSUME NEW t \in Threads, Spurious(t) PROVE TypeInv'
  BY <1>14 DEF TypeInv, TypeOK, CallsInProgress, Spurious
<1>15. CASE UNCHANGED vars
  BY <1>15 DEF TypeInv, TypeOK, CallsInProgress, vars
<1> QED
  BY <1>1, <1>2, <1>3, <1>4, <1>5, <1>6, <1>7, <1>8, <1>9, <1>10, <1>11,
     <1>12, <1>13, <1>14, <1>15
  DEF Next, Dequeue, Peek, Enqueue, Finalize

(* The queue's variables keep their types in every reachable state.        *)
THEOREM QueueTypeCorrect == SafeSpec => []TypeOK
<1>1. TypeInv => TypeOK
  BY DEF TypeInv
<1> QED
  BY InitTypeInv, NextTypeInv, <1>1, PTL DEF SafeSpec

-----------------------------------------------------------------------------
(* Mutual exclusion: inductive together with the types.                    *)
LEMMA NextMutualExclusion ==
  TypeInv /\ MutualExclusion /\ [Next]_vars => MutualExclusion'
<1> SUFFICES ASSUME TypeInv, MutualExclusion, [Next]_vars
             PROVE  MutualExclusion'
  OBVIOUS
<1> USE QueueAssumption
    DEF TypeInv, TypeOK, MutualExclusion, Critical, Threads
<1>1. ASSUME NEW p \in Producers, EnqueueLock(p) PROVE MutualExclusion'
  BY <1>1 DEF EnqueueLock, Lock
<1>2. ASSUME NEW p \in Producers, EnqueueWait(p) PROVE MutualExclusion'
  BY <1>2 DEF EnqueueWait, CondWait
<1>3. ASSUME NEW p \in Producers, EnqueuePush(p) PROVE MutualExclusion'
  BY <1>3 DEF EnqueuePush
<1>4. CASE DequeueLock
  BY <1>4 DEF DequeueLock, Lock
<1>5. CASE DequeueWait
  BY <1>5 DEF DequeueWait, CondWait
<1>6. CASE DequeueTake
  BY <1>6 DEF DequeueTake
<1>7. CASE DequeueBroadcast
  BY <1>7 DEF DequeueBroadcast
<1>8. CASE PeekLock
  BY <1>8 DEF PeekLock, Lock
<1>9. CASE PeekWait
  BY <1>9 DEF PeekWait, CondWait
<1>10. CASE PeekReturn
  BY <1>10 DEF PeekReturn
<1>11. ASSUME NEW p \in Producers, FinalizeLock(p) PROVE MutualExclusion'
  BY <1>11 DEF FinalizeLock, Lock
<1>12. ASSUME NEW p \in Producers, FinalizeWait(p) PROVE MutualExclusion'
  BY <1>12 DEF FinalizeWait, CondWait
<1>13. ASSUME NEW p \in Producers, FinalizeReturn(p) PROVE MutualExclusion'
  BY <1>13 DEF FinalizeReturn
<1>14. ASSUME NEW t \in Threads, Spurious(t) PROVE MutualExclusion'
  BY <1>14 DEF Spurious
<1>15. CASE UNCHANGED vars
  BY <1>15 DEF vars
<1> QED
  BY <1>1, <1>2, <1>3, <1>4, <1>5, <1>6, <1>7, <1>8, <1>9, <1>10, <1>11,
     <1>12, <1>13, <1>14, <1>15
  DEF Next, Dequeue, Peek, Enqueue, Finalize

(* No two threads are in the list's critical section together.             *)
THEOREM QueueMutualExclusion == SafeSpec => []MutualExclusion
<1>1. Init => MutualExclusion
  BY QueueAssumption DEF Init, MutualExclusion, Critical, Threads
<1> QED
  BY <1>1, InitTypeInv, NextTypeInv, NextMutualExclusion, PTL DEF SafeSpec

-----------------------------------------------------------------------------
(* The list operations: only a push and a take change the list, the items  *)
(* taken and the items produced.                                           *)
LEMMA ListSteps ==
  ASSUME TypeInv, [Next]_vars
  PROVE  \/ \E p \in Producers : EnqueuePush(p)
         \/ DequeueTake
         \/ UNCHANGED <<queue, produced, taken>>
  BY DEF Next, Dequeue, Peek, Enqueue, Finalize, vars, EnqueueLock,
         EnqueueWait, DequeueLock, DequeueWait, DequeueBroadcast, PeekLock,
         PeekWait, PeekReturn, FinalizeLock, FinalizeWait, FinalizeReturn,
         Spurious

(* A queue with a positive max_size never exceeds it by more than one.     *)
THEOREM QueueIsBounded == SafeSpec => []QueueBound
<1>1. Init => QueueBound
  BY QueueAssumption DEF Init, QueueBound
<1>2. TypeInv /\ QueueBound /\ [Next]_vars => QueueBound'
  <2> SUFFICES ASSUME TypeInv, QueueBound, [Next]_vars PROVE QueueBound'
    OBVIOUS
  <2>a. queue \in Seq(Items)
    BY DEF TypeInv, TypeOK
  <2>1. ASSUME NEW p \in Producers, EnqueuePush(p) PROVE QueueBound'
    BY <2>1, <2>a, QueueAssumption
    DEF EnqueuePush, MustWait, queue_count, QueueBound
  <2>2. CASE DequeueTake
    <3>1. queue # <<>>
      BY <2>2, <2>a DEF DequeueTake, queue_count
    <3>2. Len(Tail(queue)) = Len(queue) - 1
      BY <3>1, <2>a
    <3> QED
      BY <2>2, <3>2, <2>a, QueueAssumption DEF DequeueTake, QueueBound
  <2>3. CASE UNCHANGED <<queue, produced, taken>>
    BY <2>3 DEF QueueBound
  <2> QED
    BY <2>1, <2>2, <2>3, ListSteps
<1> QED
  BY <1>1, <1>2, InitTypeInv, NextTypeInv, PTL DEF SafeSpec

-----------------------------------------------------------------------------
(* No lost wakeup: every step that can make a waiting thread's condition   *)
(* true either empties the wait set or leaves the control thread about to. *)
LEMMA NextNoLostWakeup ==
  TypeInv /\ NoLostWakeup /\ [Next]_vars => NoLostWakeup'
<1> SUFFICES ASSUME TypeInv, NoLostWakeup, [Next]_vars PROVE NoLostWakeup'
  OBVIOUS
<1>a. /\ queue \in Seq(Items)
      /\ pc \in [Threads -> ProducerLabels \cup ConsumerLabels]
      /\ waiting \subseteq Threads
      /\ Consumer \in Threads
      /\ Producers \subseteq Threads
      /\ Consumer \notin Producers
      /\ \A p \in Producers : pc[p] \in ProducerLabels
      /\ pc[Consumer] \in ConsumerLabels
  BY QueueAssumption DEF TypeInv, TypeOK, Threads
<1>1. ASSUME NEW p \in Producers, EnqueueLock(p) PROVE NoLostWakeup'
  BY <1>1, <1>a DEF EnqueueLock, Lock, NoLostWakeup, MustWait, queue_count
<1>2. ASSUME NEW p \in Producers, EnqueueWait(p) PROVE NoLostWakeup'
  BY <1>2, <1>a DEF EnqueueWait, CondWait, NoLostWakeup, MustWait, queue_count
<1>3. ASSUME NEW p \in Producers, EnqueuePush(p) PROVE NoLostWakeup'
  BY <1>3 DEF EnqueuePush, NoLostWakeup
<1>4. CASE DequeueLock
  BY <1>4, <1>a DEF DequeueLock, Lock, NoLostWakeup, MustWait, queue_count
<1>5. CASE DequeueWait
  <2>1. queue = <<>>
    BY <1>5, <1>a, EmptyIffLenZero DEF DequeueWait, queue_count
  <2> QED
    BY <1>5, <1>a, <2>1
    DEF DequeueWait, CondWait, NoLostWakeup, MustWait, queue_count
<1>6. CASE DequeueTake
  <2>1. queue # <<>>
    BY <1>6, <1>a DEF DequeueTake, queue_count
  <2>2. SUFFICES ASSUME NEW t \in waiting
                 PROVE  /\ pc'[t] \in {"enqueue waits", "finalize waits"}
                        /\ pc'[Consumer] = "dequeued"
    BY <1>6 DEF DequeueTake, NoLostWakeup
  <2>3. pc[t] \in {"enqueue waits", "finalize waits"} /\ t # Consumer
    BY <1>6, <1>a, <2>1 DEF DequeueTake, NoLostWakeup
  <2>4. MaxSize > 0 \/ Finalizes
    <3>1. CASE pc[t] = "enqueue waits"
      BY <3>1, <1>6, <1>a, <2>1 DEF NoLostWakeup, MustWait, DequeueTake
    <3>2. CASE pc[t] = "finalize waits"
      <4>1. t \in Producers
        BY <2>3, <1>a DEF Threads
      <4> QED
        BY <3>2, <4>1 DEF TypeInv, CallsInProgress
    <3> QED
      BY <3>1, <3>2, <2>3
  <2>5. SignalDequeue
    BY <2>4, SignalAssumption
  <2> QED
    BY <1>6, <1>a, <2>3, <2>5 DEF DequeueTake
<1>7. CASE DequeueBroadcast
  BY <1>7 DEF DequeueBroadcast, NoLostWakeup
<1>8. CASE PeekLock
  BY <1>8, <1>a DEF PeekLock, Lock, NoLostWakeup, MustWait, queue_count
<1>9. CASE PeekWait
  <2>1. queue = <<>>
    BY <1>9, <1>a, EmptyIffLenZero DEF PeekWait, queue_count
  <2> QED
    BY <1>9, <1>a, <2>1
    DEF PeekWait, CondWait, NoLostWakeup, MustWait, queue_count
<1>10. CASE PeekReturn
  BY <1>10, <1>a DEF PeekReturn, NoLostWakeup, MustWait, queue_count
<1>11. ASSUME NEW p \in Producers, FinalizeLock(p) PROVE NoLostWakeup'
  BY <1>11, <1>a DEF FinalizeLock, Lock, NoLostWakeup, MustWait, queue_count
<1>12. ASSUME NEW p \in Producers, FinalizeWait(p) PROVE NoLostWakeup'
  BY <1>12, <1>a DEF FinalizeWait, CondWait, NoLostWakeup, MustWait, queue_count
<1>13. ASSUME NEW p \in Producers, FinalizeReturn(p) PROVE NoLostWakeup'
  BY <1>13, <1>a DEF FinalizeReturn, NoLostWakeup, MustWait, queue_count
<1>14. ASSUME NEW t \in Threads, Spurious(t) PROVE NoLostWakeup'
  BY <1>14, <1>a DEF Spurious, NoLostWakeup, MustWait, queue_count
<1>15. CASE UNCHANGED vars
  BY <1>15 DEF vars, NoLostWakeup, MustWait, queue_count
<1> QED
  BY <1>1, <1>2, <1>3, <1>4, <1>5, <1>6, <1>7, <1>8, <1>9, <1>10, <1>11,
     <1>12, <1>13, <1>14, <1>15
  DEF Next, Dequeue, Peek, Enqueue, Finalize

(* A blocked thread's condition is false, or the broadcast is coming.      *)
THEOREM QueueNoLostWakeup == SafeSpec => []NoLostWakeup
<1>1. Init => NoLostWakeup
  BY DEF Init, NoLostWakeup
<1> QED
  BY <1>1, InitTypeInv, NextTypeInv, NextNoLostWakeup, PTL DEF SafeSpec

-----------------------------------------------------------------------------
(* First-in first-out, exactly once.                                       *)
LEMMA NextInOrderOnce ==
  TypeInv /\ InOrderOnce /\ [Next]_vars => InOrderOnce'
<1> SUFFICES ASSUME TypeInv, InOrderOnce, [Next]_vars PROVE InOrderOnce'
  OBVIOUS
<1>a. /\ queue \in Seq(Items)
      /\ taken \in Seq(Items)
      /\ produced \in [Producers -> 0 .. NItems]
      /\ NItems \in Nat
  BY QueueAssumption DEF TypeInv, TypeOK
<1>b. History \in Seq(Items)
  BY <1>a DEF History
<1>c. \A k \in 1 .. Len(History) :
        History[k][1] \in Producers /\ History[k][2] \in 1 .. NItems
  <2> SUFFICES ASSUME NEW k \in 1 .. Len(History)
               PROVE  History[k] \in Items
    BY DEF Items
  <2> QED
    BY <1>b
<1>1. ASSUME NEW p \in Producers, EnqueuePush(p) PROVE InOrderOnce'
  <2> DEFINE x == <<p, produced[p] + 1>>
  <2>0. produced[p] \in 0 .. NItems /\ produced[p] < NItems
    BY <1>1, <1>a DEF EnqueuePush, TypeInv, CallsInProgress
  <2>1. x \in Items
    BY <2>0, <1>a DEF Items
  <2>2. History' = Append(History, x)
    BY <1>1, <1>a, <2>1, HistoryAppend DEF History, EnqueuePush
  <2>3. /\ Len(History') = Len(History) + 1
        /\ \A k \in 1 .. Len(History) : History'[k] = History[k]
        /\ History'[Len(History) + 1] = x
        /\ Len(History) \in Nat
    BY <2>2, <2>1, <1>b
  <2>4. produced' = [produced EXCEPT ![p] = @ + 1]
    BY <1>1 DEF EnqueuePush
  <2>5. ASSUME NEW k \in 1 .. Len(History')
        PROVE  History'[k][2] <= produced'[History'[k][1]]
    <3>1. CASE k \in 1 .. Len(History)
      <4>1. /\ History'[k] = History[k]
            /\ History[k][2] <= produced[History[k][1]]
            /\ History[k][1] \in Producers
            /\ History[k][2] \in 1 .. NItems
        BY <3>1, <2>3, <1>c DEF InOrderOnce
      <4>2. \A q \in Producers : produced[q] <= produced'[q]
        BY <2>4, <1>a, <2>0
      <4> QED
        BY <4>1, <4>2, <2>4, <1>a
    <3>2. CASE k = Len(History) + 1
      BY <3>2, <2>3, <2>4, <2>0, <1>a
    <3> QED
      BY <3>1, <3>2, <2>3
  <2>6. ASSUME NEW q \in Producers, NEW i \in 1 .. produced'[q]
        PROVE  \E k \in 1 .. Len(History') : History'[k] = <<q, i>>
    <3>1. CASE i \in 1 .. produced[q]
      <4>1. PICK k \in 1 .. Len(History) : History[k] = <<q, i>>
        BY <3>1 DEF InOrderOnce
      <4> QED
        BY <4>1, <2>3
    <3>2. CASE ~(i \in 1 .. produced[q])
      <4>1. q = p /\ i = produced[p] + 1
        BY <3>2, <2>4, <1>a
      <4> QED
        BY <4>1, <2>3
    <3> QED
      BY <3>1, <3>2
  <2>7. ASSUME NEW j \in 1 .. Len(History'), NEW k \in 1 .. Len(History'),
               j < k, History'[j][1] = History'[k][1]
        PROVE  History'[j][2] < History'[k][2]
    <3>1. j \in 1 .. Len(History)
      BY <2>7, <2>3
    <3>2. CASE k \in 1 .. Len(History)
      BY <3>1, <3>2, <2>3, <2>7 DEF InOrderOnce
    <3>3. CASE k = Len(History) + 1
      <4>1. History[j][1] = p /\ History[j][2] <= produced[p]
        BY <3>1, <3>3, <2>3, <2>7 DEF InOrderOnce
      <4> QED
        BY <3>1, <3>3, <2>3, <2>0, <4>1, <1>c, <1>a
    <3> QED
      BY <3>2, <3>3, <2>3
  <2> QED
    BY <2>5, <2>6, <2>7 DEF InOrderOnce
<1>2. CASE DequeueTake
  <2>1. queue # <<>>
    BY <1>2, <1>a DEF DequeueTake, queue_count
  <2>2. History' = History /\ produced' = produced
    BY <1>2, <1>a, <2>1, HistoryMove DEF DequeueTake, History
  <2> QED
    BY <2>2 DEF InOrderOnce
<1>3. CASE UNCHANGED <<queue, produced, taken>>
  BY <1>3 DEF InOrderOnce, History
<1> QED
  BY <1>1, <1>2, <1>3, ListSteps

(* The items of each producer pass through the list in order, once each.   *)
THEOREM QueueInOrderOnce == SafeSpec => []InOrderOnce
<1>1. Init => InOrderOnce
  BY DEF Init, InOrderOnce, History
<1> QED
  BY <1>1, InitTypeInv, NextTypeInv, NextInOrderOnce, PTL DEF SafeSpec

-----------------------------------------------------------------------------
(* finalize: at the moment it finds the list empty, the whole history is   *)
(* the taken part, and the caller's items are all in the history.          *)
LEMMA NextFinalizeDrains ==
  TypeInv /\ InOrderOnce /\ FinalizeDrains /\ [Next]_vars => FinalizeDrains'
<1> SUFFICES ASSUME TypeInv, InOrderOnce, FinalizeDrains, [Next]_vars,
                    NEW p \in Producers, pc'[p] = "finalized",
                    NEW i \in 1 .. NItems
             PROVE  \E k \in 1 .. Len(taken') : taken'[k] = <<p, i>>
  BY DEF FinalizeDrains
<1>a. /\ queue \in Seq(Items)
      /\ taken \in Seq(Items)
      /\ pc \in [Threads -> ProducerLabels \cup ConsumerLabels]
      /\ Consumer \notin Producers
      /\ Producers \subseteq Threads
      /\ Consumer \in Threads
  BY QueueAssumption DEF TypeInv, TypeOK, Threads
<1>1. \A k \in 1 .. Len(taken) :
        k \in 1 .. Len(taken') /\ taken'[k] = taken[k]
  <2>1. CASE DequeueTake
    <3>1. queue # <<>> /\ Head(queue) \in Items
      BY <2>1, <1>a DEF DequeueTake, queue_count
    <3> QED
      BY <2>1, <3>1, <1>a DEF DequeueTake
  <2>2. CASE \E q \in Producers : EnqueuePush(q)
    BY <2>2 DEF EnqueuePush
  <2>3. CASE UNCHANGED <<queue, produced, taken>>
    BY <2>3
  <2> QED
    BY <2>1, <2>2, <2>3, ListSteps
<1>2. CASE pc[p] = "finalized"
  BY <1>1, <1>2 DEF FinalizeDrains
<1>3. CASE pc[p] # "finalized"
  <2>1. FinalizeReturn(p)
    BY <1>3, <1>a
    DEF Next, Dequeue, Peek, Enqueue, Finalize, vars, Lock, CondWait,
        EnqueueLock, EnqueueWait, EnqueuePush, DequeueLock, DequeueWait,
        DequeueTake, DequeueBroadcast, PeekLock, PeekWait, PeekReturn,
        FinalizeLock, FinalizeWait, FinalizeReturn, Spurious
  <2>2. produced[p] = NItems /\ queue = <<>> /\ taken' = taken
    BY <2>1 DEF FinalizeReturn, TypeInv, CallsInProgress
  <2>3. History = taken
    BY <2>2, <1>a DEF History
  <2> QED
    BY <2>2, <2>3 DEF InOrderOnce
<1> QED
  BY <1>2, <1>3

(* finalize returns only when the control thread has taken every buffer    *)
(* its caller put.                                                         *)
THEOREM QueueFinalizeDrains == SafeSpec => []FinalizeDrains
<1>1. Init => FinalizeDrains
  BY QueueAssumption DEF Init, FinalizeDrains, Threads
<1>2. Init => InOrderOnce
  BY DEF Init, InOrderOnce, History
<1> QED
  BY <1>1, <1>2, InitTypeInv, NextTypeInv, NextInOrderOnce,
     NextFinalizeDrains, PTL DEF SafeSpec

-----------------------------------------------------------------------------
(* Refinement: a push is a Put, a take is a Get, and every other step of   *)
(* the threads leaves the abstract queue alone.                            *)
THEOREM QueueImplementsFifo == SafeSpec => Fifo!FifoSafeSpec
<1>1. Init => Fifo!FifoInit
  BY DEF Init, Fifo!FifoInit
<1>2. TypeInv /\ [Next]_vars => [Fifo!FifoNext]_(Fifo!fvars)
  <2> SUFFICES ASSUME TypeInv, [Next]_vars
               PROVE  [Fifo!FifoNext]_(Fifo!fvars)
    OBVIOUS
  <2>a. queue \in Seq(Items) /\ MaxSize \in Int
    BY QueueAssumption DEF TypeInv, TypeOK
  <2>1. ASSUME NEW p \in Producers, EnqueuePush(p) PROVE Fifo!Put(p)
    <3>1. produced[p] < NItems
      BY <2>1 DEF EnqueuePush, TypeInv, CallsInProgress
    <3>2. MaxSize > 0 => Len(queue) <= MaxSize
      BY <2>1, <2>a DEF EnqueuePush, MustWait, queue_count
    <3> QED
      BY <2>1, <3>1, <3>2 DEF EnqueuePush, Fifo!Put
  <2>2. CASE DequeueTake
    BY <2>2, <2>a DEF DequeueTake, queue_count, Fifo!Get, Fifo!FifoNext
  <2>3. CASE UNCHANGED <<queue, produced, taken>>
    BY <2>3 DEF Fifo!fvars
  <2> QED
    BY <2>1, <2>2, <2>3, ListSteps DEF Fifo!FifoNext
<1> QED
  BY <1>1, <1>2, InitTypeInv, NextTypeInv, PTL DEF SafeSpec, Fifo!FifoSafeSpec
=============================================================================
