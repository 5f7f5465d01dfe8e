----------------------------- MODULE BoundedFifo -----------------------------
(***************************************************************************)
(* What the Flexpath writer expects of its two message queues: a first-in  *)
(* first-out buffer between the threads that put items into it and the one *)
(* control thread that takes them out, which a producer can fill to        *)
(* MaxSize + 1 items and no further when MaxSize > 0.  There are no locks  *)
(* and no condition variables here; FlexpathQueue implements this          *)
(* specification with them.                                                *)
(***************************************************************************)
EXTENDS Integers, Sequences

CONSTANTS
  Producers,   \* the threads that put items
  MaxSize,     \* the max_size argument; no bound when it is not positive
  NItems       \* how many items each producer puts

VARIABLES
  fifo,        \* the items in the queue, oldest first
  produced,    \* how many items each producer has put
  taken        \* every item taken so far, in the order of the takes

fvars == <<fifo, produced, taken>>

FifoInit ==
  /\ fifo = <<>>
  /\ produced = [p \in Producers |-> 0]
  /\ taken = <<>>

Put(p) ==
  /\ produced[p] < NItems
  /\ MaxSize > 0 => Len(fifo) <= MaxSize
  /\ fifo' = Append(fifo, <<p, produced[p] + 1>>)
  /\ produced' = [produced EXCEPT ![p] = @ + 1]
  /\ UNCHANGED taken

Get ==
  /\ fifo # <<>>
  /\ taken' = Append(taken, Head(fifo))
  /\ fifo' = Tail(fifo)
  /\ UNCHANGED produced

FifoNext == Get \/ \E p \in Producers : Put(p)

FifoSafeSpec == FifoInit /\ [][FifoNext]_fvars

(* The consumer keeps taking and the producers keep putting: nothing that  *)
(* is put stays in the queue for ever, and no producer waits for ever.     *)
FifoSpec ==
  /\ FifoSafeSpec
  /\ WF_fvars(Get)
  /\ \A p \in Producers : WF_fvars(Put(p))
=============================================================================
